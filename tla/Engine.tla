------------------------------- MODULE Engine -------------------------------
(***************************************************************************)
(* Engine.run on the local backend (engine.py, engine_executor.py,         *)
(* engine_pause.py): a run executes a graph of steps layer by layer inside *)
(* one event loop, the steps of a layer in parallel, and grows the graph   *)
(* by the spawn directives that executors return.  The runs of a process   *)
(* share the engine, hence its spawn queues, which are kept by trace id.   *)
(*                                                                         *)
(* A coroutine is alone in the process between two awaits: no other runs   *)
(* while a run is in phase "loop" or "merge", which have no await.  The    *)
(* pause file is set and removed by another process at any time.           *)
(*                                                                         *)
(* A step executor is configured; what it does is left open: it may return *)
(* with or without an error and a directive, raise, be cancelled, or hang. *)
(***************************************************************************)
EXTENDS Naturals, FiniteSets, Sequences, SequencesExt

CONSTANTS
    Runs,
    Trace,       \* run -> trace id, which the caller may choose
    Steps,       \* ids of steps, those of spawned steps included
    Inner,       \* ids of the sub-steps that plan steps decompose into
    Static,      \* run -> the ids of the submitted steps
    Deps,        \* step -> depends_on, which may name steps that do not exist
    Kind,        \* step -> its StepType
    OnFailure,   \* step -> "", "skip" or "abort"
    Retry,       \* step -> number of retries
    Spare,       \* the steps that have a fallback agent (fallback_to)
    Subs,        \* plan step -> its sub-steps; <<>>: the task is atomic
    Offer,       \* step or sub-step -> the steps its executor may spawn
    OfferDeps,   \* and the directive's depends_on: a set of ids, or Default
    Default,     \* depends_on is None: the step that spawned
    MaxSpawned,  \* _MAX_SPAWNED_STEPS
    Supervised   \* TRUE: a supervisor is configured and may block an agent

ASSUME EngineAssumption ==
    /\ Static \in [Runs -> SUBSET Steps]
    /\ Steps \intersect Inner = {}
    /\ Deps \in [Steps -> SUBSET (Steps \union Inner)]
    /\ Kind \in [Steps -> {"agent", "dag", "plan", "verify", "condition", "terminal"}]
    /\ OnFailure \in [Steps -> {"", "skip", "abort"}]
    /\ Retry \in [Steps -> Nat]
    /\ Spare \subseteq Steps
    /\ Subs \in [Steps -> Seq(Inner)]
    /\ Offer \in [Steps \union Inner -> Seq(Steps)]
    /\ OfferDeps \in [Steps \union Inner -> {Default} \union SUBSET (Steps \union Inner)]
    /\ MaxSpawned \in Nat /\ Supervised \in BOOLEAN

VARIABLES
    run,     \* run -> the locals of _run_single: a record of
             \*   phase: "new"; "loop", between two layers; "held", waiting for the pause
             \*     file to go; "layer", executing one; "merge", growing the graph after
             \*     one; "over", EngineResult returned; "cycle", ValueError; "crashed",
             \*     another exception
             \*   known: the keys of step_by_id; deps: step -> what it depends on
             \*   out: step -> "success", "failed", "skipped", or "none" yet
             \*   spawned: steps merged so far; todo: the drained <<source, step>> pairs
    step,    \* run -> step -> where its coroutine in this layer is: a record of
             \*   at: "out", "queued", "call", "ended"
             \*   nth: the attempt being made, or the number of sub-steps begun
             \*   spare: the call is to the fallback agent; bad: a sub-step did not succeed
             \*   res: its result, "cancelled" if it is no StepResult
    spawns,  \* Engine._spawns: trace id -> the <<source, step>> pairs of the directives
    paused,  \* the pause file exists
    calls,   \* history: run -> executor calls made for a step or sub-step
    won      \* history: <<r, s>> such that an executor call returned no error

vars == <<run, step, spawns, paused, calls, won>>

Traces == {Trace[r] : r \in Runs}

Outside == [at |-> "out", nth |-> 0, spare |-> FALSE, bad |-> FALSE, res |-> "none"]

Init ==
    /\ run = [r \in Runs |-> [phase |-> "new", known |-> {}, deps |-> [s \in Steps |-> {}],
                              out |-> [s \in Steps |-> "none"], spawned |-> 0, todo |-> <<>>]]
    /\ step = [r \in Runs |-> [s \in Steps |-> Outside]]
    /\ spawns = [t \in Traces |-> <<>>]
    /\ paused = FALSE
    /\ calls = [r \in Runs |-> [s \in Steps \union Inner |-> 0]]
    /\ won = {}

-----------------------------------------------------------------------------
(* The run loop *)

Active(r) == run[r].phase \in {"loop", "held", "layer", "merge"}
Ended(r) == run[r].phase \in {"over", "cycle", "crashed"}
Quiet == \A r \in Runs : run[r].phase \notin {"loop", "merge"}
Done(r) == {s \in run[r].known : run[r].out[s] # "none"}

Ready(r) == {s \in run[r].known \ Done(r) : run[r].deps[s] \subseteq Done(r)}

Submit(r) ==
    /\ Quiet
    /\ run[r].phase = "new"
    /\ run' = [run EXCEPT ![r].phase = "loop", ![r].known = Static[r], ![r].deps = Deps]
    /\ UNCHANGED <<step, spawns, paused, calls, won>>

\* The queue of run r, and its removal in the finally block.
Queue(r) == spawns[Trace[r]]
Pop(r) == spawns' = [spawns EXCEPT ![Trace[r]] = <<>>]

\* No step is ready: every step has a result, or the graph has a cycle or names a
\* step that does not exist.
NoMoreLayers(r) ==
    /\ run[r].phase = "loop"
    /\ Ready(r) = {}
    /\ run' = [run EXCEPT ![r].phase = IF run[r].known = Done(r) THEN "over" ELSE "cycle"]
    /\ Pop(r)
    /\ UNCHANGED <<step, paused, calls, won>>

\* check_pause_async() finds the pause file.
Hold(r) ==
    /\ run[r].phase = "loop"
    /\ Ready(r) # {}
    /\ paused
    /\ run' = [run EXCEPT ![r].phase = "held"]
    /\ UNCHANGED <<step, spawns, paused, calls, won>>

\* check_pause_async() returns: there is no pause file (any more), or the run has
\* waited for MAX_PAUSE_SECONDS.
Unpaused(r) ==
    /\ Ready(r) # {}
    /\ \/ run[r].phase = "loop" /\ ~ paused
       \/ run[r].phase = "held" /\ Quiet

Aborted(r) == \E s \in Done(r) : run[r].out[s] = "failed" /\ OnFailure[s] = "abort"

\* What has no result is skipped, the steps of a cycle too.
Abort(r) ==
    /\ Unpaused(r)
    /\ Aborted(r)
    /\ run' = [run EXCEPT ![r] =
                 [@ EXCEPT !.phase = "over",
                           !.out = [s \in Steps |-> IF s \in run[r].known \ Done(r)
                                                    THEN "skipped" ELSE run[r].out[s]]]]
    /\ Pop(r)
    /\ UNCHANGED <<step, paused, calls, won>>

\* Mutant: an abort stops the steps that depend on the failure, not the others.
StartUnrelated(r) ==
    /\ Unpaused(r)
    /\ \E t \in Ready(r) : run[r].deps[t] \intersect {s \in Done(r) : run[r].out[s] = "failed"} = {}
    /\ run' = [run EXCEPT ![r].phase = "layer"]
    /\ step' = [step EXCEPT ![r] = [s \in Steps |-> IF s \in Ready(r)
                                                    THEN [Outside EXCEPT !.at = "queued"]
                                                    ELSE Outside]]
    /\ UNCHANGED <<spawns, paused, calls, won>>

StartLayer(r) ==
    /\ Unpaused(r)
    /\ ~ Aborted(r)
    /\ run' = [run EXCEPT ![r].phase = "layer"]
    /\ step' = [step EXCEPT ![r] = [s \in Steps |-> IF s \in Ready(r)
                                                    THEN [Outside EXCEPT !.at = "queued"]
                                                    ELSE Outside]]
    /\ UNCHANGED <<spawns, paused, calls, won>>

\* What the run knows of its steps when the layer has ended.
Told(r) == [s \in Steps |-> IF step[r][s].at = "ended" THEN step[r][s].res ELSE run[r].out[s]]

\* The merge goes on as long as there is something to do.
Merging(todo) == IF todo = <<>> THEN "loop" ELSE "merge"

\* Mutant of Merge: whether the dependencies exist is not looked at.
MergeUnknown(R, pair) ==
    LET new == pair[2]
        deps == IF OfferDeps[pair[1]] = Default THEN {pair[1]} ELSE OfferDeps[pair[1]]
    IN IF R.spawned < MaxSpawned /\ new \notin R.known
       THEN [R EXCEPT !.known = @ \union {new}, !.deps[new] = deps, !.spawned = @ + 1]
       ELSE R

\* A directive's steps join the graph with the directive's dependencies, unless the
\* cap is reached, the id is taken or a dependency is not in the graph.
Merge(R, pair) ==
    LET new == pair[2]
        deps == IF OfferDeps[pair[1]] = Default THEN {pair[1]} ELSE OfferDeps[pair[1]]
    IN IF R.spawned < MaxSpawned /\ new \notin R.known /\ deps \subseteq R.known
       THEN [R EXCEPT !.known = @ \union {new}, !.deps[new] = deps, !.spawned = @ + 1]
       ELSE R

\* Mutant: a run that is torn down in the middle leaves its queue behind.
EndLayerLeaking(r) ==
    /\ Quiet
    /\ run[r].phase = "layer"
    /\ \A s \in Steps : step[r][s].at \in {"out", "ended"}
    /\ step' = [step EXCEPT ![r] = [s \in Steps |-> Outside]]
    /\ IF \E s \in Steps : step[r][s].res = "cancelled"
       THEN run' = [run EXCEPT ![r].phase = "crashed"] /\ UNCHANGED spawns
       ELSE run' = [run EXCEPT ![r].phase = Merging(Queue(r)), ![r].out = Told(r),
                               ![r].todo = Queue(r)] /\ Pop(r)
    /\ UNCHANGED <<paused, calls, won>>

\* The gather returns, and _drain_spawns() takes the queue.  A step whose executor was
\* cancelled has a CancelledError for a result, which is no Exception: taking its
\* output raises AttributeError.
EndLayer(r) ==
    /\ Quiet
    /\ run[r].phase = "layer"
    /\ \A s \in Steps : step[r][s].at \in {"out", "ended"}
    /\ step' = [step EXCEPT ![r] = [s \in Steps |-> Outside]]
    /\ run' = IF \E s \in Steps : step[r][s].res = "cancelled"
              THEN [run EXCEPT ![r].phase = "crashed"]
              ELSE [run EXCEPT ![r].phase = Merging(Queue(r)), ![r].out = Told(r),
                               ![r].todo = Queue(r)]
    /\ Pop(r)
    /\ UNCHANGED <<paused, calls, won>>

\* One round of the loop over what was drained.
MergeSpawn(r) ==
    /\ run[r].phase = "merge"
    /\ LET todo == run[r].todo
       IN run' = [run EXCEPT ![r] = [Merge(run[r], Head(todo)) EXCEPT
                                        !.phase = Merging(Tail(todo)), !.todo = Tail(todo)]]
    /\ UNCHANGED <<step, spawns, paused, calls, won>>

\* The caller cancels the run: its steps are cancelled and awaited first.
Cancel(r) ==
    /\ Quiet
    /\ run[r].phase \in {"held", "layer"}
    /\ run' = [run EXCEPT ![r].phase = "crashed"]
    /\ step' = [step EXCEPT ![r] = [s \in Steps |-> Outside]]
    /\ Pop(r)
    /\ UNCHANGED <<paused, calls, won>>

-----------------------------------------------------------------------------
(* execute_step_helper(), under asyncio.wait_for *)

Running(r, s, at) == Quiet /\ run[r].phase = "layer" /\ step[r][s].at = at

Put(r, s, place) == step' = [step EXCEPT ![r][s] = place]
Settle(r, s, res) == Put(r, s, [Outside EXCEPT !.at = "ended", !.res = res])

\* The executor is called for a step or sub-step.
Call(r, s, whom, place) ==
    /\ Put(r, s, place)
    /\ calls' = [calls EXCEPT ![r][whom] = @ + 1]

Splits(s) == Kind[s] = "plan" /\ Subs[s] # <<>>
Caller(r, s) == IF Splits(s) THEN Subs[s][step[r][s].nth] ELSE s

\* A sub-step has ended; the next one, if any, is begun whatever its result.
AfterSub(r, s, n, bad) ==
    IF n < Len(Subs[s])
    THEN Put(r, s, [step[r][s] EXCEPT !.at = "queued", !.nth = n, !.bad = bad])
    ELSE Settle(r, s, IF bad THEN "failed" ELSE "success")

DepFailed(r, s) == \E d \in run[r].deps[s] : run[r].out[d] = "failed"
DepsSucceeded(r, s) == \A d \in run[r].deps[s] : run[r].out[d] = "success"

\* Mutant: the dependencies of the step are not looked at.
NeverSkips(r, s) == FALSE

Skips(r, s) == DepFailed(r, s) /\ (OnFailure[s] = "skip" \/ Kind[s] = "terminal")

\* The part of a step up to its first executor call, or its end without one.
Begin(r, s) ==
    /\ Running(r, s, "queued")
    /\ ~ Splits(s)
    /\ \/ /\ Supervised /\ Kind[s] = "agent"
          /\ Settle(r, s, "skipped") /\ UNCHANGED calls
       \/ /\ Skips(r, s)
          /\ Settle(r, s, "skipped") /\ UNCHANGED calls
       \/ /\ ~ Skips(r, s)
          /\ \/ Kind[s] = "terminal" /\ Settle(r, s, "success") /\ UNCHANGED calls
             \/ /\ Kind[s] = "verify"
                /\ Settle(r, s, IF DepsSucceeded(r, s) THEN "success" ELSE "failed")
                /\ UNCHANGED calls
             \/ /\ Kind[s] = "condition"
                /\ \E res \in {"success", "skipped"} : Settle(r, s, res)
                /\ UNCHANGED calls
             \/ /\ Kind[s] \in {"agent", "dag", "plan"}
                /\ Call(r, s, s, [step[r][s] EXCEPT !.at = "call", !.nth = 1])
    /\ UNCHANGED <<run, spawns, paused, won>>

\* A plan step begins its next sub-step, an agent step whose own dependencies have
\* no entry in results; the dependencies of the plan step are looked at once.
BeginSub(r, s) ==
    /\ Running(r, s, "queued")
    /\ Splits(s)
    /\ LET n == step[r][s].nth + 1
       IN \/ n = 1 /\ Skips(r, s) /\ Settle(r, s, "skipped") /\ UNCHANGED calls
          \/ /\ n > 1 \/ ~ Skips(r, s)
             /\ \/ Supervised /\ AfterSub(r, s, n, TRUE) /\ UNCHANGED calls
                \/ Call(r, s, Subs[s][n], [step[r][s] EXCEPT !.at = "call", !.nth = n])
    /\ UNCHANGED <<run, spawns, paused, won>>

\* _record_spawn
Directive(whom) == [j \in DOMAIN Offer[whom] |-> <<whom, Offer[whom][j]>>]
Record(r, whom) == spawns' = [spawns EXCEPT ![Trace[r]] = @ \o Directive(whom)]

\* The executor returns without an error, with a directive or without.
Succeed(r, s) ==
    /\ Running(r, s, "call")
    /\ \/ Offer[Caller(r, s)] # <<>> /\ Record(r, Caller(r, s))
       \/ UNCHANGED spawns
    /\ won' = won \union {<<r, Caller(r, s)>>}
    /\ IF Splits(s) THEN AfterSub(r, s, step[r][s].nth, step[r][s].bad)
       ELSE Settle(r, s, "success")
    /\ UNCHANGED <<run, paused, calls>>

\* Mutants: the directive of a failed attempt is kept; one retry too many; the
\* skipped agent is reported as a success.
FailRecording(r, s) ==
    /\ Running(r, s, "call")
    /\ Kind[s] \in {"agent", "dag"}
    /\ step[r][s].nth > Retry[s] /\ s \notin Spare
    /\ Record(r, s)
    /\ Settle(r, s, "failed")
    /\ UNCHANGED <<run, paused, calls, won>>

FailOnceMore(r, s) ==
    /\ Running(r, s, "call")
    /\ Kind[s] \in {"agent", "dag"}
    /\ \/ /\ step[r][s].nth <= Retry[s] + 1 /\ ~ step[r][s].spare
          /\ Call(r, s, s, [step[r][s] EXCEPT !.nth = @ + 1])
       \/ /\ step[r][s].nth > Retry[s] + 1 /\ s \in Spare /\ ~ step[r][s].spare
          /\ Call(r, s, s, [step[r][s] EXCEPT !.spare = TRUE])
       \/ /\ step[r][s].nth > Retry[s] + 1 /\ (s \in Spare => step[r][s].spare)
          /\ Settle(r, s, "failed") /\ UNCHANGED calls
    /\ UNCHANGED <<run, spawns, paused, won>>

FailAsSuccess(r, s) ==
    /\ Running(r, s, "call")
    /\ Kind[s] \in {"agent", "dag"}
    /\ Settle(r, s, "success")
    /\ UNCHANGED <<run, spawns, paused, calls, won>>

\* The executor of an agent step returns an error: the attempts, then the fallback
\* agent once, then the step has failed and its directive is dropped.
Fail(r, s) ==
    /\ Running(r, s, "call")
    /\ Kind[s] \in {"agent", "dag"}
    /\ \/ /\ step[r][s].nth <= Retry[s] /\ ~ step[r][s].spare
          /\ Call(r, s, s, [step[r][s] EXCEPT !.nth = @ + 1])
       \/ /\ step[r][s].nth > Retry[s] /\ s \in Spare /\ ~ step[r][s].spare
          /\ Call(r, s, s, [step[r][s] EXCEPT !.spare = TRUE])
       \/ /\ step[r][s].nth > Retry[s] /\ (s \in Spare => step[r][s].spare)
          /\ Settle(r, s, "failed") /\ UNCHANGED calls
    /\ UNCHANGED <<run, spawns, paused, won>>

\* In a plan step an error fails the sub-step, or, when the task is atomic, is not
\* looked at: the step succeeds and its directive counts.
FailPlan(r, s) ==
    /\ Running(r, s, "call")
    /\ Kind[s] = "plan"
    /\ IF Splits(s)
       THEN AfterSub(r, s, step[r][s].nth, TRUE) /\ UNCHANGED spawns
       ELSE /\ Settle(r, s, "success")
            /\ (Offer[s] # <<>> /\ Record(r, s)) \/ UNCHANGED spawns
    /\ UNCHANGED <<run, paused, calls, won>>

\* The executor raises: no retry and no fallback.
Raise(r, s) ==
    /\ Running(r, s, "call")
    /\ IF Splits(s) THEN AfterSub(r, s, step[r][s].nth, TRUE) ELSE Settle(r, s, "failed")
    /\ UNCHANGED <<run, spawns, paused, calls, won>>

\* The executor ends with CancelledError, which nothing catches.
Cancelled(r, s) ==
    /\ Running(r, s, "call")
    /\ Settle(r, s, "cancelled")
    /\ UNCHANGED <<run, spawns, paused, calls, won>>

\* Mutant: the time limit is on the first attempt only.
TimeoutFirst(r, s) ==
    /\ Running(r, s, "call")
    /\ step[r][s].nth = 1 /\ ~ step[r][s].spare
    /\ Settle(r, s, "failed")
    /\ UNCHANGED <<run, spawns, paused, calls, won>>

\* wait_for() cancels the step, all its attempts and sub-steps included.
Timeout(r, s) ==
    /\ Running(r, s, "call")
    /\ Settle(r, s, "failed")
    /\ UNCHANGED <<run, spawns, paused, calls, won>>

-----------------------------------------------------------------------------

\* pause_control() and its counterpart, in another process.
SetPause ==
    /\ paused' = ~ paused
    /\ UNCHANGED <<run, step, spawns, calls, won>>

RunStep(r) == NoMoreLayers(r) \/ Hold(r) \/ Abort(r) \/ StartLayer(r) \/ EndLayer(r) \/ MergeSpawn(r)

Next ==
    \/ SetPause
    \/ \E r \in Runs : Submit(r) \/ RunStep(r) \/ Cancel(r)
    \/ \E r \in Runs, s \in Steps :
        \/ Begin(r, s) \/ BeginSub(r, s) \/ Succeed(r, s) \/ Fail(r, s) \/ FailPlan(r, s)
        \/ Raise(r, s) \/ Cancelled(r, s) \/ Timeout(r, s)

Spec == Init /\ [][Next]_vars

\* The event loop runs what is ready, and timers fire.  Executors need not return,
\* and nobody has to remove the pause file.
FairSpec ==
    /\ Spec
    /\ \A r \in Runs :
        /\ WF_vars(RunStep(r))
        /\ WF_vars(\E s \in Steps : Begin(r, s) \/ BeginSub(r, s))
        /\ WF_vars(\E s \in Steps : Timeout(r, s))

-----------------------------------------------------------------------------
(* Properties *)

Ids == Steps \union Inner

Run == [phase : {"new", "loop", "held", "layer", "merge", "over", "cycle", "crashed"},
        known : SUBSET Steps,
        deps : [Steps -> SUBSET Ids],
        out : [Steps -> {"none", "success", "failed", "skipped"}],
        spawned : Nat,
        todo : Seq(Ids \X Steps)]

Place == [at : {"out", "queued", "call", "ended"},
          nth : Nat,
          spare : BOOLEAN,
          bad : BOOLEAN,
          res : {"none", "success", "failed", "skipped", "cancelled"}]

TypeOK ==
    /\ run \in [Runs -> Run]
    /\ step \in [Runs -> [Steps -> Place]]
    /\ spawns \in [Traces -> Seq(Ids \X Steps)]
    /\ paused \in BOOLEAN
    /\ calls \in [Runs -> [Ids -> Nat]]
    /\ won \subseteq Runs \X Ids

\* An executor is called only once every dependency of its step, those a directive
\* gave it included, has a result, and at most 1 + retry times, plus once for the
\* fallback agent.
CallsInOrder ==
    \A r \in Runs, s \in Steps :
        /\ calls[r][s] > 0 => run[r].deps[s] \subseteq Done(r)
        /\ calls[r][s] <= 1 + Retry[s] + (IF s \in Spare THEN 1 ELSE 0)

\* What a run reports is what happened: every step of the grown graph has a result,
\* an agent step that succeeded had a call that returned no error, and a skipped
\* step was never given to an executor.
ReportIsTrue ==
    \A r \in Runs :
        /\ run[r].phase = "over" => Done(r) = run[r].known
        /\ \A s \in Done(r) :
            /\ run[r].out[s] = "success" /\ Kind[s] \in {"agent", "dag"} => <<r, s>> \in won
            /\ run[r].out[s] = "skipped" => calls[r][s] = 0

\* A failure is seen downstream: a verify step succeeds only if every dependency
\* did, and a terminal step, or one that asks for it, is skipped if one failed.
FailuresAreSeen ==
    \A r \in Runs : \A s \in Done(r) :
        run[r].out[s] = "success" =>
            /\ Kind[s] = "verify" => DepsSucceeded(r, s)
            /\ Kind[s] = "terminal" \/ OnFailure[s] = "skip" => ~ DepFailed(r, s)

\* Once a layer has left a failure that aborts, no executor is called any more for
\* that run, however the run got to it.
AbortIsFinal == [][\A r \in Runs : Aborted(r) => calls'[r] = calls[r]]_vars

\* A step joins the graph only if a step or sub-step of the same run that succeeded
\* spawned it, although the queues belong to the engine, and at most MaxSpawned do.
SpawnsAreEarned ==
    \A r \in Runs :
        /\ Cardinality(run[r].known \ Static[r]) <= MaxSpawned
        /\ \A t \in run[r].known \ Static[r] :
            \E s \in Steps \union Inner :
                /\ t \in ToSet(Offer[s])
                /\ calls[r][s] > 0
                /\ IF s \in Steps THEN run[r].out[s] = "success" ELSE <<r, s>> \in won

\* However a run ends, it leaves no directive for a later run of its trace id.
NoSpawnLeaks ==
    \A t \in Traces :
        (\A r \in Runs : Trace[r] = t => ~ Active(r)) => spawns[t] = <<>>

\* The submitted graph of run r has no cycle and depends on nothing outside known.
Sound(r, known) ==
    \A S \in SUBSET Static[r] :
        S # {} => \E s \in S : Deps[s] \intersect S = {} /\ Deps[s] \subseteq known

\* ValueError says that the caller's graph has a cycle or names an unknown step:
\* growing the graph never makes one, and a run that did not abort finds it unless a
\* spawned step has supplied what was missing.
RefusesBadGraphs ==
    \A r \in Runs :
        /\ run[r].phase = "cycle" => ~ Sound(r, Static[r])
        /\ run[r].phase = "over" /\ ~ Sound(r, run[r].known) => Aborted(r)

\* The local backend keeps what a task backend promises: results are final and come in
\* dependency order while the graph grows, a run that returns has them all, and every
\* run ends, though executors hang and the pause file stays.
Promise == INSTANCE GraphRun WITH
    Nodes <- Steps,
    phase <- [r \in Runs |-> CASE Active(r) -> "active"
                               [] run[r].phase \in {"cycle", "crashed"} -> "raised"
                               [] OTHER -> run[r].phase],
    known <- [r \in Runs |-> run[r].known],
    deps <- [r \in Runs |-> run[r].deps],
    out <- [r \in Runs |-> run[r].out]

ImplementsGraphRun == Promise!Spec

=============================================================================
