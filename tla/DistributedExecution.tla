------------------------ MODULE DistributedExecution ------------------------
(***************************************************************************)
(* Distributed execution: the scheduler process of DistributedScheduler    *)
(* composed with the worker processes (worker/distributed_worker.py), the  *)
(* Redis streams between them and the faults both sides claim to handle.   *)
(*                                                                         *)
(* A worker is one asyncio process.  Its consumer loop has no await while  *)
(* the stream has entries, so nothing else of the worker runs until it     *)
(* finds the stream empty: messages are then in fresh, and only after the  *)
(* loop sleeps do their handlers run (held), up to Conc of them inside the *)
(* semaphore (busy).  The group's pending-entries list is never read, so   *)
(* XACK has no effect on anything the system does and is left out; what a  *)
(* dead worker had read stays in its fresh and held.                       *)
(***************************************************************************)
EXTENDS DistributedScheduler

CONSTANTS
    Conc,       \* WorkerConfig.concurrency
    Offered,    \* node -> the spawn directives its executor may return
    Faults,     \* the kinds of fault that may happen
    MaxFaults   \* bound: how many happen

ASSUME WorkerAssumption ==
    /\ Conc \in Nat \ {0} /\ MaxFaults \in Nat
    /\ Offered \in [Nodes -> Seq(Nodes)]
    /\ Faults \subseteq {"crash", "stall", "lost post", "stop", "exit"}

VARIABLES
    mode,    \* worker -> where its process is in its life
    fresh,   \* worker -> messages read, handlers not yet started
    held,    \* worker -> messages with a started handler (_in_flight)
    busy,    \* worker -> messages whose executor is running
    faults,  \* number of faults so far
    ran,     \* history: messages whose executor was started
    won,     \* history: messages whose executor returned success
    pruned,  \* history: workers whose registration the scheduler pruned
    robbed,  \* history: <<run, node>> whose in-flight entry another run removed
    lost     \* history: messages whose answer did not reach Redis

workerVars == <<mode, fresh, held, busy>>
history == <<ran, won, pruned, robbed, lost>>
vars == <<poolVars, schedVars, workerVars, faults, history>>

TypeOK ==
    /\ SchedTypeOK
    /\ mode \in [Workers -> {"new", "up", "stopping", "gone"}]
    /\ fresh \in [Workers -> SUBSET Message]
    /\ held \in [Workers -> SUBSET Message]
    /\ busy \in [Workers -> SUBSET Message]
    /\ faults \in 0..MaxFaults
    /\ ran \subseteq Message
    /\ won \subseteq Message
    /\ pruned \subseteq Workers
    /\ robbed \subseteq Runs \X Nodes
    /\ lost \subseteq Message

Init ==
    /\ SchedInit
    /\ mode = [w \in Workers |-> "new"]
    /\ fresh = [w \in Workers |-> {}]
    /\ held = [w \in Workers |-> {}]
    /\ busy = [w \in Workers |-> {}]
    /\ faults = 0
    /\ ran = {} /\ won = {} /\ pruned = {} /\ robbed = {} /\ lost = {}

-----------------------------------------------------------------------------
(* Worker w *)

Fault(kind) ==
    /\ kind \in Faults
    /\ faults < MaxFaults
    /\ faults' = faults + 1

Alive(w) == mode[w] \in {"up", "stopping"}

\* start()
Join(w) ==
    /\ mode[w] = "new"
    /\ mode' = [mode EXCEPT ![w] = "up"]
    /\ Register(w)
    /\ UNCHANGED <<schedVars, fresh, held, busy, faults, history>>

\* One message of a batch the consumer loop reads.  What it compares with the
\* concurrency is the number of started handlers, which does not grow while the
\* loop keeps finding entries.
Read(w) ==
    /\ mode[w] = "up"
    /\ Cardinality(held[w]) < Conc
    /\ \E m \in tasks :
        /\ tasks' = tasks \ {m}
        /\ fresh' = [fresh EXCEPT ![w] = @ \union {m}]
    /\ UNCHANGED <<poolVars, answers, run, selected, mode, held, busy, faults, history>>

\* The stream is empty: the loop sleeps and the handlers start.
StartHandlers(w) ==
    /\ mode[w] = "up"
    /\ fresh[w] # {}
    /\ tasks = {}
    /\ held' = [held EXCEPT ![w] = @ \union fresh[w]]
    /\ fresh' = [fresh EXCEPT ![w] = {}]
    /\ UNCHANGED <<poolVars, schedVars, mode, busy, faults, history>>

\* _handle_task() enters the semaphore and calls the executor.
Begin(w, m) ==
    /\ Alive(w)
    /\ fresh[w] = {}
    /\ m \in held[w] \ busy[w]
    /\ Cardinality(busy[w]) < Conc
    /\ busy' = [busy EXCEPT ![w] = @ \union {m}]
    /\ ran' = ran \union {m}
    /\ UNCHANGED <<poolVars, schedVars, mode, fresh, held, faults, won, pruned, robbed, lost>>

\* post_result() for message m, then the handler's cleanup.
Post(w, m, status, spawns) ==
    /\ answers' = [answers EXCEPT ![m.run] =
                     Append(@, [gen |-> m.gen, node |-> m.node, status |-> status,
                                worker |-> w, spawns |-> spawns])]
    /\ held' = [held EXCEPT ![w] = @ \ {m}]
    /\ busy' = [busy EXCEPT ![w] = @ \ {m}]

\* The executor returns, or raises (a failure without directives).
Finish(w, m) ==
    /\ Alive(w)
    /\ fresh[w] = {}
    /\ m \in busy[w]
    /\ \E status \in {"success", "failed"}, spawns \in {<<>>, Offered[m.node]} :
        /\ Post(w, m, status, spawns)
        /\ won' = IF status = "success" THEN won \union {m} ELSE won
    /\ UNCHANGED <<poolVars, tasks, run, selected, mode, fresh, faults, ran, pruned, robbed, lost>>

\* The executor returns, or stop() cancels the handler, and neither post_result()
\* reaches Redis: the handler cleans up as if it had posted.
LosePost(w, m) ==
    /\ Fault("lost post")
    /\ Alive(w)
    /\ fresh[w] = {}
    /\ m \in held[w]
    /\ m \in busy[w] \/ mode[w] = "stopping"
    /\ held' = [held EXCEPT ![w] = @ \ {m}]
    /\ busy' = [busy EXCEPT ![w] = @ \ {m}]
    /\ lost' = lost \union {m}
    /\ UNCHANGED <<poolVars, schedVars, mode, fresh, ran, won, pruned, robbed>>

\* stop(): no more reading, no more heartbeats.
Stop(w) ==
    /\ Fault("stop")
    /\ mode[w] = "up"
    /\ fresh[w] = {}
    /\ mode' = [mode EXCEPT ![w] = "stopping"]
    /\ UNCHANGED <<poolVars, schedVars, fresh, held, busy, history>>

\* Mutants: a cancelled handler posts nothing; its status starts as "success".
CancelSilently(w, m) ==
    /\ mode[w] = "stopping"
    /\ m \in held[w]
    /\ held' = [held EXCEPT ![w] = @ \ {m}]
    /\ busy' = [busy EXCEPT ![w] = @ \ {m}]
    /\ UNCHANGED <<poolVars, schedVars, mode, fresh, faults, history>>

CancelAsSuccess(w, m) ==
    /\ mode[w] = "stopping"
    /\ m \in held[w]
    /\ Post(w, m, "success", <<>>)
    /\ UNCHANGED <<poolVars, tasks, run, selected, mode, fresh, faults, history>>

\* After the drain window stop() cancels a handler, whose finally block posts the
\* terminal "cancelled".
CancelTask(w, m) ==
    /\ mode[w] = "stopping"
    /\ m \in held[w]
    /\ Post(w, m, "cancelled", <<>>)
    /\ UNCHANGED <<poolVars, tasks, run, selected, mode, fresh, faults, history>>

\* The end of stop(): every handler has ended.
Leave(w) ==
    /\ mode[w] = "stopping"
    /\ held[w] = {}
    /\ mode' = [mode EXCEPT ![w] = "gone"]
    /\ Unregister(w)
    /\ UNCHANGED <<schedVars, fresh, held, busy, faults, history>>

\* run_worker() after a signal: _wait_for_stop() returns as soon as stop() has
\* cleared _running, the second stop() returns at once and the loop is closed
\* under the first one.
Exit(w) ==
    /\ "exit" \in Faults
    /\ mode[w] = "stopping"
    /\ mode' = [mode EXCEPT ![w] = "gone"]
    /\ UNCHANGED <<poolVars, schedVars, fresh, held, busy, faults, history>>

\* The process dies.
Crash(w) ==
    /\ Fault("crash")
    /\ Alive(w)
    /\ mode' = [mode EXCEPT ![w] = "gone"]
    /\ UNCHANGED <<poolVars, schedVars, fresh, held, busy, history>>

\* The heartbeat loop of a worker that runs, and the lapse of the key: for a dead
\* process always, for a live one when its loop was blocked for too long.
Beat(w) ==
    /\ mode[w] = "up"
    /\ fresh[w] = {}
    /\ w \notin beating
    /\ Heartbeat(w)
    /\ UNCHANGED <<schedVars, workerVars, faults, history>>

Lapse(w) ==
    /\ \/ mode[w] = "gone" /\ UNCHANGED faults
       \/ Alive(w) /\ Fault("stall")
    /\ HeartbeatLapses(w)
    /\ UNCHANGED <<schedVars, workerVars, history>>

-----------------------------------------------------------------------------

\* The in-flight map is keyed by worker and node: a step of run r that takes the
\* entry of node n away takes it from every run that waits for an n of its own and
\* counts on the worker it selected.  A new dispatch makes a new entry.
Robs(r) ==
    robbed' =
        LET taken == {x \in Runs \X Nodes :
                         LET q == x[1]
                             n == x[2]
                             w == selected[q][n]
                         IN /\ q # r /\ n \in run[q].pending /\ w # NoWorker
                            /\ n \in inflight[w] /\ n \notin inflight'[w]}
        IN {x \in robbed \union taken :
               \A m \in tasks' : <<m.run, m.node>> = x => m \in tasks}

SchedulerNext ==
    \/ \E r \in Runs :
        /\ Submit(r) \/ SchedulerStep(r) \/ GiveUp(r)
        /\ Robs(r)
        /\ UNCHANGED <<workerVars, faults, ran, won, pruned, lost>>
    \/ \E r \in Runs :
        /\ DetectFailures(r)
        /\ Robs(r)
        /\ pruned' = pruned \union Dead
        /\ UNCHANGED <<workerVars, faults, ran, won, lost>>

WorkerNext ==
    \E w \in Workers :
        \/ Join(w) \/ Read(w) \/ StartHandlers(w)
        \/ \E m \in held[w] : Begin(w, m) \/ Finish(w, m) \/ LosePost(w, m) \/ CancelTask(w, m)
        \/ Stop(w) \/ Leave(w) \/ Exit(w) \/ Crash(w) \/ Beat(w) \/ Lapse(w)

Next == SchedulerNext \/ WorkerNext

Spec == Init /\ [][Next]_vars

(* Fairness: the event loop of the scheduler keeps running, executors return,
   live workers keep polling, and the heartbeat key of a dead worker expires.
   Nothing is assumed of the faults, nor of a stopping worker's executors. *)
Fairness ==
    /\ \A r \in Runs :
        /\ WF_vars(SchedulerStep(r) /\ Robs(r)
                     /\ UNCHANGED <<workerVars, faults, ran, won, pruned, lost>>)
        /\ WF_vars(DetectFailures(r) /\ Robs(r) /\ pruned' = pruned \union Dead
                     /\ UNCHANGED <<workerVars, faults, ran, won, lost>>)
    /\ \A w \in Workers :
        /\ WF_vars(Join(w))
        /\ WF_vars(Read(w))
        /\ WF_vars(StartHandlers(w))
        /\ WF_vars(\E m \in held[w] : Begin(w, m))
        /\ WF_vars(\E m \in held[w] : Finish(w, m))
        /\ WF_vars(\E m \in held[w] : CancelTask(w, m))
        /\ WF_vars(Leave(w))
        /\ WF_vars(Beat(w))
        /\ WF_vars(mode[w] = "gone" /\ Lapse(w))

FairSpec == Spec /\ Fairness

-----------------------------------------------------------------------------
(* Properties *)

\* m is a copy of the task of node n for the current submission of run r.
CopyOf(m, r, n) == m.run = r /\ m.node = n /\ m.gen = run[r].gen

\* run() dispatches a layer only after the layers before it: whatever a worker
\* may start, or has started, of an active run has its dependencies (those in the
\* submitted graph) collected, none of them failed.
DepsFirst ==
    \A m \in tasks \union ran :
        (Active(m.run) /\ m.gen = run[m.run].gen) =>
            \A d \in Deps[m.node] \intersect Static :
                run[m.run].out[d] \in {"success", "cancelled"}

\* results and the remaining layers account for every node of node_map: at each
\* moment a node is settled, pending in this layer, or in exactly one layer to
\* come, and a run that returns has settled them all.
NodesAccounted ==
    \A r \in Runs :
        LET R == run[r]
            later == {R.extra[i] : i \in DOMAIN R.extra} \union {R.added}
            static == {n \in Static : R.out[n] = "pending"}
        IN /\ R.phase = "collect" =>
                /\ R.known = Settled(r) \union static \union R.pending \union UNION later
                /\ \A L \in later : L \intersect (Settled(r) \union static \union R.pending) = {}
                /\ \A i, j \in DOMAIN R.extra : i # j => R.extra[i] \intersect R.extra[j] = {}
                /\ R.pending \intersect Settled(r) = {}
           /\ R.phase = "over" => R.known \subseteq Settled(r)

\* A node a run waits for is somewhere: in the stream, with a worker (a dead one's
\* pending entries included), in an unread result, or queued for another dispatch; or
\* Redis refused a worker's answer to it.  Stopping a worker, killing it or losing its
\* heartbeat breaks no link of that chain; a result that reaches Redis is never passed
\* over.
Traceable ==
    \A r \in Runs : \A n \in run[r].pending :
        run[r].phase = "collect" =>
            \/ run[r].again[n] > 0
            \/ \E i \in Unread(r) : answers[r][i].node = n
            \/ \E m \in tasks \union lost \union UNION {fresh[w] \union held[w] : w \in Workers} :
                CopyOf(m, r, n)

\* A node is executed once more only because a worker was pruned, once per pruned
\* worker: a sweep takes the in-flight tasks away with the registration.
OneExecution ==
    \A r \in Runs, n \in Nodes :
        Cardinality({m \in ran : CopyOf(m, r, n)}) <= 1 + Cardinality(pruned)

\* A node reported as successful was executed successfully, by some worker, for
\* this submission of the run.
SuccessIsEarned ==
    \A r \in Runs, n \in Nodes :
        run[r].out[n] = "success" => \E m \in won : CopyOf(m, r, n)

\* The distributed backend keeps what a task backend promises, but for the order of
\* two spawned steps: a duplicate execution's late answer changes no result, answers
\* come in dependency order, and a run that returns has them all.
Promise == INSTANCE GraphRun WITH
    phase <- [r \in Runs |-> CASE run[r].phase = "idle" -> "new"
                               [] Active(r) -> "active"
                               [] OTHER -> run[r].phase],
    known <- [r \in Runs |-> run[r].known],
    deps <- [r \in Runs |-> [n \in Nodes |-> Deps[n] \intersect Static]],
    out <- [r \in Runs |-> [n \in Nodes |-> CASE run[r].out[n] \in {"absent", "pending"} -> "none"
                                               [] run[r].out[n] = "cancelled" -> "failed"
                                               [] OTHER -> run[r].out[n]]]

ImplementsGraphRun == Promise!Safe

\* The workers that hold the newest copy of the task of node n of run r.
With(w, r, n) == \E m \in fresh[w] \union held[w] : CopyOf(m, r, n)
Holds(w, r, n) ==
    \E m \in fresh[w] \union held[w] : CopyOf(m, r, n) /\ m.nth = run[r].retries[n]

\* The ways in which nobody stands for a task that a worker took: the worker is not the
\* one that was selected for it, so that the in-flight map has it under another's name;
\* another run removed the entry, by a sweep that queued the node for that run alone or
\* by a result for its own node of that id; or a worker's answer to it was lost.
Misattributed(r, n) == \E w \in Workers : Holds(w, r, n) /\ w # selected[r][n]
Unanswered(r, n) == \E m \in lost : CopyOf(m, r, n)
Unclaimed(r, n) == Misattributed(r, n) \/ <<r, n>> \in robbed \/ Unanswered(r, n)

\* No worker is left; or no worker that lives has the task of a node that run r waits
\* for, and no sweep hands it back, for one of these reasons.
Stranded(r) ==
    \/ \A w \in Workers : ~Alive(w)
    \/ \E n \in run[r].pending :
        /\ \A w \in Workers : With(w, r, n) => ~Alive(w)
        /\ \A w \in Dead : n \notin inflight[w]
        /\ run[r].again[n] = 0
        /\ \A m \in tasks : ~CopyOf(m, r, n)
        /\ \A i \in Unread(r) : answers[r][i].node # n
        /\ Unclaimed(r, n)

\* Without a deadline a run completes, although workers stop, stall, exit or die and
\* the runs of a process share the in-flight map.  The exceptions are three defects and
\* no fourth: a dead worker had taken the task without having been selected for it,
\* another run had removed the entry that stood for it, or a worker could not post its
\* answer and went on as if it had.
RunsComplete == \A r \in Runs : Active(r) ~> (run[r].phase = "over" \/ Stranded(r))

=============================================================================
