--------------------------- MODULE PreemptablePool ---------------------------
(***************************************************************************)
(* PreemptableWorkerPool (core/reliability/preemptable_worker_pool.py) with *)
(* the PriorityTaskQueue it fills and the WorkerPool it admits to: queued   *)
(* jobs, a polling dispatch loop, worker coroutines behind a semaphore, a   *)
(* watcher per admitted job, true preemption, and stop().                   *)
(*                                                                         *)
(* One event loop runs everything, so the code between two awaits is one    *)
(* step.  A turn of the dispatch loop does not suspend before it sleeps     *)
(* (WorkerPool.submit and the uncontended lock do not), hence it admits the *)
(* whole queue once a slot looks idle.                                      *)
(***************************************************************************)
EXTENDS Integers, Sequences, FiniteSets

CONSTANTS
    Jobs,            \* tasks that may be submitted
    Prio,            \* their priorities: 1 is the most urgent, 5 the least
    Deadline,        \* their deadlines; a large one stands for none
    MaxWorkers,      \* slots of the semaphore
    TruePreemption,  \* the true_preemption switch
    MaxPreemptions   \* the thrash protection

ASSUME PoolAssumption ==
    /\ Prio \in [Jobs -> Int] /\ Deadline \in [Jobs -> Int]
    /\ MaxWorkers \in Nat \ {0} /\ MaxPreemptions \in Nat
    /\ TruePreemption \in BOOLEAN

\* The token of a job that has not been submitted: orders are never negative.
NoToken == -1

VARIABLES
    counter,    \* the queue's counter: orders and tie-breaks come from it
    order,      \* enqueue_order of each PriorityTask, 0 until assigned
    token,      \* the token submit() returned for each job
    preempted,  \* preempted_count of each PriorityTask
    copies,     \* every entry ever pushed, in order; an admitted entry is a WorkerTask
    turn,       \* number of admitting turns of the dispatch loop
    results,    \* tokens with an entry in _token_results
    errors,     \* tokens with an entry in _token_errors
    signalled,  \* tokens whose event is set: their wait() returns
    stopped     \* stop() was called

vars == <<counter, order, token, preempted, copies, turn, results, errors, signalled, stopped>>

(* A copy's life: queued in the heap, waiting for the semaphore, running,      *)
(* "dropped" or "unwinding" when its handle was cancelled before or after it    *)
(* had a slot, ended.  fut is its result future, mark its membership in         *)
(* _preempt_ids, watched its membership in _running.                            *)
Stages == {"queued", "waiting", "running", "dropped", "unwinding", "ended"}
Futures == {"none", "result", "error", "preempted", "cancelled"}
Copy == [job : Jobs, order : Nat, stage : Stages, turn : Nat,
         fut : Futures, mark : BOOLEAN, watched : BOOLEAN]

NewCopy(j, o) == [job |-> j, order |-> o, stage |-> "queued", turn |-> 0,
                  fut |-> "none", mark |-> FALSE, watched |-> FALSE]

Ids == DOMAIN copies
At(stage) == {i \in Ids : copies[i].stage = stage}
Occupied == At("running") \union At("unwinding")
Idle == MaxWorkers - Cardinality(Occupied)
Live == Occupied \union At("waiting") \union At("dropped")

Init ==
    /\ counter = 0
    /\ order = [j \in Jobs |-> 0]
    /\ token = [j \in Jobs |-> NoToken]
    /\ preempted = [j \in Jobs |-> 0]
    /\ copies = <<>>
    /\ turn = 0
    /\ results = {} /\ errors = {} /\ signalled = {}
    /\ stopped = FALSE

-----------------------------------------------------------------------------
(* The priority queue *)

\* The heap's order: priority, deadline, enqueue order, then the tie-break.
Before(i, k) ==
    LET j == copies[i].job
        l == copies[k].job
    IN \/ Prio[j] < Prio[l]
       \/ /\ Prio[j] = Prio[l]
          /\ \/ Deadline[j] < Deadline[l]
             \/ /\ Deadline[j] = Deadline[l]
                /\ \/ copies[i].order < copies[k].order
                   \/ copies[i].order = copies[k].order /\ i < k

IsHead(i) == i \in At("queued") /\ \A k \in At("queued") \ {i} : Before(i, k)

\* push(): an order is assigned while it is still 0, which the first order of all is.
OrderFor(j) == IF order[j] = 0 THEN counter ELSE order[j]

Push(j, entries) ==
    /\ order' = [order EXCEPT ![j] = OrderFor(j)]
    /\ counter' = (IF order[j] = 0 THEN counter + 1 ELSE counter) + 1
    /\ copies' = Append(entries, NewCopy(j, OrderFor(j)))

Submit(j) ==
    /\ token[j] = NoToken
    /\ Push(j, copies)
    /\ token' = [token EXCEPT ![j] = order'[j]]
    /\ UNCHANGED <<preempted, turn, results, errors, signalled, stopped>>

-----------------------------------------------------------------------------
(* The dispatch loop *)

\* A slot looks idle: everything queued is popped, handed to the pool and watched.
Admit ==
    /\ ~stopped
    /\ Idle > 0
    /\ At("queued") # {}
    /\ turn' = turn + 1
    /\ copies' = [i \in Ids |->
                    IF copies[i].stage = "queued"
                    THEN [copies[i] EXCEPT !.stage = "waiting", !.turn = turn', !.watched = TRUE]
                    ELSE copies[i]]
    /\ UNCHANGED <<counter, order, token, preempted, results, errors, signalled, stopped>>

\* The order in which admitted copies line up at the semaphore, and in _running.
Ahead(i, k) == \/ copies[i].turn < copies[k].turn
               \/ copies[i].turn = copies[k].turn /\ Before(i, k)

\* Mutant of Candidates: the thrash protection off by one.
CandidatesOnceMore(head) ==
    {i \in Ids : /\ copies[i].watched
                 /\ Prio[copies[i].job] > Prio[copies[head].job]
                 /\ preempted[copies[i].job] <= MaxPreemptions}

\* Entries of _running that are less urgent than the head and may be preempted.
Candidates(head) ==
    {i \in Ids : /\ copies[i].watched
                 /\ Prio[copies[i].job] > Prio[copies[head].job]
                 /\ preempted[copies[i].job] < MaxPreemptions}

\* The victim: least urgent, then least preempted, then oldest.
YieldsTo(i, k) ==
    LET j == copies[i].job
        l == copies[k].job
    IN \/ Prio[j] > Prio[l]
       \/ Prio[j] = Prio[l] /\ preempted[j] < preempted[l]
       \/ Prio[j] = Prio[l] /\ preempted[j] = preempted[l] /\ order[j] < order[l]
       \/ j = l /\ Ahead(i, k)

Victim(i) ==
    \E head \in At("queued") :
        /\ IsHead(head)
        /\ i \in Candidates(head)
        /\ \A k \in Candidates(head) \ {i} : YieldsTo(i, k)

\* handle.cancel(): the coroutine gets CancelledError when the loop next runs it.
Cancelled(c) ==
    [c EXCEPT !.stage = CASE c.stage = "waiting" -> "dropped"
                          [] c.stage = "running" -> "unwinding"
                          [] OTHER -> c.stage]

\* Mutant of Preempt: the victim is cancelled and not pushed again.
PreemptForgets(i) ==
    /\ ~stopped
    /\ TruePreemption
    /\ Idle <= 0
    /\ Victim(i)
    /\ i \in Live
    /\ preempted' = [preempted EXCEPT ![copies[i].job] = @ + 1]
    /\ copies' = [copies EXCEPT ![i] = [Cancelled(@) EXCEPT !.mark = TRUE]]
    /\ UNCHANGED <<counter, order, token, turn, results, errors, signalled, stopped>>

\* No slot is idle: the victim is cancelled and pushed again.  Its handle is gone
\* when it has just ended, and then nothing happens.  A victim that is still
\* unwinding is still in _running and its handle is still live.
Preempt(i) ==
    /\ ~stopped
    /\ TruePreemption
    /\ Idle <= 0
    /\ Victim(i)
    /\ i \in Live
    /\ preempted' = [preempted EXCEPT ![copies[i].job] = @ + 1]
    /\ Push(copies[i].job, [copies EXCEPT ![i] = [Cancelled(@) EXCEPT !.mark = TRUE]])
    /\ UNCHANGED <<token, turn, results, errors, signalled, stopped>>

-----------------------------------------------------------------------------
(* The workers *)

Start(i) ==
    /\ i \in At("waiting")
    /\ \A k \in At("waiting") \ {i} : Ahead(i, k)
    /\ Cardinality(Occupied) < MaxWorkers
    /\ copies' = [copies EXCEPT ![i].stage = "running"]
    /\ UNCHANGED <<counter, order, token, preempted, turn, results, errors, signalled, stopped>>

Resolved(c, outcome) ==
    [c EXCEPT !.stage = "ended", !.fut = IF @ = "none" THEN outcome ELSE @]

\* MaopLoop.run returns or raises.
Finish(i) ==
    /\ i \in At("running")
    /\ \E outcome \in {"result", "error"} :
        copies' = [copies EXCEPT ![i] = Resolved(@, outcome)]
    /\ UNCHANGED <<counter, order, token, preempted, turn, results, errors, signalled, stopped>>

\* Mutant of Land: _run_task does not tell a preemption from another cancellation.
LandUnmarked(i) ==
    /\ i \in At("unwinding") \union At("dropped")
    /\ copies' = [copies EXCEPT ![i] = Resolved(@, "cancelled")]
    /\ UNCHANGED <<counter, order, token, preempted, turn, results, errors, signalled, stopped>>

\* The CancelledError reaches _run_task: a preemption if the mark is set.  Or, once the run
\* had begun, it does not: what is awaited has ended already, or the clean-up raises
\* something else, and the mark stays.
Land(i) ==
    /\ \/ /\ i \in At("unwinding") \union At("dropped")
          /\ copies' = [copies EXCEPT ![i] =
                          IF @.mark THEN [Resolved(@, "preempted") EXCEPT !.mark = FALSE]
                                    ELSE Resolved(@, "cancelled")]
       \/ /\ i \in At("unwinding")
          /\ \E outcome \in {"result", "error"} :
                copies' = [copies EXCEPT ![i] = Resolved(@, outcome)]
    /\ UNCHANGED <<counter, order, token, preempted, turn, results, errors, signalled, stopped>>

-----------------------------------------------------------------------------
(* The watchers and stop() *)

\* Only tokens that submit() returned have an event.
Registered == {token[j] : j \in Jobs} \ {NoToken}

\* Mutant of Watch: an exception is recorded and the event is not set.
WatchSilently(i) ==
    LET c == copies[i]
    IN /\ c.watched
       /\ c.fut # "none"
       /\ copies' = [copies EXCEPT ![i].watched = FALSE]
       /\ results' = IF c.fut = "result" THEN results \union {c.order} ELSE results
       /\ errors' = IF c.fut \in {"error", "cancelled"} THEN errors \union {c.order} ELSE errors
       /\ signalled' = IF c.fut # "result" THEN signalled
                       ELSE signalled \union ({c.order} \intersect Registered)
       /\ UNCHANGED <<counter, order, token, preempted, turn, stopped>>

Watch(i) ==
    LET c == copies[i]
    IN /\ c.watched
       /\ c.fut # "none"
       /\ copies' = [copies EXCEPT ![i].watched = FALSE]
       /\ results' = IF c.fut = "result" THEN results \union {c.order} ELSE results
       /\ errors' = IF c.fut \in {"error", "cancelled"} THEN errors \union {c.order} ELSE errors
       /\ signalled' = IF c.fut = "preempted" THEN signalled
                       ELSE signalled \union ({c.order} \intersect Registered)
       /\ UNCHANGED <<counter, order, token, preempted, turn, stopped>>

\* stop() cancels the dispatch loop, then the watchers, each of which records a
\* CancelledError for its token, then the pool's futures and coroutines.  What is
\* still queued stays queued.
Stop ==
    LET admitted == {i \in Ids : copies[i].stage # "queued"}
        watching == {copies[i].order : i \in {k \in Ids : copies[k].watched}}
    IN /\ ~stopped
       /\ stopped' = TRUE
       /\ errors' = errors \union watching
       /\ signalled' = signalled \union (watching \intersect Registered)
       /\ copies' = [i \in Ids |->
                        IF i \notin admitted THEN copies[i]
                        ELSE [Cancelled(copies[i]) EXCEPT !.watched = FALSE,
                                  !.fut = IF @ = "none" THEN "cancelled" ELSE @]]
       /\ UNCHANGED <<counter, order, token, preempted, turn, results>>

-----------------------------------------------------------------------------
Next ==
    \/ \E j \in Jobs : Submit(j)
    \/ Admit
    \/ \E i \in Ids : Preempt(i)
    \/ \E i \in Ids : Start(i)
    \/ \E i \in Ids : Finish(i)
    \/ \E i \in Ids : Land(i)
    \/ \E i \in Ids : Watch(i)
    \/ Stop

Spec == Init /\ [][Next]_vars

(* The loop, the workers and the watchers are scheduled by the event loop, and a  *)
(* run of MaopLoop ends because its drivers have a timeout.  Nothing is assumed   *)
(* of submitters, nor of stop().                                                  *)
Fairness ==
    /\ WF_vars(Admit)
    /\ WF_vars(\E i \in Ids : Start(i))
    /\ WF_vars(\E i \in Ids : Finish(i))
    /\ WF_vars(\E i \in Ids : Land(i))
    /\ WF_vars(\E i \in Ids : Watch(i))

FairSpec == Spec /\ Fairness

-----------------------------------------------------------------------------
(* Properties *)

TypeOK ==
    /\ counter \in Nat
    /\ order \in [Jobs -> Nat]
    /\ token \in [Jobs -> Nat \union {NoToken}]
    /\ preempted \in [Jobs -> 0 .. MaxPreemptions]
    /\ copies \in Seq(Copy)
    /\ turn \in Nat
    /\ results \subseteq Nat /\ errors \subseteq Nat /\ signalled \subseteq Nat
    /\ stopped \in BOOLEAN

Submitted(j) == token[j] # NoToken
Answered(j) == token[j] \in signalled
\* A re-pushed task keeps its token unless its order is 0: the first of all.
KeepsToken(j) == order[j] = token[j]

\* A copy that will answer under its token if the loop goes on: it is queued, or it
\* is watched and was not cancelled for preemption.
Promising(c) ==
    \/ c.stage = "queued"
    \/ c.watched /\ c.fut # "preempted" /\ ~c.mark

\* "the task simply takes longer, never vanishes": while its wait() has no answer
\* some copy of a job is on its way to give one, whatever preempts what, and after
\* stop() too, except for the copies stop() leaves in the queue.
NeverVanishes ==
    \A j \in Jobs :
        Submitted(j) /\ KeepsToken(j) /\ ~Answered(j) =>
            \E i \in Ids : copies[i].order = token[j] /\ Promising(copies[i])

\* Preemption is invisible to the submitter: an error is reported only when a run of the
\* job raised something of its own, be it in the clean-up of a cancelled one, or when the
\* pool was stopped; an answer is always recorded before its event is set.
PreemptionIsInvisible ==
    /\ \A o \in errors : stopped \/ \E i \in Ids : copies[i].order = o /\ copies[i].fut = "error"
    /\ \A o \in results : \E i \in Ids : copies[i].order = o /\ copies[i].fut = "result"
    /\ signalled \subseteq results \union errors

\* Thrash protection: a job is executed at most max_preemptions times more than once,
\* even when the same copy is cancelled twice.
ThrashBound ==
    \A j \in Jobs : Cardinality({i \in Ids : copies[i].job = j}) <= 1 + MaxPreemptions

\* Every job that is submitted is answered in the end, and for good, unless the pool is
\* stopped, the first one excepted: preempted, it comes back under another token.
EventuallyAnswered ==
    <>[](\A j \in Jobs : Submitted(j) => Answered(j) \/ stopped \/ ~KeepsToken(j))
=============================================================================
