---------------------------- MODULE MessageQueue ----------------------------
(***************************************************************************)
(* core/reliability/message_queue.py together with the consumers that      *)
(* drive it (worker/agent_executor.py, worker/queue_worker.py).            *)
(*                                                                         *)
(* The queue is three SQLite tables shared by every process.  sqlite3      *)
(* opens a transaction at the first INSERT, UPDATE or DELETE of a method:  *)
(* a SELECT that comes before it reads a snapshot of its own.  A method    *)
(* that reads and then writes is therefore two steps here, and one that    *)
(* starts by writing is one step.                                          *)
(*                                                                         *)
(* One topic is modelled.  Wall-clock time is abstracted to what the       *)
(* queries compare: whether a delayed message is visible yet, and whether  *)
(* a delivery is within its ack_timeout_s ("fresh"), past it ("overdue")   *)
(* or past it by more than recover_unacked's buffer ("stale").             *)
(***************************************************************************)
EXTENDS Naturals, FiniteSets

CONSTANTS Ids,          \* message ids (primary keys of queue_messages)
          Keyed,        \* the ids a producer chose itself (msg_id=...)
          Consumers,    \* consumer processes
          Identified,   \* those that pass a consumer_id to dequeue and ack
          QueueWorkers, \* those that run queue_worker; others run agent_executor
          Groups,       \* consumer groups
          GroupOf,      \* consumer -> its group, or NoGroup
          Operators,    \* callers of requeue_dead_letter
          Prio,         \* job -> priority (lower is served first)
          RetryLimits,  \* the max_retries values producers use
          MaxInserts,   \* bound: rows ever inserted in queue_messages
          MaxFaults,    \* bound: crashes and failed transactions
          NoRow, NoId, NoOne, NoGroup

\* requeue_dead_letter's default max_retries.
RequeueLimit == 1

ASSUME ConstantsAssumption ==
    /\ Keyed \subseteq Ids
    /\ Identified \subseteq Consumers
    /\ QueueWorkers \subseteq Consumers
    /\ GroupOf \in [Consumers -> Groups \cup {NoGroup}]
    /\ Prio \in [Ids -> Nat]
    /\ RetryLimits \subseteq Nat
    /\ MaxInserts \in Nat
    /\ MaxFaults \in Nat
    /\ NoId \notin Ids
    /\ NoOne \notin Consumers

VARIABLES queue,   \* queue_messages: id -> row, or NoRow
          dlq,     \* queue_dead_letters: the ids it holds
          idem,    \* queue_idempotent: id -> the consumer recorded, or NoOne
          job,     \* id -> the payload it carries (the id it was first sent as)
          clock,   \* rows inserted so far; the next enqueued_at
          pc,      \* consumer -> where it is in its dequeue / process loop
          cur,     \* consumer -> the message it selected or holds
          seen,    \* consumer -> rows a SELECT returned, not yet acted upon
          asked,   \* operator -> the dead letter it has read
          faults,  \* faults so far
          done,      \* history: jobs some handler has completed
          shrugged,  \* history: jobs whose failure a queue worker did not see
          deliveries,\* history: id -> times taken by a consumer
          overran,   \* history: ids that have outlived an ack_timeout_s
          dropped    \* history: jobs whose dead letter was cleaned up

db       == <<queue, dlq, idem, job, clock>>
local    == <<pc, cur, seen>>
history  == <<done, shrugged, deliveries, overran, dropped>>
vars     == <<db, local, asked, faults, history>>

Age      == {"fresh", "overdue", "stale"}
Statuses == {"pending", "processing", "acked"}
Row      == [status : Statuses, retries : Nat, max : Nat, at : Nat,
             visible : BOOLEAN, age : Age, group : Groups \cup {NoGroup}]
Snapshot == [retries : Nat, max : Nat]

ASSUME NoRowAssumption == NoRow \notin Row

PCs      == {"poll", "reclaim", "select", "claim", "check", "skip",
             "work", "ack", "nack", "renew", "down"}

Busy     == {"claim", "check", "skip", "work", "ack", "nack", "renew"}

Queued     == {i \in Ids : queue[i] # NoRow}
With(s)    == {i \in Queued : queue[i].status = s}
Used       == {i \in Ids : job[i] # NoId}
Accepted   == {job[i] : i \in Used}

TypeOK ==
    /\ queue \in [Ids -> Row \cup {NoRow}]
    /\ dlq \subseteq Ids
    /\ idem \in [Ids -> Consumers \cup {NoOne}]
    /\ job \in [Ids -> Ids \cup {NoId}]
    /\ clock \in 0..MaxInserts
    /\ pc \in [Consumers -> PCs]
    /\ cur \in [Consumers -> Ids \cup {NoId}]
    /\ \A c \in Consumers : pc[c] \in Busy <=> cur[c] # NoId
    /\ DOMAIN seen = Consumers
    /\ \A c \in Consumers : \E S \in SUBSET Ids : seen[c] \in [S -> Snapshot]
    /\ asked \in [Operators -> Ids \cup {NoId}]
    /\ faults \in 0..MaxFaults
    /\ done \subseteq Ids \cup {NoId}
    /\ shrugged \subseteq Ids \cup {NoId}
    /\ deliveries \in [Ids -> Nat]
    /\ overran \subseteq Ids
    /\ dropped \subseteq Ids \cup {NoId}

NothingSeen == [i \in {} |-> [retries |-> 0, max |-> 0]]

Init ==
    /\ queue = [i \in Ids |-> NoRow]
    /\ dlq = {}
    /\ idem = [i \in Ids |-> NoOne]
    /\ job = [i \in Ids |-> NoId]
    /\ clock = 0
    /\ pc = [c \in Consumers |-> "poll"]
    /\ cur = [c \in Consumers |-> NoId]
    /\ seen = [c \in Consumers |-> NothingSeen]
    /\ asked = [o \in Operators |-> NoId]
    /\ faults = 0
    /\ done = {}
    /\ shrugged = {}
    /\ deliveries = [i \in Ids |-> 0]
    /\ overran = {}
    /\ dropped = {}

-----------------------------------------------------------------------------
(* Time.                                                                   *)

\* A delivery outlives its ack_timeout_s, and later recover_unacked's buffer.
Overdue(i) ==
    /\ i \in With("processing")
    /\ queue[i].age = "fresh"
    /\ queue' = [queue EXCEPT ![i] = [@ EXCEPT !.age = "overdue"]]
    /\ overran' = overran \cup {i}
    /\ UNCHANGED <<dlq, idem, job, clock, local, asked, faults,
                   done, shrugged, deliveries, dropped>>

Stale(i) ==
    /\ i \in With("processing")
    /\ queue[i].age = "overdue"
    /\ queue' = [queue EXCEPT ![i] = [@ EXCEPT !.age = "stale"]]
    /\ UNCHANGED <<dlq, idem, job, clock, local, asked, faults, history>>

\* The visible_at of a delayed message is reached.
Appear(i) ==
    /\ i \in Queued
    /\ ~queue[i].visible
    /\ queue' = [queue EXCEPT ![i] = [@ EXCEPT !.visible = TRUE]]
    /\ UNCHANGED <<dlq, idem, job, clock, local, asked, faults, history>>

-----------------------------------------------------------------------------
(* Producers.                                                              *)

NewRow(limit, visible) ==
    [status |-> "pending", retries |-> 0, max |-> limit, at |-> clock,
     visible |-> visible, age |-> "fresh", group |-> NoGroup]

\* enqueue: the id is fresh, or a producer's own key that is not in
\* queue_messages at present (the dead letters are not looked at).  With the
\* key present the SELECT or the UNIQUE constraint makes it a no-op.
Enqueue(i, limit, visible) ==
    /\ i \notin Queued
    /\ i \in Used => i \in Keyed
    /\ clock < MaxInserts
    /\ queue' = [queue EXCEPT ![i] = NewRow(limit, visible)]
    /\ job' = [job EXCEPT ![i] = i]
    /\ clock' = clock + 1
    /\ UNCHANGED <<dlq, idem, local, asked, faults, history>>

-----------------------------------------------------------------------------
(* What a retry does to a row: nack and _reclaim_unacked share it.         *)

\* Mutant of Spent: one attempt too few.
SpentTooSoon(s) == {i \in DOMAIN s : s[i].retries + 1 >= s[i].max}

\* The rows of snapshot s that have no retry left.
Spent(s) == {i \in DOMAIN s : s[i].retries + 1 > s[i].max}

\* A row that is pending again, with r retries used.
Returned(row, r) ==
    [row EXCEPT !.status = "pending", !.age = "fresh", !.retries = r]

\* _move_to_dead_letter deletes a spent row (the dead letter is written or
\* is there already); another row is pending again with the retry count the
\* snapshot implies, whatever its status is by now.  A row that is gone
\* stays gone.
RetryRows(s) ==
    [i \in Ids |->
        IF i \notin DOMAIN s \/ queue[i] = NoRow THEN queue[i]
        ELSE IF i \in Spent(s) THEN NoRow
        ELSE Returned(queue[i], s[i].retries + 1)]

\* Mutant of Buried: the dead letter is never written.
NotBuried(s) == dlq

Buried(s) == dlq \cup (Spent(s) \cap Queued)

SnapshotOf(S) == [i \in S |-> [retries |-> queue[i].retries,
                               max |-> queue[i].max]]

-----------------------------------------------------------------------------
(* Consumers: dequeue.                                                     *)

Goto(c, place) == pc' = [pc EXCEPT ![c] = place]
Hold(c, i)     == cur' = [cur EXCEPT ![c] = i]
See(c, s)      == seen' = [seen EXCEPT ![c] = s]

\* Mutant of TimedOutFor: a delivery is looked for under no group at all.
TimedOutUngrouped(c) ==
    {i \in With("processing") :
        /\ queue[i].age # "fresh"
        /\ queue[i].group = NoGroup}

\* _reclaim_unacked, its SELECT: the overdue deliveries of the consumer's
\* group, or of every group when it has none.
TimedOutFor(c) ==
    {i \in With("processing") :
        /\ queue[i].age # "fresh"
        /\ GroupOf[c] \in {NoGroup, queue[i].group}}

ReclaimSelect(c) ==
    /\ pc[c] = "poll"
    /\ See(c, SnapshotOf(TimedOutFor(c)))
    /\ Goto(c, IF TimedOutFor(c) = {} THEN "select" ELSE "reclaim")
    /\ UNCHANGED <<db, cur, asked, faults, history>>

\* _reclaim_unacked, its transaction: one UPDATE or dead letter per row read.
ReclaimCommit(c) ==
    /\ pc[c] = "reclaim"
    /\ queue' = RetryRows(seen[c])
    /\ dlq' = Buried(seen[c])
    /\ See(c, NothingSeen)
    /\ Goto(c, "select")
    /\ UNCHANGED <<idem, job, clock, cur, asked, faults, history>>

\* ORDER BY priority ASC, enqueued_at ASC.
Before(i, j) ==
    \/ Prio[job[i]] < Prio[job[j]]
    \/ Prio[job[i]] = Prio[job[j]] /\ queue[i].at < queue[j].at

Ready == {i \in With("pending") : queue[i].visible}

\* _dequeue_one, its SELECT.
SelectNext(c) ==
    /\ pc[c] = "select"
    /\ \/ /\ Ready = {}
          /\ Goto(c, "poll")
          /\ UNCHANGED cur
       \/ \E i \in Ready :
             /\ \A j \in Ready : ~Before(j, i)
             /\ Hold(c, i)
             /\ Goto(c, "claim")
    /\ UNCHANGED <<db, seen, asked, faults, history>>

Taken(row, g) ==
    [row EXCEPT !.status = "processing", !.age = "fresh", !.group = g]

\* Mutant of Claim: the UPDATE without its status guard.
ClaimAny(c) ==
    /\ pc[c] = "claim"
    /\ IF cur[c] \in Queued
         THEN /\ queue' = [queue EXCEPT ![cur[c]] = Taken(@, GroupOf[c])]
              /\ deliveries' = [deliveries EXCEPT ![cur[c]] = @ + 1]
              /\ Goto(c, "check")
              /\ UNCHANGED cur
         ELSE /\ Goto(c, "poll")
              /\ Hold(c, NoId)
              /\ UNCHANGED <<queue, deliveries>>
    /\ UNCHANGED <<dlq, idem, job, clock, seen, asked, faults,
                   done, shrugged, overran, dropped>>

\* _dequeue_one, its UPDATE ... WHERE status = 'pending'.
Claim(c) ==
    /\ pc[c] = "claim"
    /\ IF cur[c] \in With("pending")
         THEN /\ queue' = [queue EXCEPT ![cur[c]] = Taken(@, GroupOf[c])]
              /\ deliveries' = [deliveries EXCEPT ![cur[c]] = @ + 1]
              /\ Goto(c, "check")
              /\ UNCHANGED cur
         ELSE /\ Goto(c, "poll")
              /\ Hold(c, NoId)
              /\ UNCHANGED <<queue, deliveries>>
    /\ UNCHANGED <<dlq, idem, job, clock, seen, asked, faults,
                   done, shrugged, overran, dropped>>

\* Whether queue_idempotent says this very consumer has processed the message.
Repeats(c) == c \in Identified /\ idem[cur[c]] = c

\* dequeue's idempotency query: hand the message over, or skip it.
CheckIdempotent(c) ==
    /\ pc[c] = "check"
    /\ Goto(c, IF Repeats(c) THEN "skip" ELSE "work")
    /\ UNCHANGED <<db, cur, seen, asked, faults, history>>

\* ack: UPDATE ... WHERE id = ? AND status = 'processing'.
Acked(i) == IF i \in With("processing")
            THEN [queue EXCEPT ![i] = [@ EXCEPT !.status = "acked",
                                                !.age = "fresh"]]
            ELSE queue

\* A message skipped as a repeat is acknowledged without a consumer_id.
AckSkipped(c) ==
    /\ pc[c] = "skip"
    /\ queue' = Acked(cur[c])
    /\ Hold(c, NoId)
    /\ Goto(c, "poll")
    /\ UNCHANGED <<dlq, idem, job, clock, seen, asked, faults, history>>

-----------------------------------------------------------------------------
(* Consumers: process, then ack or nack.                                   *)

HandlerSucceeds(c) ==
    /\ pc[c] = "work"
    /\ done' = done \cup {job[cur[c]]}
    /\ Goto(c, "ack")
    /\ UNCHANGED <<db, cur, seen, asked, faults,
                   shrugged, deliveries, overran, dropped>>

\* Mutant of HandlerFails: a failed dispatch is acknowledged all the same.
FailureAcked(c) ==
    /\ pc[c] = "work"
    /\ Goto(c, "ack")
    /\ UNCHANGED <<db, cur, seen, asked, faults, history>>

\* The dispatch or the pool raises; or agent_executor, which looks at what its
\* dispatch returns, finds an exit code other than 0 there.
HandlerFails(c) ==
    /\ pc[c] = "work"
    /\ Goto(c, "nack")
    /\ UNCHANGED <<db, cur, seen, asked, faults, history>>

\* queue_worker._execute_task returns normally without the work being done: it
\* does not look at what pool.wait answers (a run that failed comes back as a
\* result with success = FALSE, not as an exception), and returns at once when
\* the payload names no task or no agent.  The message is then acknowledged.
FailureReturned(c) ==
    /\ pc[c] = "work"
    /\ c \in QueueWorkers
    /\ shrugged' = shrugged \cup {job[cur[c]]}
    /\ Goto(c, "ack")
    /\ UNCHANGED <<db, cur, seen, asked, faults,
                   done, deliveries, overran, dropped>>

\* ack(msg.id, consumer_id): INSERT OR IGNORE keeps the first consumer only.
Ack(c) ==
    /\ pc[c] = "ack"
    /\ queue' = Acked(cur[c])
    /\ idem' = IF /\ cur[c] \in With("processing")
                  /\ c \in Identified
                  /\ idem[cur[c]] = NoOne
               THEN [idem EXCEPT ![cur[c]] = c]
               ELSE idem
    /\ Hold(c, NoId)
    /\ Goto(c, "poll")
    /\ UNCHANGED <<dlq, job, clock, seen, asked, faults, history>>

\* nack, its SELECT: False when the row is gone, whatever its status otherwise.
NackSelect(c) ==
    /\ pc[c] = "nack"
    /\ IF cur[c] \in Queued
         THEN /\ See(c, SnapshotOf({cur[c]}))
              /\ Goto(c, "renew")
              /\ UNCHANGED cur
         ELSE /\ Goto(c, "poll")
              /\ Hold(c, NoId)
              /\ UNCHANGED seen
    /\ UNCHANGED <<db, asked, faults, history>>

\* nack, its transaction.
NackCommit(c) ==
    /\ pc[c] = "renew"
    /\ queue' = RetryRows(seen[c])
    /\ dlq' = Buried(seen[c])
    /\ See(c, NothingSeen)
    /\ Hold(c, NoId)
    /\ Goto(c, "poll")
    /\ UNCHANGED <<idem, job, clock, asked, faults, history>>

-----------------------------------------------------------------------------
(* Faults.                                                                 *)

\* A consumer process dies; what it had not committed is rolled back.
Crash(c) ==
    /\ pc[c] # "down"
    /\ faults < MaxFaults
    /\ faults' = faults + 1
    /\ Goto(c, "down")
    /\ Hold(c, NoId)
    /\ See(c, NothingSeen)
    /\ UNCHANGED <<db, asked, history>>

Restart(c) ==
    /\ pc[c] = "down"
    /\ Goto(c, "poll")
    /\ UNCHANGED <<db, cur, seen, asked, faults, history>>

\* A statement raises (database locked, I/O): the method logs, rolls back and
\* answers 0, None, False or, for the idempotency query, "not processed yet".
AfterError(place) ==
    CASE place \in {"poll", "reclaim"} -> "select"
      [] place = "check"               -> "work"
      [] OTHER                         -> "poll"

DbError(c) ==
    /\ pc[c] \notin {"work", "down"}
    /\ faults < MaxFaults
    /\ faults' = faults + 1
    /\ Goto(c, AfterError(pc[c]))
    /\ See(c, NothingSeen)
    /\ IF pc[c] = "check" THEN UNCHANGED cur ELSE Hold(c, NoId)
    /\ UNCHANGED <<db, asked, history>>

-----------------------------------------------------------------------------
(* Maintenance.                                                            *)

\* purge_acked: acked rows acknowledged before the cutoff, and the idempotency
\* records made before it.  A record is never younger than the ack of its row,
\* so a purged row loses its record too.
PurgeAcked(S, R) ==
    /\ S \subseteq With("acked")
    /\ R \subseteq {i \in Ids : idem[i] # NoOne}
    /\ {i \in S : idem[i] # NoOne} \subseteq R
    /\ S \cup R # {}
    /\ queue' = [i \in Ids |-> IF i \in S THEN NoRow ELSE queue[i]]
    /\ idem' = [i \in Ids |-> IF i \in R THEN NoOne ELSE idem[i]]
    /\ UNCHANGED <<dlq, job, clock, local, asked, faults, history>>

\* cleanup_dead_letters: dead letters older than the cutoff.
CleanupDeadLetters(S) ==
    /\ S \subseteq dlq
    /\ S # {}
    /\ dlq' = dlq \ S
    /\ dropped' = dropped \cup {job[i] : i \in S}
    /\ UNCHANGED <<queue, idem, job, clock, local, asked, faults,
                   done, shrugged, deliveries, overran>>

\* requeue_dead_letter, its SELECT.
RequeueSelect(o, i) ==
    /\ asked[o] = NoId
    /\ i \in dlq
    /\ asked' = [asked EXCEPT ![o] = i]
    /\ UNCHANGED <<db, local, faults, history>>

\* requeue_dead_letter, its transaction: the payload goes back under a new id.
RequeueCommit(o, n) ==
    /\ asked[o] # NoId
    /\ n \in Ids \ (Used \cup Keyed)
    /\ clock < MaxInserts
    /\ queue' = [queue EXCEPT ![n] = NewRow(RequeueLimit, TRUE)]
    /\ job' = [job EXCEPT ![n] = job[asked[o]]]
    /\ clock' = clock + 1
    /\ dlq' = dlq \ {asked[o]}
    /\ asked' = [asked EXCEPT ![o] = NoId]
    /\ UNCHANGED <<idem, local, faults, history>>

\* recover_unacked: one transaction (it starts with the UPDATE).  Deliveries
\* past ack_timeout_s + timeout_buffer are pending again with one more retry,
\* then every pending row whose retries have reached max_retries is buried.
Recoverable == {i \in With("processing") : queue[i].age = "stale"}

Recovered(i) ==
    IF i \in Recoverable
    THEN Returned(queue[i], queue[i].retries + 1)
    ELSE queue[i]

Exhausted == {i \in Queued : /\ Recovered(i).status = "pending"
                             /\ Recovered(i).retries >= queue[i].max}

RecoverUnacked ==
    /\ Recoverable \cup Exhausted # {}
    /\ queue' = [i \in Ids |-> IF i \in Exhausted THEN NoRow ELSE Recovered(i)]
    /\ dlq' = dlq \cup Exhausted
    /\ UNCHANGED <<idem, job, clock, local, asked, faults, history>>

-----------------------------------------------------------------------------
Time == \E i \in Ids : Overdue(i) \/ Stale(i) \/ Appear(i)

Produce == \E i \in Ids, l \in RetryLimits, v \in BOOLEAN : Enqueue(i, l, v)

Consume(c) ==
    \/ ReclaimSelect(c) \/ ReclaimCommit(c) \/ SelectNext(c) \/ Claim(c)
    \/ CheckIdempotent(c) \/ AckSkipped(c)
    \/ HandlerSucceeds(c) \/ HandlerFails(c) \/ FailureReturned(c)
    \/ Ack(c) \/ NackSelect(c) \/ NackCommit(c)

Fault == \E c \in Consumers : Crash(c) \/ DbError(c)

Maintain ==
    \/ \E S, R \in SUBSET Ids : PurgeAcked(S, R)
    \/ \E S \in SUBSET Ids : CleanupDeadLetters(S)
    \/ \E o \in Operators, i \in Ids : RequeueSelect(o, i) \/ RequeueCommit(o, i)

\* recover_unacked has no caller but the tests; NextWithRecovery adds it.
Next ==
    \/ Time
    \/ Produce
    \/ \E c \in Consumers : Consume(c) \/ Restart(c)
    \/ Fault
    \/ Maintain

NextWithRecovery == Next \/ RecoverUnacked

Spec         == Init /\ [][Next]_vars
RecoverySpec == Init /\ [][NextWithRecovery]_vars

\* Consumers poll for ever, a crashed one is restarted, and time passes.
FairSpec ==
    /\ RecoverySpec
    /\ \A i \in Ids : WF_vars(Overdue(i)) /\ WF_vars(Appear(i))
    /\ \A c \in Consumers : WF_vars(Consume(c)) /\ WF_vars(Restart(c))

-----------------------------------------------------------------------------
(* Properties.                                                             *)

\* The jobs that are over as far as their consumers can tell.  Without queue
\* workers they are those a handler has completed.
Ended == done \cup shrugged

\* No accepted job is lost in silence: it is in the queue or among the dead
\* letters, or some handler has completed it, or an operator cleaned up its
\* dead letter (enqueue's "silently losing the message", MQ-1 and MQ-3).  Only
\* a failure that queue_worker returned from as if it were an end is excepted.
NoSilentLoss ==
    \A j \in Accepted :
        \/ \E i \in Queued \cup dlq : job[i] = j
        \/ j \in Ended \cup dropped

\* A message is acknowledged, or recorded as consumed, only when a handler has
\* completed its job, although ack does not look at who holds the message; again
\* only a failure that queue_worker returned from is excepted.
AckedWasProcessed ==
    \A i \in Ids : (i \in With("acked") \/ idem[i] # NoOne) => job[i] \in Ended

\* The consumers that have taken message i and are not finished with it.
Holders(i) ==
    {c \in Consumers : /\ cur[c] = i
                       /\ pc[c] \in {"check", "skip", "work", "ack",
                                     "nack", "renew"}}

\* Two consumers hold the same message only after one of them has outlived
\* the ack timeout (_dequeue_one: "Atomically dequeue").
SoleHolder ==
    \A i \in Ids : i \notin overran =>
        \A c, d \in Holders(i) : c = d

\* A message is taken at most max_retries + 1 times, and it is dead after precisely
\* its first attempt and all of its retries (those of a producer, or of an operator
\* who put it back).
ExactAttempts ==
    /\ \A i \in Queued : deliveries[i] <= queue[i].max + 1
    /\ \A i \in dlq : \E l \in RetryLimits \cup {RequeueLimit} : deliveries[i] = l + 1

\* Every message in the queue is in the end acknowledged, dead or gone.
EventuallySettled ==
    \A i \in Ids :
        i \in With("pending") \cup With("processing")
            ~> i \notin With("pending") \cup With("processing")

-----------------------------------------------------------------------------
(* The inductive invariants behind NoSilentLoss, AckedWasProcessed,        *)
(* ExactAttempts and SoleHolder.                                           *)

\* Whatever the tables and the processes refer to was accepted at some time,
\* and a producer's own key always names its own job.
Lineage ==
    /\ Queued \cup dlq \subseteq Used
    /\ \A i \in Ids : idem[i] # NoOne => i \in Used
    /\ \A c \in Consumers : cur[c] # NoId => cur[c] \in Used
    /\ \A o \in Operators : asked[o] # NoId => asked[o] \in Used
    /\ \A i \in Used \cap Keyed : job[i] = i

\* A consumer about to acknowledge holds a job that is over for a consumer.
AckEarned ==
    \A c \in Consumers : pc[c] \in {"ack", "skip"} => job[cur[c]] \in Ended

Integrity ==
    Lineage /\ AckEarned /\ AckedWasProcessed /\ NoSilentLoss

\* With one worker process, and message ids that are used once, the retry counter of a
\* row counts the deliveries that are over, and what the worker holds or has read is
\* still being delivered when it acts on it.
OneWorker == (\A c, d \in Consumers : c = d) /\ Keyed = {}

RetriesCount ==
    /\ \A i \in Ids \ Used : deliveries[i] = 0
    /\ Queued \cap dlq = {}
    /\ \A i \in Queued :
          /\ queue[i].max \in RetryLimits \cup {RequeueLimit}
          /\ queue[i].retries <= queue[i].max
          /\ deliveries[i] = queue[i].retries + (IF i \in With("pending") THEN 0 ELSE 1)
    /\ \A i \in dlq : \E l \in RetryLimits \cup {RequeueLimit} : deliveries[i] = l + 1

ReadIsCurrent ==
    \A c \in Consumers :
        /\ pc[c] \in {"check", "skip", "work", "ack", "nack", "renew"} =>
              cur[c] \in With("processing")
        /\ pc[c] \notin {"reclaim", "renew"} => DOMAIN seen[c] = {}
        /\ \A i \in DOMAIN seen[c] :
              /\ i \in With("processing")
              /\ seen[c][i].retries = queue[i].retries /\ seen[c][i].max = queue[i].max

\* While a message has never outlived its timeout, its holder owns its row,
\* and nobody has read that row as one to take back.
Owned ==
    /\ \A i \in Ids \ overran :
          /\ i \in With("processing") => queue[i].age = "fresh"
          /\ Holders(i) # {} => i \in With("processing")
    /\ \A c \in Consumers :
          /\ pc[c] = "reclaim" => DOMAIN seen[c] \subseteq overran
          /\ pc[c] = "renew" => DOMAIN seen[c] = {cur[c]}

Exclusive == Owned /\ SoleHolder

=============================================================================
