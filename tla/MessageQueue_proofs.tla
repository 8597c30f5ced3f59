------------------------ MODULE MessageQueue_proofs ------------------------
(* Theorems of MessageQueue, for any ids, consumers, limits and bounds.    *)
EXTENDS MessageQueue, TLAPS

(***************************************************************************)
(* Rows.                                                                   *)
(***************************************************************************)
\* A new row is a row (the INSERT of enqueue and requeue_dead_letter).
LEMMA NewRowType ==
    ASSUME NEW limit \in Nat, NEW v \in BOOLEAN, clock \in Nat
    PROVE  NewRow(limit, v) \in Row
BY DEF NewRow, Row, Statuses, Age

\* The UPDATEs of _dequeue_one, ack, nack and _reclaim_unacked keep a row one.
LEMMA UpdatedRowType ==
    ASSUME NEW row \in Row
    PROVE  /\ \A g \in Groups \cup {NoGroup} : Taken(row, g) \in Row
           /\ \A r \in Nat : Returned(row, r) \in Row
           /\ [row EXCEPT !.status = "acked", !.age = "fresh"] \in Row
           /\ \A a \in Age : [row EXCEPT !.age = a] \in Row
           /\ [row EXCEPT !.visible = TRUE] \in Row
BY DEF Taken, Returned, Row, Statuses, Age

\* What a queue entry is, when it is not NoRow.
LEMMA QueuedRow ==
    ASSUME TypeOK, NEW i \in Queued
    PROVE  queue[i] \in Row /\ i \in Ids
BY DEF TypeOK, Queued

\* A snapshot of queued rows is a function from ids to retry counters.
LEMMA SnapshotType ==
    ASSUME TypeOK, NEW S, S \subseteq Queued
    PROVE  /\ S \in SUBSET Ids
           /\ SnapshotOf(S) \in [S -> Snapshot]
           /\ DOMAIN SnapshotOf(S) = S
<1>1. ASSUME NEW i \in S
      PROVE  [retries |-> queue[i].retries, max |-> queue[i].max] \in Snapshot
  BY <1>1, QueuedRow DEF Row, Snapshot
<1>. QED  BY <1>1, QueuedRow DEF SnapshotOf

LEMMA EmptySnapshot ==
    /\ NothingSeen \in [{} -> Snapshot]
    /\ DOMAIN NothingSeen = {}
BY DEF NothingSeen

\* RetryRows returns a table of rows and touches the rows of the snapshot only.
LEMMA RetryRowsType ==
    ASSUME TypeOK, NEW S \in SUBSET Ids, NEW s \in [S -> Snapshot]
    PROVE  /\ RetryRows(s) \in [Ids -> Row \cup {NoRow}]
           /\ \A i \in Ids \ S : RetryRows(s)[i] = queue[i]
<1>1. ASSUME NEW i \in Ids, i \in S, queue[i] # NoRow
      PROVE  Returned(queue[i], s[i].retries + 1) \in Row
  <2>1. s[i].retries + 1 \in Nat  BY <1>1 DEF Snapshot
  <2>. QED  BY <1>1, <2>1, QueuedRow, UpdatedRowType DEF Queued
<1>. QED  BY <1>1 DEF RetryRows, TypeOK

(***************************************************************************)
(* Type correctness.                                                       *)
(***************************************************************************)
LEMMA TypeInit == Init => TypeOK
<1> SUFFICES ASSUME Init PROVE TypeOK
  OBVIOUS
<1>1. \A c \in Consumers : \E S \in SUBSET Ids : seen[c] \in [S -> Snapshot]
  <2>1. \A c \in Consumers : seen[c] = NothingSeen  BY DEF Init
  <2>2. {} \in SUBSET Ids  OBVIOUS
  <2>. QED  BY <2>1, <2>2, EmptySnapshot
<1>. QED  BY <1>1, ConstantsAssumption DEF Init, TypeOK, PCs, Busy

\* Each step keeps the types, including recover_unacked's.
LEMMA TypeStep == TypeOK /\ [NextWithRecovery]_vars => TypeOK'
<1> SUFFICES ASSUME TypeOK, [NextWithRecovery]_vars PROVE TypeOK'
  OBVIOUS
<1> USE DEF db, local, history, Busy
<1>1. CASE Time
  <2>1. ASSUME NEW i \in Ids, Overdue(i) PROVE TypeOK'
    BY <2>1, QueuedRow, UpdatedRowType DEF TypeOK, Overdue, With, Age
  <2>2. ASSUME NEW i \in Ids, Stale(i) PROVE TypeOK'
    BY <2>2, QueuedRow, UpdatedRowType DEF TypeOK, Stale, With, Age
  <2>3. ASSUME NEW i \in Ids, Appear(i) PROVE TypeOK'
    BY <2>3, QueuedRow, UpdatedRowType DEF TypeOK, Appear
  <2>. QED  BY <1>1, <2>1, <2>2, <2>3 DEF Time
<1>2. CASE Produce
  <2>1. ASSUME NEW i \in Ids, NEW l \in RetryLimits, NEW v \in BOOLEAN,
               Enqueue(i, l, v)
        PROVE  TypeOK'
    <3>1. clock \in Nat /\ clock' \in 0..MaxInserts
      BY <2>1, ConstantsAssumption DEF TypeOK, Enqueue
    <3>2. NewRow(l, v) \in Row
      BY <3>1, NewRowType, ConstantsAssumption
    <3>. QED  BY <2>1, <3>1, <3>2 DEF TypeOK, Enqueue
  <2>. QED  BY <1>2, <2>1 DEF Produce
<1>3. ASSUME NEW c \in Consumers, Consume(c) PROVE TypeOK'
  <2> USE ConstantsAssumption
  <2>1. CASE ReclaimSelect(c)
    <3>1. TimedOutFor(c) \subseteq Queued  BY DEF TimedOutFor, With
    <3>2. SnapshotOf(TimedOutFor(c)) \in [TimedOutFor(c) -> Snapshot]
          /\ TimedOutFor(c) \in SUBSET Ids
      BY <3>1, SnapshotType
    <3>. QED
      BY <2>1, <3>2 DEF ReclaimSelect, See, Goto, TypeOK, PCs
  <2>2. CASE ReclaimCommit(c)
    <3>1. PICK S \in SUBSET Ids : seen[c] \in [S -> Snapshot]
      BY DEF TypeOK
    <3>2. RetryRows(seen[c]) \in [Ids -> Row \cup {NoRow}]
      BY <3>1, RetryRowsType
    <3>. QED
      BY <2>2, <3>2, EmptySnapshot
      DEF ReclaimCommit, See, Goto, TypeOK, PCs, Buried, Queued
  <2>3. CASE SelectNext(c)
    <3>1. CASE Goto(c, "poll") /\ UNCHANGED cur
      BY <2>3, <3>1 DEF SelectNext, Goto, TypeOK, PCs
    <3>2. ASSUME NEW i \in Ready, Goto(c, "claim"), Hold(c, i)
          PROVE  TypeOK'
      <4>1. i \in Ids /\ i # NoId  BY <3>2 DEF Ready, With, Queued
      <4>. QED  BY <2>3, <3>2, <4>1 DEF SelectNext, Goto, Hold, TypeOK, PCs
    <3>. QED  BY <2>3, <3>1, <3>2 DEF SelectNext
  <2>4. CASE Claim(c)
    <3>1. GroupOf[c] \in Groups \cup {NoGroup}  BY ConstantsAssumption
    <3>2. CASE cur[c] \in With("pending")
      <4>1. cur[c] \in Ids /\ Taken(queue[cur[c]], GroupOf[c]) \in Row
        BY <3>1, <3>2, QueuedRow, UpdatedRowType DEF With
      <4>2. queue' \in [Ids -> Row \cup {NoRow}]
        BY <2>4, <3>2, <4>1 DEF Claim, TypeOK
      <4>3. deliveries' \in [Ids -> Nat]
        BY <2>4, <3>2, <4>1 DEF Claim, TypeOK
      <4>4. /\ pc[c] = "claim" /\ pc' = [pc EXCEPT ![c] = "check"]
            /\ UNCHANGED <<cur, dlq, idem, job, clock, seen, asked, faults, done,
                          shrugged, overran, dropped>>
        BY <2>4, <3>2 DEF Claim, Goto
      <4>5. /\ pc' \in [Consumers -> PCs]
            /\ \A d \in Consumers : pc'[d] \in Busy <=> cur'[d] # NoId
        BY <4>4 DEF TypeOK, PCs
      <4>6. \A d \in Consumers :
              \E S \in SUBSET Ids : seen'[d] \in [S -> Snapshot]
        BY <4>4 DEF TypeOK
      <4>. QED  BY <4>2, <4>3, <4>4, <4>5, <4>6 DEF TypeOK
    <3>3. CASE cur[c] \notin With("pending")
      <4>1. /\ pc' = [pc EXCEPT ![c] = "poll"] /\ cur' = [cur EXCEPT ![c] = NoId]
            /\ UNCHANGED <<queue, deliveries, dlq, idem, job, clock, seen, asked, faults, done,
                          shrugged, overran, dropped>>
        BY <2>4, <3>3 DEF Claim, Goto, Hold
      <4>2. \A d \in Consumers :
              \E S \in SUBSET Ids : seen'[d] \in [S -> Snapshot]
        BY <4>1 DEF TypeOK
      <4>. QED  BY <4>1, <4>2 DEF TypeOK, PCs
    <3>. QED  BY <3>2, <3>3
  <2>5. CASE CheckIdempotent(c)
    BY <2>5 DEF CheckIdempotent, Goto, TypeOK, PCs
  <2>6. ASSUME NEW i, queue' = Acked(i)
        PROVE  queue' \in [Ids -> Row \cup {NoRow}]
    BY <2>6, QueuedRow, UpdatedRowType DEF Acked, With, TypeOK
  <2>7. CASE AckSkipped(c)
    BY <2>6, <2>7 DEF AckSkipped, Goto, Hold, TypeOK, PCs
  <2>8. CASE HandlerSucceeds(c)
    BY <2>8 DEF HandlerSucceeds, Goto, TypeOK, PCs
  <2>9. CASE HandlerFails(c)
    BY <2>9 DEF HandlerFails, Goto, TypeOK, PCs
  <2>9a. CASE FailureReturned(c)
    BY <2>9a DEF FailureReturned, Goto, TypeOK, PCs
  <2>10. CASE Ack(c)
    <3>1. idem' \in [Ids -> Consumers \cup {NoOne}]
      BY <2>10 DEF Ack, TypeOK
    <3>. QED  BY <2>6, <2>10, <3>1 DEF Ack, Goto, Hold, TypeOK, PCs
  <2>11. CASE NackSelect(c)
    <3>1. CASE cur[c] \in Queued
      <4>1. SnapshotOf({cur[c]}) \in [{cur[c]} -> Snapshot]
            /\ {cur[c]} \in SUBSET Ids
        BY <3>1, SnapshotType
      <4>2. \A d \in Consumers :
              \E S \in SUBSET Ids : seen'[d] \in [S -> Snapshot]
        BY <2>11, <3>1, <4>1 DEF NackSelect, See, TypeOK
      <4>. QED  BY <2>11, <3>1, <4>2, ZenonT(60) DEF NackSelect, See, Goto, TypeOK, PCs
    <3>2. CASE cur[c] \notin Queued
      <4>1. seen' = seen /\ cur' = [cur EXCEPT ![c] = NoId]
            /\ pc' = [pc EXCEPT ![c] = "poll"]
            /\ UNCHANGED <<queue, dlq, idem, job, clock, asked, faults, done,
                          shrugged, deliveries, overran, dropped>>
        BY <2>11, <3>2 DEF NackSelect, Goto, Hold
      <4>2. \A d \in Consumers :
              \E S \in SUBSET Ids : seen'[d] \in [S -> Snapshot]
        BY <4>1 DEF TypeOK
      <4>. QED  BY <4>1, <4>2 DEF TypeOK, PCs
    <3>. QED  BY <3>1, <3>2
  <2>12. CASE NackCommit(c)
    <3>1. PICK S \in SUBSET Ids : seen[c] \in [S -> Snapshot]
      BY DEF TypeOK
    <3>2. RetryRows(seen[c]) \in [Ids -> Row \cup {NoRow}]
      BY <3>1, RetryRowsType
    <3>. QED
      BY <2>12, <3>2, EmptySnapshot
      DEF NackCommit, See, Goto, Hold, TypeOK, PCs, Buried, Queued
  <2>. QED
    BY <1>3, <2>1, <2>2, <2>3, <2>4, <2>5, <2>7, <2>8, <2>9, <2>10, <2>11,
       <2>12, <2>9a
    DEF Consume
<1>4. ASSUME NEW c \in Consumers, Restart(c) PROVE TypeOK'
  BY <1>4 DEF Restart, Goto, TypeOK, PCs
<1>5. CASE Fault
  <2> USE ConstantsAssumption
  <2>1. ASSUME NEW c \in Consumers, Crash(c) PROVE TypeOK'
    <3>1. faults' \in 0..MaxFaults
      BY <2>1, ConstantsAssumption DEF Crash, TypeOK
    <3>. QED
      BY <2>1, <3>1, EmptySnapshot DEF Crash, Goto, Hold, See, TypeOK, PCs
  <2>2. ASSUME NEW c \in Consumers, DbError(c) PROVE TypeOK'
    <3>1. faults' \in 0..MaxFaults
      BY <2>2, ConstantsAssumption DEF DbError, TypeOK
    <3>2. AfterError(pc[c]) \in PCs
          /\ (AfterError(pc[c]) \in Busy <=> pc[c] = "check")
      BY DEF AfterError, PCs
    <3>. QED
      BY <2>2, <3>1, <3>2, EmptySnapshot, ZenonT(60) DEF DbError, Goto, Hold, See, TypeOK
  <2>. QED  BY <1>5, <2>1, <2>2 DEF Fault
<1>6. CASE Maintain
  <2>1. ASSUME NEW S \in SUBSET Ids, NEW R \in SUBSET Ids, PurgeAcked(S, R)
        PROVE  TypeOK'
    BY <2>1 DEF PurgeAcked, TypeOK
  <2>2. ASSUME NEW S \in SUBSET Ids, CleanupDeadLetters(S) PROVE TypeOK'
    BY <2>2 DEF CleanupDeadLetters, TypeOK
  <2>3. ASSUME NEW o \in Operators, NEW i \in Ids, RequeueSelect(o, i)
        PROVE  TypeOK'
    BY <2>3 DEF RequeueSelect, TypeOK
  <2>4. ASSUME NEW o \in Operators, NEW i \in Ids, RequeueCommit(o, i)
        PROVE  TypeOK'
    <3>1. clock \in Nat /\ clock' \in 0..MaxInserts
      BY <2>4, ConstantsAssumption DEF TypeOK, RequeueCommit
    <3>2. NewRow(RequeueLimit, TRUE) \in Row
      BY <3>1, NewRowType DEF RequeueLimit
    <3>. QED  BY <2>4, <3>1, <3>2 DEF TypeOK, RequeueCommit
  <2>. QED  BY <1>6, <2>1, <2>2, <2>3, <2>4 DEF Maintain
<1>7. CASE RecoverUnacked
  <2>1. \A i \in Ids : Recovered(i) \in Row \cup {NoRow}
    <3>1. ASSUME NEW i \in Recoverable PROVE Recovered(i) \in Row
      <4>1. queue[i] \in Row /\ queue[i].retries + 1 \in Nat
        BY <3>1, QueuedRow DEF Recoverable, With, Row
      <4>. QED  BY <4>1, <3>1, UpdatedRowType DEF Recovered
    <3>. QED  BY <3>1 DEF Recovered, TypeOK
  <2>. QED  BY <1>7, <2>1 DEF RecoverUnacked, TypeOK, Exhausted, Queued
<1>8. CASE UNCHANGED vars
  BY <1>8 DEF vars, TypeOK
<1>. QED
  BY <1>1, <1>2, <1>3, <1>4, <1>5, <1>6, <1>7, <1>8
  DEF NextWithRecovery, Next

\* Every reachable state is well typed, also with recover_unacked running.
THEOREM TypeCorrect == RecoverySpec => []TypeOK
BY TypeInit, TypeStep, PTL DEF RecoverySpec

(***************************************************************************)
(* No job is lost, and nothing is acknowledged unprocessed.                *)
(***************************************************************************)
USE DEF Ended

\* The rows a transaction may remove or acknowledge without losing a job: it
\* adds no row, what it removes is dead, ended or dropped, and what it
\* acknowledges or records as consumed has ended.
TablesKept ==
    /\ job' = job
    /\ Ended \subseteq Ended' /\ dropped \subseteq dropped'
    /\ Queued' \cup dlq' \subseteq Queued \cup dlq
    /\ \A i \in Queued \cup dlq :
          i \in Queued' \cup dlq' \/ job[i] \in Ended' \cup dropped'
    /\ \A i \in With("acked")' : i \in With("acked") \/ job[i] \in Ended'
    /\ \A i \in Ids : idem'[i] # NoOne =>
          idem[i] # NoOne \/ (i \in Used /\ job[i] \in Ended')

\* What a process holds, and what it may do with it, stays justified.
HoldersKept ==
    /\ \A c \in Consumers :
          /\ cur'[c] # NoId => cur'[c] \in Used'
          /\ pc'[c] \in {"ack", "skip"} => job'[cur'[c]] \in Ended'
    /\ \A o \in Operators : asked'[o] # NoId => asked'[o] \in Used'

LEMMA KeptIntegrity ==
    ASSUME Integrity, TablesKept, HoldersKept
    PROVE  Integrity'
<1> USE DEF Used
<1>1. Lineage'
  BY DEF Integrity, Lineage, TablesKept, HoldersKept, Queued
<1>2. AckEarned'
  BY DEF HoldersKept, AckEarned
<1>3. AckedWasProcessed'
  BY DEF Integrity, TablesKept, AckedWasProcessed
<1>4. NoSilentLoss'
  <2>1. Accepted' = Accepted
    BY DEF TablesKept, Accepted
  <2>2. SUFFICES ASSUME NEW j \in Accepted, j \notin Ended' \cup dropped'
                 PROVE  \E i \in Queued' \cup dlq' : job'[i] = j
    BY <2>1 DEF NoSilentLoss
  <2>3. PICK i \in Queued \cup dlq : job[i] = j
    BY <2>2 DEF Integrity, NoSilentLoss, TablesKept
  <2>. QED  BY <2>2, <2>3 DEF TablesKept
<1>. QED  BY <1>1, <1>2, <1>3, <1>4 DEF Integrity

\* A retry buries what it removes from the queue, and acknowledges nothing.
LEMMA RetryKeepsTables ==
    ASSUME TypeOK, NEW S \in SUBSET Ids, NEW s \in [S -> Snapshot],
           queue' = RetryRows(s), dlq' = Buried(s),
           UNCHANGED <<idem, job, done, shrugged, dropped>>
    PROVE  TablesKept
<1>1. \A i \in Ids : i \in Queued' => i \in Queued
  BY DEF RetryRows, Queued
<1>2. \A i \in Queued : i \in Queued' \cup dlq'
  <2>1. SUFFICES ASSUME NEW i \in Queued, i \notin Buried(s)
                 PROVE  i \in Queued'
    OBVIOUS
  <2>2. i \in Ids /\ queue[i] \in Row  BY <2>1, QueuedRow
  <2>3. i \notin Spent(s)  BY <2>1 DEF Buried
  <2>4. i \in S => Returned(queue[i], s[i].retries + 1) # NoRow
    <3>1. i \in S => s[i].retries + 1 \in Nat  BY DEF Snapshot
    <3>. QED  BY <2>2, <3>1, UpdatedRowType, NoRowAssumption
  <2>. QED  BY <2>1, <2>2, <2>3, <2>4 DEF RetryRows, Queued
<1>3. With("acked")' \subseteq With("acked")
  <2>1. SUFFICES ASSUME NEW i \in With("acked")' PROVE i \in With("acked")
    OBVIOUS
  <2>2. i \in Queued /\ i \in Ids /\ queue'[i] # NoRow
    BY <2>1, <1>1 DEF With, Queued
  <2>3. queue[i] \in Row  BY <2>2, QueuedRow
  <2>4. Returned(queue[i], s[i].retries + 1).status = "pending"
    BY <2>3 DEF Returned, Row
  <2>. QED  BY <2>1, <2>2, <2>4 DEF RetryRows, With
<1>. QED
  BY <1>1, <1>2, <1>3 DEF TablesKept, Queued, Buried

LEMMA IntegrityInit == Init => Integrity
BY DEF Init, Integrity, Lineage, AckEarned, AckedWasProcessed, NoSilentLoss,
       Queued, Used, Accepted, With

\* The two INSERTs: row n of queue_messages is new and carries job j, which is
\* n itself or comes from the dead letter a that is removed.
LEMMA InsertIntegrity ==
    ASSUME TypeOK, Integrity, NEW n \in Ids, NEW j \in Ids,
           NEW row \in Row, NEW D, D \subseteq dlq,
           row.status = "pending",
           n \in Used => job[n] = j,
           n \in Keyed => j = n,
           \A i \in D : job[i] = j,
           j = n \/ j \in Accepted,
           queue' = [queue EXCEPT ![n] = row],
           job' = [job EXCEPT ![n] = j],
           dlq' = dlq \ D,
           UNCHANGED <<idem, done, shrugged, dropped, cur, pc>>,
           \A o \in Operators : asked'[o] \in {asked[o], NoId}
    PROVE  Integrity'
<1> USE NoRowAssumption, ConstantsAssumption
<1>1. /\ Queued' = Queued \cup {n}
      /\ \A i \in Used : job'[i] = job[i]
      /\ Used' = Used \cup {n}
      /\ job'[n] = j
      /\ \A i \in Ids \ {n} : job'[i] = job[i]
  BY DEF Queued, Used, TypeOK
<1>2. Lineage'
  BY <1>1 DEF Integrity, Lineage
<1>3. AckEarned'
  <2>1. SUFFICES ASSUME NEW c \in Consumers, pc[c] \in {"ack", "skip"}
                 PROVE  job'[cur[c]] \in Ended
    BY DEF AckEarned
  <2>2. cur[c] \in Used
    BY <2>1 DEF TypeOK, Busy, Integrity, Lineage
  <2>. QED  BY <1>1, <2>1, <2>2 DEF Integrity, AckEarned
<1>4. AckedWasProcessed'
  <2>1. SUFFICES ASSUME NEW i \in Ids, i \in With("acked")' \/ idem[i] # NoOne
                 PROVE  job'[i] \in Ended
    BY DEF AckedWasProcessed
  <2>2. i \in With("acked")' => i \in With("acked")
    BY DEF With, Queued, TypeOK
  <2>3. i \in Used
    BY <2>1, <2>2 DEF Integrity, Lineage, With
  <2>. QED  BY <1>1, <2>1, <2>2, <2>3 DEF Integrity, AckedWasProcessed
<1>5. NoSilentLoss'
  <2>1. SUFFICES ASSUME NEW k \in Accepted', k \notin Ended \cup dropped
                 PROVE  \E i \in Queued' \cup dlq' : job'[i] = k
    BY DEF NoSilentLoss
  <2>2. CASE k = j
    BY <1>1, <2>2
  <2>3. CASE k # j
    <3>1. k \in Accepted
      BY <1>1, <2>1, <2>3 DEF Accepted
    <3>2. PICK i \in Queued \cup dlq : job[i] = k
      BY <2>1, <3>1 DEF Integrity, NoSilentLoss
    <3>3. i \in Used /\ i \notin D
      BY <2>3, <3>2 DEF Integrity, Lineage
    <3>. QED  BY <1>1, <3>2, <3>3
  <2>. QED  BY <2>2, <2>3
<1>. QED  BY <1>2, <1>3, <1>4, <1>5 DEF Integrity

\* A step that leaves the tables' contents alone but for one row, which stays
\* in place and does not become acknowledged.
LEMMA RowKeepsTables ==
    ASSUME TypeOK, NEW i \in Queued, NEW row \in Row,
           row.status = "acked" => queue[i].status = "acked",
           queue' = [queue EXCEPT ![i] = row],
           UNCHANGED <<dlq, idem, job, done, shrugged, dropped>>
    PROVE  TablesKept
BY NoRowAssumption, QueuedRow DEF TablesKept, Queued, With, TypeOK

LEMMA SameKeepsTables ==
    ASSUME UNCHANGED <<queue, dlq, idem, job, dropped>>, Ended \subseteq Ended'
    PROVE  TablesKept
BY DEF TablesKept, Queued, With

\* ack: the row it acknowledges belongs to a job that has ended.
LEMMA AckKeepsTables ==
    ASSUME TypeOK, Integrity, NEW c \in Consumers, pc[c] \in {"ack", "skip"},
           queue' = Acked(cur[c]),
           \A i \in Ids : idem'[i] # idem[i] => i = cur[c],
           UNCHANGED <<dlq, job, done, shrugged, dropped>>
    PROVE  TablesKept
<1>1. job[cur[c]] \in Ended /\ cur[c] \in Used
  BY DEF Integrity, AckEarned, Lineage, TypeOK, Busy
<1>2. Queued' = Queued
  <2>1. CASE cur[c] \in With("processing")
    <3>1. cur[c] \in Queued /\ cur[c] \in Ids
      BY <2>1 DEF With, Queued
    <3>2. [queue[cur[c]] EXCEPT !.status = "acked", !.age = "fresh"] \in Row
      BY <3>1, QueuedRow, UpdatedRowType
    <3>. QED
      BY <2>1, <3>1, <3>2, NoRowAssumption DEF Acked, Queued, TypeOK
  <2>2. CASE cur[c] \notin With("processing")
    BY <2>2 DEF Acked, Queued
  <2>. QED  BY <2>1, <2>2
<1>3. \A i \in With("acked")' : i \in With("acked") \/ i = cur[c]
  BY <1>2 DEF Acked, With, TypeOK
<1>. QED  BY <1>1, <1>2, <1>3 DEF TablesKept

\* What the processes hold is theirs still when no step touches it.
LEMMA HoldersKeptBy ==
    ASSUME TypeOK, Integrity, job' = job, Ended \subseteq Ended',
           \A o \in Operators : asked'[o] \in {asked[o], NoId},
           NEW c \in Consumers,
           \A d \in Consumers \ {c} : cur'[d] = cur[d] /\ pc'[d] = pc[d],
           cur'[c] # NoId => cur'[c] \in Used,
           pc'[c] \in {"ack", "skip"} => job[cur'[c]] \in Ended'
    PROVE  HoldersKept
<1>1. \A d \in Consumers : cur'[d] # NoId => cur'[d] \in Used
  BY DEF Integrity, Lineage
<1>2. \A d \in Consumers : pc'[d] \in {"ack", "skip"} => job[cur'[d]] \in Ended'
  BY DEF Integrity, AckEarned
<1>3. Used' = Used
  BY DEF Used
<1>. QED  BY <1>1, <1>2, <1>3 DEF HoldersKept, Integrity, Lineage

LEMMA HoldersKeptSame ==
    ASSUME TypeOK, Integrity, UNCHANGED <<job, done, shrugged, cur, pc, asked>>
    PROVE  HoldersKept
BY DEF HoldersKept, Integrity, Lineage, AckEarned, Used

LEMMA IntegrityConsume ==
    ASSUME TypeOK, Integrity, NEW c \in Consumers, Consume(c)
    PROVE  Integrity'
<1> USE DEF db, local, history, Goto, Hold, See
<1>0. DOMAIN pc = Consumers /\ DOMAIN cur = Consumers
      /\ (cur[c] # NoId => cur[c] \in Used)
      /\ NoId \notin Used
  BY ConstantsAssumption DEF TypeOK, Integrity, Lineage, Used
<1>1. CASE ReclaimSelect(c)
  BY <1>0, <1>1, SameKeepsTables, HoldersKeptBy, KeptIntegrity
  DEF ReclaimSelect, TypeOK
<1>2. CASE ReclaimCommit(c)
  <2>1. PICK S \in SUBSET Ids : seen[c] \in [S -> Snapshot]
    BY DEF TypeOK
  <2>2. TablesKept
    BY <1>2, <2>1, RetryKeepsTables DEF ReclaimCommit
  <2>. QED
    BY <1>0, <1>2, <2>2, HoldersKeptBy, KeptIntegrity
    DEF ReclaimCommit, TypeOK
<1>3. CASE SelectNext(c)
  <2>1. TablesKept  BY <1>3, SameKeepsTables DEF SelectNext
  <2>2. cur'[c] # NoId => cur'[c] \in Used
    BY <1>0, <1>3 DEF SelectNext, Ready, With, Integrity, Lineage
  <2>3. \A d \in Consumers \ {c} : cur'[d] = cur[d] /\ pc'[d] = pc[d]
    BY <1>0, <1>3 DEF SelectNext, TypeOK
  <2>4. pc'[c] \notin {"ack", "skip"}
    BY <1>0, <1>3 DEF SelectNext, TypeOK
  <2>. QED
    BY <1>3, <2>1, <2>2, <2>3, <2>4, HoldersKeptBy, KeptIntegrity
    DEF SelectNext
<1>4. CASE Claim(c)
  <2>1. TablesKept
    <3>1. CASE cur[c] \in With("pending")
      <4>1. cur[c] \in Queued /\ GroupOf[c] \in Groups \cup {NoGroup}
        BY <3>1, ConstantsAssumption DEF With
      <4>2. /\ Taken(queue[cur[c]], GroupOf[c]) \in Row
            /\ Taken(queue[cur[c]], GroupOf[c]).status = "processing"
        BY <4>1, QueuedRow, UpdatedRowType, ZenonT(60) DEF Taken, Row
      <4>. QED  BY <1>4, <3>1, <4>1, <4>2, RowKeepsTables DEF Claim
    <3>2. CASE cur[c] \notin With("pending")
      BY <1>4, <3>2, SameKeepsTables DEF Claim
    <3>. QED  BY <3>1, <3>2
  <2>. QED
    BY <1>0, <1>4, <2>1, HoldersKeptBy, KeptIntegrity DEF Claim
<1>5. CASE CheckIdempotent(c)
  <2>1. Repeats(c) => job[cur[c]] \in Ended
    <3>1. cur[c] \in Ids  BY <1>5 DEF CheckIdempotent, TypeOK, Busy
    <3>. QED
      BY <3>1, ConstantsAssumption
      DEF Repeats, Integrity, AckedWasProcessed
  <2>. QED
    BY <1>0, <1>5, <2>1, SameKeepsTables, HoldersKeptBy, KeptIntegrity
    DEF CheckIdempotent
<1>6. CASE AckSkipped(c)
  BY <1>0, <1>6, AckKeepsTables, HoldersKeptBy, KeptIntegrity DEF AckSkipped
<1>7. CASE HandlerSucceeds(c)
  BY <1>0, <1>7, SameKeepsTables, HoldersKeptBy, KeptIntegrity
  DEF HandlerSucceeds
<1>8. CASE HandlerFails(c)
  BY <1>0, <1>8, SameKeepsTables, HoldersKeptBy, KeptIntegrity
  DEF HandlerFails
<1>8a. CASE FailureReturned(c)
  BY <1>0, <1>8a, SameKeepsTables, HoldersKeptBy, KeptIntegrity
  DEF FailureReturned
<1>9. CASE Ack(c)
  <2>1. \A i \in Ids : idem'[i] # idem[i] => i = cur[c]
    BY <1>9 DEF Ack, TypeOK
  <2>. QED
    BY <1>0, <1>9, <2>1, AckKeepsTables, HoldersKeptBy, KeptIntegrity DEF Ack
<1>10. CASE NackSelect(c)
  BY <1>0, <1>10, SameKeepsTables, HoldersKeptBy, KeptIntegrity
  DEF NackSelect
<1>11. CASE NackCommit(c)
  <2>1. PICK S \in SUBSET Ids : seen[c] \in [S -> Snapshot]
    BY DEF TypeOK
  <2>2. TablesKept
    BY <1>11, <2>1, RetryKeepsTables DEF NackCommit
  <2>. QED
    BY <1>0, <1>11, <2>2, HoldersKeptBy, KeptIntegrity DEF NackCommit
<1>. QED
  BY <1>1, <1>2, <1>3, <1>4, <1>5, <1>6, <1>7, <1>8, <1>9, <1>10, <1>11,
     <1>8a
  DEF Consume

LEMMA IntegrityStep ==
    TypeOK /\ Integrity /\ [NextWithRecovery]_vars => Integrity'
<1> SUFFICES ASSUME TypeOK, Integrity, [NextWithRecovery]_vars
             PROVE  Integrity'
  OBVIOUS
<1> USE DEF db, local, history
<1>1. CASE Time
  <2>1. ASSUME NEW i \in Queued, NEW row \in Row,
               row.status = queue[i].status,
               queue' = [queue EXCEPT ![i] = row],
               UNCHANGED <<dlq, idem, job, done, shrugged, dropped, cur, pc, asked>>
        PROVE  Integrity'
    BY <2>1, RowKeepsTables, HoldersKeptSame, KeptIntegrity
  <2>2. ASSUME NEW i \in Ids, Overdue(i) \/ Stale(i) \/ Appear(i)
        PROVE  Integrity'
    <3>1. i \in Queued /\ queue[i] \in Row
      BY <2>2, QueuedRow DEF Overdue, Stale, Appear, With
    <3>2. \A a \in Age : /\ [queue[i] EXCEPT !.age = a] \in Row
                         /\ [queue[i] EXCEPT !.age = a].status
                               = queue[i].status
      BY <3>1, UpdatedRowType DEF Row
    <3>3. /\ [queue[i] EXCEPT !.visible = TRUE] \in Row
          /\ [queue[i] EXCEPT !.visible = TRUE].status = queue[i].status
      BY <3>1, UpdatedRowType DEF Row
    <3>4. "overdue" \in Age /\ "stale" \in Age  BY DEF Age
    <3>. QED
      BY <2>1, <2>2, <3>1, <3>2, <3>3, <3>4 DEF Overdue, Stale, Appear
  <2>. QED  BY <1>1, <2>2 DEF Time
<1>2. CASE Produce
  <2>1. ASSUME NEW i \in Ids, NEW l \in RetryLimits, NEW v \in BOOLEAN,
               Enqueue(i, l, v)
        PROVE  Integrity'
    <3>1. NewRow(l, v) \in Row /\ NewRow(l, v).status = "pending"
      <4>1. clock \in Nat /\ l \in Nat
        BY ConstantsAssumption DEF TypeOK
      <4>. QED  BY <4>1, NewRowType DEF NewRow
    <3>2. i \in Used => job[i] = i
      BY <2>1 DEF Enqueue, Integrity, Lineage
    <3>3. /\ {} \subseteq dlq /\ dlq' = dlq \ {}
          /\ \A o \in Operators : asked'[o] \in {asked[o], NoId}
      BY <2>1 DEF Enqueue
    <3>4. /\ queue' = [queue EXCEPT ![i] = NewRow(l, v)]
          /\ job' = [job EXCEPT ![i] = i]
          /\ UNCHANGED <<idem, done, shrugged, dropped, cur, pc>>
      BY <2>1 DEF Enqueue
    <3> DEFINE D == {}
               row == NewRow(l, v)
    <3>5. /\ D \subseteq dlq /\ dlq' = dlq \ D /\ \A k \in D : job[k] = i
          /\ row \in Row /\ row.status = "pending"
          /\ queue' = [queue EXCEPT ![i] = row]
      BY <3>1, <3>3, <3>4
    <3> HIDE DEF D, row
    <3>. QED
      BY <3>2, <3>3, <3>4, <3>5, InsertIntegrity
  <2>. QED  BY <1>2, <2>1 DEF Produce
<1>3. ASSUME NEW c \in Consumers, Consume(c) PROVE Integrity'
  BY <1>3, IntegrityConsume
<1>4. ASSUME NEW c \in Consumers, Restart(c) PROVE Integrity'
  BY <1>4, SameKeepsTables, HoldersKeptBy, KeptIntegrity
  DEF Restart, Goto, TypeOK, Integrity, Lineage, Busy
<1>5. CASE Fault
  <2>1. ASSUME NEW c \in Consumers, Crash(c) PROVE Integrity'
    BY <2>1, SameKeepsTables, HoldersKeptBy, KeptIntegrity
    DEF Crash, Goto, Hold, See, TypeOK
  <2>2. ASSUME NEW c \in Consumers, DbError(c) PROVE Integrity'
    <3>1. AfterError(pc[c]) \notin {"ack", "skip"}
      BY DEF AfterError
    <3>2. cur'[c] # NoId => cur'[c] \in Used
      BY <2>2 DEF DbError, Hold, TypeOK, Integrity, Lineage
    <3>3. \A d \in Consumers \ {c} : cur'[d] = cur[d] /\ pc'[d] = pc[d]
      BY <2>2 DEF DbError, Hold, Goto, TypeOK
    <3>4. pc'[c] \notin {"ack", "skip"}
      BY <2>2, <3>1 DEF DbError, Goto, TypeOK
    <3>. QED
      BY <2>2, <3>2, <3>3, <3>4, SameKeepsTables, HoldersKeptBy, KeptIntegrity
      DEF DbError
  <2>. QED  BY <1>5, <2>1, <2>2 DEF Fault
<1>6. CASE Maintain
  <2>1. ASSUME NEW S \in SUBSET Ids, NEW R \in SUBSET Ids, PurgeAcked(S, R)
        PROVE  Integrity'
    <3>1. \A i \in S : job[i] \in Ended
      BY <2>1 DEF PurgeAcked, Integrity, AckedWasProcessed
    <3>2. TablesKept
      BY <2>1, <3>1 DEF PurgeAcked, TablesKept, Queued, With, TypeOK
    <3>. QED
      BY <2>1, <3>2, HoldersKeptSame, KeptIntegrity DEF PurgeAcked
  <2>2. ASSUME NEW S \in SUBSET Ids, CleanupDeadLetters(S) PROVE Integrity'
    <3>1. TablesKept
      BY <2>2 DEF CleanupDeadLetters, TablesKept, Queued, With
    <3>. QED
      BY <2>2, <3>1, HoldersKeptSame, KeptIntegrity DEF CleanupDeadLetters
  <2>3. ASSUME NEW o \in Operators, NEW i \in Ids, RequeueSelect(o, i)
        PROVE  Integrity'
    <3>1. TablesKept
      BY <2>3, SameKeepsTables DEF RequeueSelect
    <3>2. HoldersKept
      BY <2>3 DEF RequeueSelect, HoldersKept, Integrity, Lineage, AckEarned,
                  Used, TypeOK
    <3>. QED  BY <3>1, <3>2, KeptIntegrity
  <2>4. ASSUME NEW o \in Operators, NEW n \in Ids, RequeueCommit(o, n)
        PROVE  Integrity'
    <3> DEFINE a == asked[o]
    <3>1. a \in Used /\ a \in Ids /\ job[a] \in Ids /\ job[a] \in Accepted
      BY <2>4 DEF RequeueCommit, Integrity, Lineage, Used, Accepted, TypeOK
    <3>2. /\ NewRow(RequeueLimit, TRUE) \in Row
          /\ NewRow(RequeueLimit, TRUE).status = "pending"
      <4>1. clock \in Nat  BY ConstantsAssumption DEF TypeOK
      <4>. QED  BY <4>1, NewRowType DEF NewRow, RequeueLimit
    <3>3. n \notin Used /\ n \notin Keyed
      BY <2>4 DEF RequeueCommit
    <3>4. dlq' = dlq \ (dlq \cap {a})
      BY <2>4 DEF RequeueCommit
    <3>5. \A p \in Operators : asked'[p] \in {asked[p], NoId}
      BY <2>4 DEF RequeueCommit, TypeOK
    <3>6. /\ queue' = [queue EXCEPT ![n] = NewRow(RequeueLimit, TRUE)]
          /\ job' = [job EXCEPT ![n] = job[a]]
          /\ UNCHANGED <<idem, done, shrugged, dropped, cur, pc>>
      BY <2>4 DEF RequeueCommit
    <3>7. /\ dlq \cap {a} \subseteq dlq
          /\ \A i \in dlq \cap {a} : job[i] = job[a]
      OBVIOUS
    <3> HIDE DEF a
    <3>. QED
      BY <3>1, <3>2, <3>3, <3>4, <3>5, <3>6, <3>7, InsertIntegrity
  <2>. QED  BY <1>6, <2>1, <2>2, <2>3, <2>4 DEF Maintain
<1>7. CASE RecoverUnacked
  <2>1. \A i \in Queued : Recovered(i) \in Row
                           /\ (Recovered(i).status = "acked"
                                 => queue[i].status = "acked")
    <3>1. ASSUME NEW i \in Queued PROVE queue[i] \in Row
                                       /\ queue[i].retries + 1 \in Nat
      BY <3>1, QueuedRow DEF Row
    <3>. QED  BY <3>1, UpdatedRowType, ZenonT(60) DEF Recovered, Returned, Row
  <2>2. \A i \in Ids \ Queued : Recovered(i) = NoRow
    BY DEF Recovered, Recoverable, With, Queued
  <2>3. TablesKept
    BY <1>7, <2>1, <2>2, NoRowAssumption
    DEF RecoverUnacked, TablesKept, Queued, With, Exhausted, TypeOK
  <2>. QED
    BY <1>7, <2>3, HoldersKeptSame, KeptIntegrity DEF RecoverUnacked
<1>8. CASE UNCHANGED vars
  BY <1>8, SameKeepsTables, HoldersKeptSame, KeptIntegrity DEF vars
<1>. QED
  BY <1>1, <1>2, <1>3, <1>4, <1>5, <1>6, <1>7, <1>8
  DEF NextWithRecovery, Next

\* No accepted job is lost in silence, whatever the consumers, their faults,
\* the operators and the maintenance jobs do, recover_unacked included, but for
\* a failure that queue_worker returned from.
THEOREM JobsAreNotLost == RecoverySpec => []NoSilentLoss
<1>1. Init => TypeOK /\ Integrity
  BY TypeInit, IntegrityInit
<1>2. TypeOK /\ Integrity /\ [NextWithRecovery]_vars => (TypeOK /\ Integrity)'
  BY TypeStep, IntegrityStep
<1>3. TypeOK /\ Integrity => NoSilentLoss
  BY DEF Integrity
<1>. QED  BY <1>1, <1>2, <1>3, PTL DEF RecoverySpec

\* A message is acknowledged, or recorded as consumed, only once its job has
\* been completed, although ack never checks who holds the message; again but
\* for a failure that queue_worker returned from.
THEOREM AcksAreEarned == RecoverySpec => []AckedWasProcessed
<1>1. Init => TypeOK /\ Integrity
  BY TypeInit, IntegrityInit
<1>2. TypeOK /\ Integrity /\ [NextWithRecovery]_vars => (TypeOK /\ Integrity)'
  BY TypeStep, IntegrityStep
<1>3. TypeOK /\ Integrity => AckedWasProcessed
  BY DEF Integrity
<1>. QED  BY <1>1, <1>2, <1>3, PTL DEF RecoverySpec

\* Only a queue worker returns from a failure.
LEMMA ShruggedStep ==
    ASSUME QueueWorkers = {}
    PROVE  shrugged = {} /\ [NextWithRecovery]_vars => shrugged' = {}
<1> SUFFICES ASSUME [NextWithRecovery]_vars PROVE shrugged' = shrugged
  OBVIOUS
<1> USE DEF history
<1>1. ASSUME NEW c \in Consumers, Consume(c) PROVE shrugged' = shrugged
  BY <1>1
  DEF Consume, ReclaimSelect, ReclaimCommit, SelectNext, Claim, CheckIdempotent, AckSkipped,
      HandlerSucceeds, HandlerFails, FailureReturned, Ack, NackSelect, NackCommit
<1>2. CASE Time \/ Produce
  BY <1>2 DEF Time, Overdue, Stale, Appear, Produce, Enqueue
<1>3. CASE Maintain \/ RecoverUnacked
  BY <1>3
  DEF Maintain, PurgeAcked, CleanupDeadLetters, RequeueSelect, RequeueCommit, RecoverUnacked
<1>4. ASSUME NEW c \in Consumers, Crash(c) \/ DbError(c) \/ Restart(c)
      PROVE  shrugged' = shrugged
  BY <1>4 DEF Crash, DbError, Restart
<1>5. CASE UNCHANGED vars
  BY <1>5 DEF vars
<1>. QED  BY <1>1, <1>2, <1>3, <1>4, <1>5 DEF NextWithRecovery, Next, Fault

\* Where agent_executor consumes, nothing is excepted: a job that is neither in
\* the queue nor dead nor cleaned up was completed by a handler, and so was the
\* job of each message that is acknowledged or recorded as consumed.
THEOREM AgentJobsAreKept ==
    ASSUME QueueWorkers = {}
    PROVE  RecoverySpec => [](/\ NoSilentLoss /\ AckedWasProcessed
                              /\ Ended = done)
<1>1. Init => TypeOK /\ Integrity /\ shrugged = {}
  BY TypeInit, IntegrityInit DEF Init
<1>2. TypeOK /\ Integrity /\ shrugged = {} /\ [NextWithRecovery]_vars
        => (TypeOK /\ Integrity /\ shrugged = {})'
  BY TypeStep, IntegrityStep, ShruggedStep
<1>3. Integrity /\ shrugged = {}
        => NoSilentLoss /\ AckedWasProcessed /\ Ended = done
  BY DEF Integrity
<1>. QED  BY <1>1, <1>2, <1>3, PTL DEF RecoverySpec

(***************************************************************************)
(* A message within its timeout has one holder.                            *)
(***************************************************************************)
LEMMA ExclusiveInit == Init => Exclusive
BY DEF Init, Exclusive, Owned, SoleHolder, Holders, With, Queued

\* A step that takes no new message keeps Exclusive when it leaves the rows of
\* the messages that are held alone.
LEMMA ExclusiveKept ==
    ASSUME Exclusive, overran \subseteq overran',
           \A i \in Ids \ overran' :
              /\ i \in With("processing")' => /\ i \in With("processing")
                                             /\ queue'[i].age = queue[i].age
              /\ Holders(i)' \subseteq Holders(i)
              /\ Holders(i)' # {} => i \in With("processing")',
           \A c \in Consumers :
              /\ pc'[c] = "reclaim" => DOMAIN seen'[c] \subseteq overran'
              /\ pc'[c] = "renew" => DOMAIN seen'[c] = {cur'[c]}
    PROVE  Exclusive'
<1>1. Owned'
  BY DEF Exclusive, Owned
<1>2. SoleHolder'
  BY DEF Exclusive, SoleHolder
<1>. QED  BY <1>1, <1>2 DEF Exclusive

\* The same for a step that leaves the consumers alone.
LEMMA ExclusiveKeptIdle ==
    ASSUME Exclusive, overran \subseteq overran', UNCHANGED <<pc, cur, seen>>,
           \A i \in Ids \ overran' :
              /\ i \in With("processing")' <=> i \in With("processing")
              /\ i \in With("processing") => queue'[i].age = queue[i].age
    PROVE  Exclusive'
<1>1. \A i \in Ids : Holders(i)' = Holders(i)
  BY DEF Holders
<1>2. \A i \in Ids \ overran' : Holders(i) # {} => i \in With("processing")
  BY DEF Exclusive, Owned
<1>3. \A c \in Consumers :
         /\ pc[c] = "reclaim" => DOMAIN seen[c] \subseteq overran'
         /\ pc[c] = "renew" => DOMAIN seen[c] = {cur[c]}
  BY DEF Exclusive, Owned
<1>. QED  BY <1>1, <1>2, <1>3, ExclusiveKept

\* And for one in which consumer c lets go of its message or keeps it, the
\* rows outside R being left alone.
LEMMA ExclusiveKeptBy ==
    ASSUME TypeOK, Exclusive, NEW c \in Consumers, UNCHANGED overran,
           \A d \in Consumers \ {c} :
              cur'[d] = cur[d] /\ pc'[d] = pc[d] /\ seen'[d] = seen[d],
           NEW R, R \subseteq overran \cup {cur[c]},
           \A i \in Ids \ R : queue'[i] = queue[i],
           \A i \in R : i \notin With("processing")' \/ i \in overran,
           R \subseteq overran \/ pc'[c] = "poll",
           pc'[c] \in {"check", "skip", "work", "ack", "nack", "renew"} =>
              /\ pc[c] \in {"check", "skip", "work", "ack", "nack", "renew"}
              /\ cur'[c] = cur[c],
           pc[c] = "poll" \/ pc[c] = "select" \/ pc[c] = "claim"
              \/ pc[c] = "down" \/ pc[c] = "reclaim" => R \subseteq overran,
           pc'[c] = "reclaim" => DOMAIN seen'[c] \subseteq overran,
           pc'[c] = "renew" => DOMAIN seen'[c] = {cur'[c]}
    PROVE  Exclusive'
<1> DEFINE Holding == {"check", "skip", "work", "ack", "nack", "renew"}
<1>1. \A i \in Ids : Holders(i)' \subseteq Holders(i)
  BY DEF Holders
<1>2. ASSUME NEW i \in Ids \ overran, i \in R
      PROVE  Holders(i)' = {}
  <2>1. i = cur[c] /\ pc'[c] = "poll" /\ c \notin Holders(i)'
    BY <1>2 DEF Holders
  <2>2. pc[c] \in Holding
    BY <1>2 DEF TypeOK, PCs
  <2>3. c \in Holders(i)
    BY <2>1, <2>2 DEF Holders
  <2>. QED  BY <1>1, <1>2, <2>1, <2>3 DEF Exclusive, SoleHolder
<1>3. ASSUME NEW i \in Ids \ overran
      PROVE  /\ i \in With("processing")' => /\ i \in With("processing")
                                            /\ queue'[i].age = queue[i].age
             /\ Holders(i)' # {} => i \in With("processing")'
  <2>1. CASE i \in R
    BY <1>2, <1>3, <2>1
  <2>2. CASE i \notin R
    <3>1. queue'[i] = queue[i]
      BY <2>2
    <3>2. i \in With("processing")' <=> i \in With("processing")
      BY <3>1 DEF With, Queued
    <3>. QED  BY <1>1, <3>1, <3>2 DEF Exclusive, Owned
  <2>. QED  BY <2>1, <2>2
<1>4. \A d \in Consumers :
         /\ pc'[d] = "reclaim" => DOMAIN seen'[d] \subseteq overran
         /\ pc'[d] = "renew" => DOMAIN seen'[d] = {cur'[d]}
  BY DEF Exclusive, Owned
<1>. QED  BY <1>1, <1>3, <1>4, ExclusiveKept

\* c is finished with the message it holds, and its row is not in processing.
LEMMA ExclusiveReleased ==
    ASSUME TypeOK, Exclusive, NEW c \in Consumers, UNCHANGED overran,
           \A d \in Consumers \ {c} :
              cur'[d] = cur[d] /\ pc'[d] = pc[d] /\ seen'[d] = seen[d],
           \A i \in Ids \ {cur[c]} : queue'[i] = queue[i],
           cur[c] \notin With("processing")',
           pc'[c] = "poll",
           pc[c] \in {"skip", "ack", "renew"}
    PROVE  Exclusive'
<1> DEFINE R == {cur[c]}
<1>1. R \subseteq overran \cup {cur[c]}
  OBVIOUS
<1>2. \A i \in Ids \ R : queue'[i] = queue[i]
  OBVIOUS
<1>3. \A i \in R : i \notin With("processing")' \/ i \in overran
  OBVIOUS
<1> HIDE DEF R
<1>. QED  BY <1>1, <1>2, <1>3, ExclusiveKeptBy

LEMMA ExclusiveConsume ==
    ASSUME TypeOK, Exclusive, NEW c \in Consumers, Consume(c)
    PROVE  Exclusive'
<1> USE DEF db, local, history, Goto, Hold, See
<1>0. DOMAIN pc = Consumers /\ DOMAIN cur = Consumers /\ DOMAIN seen = Consumers
  BY DEF TypeOK
<1>1. CASE ReclaimSelect(c)
  <2>1. TimedOutFor(c) \subseteq overran
    BY DEF TimedOutFor, With, Queued, Exclusive, Owned
  <2>2. /\ \A d \in Consumers \ {c} :
              cur'[d] = cur[d] /\ pc'[d] = pc[d] /\ seen'[d] = seen[d]
        /\ pc'[c] \in {"select", "reclaim"}
        /\ DOMAIN seen'[c] = TimedOutFor(c)
        /\ UNCHANGED <<queue, overran>>
    BY <1>0, <1>1 DEF ReclaimSelect, SnapshotOf
  <2>. QED
    BY <2>1, <2>2, ExclusiveKeptBy
<1>2. CASE ReclaimCommit(c)
  <2>1. PICK S \in SUBSET Ids : seen[c] \in [S -> Snapshot]
    BY DEF TypeOK
  <2>2. S \subseteq overran
    BY <1>2, <2>1 DEF ReclaimCommit, Exclusive, Owned
  <2>3. /\ \A d \in Consumers \ {c} :
              cur'[d] = cur[d] /\ pc'[d] = pc[d] /\ seen'[d] = seen[d]
        /\ pc'[c] = "select"
        /\ UNCHANGED overran
    BY <1>0, <1>2 DEF ReclaimCommit
  <2>4. \A i \in Ids \ S : queue'[i] = queue[i]
    BY <1>2, <2>1, RetryRowsType DEF ReclaimCommit
  <2>. QED
    BY <2>2, <2>3, <2>4, ExclusiveKeptBy
<1>3. CASE SelectNext(c)
  <2>1. /\ \A d \in Consumers \ {c} :
              cur'[d] = cur[d] /\ pc'[d] = pc[d] /\ seen'[d] = seen[d]
        /\ pc'[c] \in {"poll", "claim"}
        /\ UNCHANGED <<queue, overran>>
    BY <1>0, <1>3 DEF SelectNext
  <2>. QED
    BY <2>1, ExclusiveKeptBy
<1>4. CASE Claim(c)
  <2>1. CASE cur[c] \in With("pending")
    <3> DEFINE m == cur[c]
    <3>1. /\ m \in Queued /\ m \in Ids
          /\ m \notin With("processing")
          /\ m \notin overran => Holders(m) = {}
      BY <2>1 DEF With, Queued, Exclusive, Owned
    <3>2. /\ queue'[m].status = "processing"
          /\ queue'[m].age = "fresh"
          /\ queue'[m] # NoRow
          /\ \A i \in Ids \ {m} : queue'[i] = queue[i]
      <4>1. queue[m] \in Row /\ GroupOf[c] \in Groups \cup {NoGroup}
        BY <3>1, QueuedRow, ConstantsAssumption
      <4>2. /\ Taken(queue[m], GroupOf[c]) \in Row
            /\ Taken(queue[m], GroupOf[c]).status = "processing"
            /\ Taken(queue[m], GroupOf[c]).age = "fresh"
        BY <4>1, UpdatedRowType DEF Taken, Row
      <4>. QED
        BY <1>4, <2>1, <3>1, <4>2, NoRowAssumption DEF Claim, TypeOK
    <3>3. /\ pc' = [pc EXCEPT ![c] = "check"]
          /\ UNCHANGED <<cur, seen, overran>>
      BY <1>4, <2>1 DEF Claim
    <3>4. /\ Holders(m)' = Holders(m) \cup {c}
          /\ \A i \in Ids \ {m} : Holders(i)' = Holders(i)
      BY <1>0, <1>4, <3>3 DEF Holders, Claim
    <3>5. ASSUME NEW i \in Ids \ {m}
          PROVE  i \in With("processing")' <=> i \in With("processing")
      BY <3>2, <3>5 DEF With, Queued
    <3>6. m \in With("processing")'
      BY <3>1, <3>2 DEF With, Queued
    <3>7. Owned'
      <4>1. ASSUME NEW i \in Ids \ overran
            PROVE  /\ i \in With("processing")' => queue'[i].age = "fresh"
                   /\ Holders(i)' # {} => i \in With("processing")'
        BY <3>2, <3>4, <3>5, <3>6, <4>1 DEF Exclusive, Owned
      <4>2. ASSUME NEW d \in Consumers
            PROVE  /\ pc'[d] = "reclaim" => DOMAIN seen[d] \subseteq overran
                   /\ pc'[d] = "renew" => DOMAIN seen[d] = {cur[d]}
        BY <1>0, <3>3 DEF Exclusive, Owned
      <4>. QED  BY <3>3, <4>1, <4>2 DEF Owned
    <3>8. SoleHolder'
      BY <3>1, <3>3, <3>4 DEF Exclusive, SoleHolder
    <3>. QED  BY <3>7, <3>8 DEF Exclusive
  <2>2. CASE cur[c] \notin With("pending")
    <3>1. /\ \A d \in Consumers \ {c} :
                cur'[d] = cur[d] /\ pc'[d] = pc[d] /\ seen'[d] = seen[d]
          /\ pc'[c] = "poll"
          /\ UNCHANGED <<queue, overran>>
      BY <1>0, <1>4, <2>2 DEF Claim
    <3>. QED
      BY <3>1, ExclusiveKeptBy
  <2>. QED  BY <2>1, <2>2
<1>5. ASSUME pc[c] \in {"check", "work"},
             UNCHANGED <<queue, overran, cur, seen>>,
             NEW place \in {"skip", "work", "ack", "nack"},
             pc' = [pc EXCEPT ![c] = place]
      PROVE  Exclusive'
  <2>1. /\ \A d \in Consumers \ {c} :
              cur'[d] = cur[d] /\ pc'[d] = pc[d] /\ seen'[d] = seen[d]
        /\ pc'[c] = place /\ cur'[c] = cur[c]
    BY <1>0, <1>5
  <2>. QED
    BY <1>5, <2>1, ExclusiveKeptBy
<1>6. CASE \/ CheckIdempotent(c) \/ HandlerSucceeds(c)
           \/ HandlerFails(c) \/ FailureReturned(c)
  BY <1>5, <1>6 DEF CheckIdempotent, HandlerSucceeds, HandlerFails, FailureReturned
<1>7. CASE AckSkipped(c) \/ Ack(c)
  <2>1. /\ \A d \in Consumers \ {c} :
              cur'[d] = cur[d] /\ pc'[d] = pc[d] /\ seen'[d] = seen[d]
        /\ pc'[c] = "poll"
        /\ queue' = Acked(cur[c])
        /\ pc[c] \in {"skip", "ack"}
        /\ UNCHANGED overran
    BY <1>0, <1>7 DEF AckSkipped, Ack
  <2>2. /\ \A i \in Ids \ {cur[c]} : queue'[i] = queue[i]
        /\ cur[c] \notin With("processing")'
    <3>1. CASE cur[c] \in With("processing")
      <4>1. cur[c] \in Queued /\ cur[c] \in Ids /\ queue[cur[c]] \in Row
        BY <3>1, QueuedRow DEF With, Queued
      <4>2. [queue[cur[c]] EXCEPT !.status = "acked", !.age = "fresh"].status
              = "acked"
        BY <4>1 DEF Row
      <4>. QED
        BY <2>1, <3>1, <4>1, <4>2 DEF Acked, With, TypeOK
    <3>2. CASE cur[c] \notin With("processing")
      BY <2>1, <3>2 DEF Acked, With, Queued
    <3>. QED  BY <3>1, <3>2
  <2>. QED
    BY <2>1, <2>2, ExclusiveReleased
<1>8. CASE NackSelect(c)
  <2>1. /\ \A d \in Consumers \ {c} :
              cur'[d] = cur[d] /\ pc'[d] = pc[d] /\ seen'[d] = seen[d]
        /\ \/ pc'[c] = "poll"
           \/ pc'[c] = "renew" /\ cur'[c] = cur[c]
              /\ DOMAIN seen'[c] = {cur[c]}
        /\ pc[c] = "nack"
        /\ UNCHANGED <<queue, overran>>
    BY <1>0, <1>8 DEF NackSelect, SnapshotOf
  <2>. QED
    BY <2>1, ExclusiveKeptBy
<1>9. CASE NackCommit(c)
  <2>1. PICK S \in SUBSET Ids : seen[c] \in [S -> Snapshot]
    BY DEF TypeOK
  <2>2. S = {cur[c]}
    BY <1>9, <2>1 DEF NackCommit, Exclusive, Owned
  <2>3. /\ \A d \in Consumers \ {c} :
              cur'[d] = cur[d] /\ pc'[d] = pc[d] /\ seen'[d] = seen[d]
        /\ pc'[c] = "poll" /\ pc[c] = "renew"
        /\ UNCHANGED overran
    BY <1>0, <1>9 DEF NackCommit
  <2>4. \A i \in Ids \ {cur[c]} : queue'[i] = queue[i]
    BY <1>9, <2>1, <2>2, RetryRowsType, SMTT(30) DEF NackCommit
  <2>5. cur[c] \notin With("processing")'
    <3>1. SUFFICES ASSUME cur[c] \in Ids, queue[cur[c]] # NoRow,
                          cur[c] \notin Spent(seen[c])
                   PROVE  RetryRows(seen[c])[cur[c]].status = "pending"
      BY <1>9, <2>1, <2>2 DEF NackCommit, RetryRows, With, Queued
    <3>2. Returned(queue[cur[c]], seen[c][cur[c]].retries + 1).status
            = "pending"
      BY <3>1, QueuedRow DEF Returned, Row, Queued
    <3>. QED  BY <2>1, <2>2, <3>1, <3>2 DEF RetryRows
  <2>. QED
    BY <2>3, <2>4, <2>5, ExclusiveReleased
<1>. QED
  BY <1>1, <1>2, <1>3, <1>4, <1>6, <1>7, <1>8, <1>9 DEF Consume

LEMMA ExclusiveStep ==
    TypeOK /\ Integrity /\ Exclusive /\ [NextWithRecovery]_vars => Exclusive'
<1> SUFFICES ASSUME TypeOK, Integrity, Exclusive, [NextWithRecovery]_vars
             PROVE  Exclusive'
  OBVIOUS
<1> USE DEF db, local, history
<1>0. /\ DOMAIN pc = Consumers /\ DOMAIN cur = Consumers
      /\ DOMAIN seen = Consumers
  BY DEF TypeOK
<1>1. CASE Time
  <2>1. ASSUME NEW i \in Ids, Overdue(i) \/ Stale(i) \/ Appear(i)
        PROVE  Exclusive'
    <3>1. i \in Queued /\ queue[i] \in Row
      BY <2>1, QueuedRow DEF Overdue, Stale, Appear, With
    <3>2. PICK row \in Row : /\ queue' = [queue EXCEPT ![i] = row]
                             /\ row.status = queue[i].status
                             /\ row.age = queue[i].age \/ i \in overran'
      <4>1. CASE Overdue(i)
        <5>1. /\ [queue[i] EXCEPT !.age = "overdue"] \in Row
              /\ [queue[i] EXCEPT !.age = "overdue"].status = queue[i].status
          BY <3>1, UpdatedRowType DEF Row, Age
        <5>. QED  BY <4>1, <5>1 DEF Overdue
      <4>2. CASE Stale(i)
        <5>1. /\ [queue[i] EXCEPT !.age = "stale"] \in Row
              /\ [queue[i] EXCEPT !.age = "stale"].status = queue[i].status
          BY <3>1, UpdatedRowType DEF Row, Age
        <5>2. i \in overran'
          BY <4>2 DEF Stale, Exclusive, Owned
        <5>. QED  BY <4>2, <5>1, <5>2 DEF Stale
      <4>3. CASE Appear(i)
        <5>1. /\ [queue[i] EXCEPT !.visible = TRUE] \in Row
              /\ [queue[i] EXCEPT !.visible = TRUE].status = queue[i].status
              /\ [queue[i] EXCEPT !.visible = TRUE].age = queue[i].age
          BY <3>1, UpdatedRowType DEF Row
        <5>. QED  BY <4>3, <5>1 DEF Appear
      <4>. QED  BY <2>1, <4>1, <4>2, <4>3
    <3>3. /\ overran \subseteq overran'
          /\ UNCHANGED <<pc, cur, seen>>
      BY <2>1 DEF Overdue, Stale, Appear
    <3>4. \A k \in Ids \ overran' :
             /\ k \in With("processing")' <=> k \in With("processing")
             /\ k \in With("processing") => queue'[k].age = queue[k].age
      BY <3>1, <3>2, NoRowAssumption DEF With, Queued, TypeOK
    <3>. QED  BY <3>3, <3>4, ExclusiveKeptIdle
  <2>. QED  BY <1>1, <2>1 DEF Time
<1>2. ASSUME NEW n \in Ids, n \notin Queued, NEW row \in Row,
             row.status = "pending",
             queue' = [queue EXCEPT ![n] = row],
             UNCHANGED <<pc, cur, seen, overran>>
      PROVE  Exclusive'
  <2>1. \A k \in Ids :
           /\ k \in With("processing")' <=> k \in With("processing")
           /\ k \in With("processing") => queue'[k].age = queue[k].age
    BY <1>2, NoRowAssumption DEF With, Queued, TypeOK
  <2>. QED  BY <1>2, <2>1, ExclusiveKeptIdle
<1>3. clock \in Nat
  BY ConstantsAssumption DEF TypeOK
<1>4. CASE Produce
  <2>1. ASSUME NEW i \in Ids, NEW l \in RetryLimits, NEW v \in BOOLEAN,
               Enqueue(i, l, v)
        PROVE  Exclusive'
    <3>1. NewRow(l, v) \in Row /\ NewRow(l, v).status = "pending"
      BY <1>3, NewRowType, ConstantsAssumption DEF NewRow
    <3>. QED  BY <1>2, <2>1, <3>1 DEF Enqueue
  <2>. QED  BY <1>4, <2>1 DEF Produce
<1>5. ASSUME NEW c \in Consumers, Consume(c) PROVE Exclusive'
  BY <1>5, ExclusiveConsume
<1>6. ASSUME NEW c \in Consumers, Restart(c) PROVE Exclusive'
  <2>1. /\ \A d \in Consumers \ {c} :
              cur'[d] = cur[d] /\ pc'[d] = pc[d] /\ seen'[d] = seen[d]
        /\ pc'[c] = "poll"
        /\ UNCHANGED <<queue, overran>>
    BY <1>0, <1>6 DEF Restart, Goto
  <2>. QED  BY <2>1, ExclusiveKeptBy
<1>7. CASE Fault
  <2>1. ASSUME NEW c \in Consumers, Crash(c) PROVE Exclusive'
    <3>1. /\ \A d \in Consumers \ {c} :
                cur'[d] = cur[d] /\ pc'[d] = pc[d] /\ seen'[d] = seen[d]
          /\ pc'[c] = "down"
          /\ UNCHANGED <<queue, overran>>
      BY <1>0, <2>1 DEF Crash, Goto, Hold, See
    <3>. QED  BY <3>1, ExclusiveKeptBy
  <2>2. ASSUME NEW c \in Consumers, DbError(c) PROVE Exclusive'
    <3>1. /\ \A d \in Consumers \ {c} :
                cur'[d] = cur[d] /\ pc'[d] = pc[d] /\ seen'[d] = seen[d]
          /\ pc'[c] = AfterError(pc[c])
          /\ pc[c] = "check" => cur'[c] = cur[c]
          /\ UNCHANGED <<queue, overran>>
      BY <1>0, <2>2 DEF DbError, Goto, Hold, See
    <3>2. \/ AfterError(pc[c]) \in {"select", "poll"}
          \/ AfterError(pc[c]) = "work" /\ pc[c] = "check"
      BY DEF AfterError
    <3>. QED  BY <3>1, <3>2, ExclusiveKeptBy
  <2>. QED  BY <1>7, <2>1, <2>2 DEF Fault
<1>8. CASE Maintain
  <2>1. ASSUME NEW S \in SUBSET Ids, NEW R \in SUBSET Ids, PurgeAcked(S, R)
        PROVE  Exclusive'
    <3>1. \A k \in Ids :
             /\ k \in With("processing")' <=> k \in With("processing")
             /\ k \in With("processing") => queue'[k].age = queue[k].age
      BY <2>1 DEF PurgeAcked, With, Queued
    <3>. QED  BY <2>1, <3>1, ExclusiveKeptIdle DEF PurgeAcked
  <2>2. ASSUME UNCHANGED <<queue, pc, cur, seen, overran>>
        PROVE  Exclusive'
    BY <2>2, ExclusiveKeptIdle DEF With, Queued
  <2>3. ASSUME NEW S \in SUBSET Ids, CleanupDeadLetters(S) PROVE Exclusive'
    BY <2>2, <2>3 DEF CleanupDeadLetters
  <2>4. ASSUME NEW o \in Operators, NEW i \in Ids, RequeueSelect(o, i)
        PROVE  Exclusive'
    BY <2>2, <2>4 DEF RequeueSelect
  <2>5. ASSUME NEW o \in Operators, NEW n \in Ids, RequeueCommit(o, n)
        PROVE  Exclusive'
    <3>1. /\ NewRow(RequeueLimit, TRUE) \in Row
          /\ NewRow(RequeueLimit, TRUE).status = "pending"
      BY <1>3, NewRowType DEF NewRow, RequeueLimit
    <3>2. n \notin Queued
      BY <2>5 DEF RequeueCommit, Integrity, Lineage
    <3>. QED  BY <1>2, <2>5, <3>1, <3>2 DEF RequeueCommit
  <2>. QED  BY <1>8, <2>1, <2>3, <2>4, <2>5 DEF Maintain
<1>9. CASE RecoverUnacked
  <2>1. \A k \in Ids \ overran : k \notin Recoverable
    BY DEF Recoverable, Exclusive, Owned
  <2>2. \A k \in Ids \ overran :
           /\ k \in With("processing")' <=> k \in With("processing")
           /\ k \in With("processing") => queue'[k].age = queue[k].age
    BY <1>9, <2>1 DEF RecoverUnacked, Recovered, Exhausted, With, Queued
  <2>. QED  BY <1>9, <2>2, ExclusiveKeptIdle DEF RecoverUnacked
<1>10. CASE UNCHANGED vars
  BY <1>10, ExclusiveKeptIdle DEF vars, With, Queued
<1>. QED
  BY <1>1, <1>4, <1>5, <1>6, <1>7, <1>8, <1>9, <1>10
  DEF NextWithRecovery, Next

\* Two consumers hold one message only after one of them has outlived the ack
\* timeout: the claim is atomic although it is a SELECT and then an UPDATE.
THEOREM OneHolderInTime == RecoverySpec => []SoleHolder
<1>1. Init => TypeOK /\ Integrity /\ Exclusive
  BY TypeInit, IntegrityInit, ExclusiveInit
<1>2. TypeOK /\ Integrity /\ Exclusive /\ [NextWithRecovery]_vars
        => (TypeOK /\ Integrity /\ Exclusive)'
  BY TypeStep, IntegrityStep, ExclusiveStep
<1>3. TypeOK /\ Integrity /\ Exclusive => SoleHolder
  BY DEF Exclusive
<1>. QED  BY <1>1, <1>2, <1>3, PTL DEF RecoverySpec

(***************************************************************************)
(* Exactly max_retries + 1 attempts, with one worker process.              *)
(***************************************************************************)
Limits == RetryLimits \cup {RequeueLimit}

\* What a row says of its deliveries.
RowCounts(i) ==
    /\ queue[i].max \in Limits
    /\ queue[i].retries <= queue[i].max
    /\ deliveries[i] = queue[i].retries + (IF i \in With("pending") THEN 0 ELSE 1)

DeadCounts(i) == \E l \in Limits : deliveries[i] = l + 1

LEMMA UpdatedFields ==
    ASSUME NEW row \in Row
    PROVE  /\ \A g : /\ Taken(row, g).status = "processing"
                     /\ Taken(row, g).retries = row.retries /\ Taken(row, g).max = row.max
           /\ \A r : /\ Returned(row, r).status = "pending"
                     /\ Returned(row, r).retries = r /\ Returned(row, r).max = row.max
BY DEF Taken, Returned, Row

LEMMA RetriesCountParts ==
    /\ RetriesCount <=>
          /\ \A i \in Ids \ Used : deliveries[i] = 0
          /\ Queued \cap dlq = {}
          /\ \A i \in Queued : RowCounts(i)
          /\ \A i \in dlq : DeadCounts(i)
    /\ RetriesCount' <=>
          /\ \A i \in Ids \ Used' : deliveries'[i] = 0
          /\ Queued' \cap dlq' = {}
          /\ \A i \in Queued' : RowCounts(i)'
          /\ \A i \in dlq' : DeadCounts(i)'
BY DEF RetriesCount, RowCounts, DeadCounts, Limits

\* The numbers of a row.
LEMMA RowNumbers ==
    ASSUME TypeOK, NEW i \in Queued
    PROVE  /\ queue[i] \in Row /\ queue[i].retries \in Nat /\ queue[i].max \in Nat
           /\ queue[i].status \in Statuses /\ deliveries[i] \in Nat /\ i \in Ids
           /\ queue[i].status = "pending" <=> i \in With("pending")
           /\ queue[i].status = "processing" <=> i \in With("processing")
BY QueuedRow DEF TypeOK, Row, With

\* Steps that end no delivery and begin none.
LEMMA CountsKept ==
    ASSUME TypeOK, RetriesCount, job' = job, deliveries' = deliveries, dlq' \subseteq dlq,
           \A i \in Queued' :
              /\ i \in Queued
              /\ queue'[i].max = queue[i].max /\ queue'[i].retries = queue[i].retries
              /\ i \in With("pending")' <=> i \in With("pending")
    PROVE  RetriesCount'
<1>1. Used' = Used
  BY DEF Used
<1>2. ASSUME NEW i \in Queued' PROVE RowCounts(i)'
  <2>1. RowCounts(i) /\ i \in Queued
    BY RetriesCountParts
  <2>. QED  BY <2>1 DEF RowCounts
<1>3. ASSUME NEW i \in dlq' PROVE DeadCounts(i)'
  <2>1. DeadCounts(i)
    BY RetriesCountParts
  <2>. QED  BY <2>1 DEF DeadCounts
<1>. QED  BY <1>1, <1>2, <1>3, RetriesCountParts

\* A delivery ends: the retry it uses is counted, or the message is dead after max + 1.
LEMMA CountsRetried ==
    ASSUME TypeOK, RetriesCount, ReadIsCurrent, NEW c \in Consumers,
           queue' = RetryRows(seen[c]), dlq' = Buried(seen[c]), job' = job,
           deliveries' = deliveries
    PROVE  RetriesCount'
<1> DEFINE s == seen[c]
<1>1. PICK S \in SUBSET Ids : s \in [S -> Snapshot]
  BY DEF TypeOK
<1>2. /\ DOMAIN s = S
      /\ \A i \in S : /\ i \in With("processing") /\ i \in Queued
                      /\ s[i].retries = queue[i].retries /\ s[i].max = queue[i].max
  BY <1>1 DEF ReadIsCurrent, With
<1> HIDE DEF s
<1>3. \A i \in Spent(s) : i \in S /\ queue[i].retries + 1 > queue[i].max
  BY <1>2 DEF Spent
<1>4. ASSUME NEW i \in S PROVE i \notin With("pending")
  BY <1>2, <1>4 DEF With
<1>5. Used' = Used
  BY DEF Used
<1>6. queue' = RetryRows(s) /\ dlq' = Buried(s)
  BY DEF s
<1>7. ASSUME NEW i \in Queued'
      PROVE  i \in Queued /\ i \notin Spent(s) /\ RowCounts(i)'
  <2>1. i \in Ids /\ queue'[i] # NoRow
    BY DEF Queued
  <2>2. i \in Queued /\ (i \notin S => queue'[i] = queue[i])
        /\ (i \in S => i \notin Spent(s) /\ queue'[i] = Returned(queue[i], s[i].retries + 1))
    BY <1>2, <1>6, <2>1 DEF RetryRows, Queued
  <2>3. RowCounts(i)
    BY <2>2, RetriesCountParts
  <2>4. CASE i \notin S
    <3>1. i \in With("pending")' <=> i \in With("pending")
      BY <2>2, <2>4 DEF With
    <3>. QED  BY <1>3, <2>2, <2>3, <2>4, <3>1 DEF RowCounts
  <2>5. CASE i \in S
    <3>1. /\ queue[i] \in Row /\ queue[i].retries \in Nat /\ queue[i].max \in Nat
          /\ deliveries[i] \in Nat
      BY <2>2, RowNumbers
    <3>2. queue[i].retries + 1 <= queue[i].max
      BY <1>2, <2>2, <2>5, <3>1 DEF Spent
    <3>3. /\ queue'[i].status = "pending" /\ queue'[i].retries = queue[i].retries + 1
          /\ queue'[i].max = queue[i].max
      BY <1>2, <2>2, <2>5, <3>1, UpdatedFields
    <3>4. i \in With("pending")'
      BY <3>3 DEF With
    <3>5. deliveries[i] = queue[i].retries + 1
      BY <1>4, <2>3, <2>5 DEF RowCounts
    <3>. QED  BY <2>2, <2>3, <2>5, <3>1, <3>2, <3>3, <3>4, <3>5 DEF RowCounts
  <2>. QED  BY <2>4, <2>5
<1>8. ASSUME NEW i \in dlq' PROVE DeadCounts(i)'
  <2>1. CASE i \in dlq
    <3>1. DeadCounts(i)
      BY <2>1, RetriesCountParts
    <3>. QED  BY <3>1 DEF DeadCounts
  <2>2. CASE i \in Spent(s) /\ i \in Queued
    <3>1. RowCounts(i) /\ i \in S /\ queue[i].retries + 1 > queue[i].max
      BY <1>3, <2>2, RetriesCountParts
    <3>2. queue[i].retries \in Nat /\ queue[i].max \in Nat /\ deliveries[i] \in Nat
      BY <2>2, RowNumbers
    <3>3. deliveries[i] = queue[i].max + 1 /\ queue[i].max \in Limits
      BY <1>4, <3>1, <3>2 DEF RowCounts
    <3>. QED  BY <3>3 DEF DeadCounts
  <2>. QED  BY <1>6, <2>1, <2>2 DEF Buried
<1>9. Queued' \cap dlq' = {}
  BY <1>6, <1>7, RetriesCountParts DEF Buried
<1>. QED  BY <1>5, <1>7, <1>8, <1>9, RetriesCountParts

\* A message enters the queue, under an id nobody used.
LEMMA CountsInserted ==
    ASSUME TypeOK, Integrity, RetriesCount, NEW n \in Ids \ Used, NEW j \in Ids,
           NEW l \in Limits, NEW v \in BOOLEAN,
           queue' = [queue EXCEPT ![n] = NewRow(l, v)], job' = [job EXCEPT ![n] = j],
           dlq' \subseteq dlq, deliveries' = deliveries
    PROVE  RetriesCount'
<1>1. Limits \subseteq Nat
  BY ConstantsAssumption DEF Limits, RequeueLimit
<1>2. Used \subseteq Used' /\ n \in Used'
  BY ConstantsAssumption DEF Used, TypeOK
<1>3. n \notin dlq /\ n \notin Queued /\ deliveries[n] = 0
  BY RetriesCountParts DEF Integrity, Lineage
<1>4. /\ queue'[n] = NewRow(l, v)
      /\ \A i \in Ids \ {n} : queue'[i] = queue[i]
  BY DEF TypeOK
<1>5. Queued' \subseteq Queued \cup {n}
  BY <1>4 DEF Queued
<1>6. ASSUME NEW i \in Queued' PROVE RowCounts(i)'
  <2>1. CASE i = n
    <3>1. /\ queue'[n].max = l /\ queue'[n].retries = 0 /\ queue'[n].status = "pending"
      BY <1>4 DEF NewRow
    <3>2. n \in With("pending")'
      BY <2>1, <3>1 DEF With
    <3>. QED  BY <1>1, <1>3, <2>1, <3>1, <3>2 DEF RowCounts
  <2>2. CASE i # n
    <3>1. i \in Queued /\ queue'[i] = queue[i]
      BY <1>4, <1>5, <2>2 DEF Queued
    <3>2. RowCounts(i) /\ (i \in With("pending")' <=> i \in With("pending"))
      BY <3>1, RetriesCountParts DEF With
    <3>. QED  BY <3>1, <3>2 DEF RowCounts
  <2>. QED  BY <2>1, <2>2
<1>7. ASSUME NEW i \in dlq' PROVE DeadCounts(i)'
  <2>1. DeadCounts(i)
    BY RetriesCountParts
  <2>. QED  BY <2>1 DEF DeadCounts
<1>. QED  BY <1>2, <1>3, <1>5, <1>6, <1>7, RetriesCountParts

\* A delivery begins.
LEMMA CountsClaimed ==
    ASSUME TypeOK, Integrity, RetriesCount, NEW c \in Consumers, Claim(c), cur[c] \in With("pending")
    PROVE  /\ RetriesCount'
           /\ cur[c] \in With("processing")'
<1> DEFINE m == cur[c]
<1>1. /\ m \in Queued /\ m \in Ids /\ GroupOf[c] \in Groups \cup {NoGroup}
      /\ queue' = [queue EXCEPT ![m] = Taken(queue[m], GroupOf[c])]
      /\ deliveries' = [deliveries EXCEPT ![m] = deliveries[m] + 1]
      /\ job' = job /\ dlq' = dlq
  BY ConstantsAssumption DEF Claim, With, Queued
<1>2. /\ queue[m] \in Row /\ queue[m].retries \in Nat /\ deliveries[m] \in Nat
      /\ RowCounts(m)
  BY <1>1, RowNumbers, RetriesCountParts
<1>3. /\ queue'[m] = Taken(queue[m], GroupOf[c]) /\ deliveries'[m] = deliveries[m] + 1
      /\ \A i \in Ids \ {m} : queue'[i] = queue[i] /\ deliveries'[i] = deliveries[i]
  BY <1>1, <1>2 DEF TypeOK
<1>4. /\ queue'[m].status = "processing" /\ queue'[m].retries = queue[m].retries
      /\ queue'[m].max = queue[m].max /\ queue'[m] \in Row
  <2>1. queue[m] \in Row /\ GroupOf[c] \in Groups \cup {NoGroup}
    BY <1>1, <1>2
  <2>2. Taken(queue[m], GroupOf[c]) \in Row
    BY <2>1, UpdatedRowType
  <2>3. /\ Taken(queue[m], GroupOf[c]).status = "processing"
        /\ Taken(queue[m], GroupOf[c]).retries = queue[m].retries
        /\ Taken(queue[m], GroupOf[c]).max = queue[m].max
    BY <2>1, UpdatedFields
  <2>. QED  BY <1>3, <2>2, <2>3
<1>5. Queued' = Queued /\ Used' = Used
  BY <1>1, <1>3, <1>4, NoRowAssumption DEF Queued, Used
<1>6. m \in With("processing")' /\ m \notin With("pending")'
  BY <1>1, <1>4, <1>5 DEF With
<1>8. ASSUME NEW i \in Queued' PROVE RowCounts(i)'
  <2>1. CASE i = m
    <3>1. deliveries[m] = queue[m].retries + 0
      BY <1>2 DEF RowCounts
    <3>. QED  BY <1>2, <1>3, <1>4, <1>6, <2>1, <3>1 DEF RowCounts
  <2>2. CASE i # m
    <3>1. /\ i \in Queued /\ queue'[i] = queue[i] /\ deliveries'[i] = deliveries[i]
      BY <1>3, <1>5, <2>2 DEF Queued
    <3>2. RowCounts(i) /\ (i \in With("pending")' <=> i \in With("pending"))
      BY <1>5, <3>1, RetriesCountParts DEF With
    <3>. QED  BY <3>1, <3>2 DEF RowCounts
  <2>. QED  BY <2>1, <2>2
<1>9. m \notin dlq
  BY <1>1, RetriesCountParts
<1>10. ASSUME NEW i \in dlq' PROVE DeadCounts(i)'
  <2>1. DeadCounts(i) /\ i \in Ids \ {m}
    BY <1>1, <1>9, RetriesCountParts DEF TypeOK
  <2>. QED  BY <1>3, <2>1 DEF DeadCounts
<1>11. \A i \in Ids \ Used : deliveries'[i] = 0
  <2>1. m \in Used
    BY <1>1 DEF Integrity, Lineage
  <2>. QED  BY <1>3, <2>1, RetriesCountParts
<1>. QED  BY <1>1, <1>5, <1>6, <1>8, <1>9, <1>10, <1>11, RetriesCountParts

\* Steps that leave the process and what it has read or holds alone.
LEMMA ReadKept ==
    ASSUME ReadIsCurrent, UNCHANGED <<pc, cur, seen>>,
           \A i \in With("processing") :
              /\ i \in With("processing")'
              /\ queue'[i].retries = queue[i].retries /\ queue'[i].max = queue[i].max
    PROVE  ReadIsCurrent'
BY DEF ReadIsCurrent

\* The fields of rows that time, an ack or a purge do not touch.
LEMMA SameFields ==
    ASSUME NEW row \in Row
    PROVE  /\ \A a : /\ [row EXCEPT !.age = a].status = row.status
                     /\ [row EXCEPT !.age = a].retries = row.retries
                     /\ [row EXCEPT !.age = a].max = row.max
           /\ [row EXCEPT !.visible = TRUE].status = row.status
           /\ [row EXCEPT !.visible = TRUE].retries = row.retries
           /\ [row EXCEPT !.visible = TRUE].max = row.max
           /\ [row EXCEPT !.status = "acked", !.age = "fresh"].status = "acked"
           /\ [row EXCEPT !.status = "acked", !.age = "fresh"].retries = row.retries
           /\ [row EXCEPT !.status = "acked", !.age = "fresh"].max = row.max
BY DEF Row

LEMMA AttemptsTime ==
    ASSUME TypeOK, RetriesCount, ReadIsCurrent, Time
    PROVE  RetriesCount' /\ ReadIsCurrent'
<1>1. PICK i \in Ids : Overdue(i) \/ Stale(i) \/ Appear(i)
  BY DEF Time
<1>2. /\ i \in Queued /\ queue[i] \in Row
      /\ UNCHANGED <<job, deliveries, dlq, pc, cur, seen>>
  BY <1>1, QueuedRow DEF Overdue, Stale, Appear, With, local, history
<1>3. PICK row \in Row :
         /\ queue' = [queue EXCEPT ![i] = row]
         /\ row.status = queue[i].status /\ row.retries = queue[i].retries /\ row.max = queue[i].max
  <2>1. CASE Overdue(i)
    BY <1>2, <2>1, SameFields, UpdatedRowType DEF Overdue, Age
  <2>2. CASE Stale(i)
    BY <1>2, <2>2, SameFields, UpdatedRowType DEF Stale, Age
  <2>3. CASE Appear(i)
    BY <1>2, <2>3, SameFields, UpdatedRowType DEF Appear
  <2>. QED  BY <1>1, <2>1, <2>2, <2>3
<1>4. /\ queue'[i] = row /\ \A j \in Ids \ {i} : queue'[j] = queue[j]
      /\ Queued' = Queued
  BY <1>2, <1>3, NoRowAssumption DEF TypeOK, Queued
<1>5. \A j \in Queued : /\ queue'[j].status = queue[j].status /\ queue'[j].retries = queue[j].retries
                        /\ queue'[j].max = queue[j].max
  BY <1>3, <1>4 DEF Queued
<1>6. With("pending")' = With("pending") /\ With("processing")' = With("processing")
  BY <1>4, <1>5 DEF With
<1>7. RetriesCount'
  BY <1>2, <1>4, <1>5, <1>6, CountsKept
<1>8. ReadIsCurrent'
  BY <1>2, <1>5, <1>6, ReadKept DEF With
<1>. QED  BY <1>7, <1>8

LEMMA AttemptsMaintain ==
    ASSUME TypeOK, Integrity, RetriesCount, ReadIsCurrent, OneWorker, Produce \/ Maintain
    PROVE  RetriesCount' /\ ReadIsCurrent'
<1>1. ASSUME NEW n \in Ids \ Used, NEW j \in Ids, NEW l \in Limits, NEW v \in BOOLEAN,
             queue' = [queue EXCEPT ![n] = NewRow(l, v)], job' = [job EXCEPT ![n] = j],
             dlq' \subseteq dlq, UNCHANGED <<deliveries, pc, cur, seen>>
      PROVE  RetriesCount' /\ ReadIsCurrent'
  <2>1. RetriesCount'
    BY <1>1, CountsInserted
  <2>2. n \notin Queued /\ \A i \in Ids \ {n} : queue'[i] = queue[i]
    BY <1>1 DEF Integrity, Lineage, TypeOK
  <2>3. \A i \in With("processing") : i \in With("processing")' /\ queue'[i] = queue[i]
    BY <2>2 DEF With, Queued
  <2>. QED  BY <1>1, <2>1, <2>3, ReadKept
<1>2. CASE Produce
  <2>1. PICK i \in Ids, l \in RetryLimits, v \in BOOLEAN : Enqueue(i, l, v)
    BY <1>2 DEF Produce
  <2>2. i \notin Used /\ l \in Limits
    BY <2>1 DEF Enqueue, OneWorker, Limits
  <2>. QED  BY <1>1, <2>1, <2>2 DEF Enqueue, local, history
<1>3. ASSUME NEW S \in SUBSET Ids, NEW R \in SUBSET Ids, PurgeAcked(S, R)
      PROVE  RetriesCount' /\ ReadIsCurrent'
  <2>1. /\ S \subseteq With("acked") /\ \A i \in Ids : queue'[i] = IF i \in S THEN NoRow ELSE queue[i]
        /\ UNCHANGED <<dlq, job, deliveries, pc, cur, seen>>
    BY <1>3 DEF PurgeAcked, local, history
  <2>2. /\ \A i \in Queued' : i \in Queued /\ queue'[i] = queue[i]
        /\ \A i \in Queued' : (i \in With("pending")' <=> i \in With("pending"))
        /\ \A i \in With("processing") : i \in With("processing")' /\ queue'[i] = queue[i]
    BY <2>1 DEF Queued, With
  <2>. QED  BY <2>1, <2>2, CountsKept, ReadKept
<1>4. ASSUME NEW S \in SUBSET Ids, CleanupDeadLetters(S) PROVE RetriesCount' /\ ReadIsCurrent'
  <2>1. /\ dlq' \subseteq dlq /\ UNCHANGED <<queue, job, deliveries, pc, cur, seen>>
    BY <1>4 DEF CleanupDeadLetters, local
  <2>. QED  BY <2>1, CountsKept, ReadKept DEF With, Queued
<1>5. ASSUME NEW o \in Operators, NEW i \in Ids, RequeueSelect(o, i)
      PROVE  RetriesCount' /\ ReadIsCurrent'
  <2>1. UNCHANGED <<queue, dlq, job, deliveries, pc, cur, seen>>
    BY <1>5 DEF RequeueSelect, db, local, history
  <2>. QED  BY <2>1, CountsKept, ReadKept DEF With, Queued
<1>6. ASSUME NEW o \in Operators, NEW n \in Ids, RequeueCommit(o, n)
      PROVE  RetriesCount' /\ ReadIsCurrent'
  <2>1. /\ n \in Ids \ Used /\ asked[o] \in Used /\ RequeueLimit \in Limits
        /\ queue' = [queue EXCEPT ![n] = NewRow(RequeueLimit, TRUE)]
        /\ job' = [job EXCEPT ![n] = job[asked[o]]] /\ dlq' \subseteq dlq
        /\ UNCHANGED <<deliveries, pc, cur, seen>>
    BY <1>6 DEF RequeueCommit, Integrity, Lineage, Limits, local, history
  <2>2. job[asked[o]] \in Ids
    BY <2>1 DEF Used, TypeOK
  <2>. QED  BY <1>1, <2>1, <2>2
<1>. QED  BY <1>2, <1>3, <1>4, <1>5, <1>6 DEF Maintain

\* The only worker takes a step: what it now holds and has read is current.
LEMMA ReadBy ==
    ASSUME OneWorker, NEW c \in Consumers,
           pc'[c] \in {"check", "skip", "work", "ack", "nack", "renew"} =>
              cur'[c] \in With("processing")',
           pc'[c] \notin {"reclaim", "renew"} => DOMAIN seen'[c] = {},
           \A i \in DOMAIN seen'[c] :
              /\ i \in With("processing")'
              /\ seen'[c][i].retries = queue'[i].retries /\ seen'[c][i].max = queue'[i].max
    PROVE  ReadIsCurrent'
<1>1. \A d \in Consumers : d = c
  BY DEF OneWorker
<1>. QED  BY <1>1 DEF ReadIsCurrent

\* Steps of the worker that touch no table.
LEMMA AttemptsLocal ==
    ASSUME TypeOK, RetriesCount, ReadIsCurrent, OneWorker, NEW c \in Consumers,
           UNCHANGED <<queue, dlq, job, deliveries>>,
           pc'[c] \in {"check", "skip", "work", "ack", "nack", "renew"} =>
              cur'[c] \in With("processing"),
           pc'[c] \notin {"reclaim", "renew"} => DOMAIN seen'[c] = {},
           \A i \in DOMAIN seen'[c] :
              /\ i \in With("processing")
              /\ seen'[c][i].retries = queue[i].retries /\ seen'[c][i].max = queue[i].max
    PROVE  RetriesCount' /\ ReadIsCurrent'
<1>1. Queued' = Queued /\ With("pending")' = With("pending")
      /\ With("processing")' = With("processing")
  BY DEF Queued, With
<1>2. RetriesCount'
  BY <1>1, CountsKept
<1>. QED  BY <1>1, <1>2, ReadBy

LEMMA AttemptsConsume ==
    ASSUME TypeOK, Integrity, RetriesCount, ReadIsCurrent, OneWorker,
           NEW c \in Consumers, Consume(c)
    PROVE  RetriesCount' /\ ReadIsCurrent'
<1>0. /\ pc \in [Consumers -> PCs] /\ DOMAIN cur = Consumers /\ DOMAIN seen = Consumers
      /\ DOMAIN NothingSeen = {}
  BY EmptySnapshot DEF TypeOK
<1>1. /\ pc[c] \in {"check", "skip", "work", "ack", "nack", "renew"} => cur[c] \in With("processing")
      /\ pc[c] \notin {"reclaim", "renew"} => DOMAIN seen[c] = {}
  BY DEF ReadIsCurrent
<1>2. \A S : S \subseteq Queued =>
         \A i \in DOMAIN SnapshotOf(S) :
            /\ i \in S
            /\ SnapshotOf(S)[i].retries = queue[i].retries /\ SnapshotOf(S)[i].max = queue[i].max
  BY DEF SnapshotOf
<1>3. CASE ReclaimSelect(c)
  <2>1. /\ seen'[c] = SnapshotOf(TimedOutFor(c)) /\ TimedOutFor(c) \subseteq With("processing")
        /\ TimedOutFor(c) \subseteq Queued
        /\ pc'[c] = IF TimedOutFor(c) = {} THEN "select" ELSE "reclaim"
        /\ UNCHANGED <<queue, dlq, job, deliveries>>
    BY <1>0, <1>3 DEF ReclaimSelect, See, Goto, TimedOutFor, With, db, history
  <2>2. DOMAIN seen'[c] = TimedOutFor(c)
    BY <2>1 DEF SnapshotOf
  <2>. QED  BY <1>2, <2>1, <2>2, AttemptsLocal
<1>4. CASE ReclaimCommit(c) \/ NackCommit(c)
  <2>1. /\ queue' = RetryRows(seen[c]) /\ dlq' = Buried(seen[c])
        /\ UNCHANGED <<job, deliveries>>
        /\ seen'[c] = NothingSeen /\ pc'[c] \in {"select", "poll"}
    BY <1>0, <1>4 DEF ReclaimCommit, NackCommit, See, Goto, history
  <2>2. RetriesCount'
    BY <2>1, CountsRetried
  <2>3. ReadIsCurrent'
    BY <1>0, <2>1, ReadBy
  <2>. QED  BY <2>2, <2>3
<1>5. CASE SelectNext(c)
  <2>1. /\ pc'[c] \in {"poll", "claim"} /\ seen' = seen /\ pc[c] = "select"
        /\ UNCHANGED <<queue, dlq, job, deliveries>>
    BY <1>0, <1>5 DEF SelectNext, Goto, db, history
  <2>. QED  BY <1>1, <2>1, AttemptsLocal
<1>6. CASE Claim(c)
  <2>1. CASE cur[c] \in With("pending")
    <3>1. RetriesCount' /\ cur[c] \in With("processing")'
      BY <1>6, <2>1, CountsClaimed
    <3>2. pc'[c] = "check" /\ cur' = cur /\ seen' = seen /\ pc[c] = "claim"
      BY <1>0, <1>6, <2>1 DEF Claim, Goto
    <3>3. ReadIsCurrent'
      BY <1>1, <3>1, <3>2, ReadBy
    <3>. QED  BY <3>1, <3>3
  <2>2. CASE cur[c] \notin With("pending")
    <3>1. /\ pc'[c] = "poll" /\ seen' = seen /\ pc[c] = "claim"
          /\ UNCHANGED <<queue, dlq, job, deliveries>>
      BY <1>0, <1>6, <2>2 DEF Claim, Goto
    <3>. QED  BY <1>1, <3>1, AttemptsLocal
  <2>. QED  BY <2>1, <2>2
<1>7. CASE \/ CheckIdempotent(c) \/ HandlerSucceeds(c)
           \/ HandlerFails(c) \/ FailureReturned(c)
  <2>1. /\ pc[c] \in {"check", "work"} /\ pc'[c] \in {"skip", "work", "ack", "nack"}
        /\ cur' = cur /\ seen' = seen /\ UNCHANGED <<queue, dlq, job, deliveries>>
    BY <1>0, <1>7 DEF CheckIdempotent, HandlerSucceeds, HandlerFails, FailureReturned, Goto,
                      db, history
  <2>. QED  BY <1>1, <2>1, AttemptsLocal
<1>8. CASE AckSkipped(c) \/ Ack(c)
  <2> DEFINE m == cur[c]
             row == [queue[m] EXCEPT !.status = "acked", !.age = "fresh"]
  <2>1. /\ pc[c] \in {"skip", "ack"} /\ pc'[c] = "poll" /\ seen' = seen
        /\ UNCHANGED <<dlq, job, deliveries>> /\ queue' = Acked(m)
    BY <1>0, <1>8 DEF AckSkipped, Ack, Goto, history
  <2>2. m \in With("processing") /\ m \in Queued
    BY <1>1, <2>1 DEF With
  <2>3. /\ queue[m] \in Row /\ queue[m].status = "processing" /\ m \in Ids
    BY <2>2, RowNumbers
  <2>4. /\ row \in Row /\ row.status = "acked"
        /\ row.retries = queue[m].retries /\ row.max = queue[m].max
    BY <2>3, UpdatedRowType, SameFields
  <2>5. queue'[m] = row /\ \A i \in Ids \ {m} : queue'[i] = queue[i]
    BY <2>1, <2>2, <2>3 DEF Acked, TypeOK
  <2> HIDE DEF row
  <2>6. Queued' = Queued
    BY <2>2, <2>3, <2>4, <2>5, NoRowAssumption DEF Queued
  <2>7. \A i \in Queued :
          /\ queue'[i].max = queue[i].max /\ queue'[i].retries = queue[i].retries
          /\ i \in With("pending")' <=> i \in With("pending")
    BY <2>3, <2>4, <2>5, <2>6 DEF With, Queued
  <2>8. RetriesCount'
    BY <2>1, <2>6, <2>7, CountsKept
  <2>9. ReadIsCurrent'
    BY <1>1, <2>1, ReadBy
  <2>. QED  BY <2>8, <2>9
<1>9. CASE NackSelect(c)
  <2>1. /\ pc[c] = "nack" /\ cur[c] \in With("processing") /\ cur[c] \in Queued
        /\ UNCHANGED <<queue, dlq, job, deliveries>>
    BY <1>1, <1>9 DEF NackSelect, With, db, history
  <2>2. cur' = cur /\ seen'[c] = SnapshotOf({cur[c]}) /\ pc'[c] = "renew"
    BY <1>0, <1>9, <2>1 DEF NackSelect, See, Goto
  <2>3. \A i \in DOMAIN seen'[c] :
              /\ i \in With("processing")
              /\ seen'[c][i].retries = queue[i].retries /\ seen'[c][i].max = queue[i].max
    BY <1>2, <2>1, <2>2
  <2>. QED  BY <2>1, <2>2, <2>3, AttemptsLocal
<1>. QED
  BY <1>3, <1>4, <1>5, <1>6, <1>7, <1>8, <1>9 DEF Consume

LEMMA AttemptsStep ==
    ASSUME OneWorker
    PROVE  TypeOK /\ Integrity /\ RetriesCount /\ ReadIsCurrent /\ [Next]_vars
             => RetriesCount' /\ ReadIsCurrent'
<1> SUFFICES ASSUME TypeOK, Integrity, RetriesCount, ReadIsCurrent, [Next]_vars
             PROVE  RetriesCount' /\ ReadIsCurrent'
  OBVIOUS
<1>1. CASE Time
  BY <1>1, AttemptsTime
<1>2. CASE Produce \/ Maintain
  BY <1>2, AttemptsMaintain
<1>3. ASSUME NEW c \in Consumers, Consume(c) PROVE RetriesCount' /\ ReadIsCurrent'
  BY <1>3, AttemptsConsume
<1>4. ASSUME NEW c \in Consumers, Restart(c) \/ Crash(c) \/ DbError(c)
      PROVE  RetriesCount' /\ ReadIsCurrent'
  <2>1. /\ UNCHANGED <<queue, dlq, job, deliveries>> /\ DOMAIN NothingSeen = {}
        /\ pc \in [Consumers -> PCs] /\ DOMAIN seen = Consumers /\ DOMAIN cur = Consumers
    BY <1>4, EmptySnapshot DEF Restart, Crash, DbError, db, history, TypeOK
  <2>2. /\ pc[c] \notin {"reclaim", "renew"} => DOMAIN seen[c] = {}
        /\ pc[c] = "check" => cur[c] \in With("processing")
    BY DEF ReadIsCurrent
  <2>3. CASE Restart(c)
    <3>1. pc[c] = "down" /\ pc'[c] = "poll" /\ seen' = seen
      BY <2>1, <2>3 DEF Restart, Goto
    <3>. QED  BY <2>1, <2>2, <3>1, AttemptsLocal
  <2>4. CASE Crash(c)
    <3>1. pc'[c] = "down" /\ seen'[c] = NothingSeen
      BY <2>1, <2>4 DEF Crash, Goto, See
    <3>. QED  BY <2>1, <3>1, AttemptsLocal
  <2>5. CASE DbError(c)
    <3>1. /\ pc'[c] = AfterError(pc[c]) /\ seen'[c] = NothingSeen
          /\ pc[c] = "check" => cur' = cur
      BY <2>1, <2>5 DEF DbError, Goto, See
    <3>2. pc'[c] \in {"select", "poll"} \/ (pc'[c] = "work" /\ pc[c] = "check")
      BY <3>1 DEF AfterError
    <3>. QED  BY <2>1, <2>2, <3>1, <3>2, AttemptsLocal
  <2>. QED  BY <1>4, <2>3, <2>4, <2>5
<1>5. CASE UNCHANGED vars
  <2>1. UNCHANGED <<queue, dlq, job, deliveries, pc, cur, seen>>
    BY <1>5 DEF vars, db, local, history
  <2>. QED  BY <2>1, CountsKept, ReadKept DEF With, Queued
<1>. QED
  BY <1>1, <1>2, <1>3, <1>4, <1>5 DEF Next, Fault

LEMMA AttemptsInit == Init => RetriesCount /\ ReadIsCurrent
<1> SUFFICES ASSUME Init PROVE RetriesCount /\ ReadIsCurrent
  OBVIOUS
<1>1. Queued = {} /\ dlq = {} /\ \A i \in Ids : deliveries[i] = 0
  BY DEF Init, Queued
<1>2. \A c \in Consumers : pc[c] = "poll" /\ DOMAIN seen[c] = {}
  BY EmptySnapshot DEF Init
<1>. QED  BY <1>1, <1>2 DEF RetriesCount, ReadIsCurrent

\* One worker process, crashes and failed transactions included, takes a message at most
\* max_retries + 1 times, and buries it after exactly so many: the retry counter is read
\* and written in two transactions, and nothing comes between them.  (With a second worker,
\* or a key used again, TLC finds more deliveries.)
THEOREM AttemptsAreExact ==
    ASSUME OneWorker
    PROVE  Spec => []ExactAttempts
<1>1. Init => TypeOK /\ Integrity /\ RetriesCount /\ ReadIsCurrent
  BY TypeInit, IntegrityInit, AttemptsInit
<1>2. TypeOK /\ Integrity /\ RetriesCount /\ ReadIsCurrent /\ [Next]_vars
        => (TypeOK /\ Integrity /\ RetriesCount /\ ReadIsCurrent)'
  <2>1. [Next]_vars => [NextWithRecovery]_vars
    BY DEF NextWithRecovery
  <2>. QED  BY <2>1, TypeStep, IntegrityStep, AttemptsStep
<1>3. TypeOK /\ RetriesCount => ExactAttempts
  <2> SUFFICES ASSUME TypeOK, RetriesCount PROVE ExactAttempts
    OBVIOUS
  <2>1. ASSUME NEW i \in Queued PROVE deliveries[i] <= queue[i].max + 1
    <3>1. RowCounts(i)
      BY RetriesCountParts
    <3>. QED  BY <3>1, RowNumbers DEF RowCounts
  <2>. QED  BY <2>1 DEF RetriesCount, ExactAttempts
<1>. QED  BY <1>1, <1>2, <1>3, PTL DEF Spec
=============================================================================
