--------------------------- MODULE Breaker_proofs ---------------------------
(* Theorems of the breaker's two users, its database (BreakerStore) and the  *)
(* Dispatcher (Dispatch), for any agents, chains, threshold, faults, callers *)
(* and limits, on the same lemmas about the operations of a breaker.         *)
EXTENDS BreakerStore, Dispatch, FiniteSetTheorems, TLAPS

(***************************************************************************)
(* The operations of a breaker.                                            *)
(***************************************************************************)
\* What the operations write is an entry.
LEMMA EntryTypes ==
    ASSUME BreakerTypeOK, NEW a \in Agents
    PROVE  /\ Fresh \in Entry
           /\ AfterFailure(a) \in Entry
           /\ Asked(a) \in Entry
           /\ entry[a].state = "half_open" => Recovered(a) \in Entry
           /\ [entry[a] EXCEPT !.stamp = "elapsed"] \in Entry
<1> USE BreakerAssumption DEF BreakerTypeOK, Entry
<1>1. Fresh \in Entry
  BY DEF Fresh
<1>2. AfterFailure(a) \in Entry
  BY DEF AfterFailure
<1>3. Asked(a) \in Entry
  BY DEF Asked, Due
<1>4. Recovered(a) \in Entry
  <2>1. entry[a] \in [state : {"closed", "open", "half_open"}, failures : 0 .. Threshold,
                       stamp : {"never", "set", "elapsed"}]
    OBVIOUS
  <2>2. 0 \in 0 .. Threshold
    OBVIOUS
  <2> HIDE DEF BreakerTypeOK, Entry
  <2>3. [entry[a] EXCEPT !.state = "closed", !.failures = 0]
          \in [state : {"closed", "open", "half_open"}, failures : 0 .. Threshold,
               stamp : {"never", "set", "elapsed"}]
    BY ONLY <2>1, <2>2
  <2>. QED  BY <2>3 DEF Recovered, Entry
<1>. QED  BY <1>1, <1>2, <1>3, <1>4

\* A position that resolve_failover may settle on lies inside the chain, from the
\* present one on.
LEMMA CandidateInChain ==
    ASSUME BreakerTypeOK, NEW n \in Names, NEW i \in Candidates(n)
    PROVE  /\ i \in Nat /\ index[n] <= i /\ i < Len(ChainOf[n])
           /\ ChainOf[n][i + 1] \in Agents
           /\ Available(ChainOf[n][i + 1])
<1>1. ChainOf[n] \in Seq(Agents) /\ index[n] \in Nat
  BY BreakerAssumption DEF BreakerTypeOK
<1>2. i \in index[n] .. Len(ChainOf[n]) - 1 /\ Available(ChainOf[n][i + 1])
  BY DEF Candidates
<1>. QED  BY <1>1, <1>2

\* Each operation keeps the types, and no index leaves its chain.
LEMMA BreakerTypeStep ==
    ASSUME BreakerTypeOK,
           \/ \E a \in Agents : \/ RecordSuccess(a) \/ RecordFailure(a)
                                \/ IsAvailable(a) \/ Recover(a) \/ Cooldown(a)
           \/ \E n \in Names : \/ Register(n)
                               \/ \E i \in Candidates(n) : Resolve(n, i)
           \/ UNCHANGED breakerVars
    PROVE  BreakerTypeOK'
<1> USE BreakerAssumption DEF BreakerTypeOK
<1>1. ASSUME NEW a \in Agents, RecordSuccess(a) PROVE BreakerTypeOK'
  <2>1. entry' \in [Agents -> Entry]
    BY <1>1, EntryTypes DEF RecordSuccess
  <2>2. \A n \in Names : index'[n] \in Nat /\ index'[n] <= Len(ChainOf[n])
    BY <1>1 DEF RecordSuccess
  <2>3. index' \in [Names -> Nat]
    BY <1>1, <2>2 DEF RecordSuccess
  <2>. QED  BY <2>1, <2>2, <2>3
<1>2. ASSUME NEW a \in Agents, RecordFailure(a) PROVE BreakerTypeOK'
  <2>1. entry' \in [Agents -> Entry]
    BY <1>2, EntryTypes DEF RecordFailure
  <2>2. ASSUME NEW n \in Names PROVE index'[n] \in Nat /\ index'[n] <= Len(ChainOf[n])
    BY <1>2 DEF RecordFailure, Points
  <2>3. index' \in [Names -> Nat]
    BY <1>2, <2>2 DEF RecordFailure
  <2>. QED  BY <2>1, <2>2, <2>3
<1>3. ASSUME NEW a \in Agents, IsAvailable(a) \/ Recover(a) \/ Cooldown(a) PROVE BreakerTypeOK'
  BY <1>3, EntryTypes DEF IsAvailable, Recover, Cooldown
<1>4. ASSUME NEW n \in Names, Register(n) PROVE BreakerTypeOK'
  BY <1>4 DEF Register
<1>5. ASSUME NEW n \in Names, NEW i \in Candidates(n), Resolve(n, i) PROVE BreakerTypeOK'
  <2>1. ChainOf[n][i + 1] \in Agents /\ i \in Nat /\ i < Len(ChainOf[n])
    BY CandidateInChain
  <2>2. entry' \in [Agents -> Entry]
    BY <1>5, <2>1, EntryTypes DEF Resolve
  <2>3. index' \in [Names -> Nat] /\ \A m \in Names : index'[m] <= Len(ChainOf[m])
    BY <1>5, <2>1 DEF Resolve
  <2>. QED  BY <2>2, <2>3
<1>6. CASE UNCHANGED breakerVars
  BY <1>6 DEF breakerVars
<1>. QED  BY <1>1, <1>2, <1>3, <1>4, <1>5, <1>6

(***************************************************************************)
(* The database: what an operation saves.                                  *)
(***************************************************************************)
LEMMA StoredFacts ==
    ASSUME NEW e \in Entry
    PROVE  /\ Stored(e) \in Entry /\ Stored(e).state = e.state
           /\ Stored(e).stamp # "elapsed"
           /\ e.stamp # "elapsed" => Stored(e) = e
           /\ e.stamp # "never" => Stored([e EXCEPT !.stamp = "elapsed"]) = Stored(e)
           /\ \A s \in {"closed", "open", "half_open"} :
                /\ [Stored(e) EXCEPT !.state = s] \in Entry
                /\ [Stored(e) EXCEPT !.state = s].stamp # "elapsed"
                /\ s = e.state => [Stored(e) EXCEPT !.state = s] = Stored(e)
BY DEF Stored, Entry

\* An operation changes the entries whose rows it saves and the indexes it saves, but for
\* those that run off their chain's end, and saves what they have become.
Saved(rows, indexes) ==
    /\ DOMAIN rows \subseteq Agents
    /\ \A a \in DOMAIN rows : rows[a] = Stored(entry'[a])
    /\ \A a \in Agents \ DOMAIN rows : entry'[a] = entry[a]
    /\ DOMAIN indexes \subseteq Names
    /\ \A n \in DOMAIN indexes : indexes[n] = index'[n]
    /\ \A n \in Names \ DOMAIN indexes : index'[n] \in {index[n], Len(ChainOf[n])}
    /\ Save(rows, indexes)

\* The operations that save under the lock.
Operation ==
    \/ \E a \in Agents : SaveSuccess(a) \/ SaveFailure(a) \/ SaveRecover(a)
    \/ \E n \in Names : SaveRegister(n) \/ \E i \in 0 .. Len(ChainOf[n]) : SaveResolve(n, i)

LEMMA OperationSaves ==
    ASSUME BreakerTypeOK, Operation
    PROVE  BreakerTypeOK' /\ \E rows, indexes : Saved(rows, indexes)
<1> DEFINE Saves == \E rows, indexes : Saved(rows, indexes)
<1>0. entry \in [Agents -> Entry] /\ index \in [Names -> Nat]
  BY DEF BreakerTypeOK
<1>1. ASSUME NEW a \in Agents, SaveSuccess(a) PROVE BreakerTypeOK' /\ Saves
  <2> DEFINE rows == [b \in {a} |-> Fresh]
             indexes == [n \in {m \in Names : ResetBy(m, a)} |-> 0]
  <2>1. BreakerTypeOK'
    BY <1>1, BreakerTypeStep DEF SaveSuccess
  <2>2. Stored(Fresh) = Fresh
    BY DEF Stored, Fresh
  <2>3. Save(rows, indexes)
    BY <1>1 DEF SaveSuccess
  <2>4. /\ entry' = [entry EXCEPT ![a] = Fresh]
        /\ index' = [n \in Names |-> IF ResetBy(n, a) THEN 0 ELSE index[n]]
    BY <1>1 DEF SaveSuccess, RecordSuccess
  <2>5. \A n \in Names \ DOMAIN indexes : index'[n] \in {index[n], Len(ChainOf[n])}
    BY <2>4
  <2>6. \A n \in DOMAIN indexes : indexes[n] = index'[n]
    BY <2>4
  <2>7. DOMAIN indexes \subseteq Names /\ DOMAIN rows = {a} /\ rows[a] = Fresh
    OBVIOUS
  <2> HIDE DEF indexes, rows
  <2>8. Saved(rows, indexes)
    BY <1>0, <2>2, <2>3, <2>4, <2>5, <2>6, <2>7 DEF Saved
  <2>. QED  BY <2>1, <2>8
<1>2. ASSUME NEW a \in Agents, SaveFailure(a) PROVE BreakerTypeOK' /\ Saves
  <2> DEFINE moved == {m \in Names : Points(m, a) /\ index[m] + 1 < Len(ChainOf[m])}
             rows == [b \in {a} |-> AfterFailure(a)]
             indexes == [n \in moved |-> index[n] + 1]
  <2>1. BreakerTypeOK'
    BY <1>2, BreakerTypeStep DEF SaveFailure
  <2>2. Stored(AfterFailure(a)) = AfterFailure(a)
    BY DEF Stored, AfterFailure
  <2>3. Save(rows, indexes)
    BY <1>2 DEF SaveFailure
  <2>4. /\ entry' = [entry EXCEPT ![a] = AfterFailure(a)]
        /\ index' = [n \in Names |-> IF Points(n, a) THEN index[n] + 1 ELSE index[n]]
    BY <1>2 DEF SaveFailure, RecordFailure
  <2>5. ASSUME NEW n \in Names \ moved PROVE index'[n] \in {index[n], Len(ChainOf[n])}
    <3>1. Len(ChainOf[n]) \in Nat /\ index[n] \in Nat
      BY <1>0, BreakerAssumption
    <3>. QED  BY <2>4, <2>5, <3>1 DEF Points
  <2>6. \A n \in moved : indexes[n] = index'[n]
    BY <2>4
  <2>7. /\ DOMAIN indexes = moved /\ moved \subseteq Names
        /\ DOMAIN rows = {a} /\ rows[a] = AfterFailure(a)
    OBVIOUS
  <2> HIDE DEF indexes, rows, moved
  <2>8. Saved(rows, indexes)
    BY <1>0, <2>2, <2>3, <2>4, <2>5, <2>6, <2>7 DEF Saved
  <2>. QED  BY <2>1, <2>8
<1>3. ASSUME NEW a \in Agents, SaveRecover(a) PROVE BreakerTypeOK' /\ Saves
  <2>1. BreakerTypeOK'
    BY <1>3, BreakerTypeStep DEF SaveRecover
  <2>2. Saved([b \in {a} |-> Stored(Recovered(a))], NoIndexes)
    BY <1>0, <1>3 DEF SaveRecover, Recover, Saved, NoIndexes
  <2>. QED  BY <2>1, <2>2
<1>4. ASSUME NEW n \in Names, SaveRegister(n) PROVE BreakerTypeOK' /\ Saves
  <2>1. BreakerTypeOK'
    BY <1>4, BreakerTypeStep DEF SaveRegister
  <2>2. Saved(NoRows, [m \in {n} |-> 0])
    BY <1>0, <1>4 DEF SaveRegister, Register, Saved, NoRows
  <2>. QED  BY <2>1, <2>2
<1>5. ASSUME NEW n \in Names, NEW i, SaveResolve(n, i) PROVE BreakerTypeOK' /\ Saves
  <2> DEFINE a == ChainOf[n][i + 1]
             rows == [b \in {b \in {a} : Due(b)} |-> Stored(Asked(a))]
  <2>1. i \in Candidates(n) /\ Resolve(n, i) /\ Save(rows, [m \in {n} |-> i])
    BY <1>5 DEF SaveResolve, Resolve
  <2>2. a \in Agents
    BY <2>1, CandidateInChain
  <2>3. BreakerTypeOK'
    BY <2>1, BreakerTypeStep
  <2>4. /\ entry' = [entry EXCEPT ![a] = Asked(a)]
        /\ index' = [index EXCEPT ![n] = i]
    BY <2>1 DEF Resolve
  <2>5. ~Due(a) => Asked(a) = entry[a]
    BY DEF Asked
  <2>6. /\ DOMAIN rows \subseteq {a}
        /\ a \in DOMAIN rows <=> Due(a)
        /\ \A b \in DOMAIN rows : rows[b] = Stored(Asked(a))
    OBVIOUS
  <2> HIDE DEF rows, a
  <2>7. /\ \A b \in DOMAIN rows : rows[b] = Stored(entry'[b])
        /\ \A b \in Agents \ DOMAIN rows : entry'[b] = entry[b]
    BY <1>0, <2>2, <2>4, <2>5, <2>6
  <2>8. Saved(rows, [m \in {n} |-> i])
    BY <1>0, <2>1, <2>2, <2>4, <2>6, <2>7 DEF Saved
  <2>. QED  BY <2>3, <2>8
<1>. QED  BY <1>1, <1>2, <1>3, <1>4, <1>5 DEF Operation

\* The histories are BOOLEAN; the rest of the store's types.
HistoryTypes ==
    /\ overtaken \in [Agents -> BOOLEAN]
    /\ foreign \in [Agents -> BOOLEAN]
    /\ foreignIndex \in [Names -> BOOLEAN]

StoreTypes ==
    /\ disk \in [Agents -> Entry]
    /\ lateRow \in [Agents -> Entry]
    /\ diskIndex \in [Names -> Nat]
    /\ \A n \in Names : diskIndex[n] <= Len(ChainOf[n])
    /\ late \in [Agents -> {"none", "unread", "half_read", "read"}]
    /\ faults \in 0 .. MaxFaults
    /\ HistoryTypes

LEMMA StoreTypeParts == StoreTypeOK <=> BreakerTypeOK /\ StoreTypes
BY DEF StoreTypeOK, StoreTypes, HistoryTypes

\* What a save leaves of the tables and of the histories.
LEMMA SaveEffect ==
    ASSUME BreakerTypeOK, BreakerTypeOK', StoreTypes,
           NEW rows, NEW indexes, Saved(rows, indexes)
    PROVE  /\ StoreTypes'
           /\ \A a \in Agents :
                /\ disk'[a] = disk[a] \/ disk'[a] = Stored(entry'[a])
                /\ foreign'[a] \/ disk'[a] = Stored(entry'[a])
                   \/ (disk'[a] = disk[a] /\ entry'[a] = entry[a] /\ foreign'[a] = foreign[a])
                /\ entry'[a] = entry[a] \/ overtaken'[a] \/ late[a] \in {"none", "unread"}
                /\ overtaken[a] => overtaken'[a]
           /\ \A n \in Names :
                foreignIndex'[n] \/ diskIndex'[n] = index'[n]
                \/ (diskIndex'[n] = diskIndex[n] /\ foreignIndex'[n] = foreignIndex[n]
                    /\ index'[n] \in {index[n], Len(ChainOf[n])})
           /\ late' = late /\ lateRow' = lateRow
<1>1. PICK saved \in BOOLEAN, moved \in BOOLEAN :
        /\ IF saved /\ moved THEN UNCHANGED faults ELSE Fault
        /\ disk' = IF saved THEN Replaced(disk, rows) ELSE disk
        /\ diskIndex' = IF moved THEN Replaced(diskIndex, indexes) ELSE diskIndex
        /\ foreign' = Replaced(foreign, [a \in DOMAIN rows |-> ~saved])
        /\ foreignIndex' = Replaced(foreignIndex, [n \in DOMAIN indexes |-> ~moved])
  BY DEF Saved, Save
<1>2. /\ overtaken' = [a \in Agents |->
            overtaken[a] \/ (a \in DOMAIN rows /\ late[a] \in {"half_read", "read"})]
      /\ late' = late /\ lateRow' = lateRow
  BY DEF Saved, Save, lateVars
<1>3. /\ \A a \in Agents : entry'[a] \in Entry /\ Stored(entry'[a]) \in Entry
      /\ \A n \in Names : index'[n] \in Nat /\ index'[n] <= Len(ChainOf[n])
  BY StoredFacts DEF BreakerTypeOK
<1>4. /\ DOMAIN disk = Agents /\ DOMAIN diskIndex = Names
      /\ DOMAIN foreign = Agents /\ DOMAIN foreignIndex = Names
  BY DEF StoreTypes, HistoryTypes
<1>5. faults' \in 0 .. MaxFaults
  BY <1>1, StoreAssumption DEF Fault, StoreTypes
<1>6. /\ overtaken' \in [Agents -> BOOLEAN]
      /\ foreign' \in [Agents -> BOOLEAN]
      /\ foreignIndex' \in [Names -> BOOLEAN]
  BY <1>1, <1>2, <1>4 DEF HistoryTypes, StoreTypes, Replaced
<1>7. ASSUME NEW a \in Agents
      PROVE  /\ disk'[a] \in Entry
             /\ disk'[a] = disk[a] \/ disk'[a] = Stored(entry'[a])
             /\ foreign'[a] \/ disk'[a] = Stored(entry'[a])
                \/ (disk'[a] = disk[a] /\ entry'[a] = entry[a] /\ foreign'[a] = foreign[a])
  <2>1. CASE a \in DOMAIN rows
    BY <1>1, <1>3, <1>4, <2>1 DEF Saved, Replaced, StoreTypes
  <2>2. CASE a \notin DOMAIN rows
    BY <1>1, <1>4, <2>2 DEF Saved, Replaced, StoreTypes
  <2>. QED  BY <2>1, <2>2
<1>8. ASSUME NEW a \in Agents
      PROVE  /\ entry'[a] = entry[a] \/ overtaken'[a] \/ late[a] \in {"none", "unread"}
             /\ overtaken[a] => overtaken'[a]
  BY <1>2 DEF Saved, StoreTypes
<1>9. ASSUME NEW n \in Names
      PROVE  /\ diskIndex'[n] \in Nat /\ diskIndex'[n] <= Len(ChainOf[n])
             /\ foreignIndex'[n] \/ diskIndex'[n] = index'[n]
                \/ (diskIndex'[n] = diskIndex[n] /\ foreignIndex'[n] = foreignIndex[n]
                    /\ index'[n] \in {index[n], Len(ChainOf[n])})
  <2>1. CASE n \in DOMAIN indexes
    BY <1>1, <1>3, <1>4, <2>1 DEF Saved, Replaced, StoreTypes
  <2>2. CASE n \notin DOMAIN indexes
    BY <1>1, <1>4, <2>2 DEF Saved, Replaced, StoreTypes
  <2>. QED  BY <2>1, <2>2
<1>10. disk' \in [Agents -> Entry] /\ diskIndex' \in [Names -> Nat]
  BY <1>1, <1>4, <1>7, <1>9 DEF Replaced, StoreTypes
<1>11. StoreTypes'
  BY <1>2, <1>5, <1>6, <1>9, <1>10 DEF StoreTypes, HistoryTypes
<1>. QED  BY <1>2, <1>7, <1>8, <1>9, <1>11

LEMMA StoreTypeInit == StoreInit => StoreTypeOK
<1> SUFFICES ASSUME StoreInit PROVE StoreTypeOK
  OBVIOUS
<1> USE BreakerAssumption, StoreAssumption
<1>1. Fresh \in Entry
  BY DEF Fresh, Entry
<1>2. ASSUME NEW n \in Names PROVE 0 <= Len(ChainOf[n])
  OBVIOUS
<1>3. BreakerTypeOK
  BY <1>1, <1>2 DEF StoreInit, BreakerInit, BreakerTypeOK
<1>4. StoreTypes
  <2>1. HistoryTypes
    BY DEF StoreInit, HistoryTypes
  <2>2. /\ disk \in [Agents -> Entry] /\ lateRow \in [Agents -> Entry]
        /\ late \in [Agents -> {"none", "unread", "half_read", "read"}]
        /\ faults \in 0 .. MaxFaults
    BY <1>1 DEF StoreInit
  <2>3. diskIndex \in [Names -> Nat] /\ \A n \in Names : diskIndex[n] <= Len(ChainOf[n])
    BY <1>2 DEF StoreInit
  <2>. QED  BY <2>1, <2>2, <2>3 DEF StoreTypes
<1>. QED  BY <1>3, <1>4, StoreTypeParts

LEMMA StoreTypeStep == StoreTypeOK /\ [StoreNext]_storedVars => StoreTypeOK'
<1> SUFFICES ASSUME StoreTypeOK, [StoreNext]_storedVars PROVE BreakerTypeOK' /\ StoreTypes'
  BY DEF StoreTypeOK, StoreTypes, HistoryTypes
<1>0. BreakerTypeOK /\ StoreTypes /\ HistoryTypes
  BY StoreTypeParts DEF StoreTypes
<1>a. Fresh \in Entry
  BY BreakerAssumption DEF Fresh, Entry
<1>1. CASE Operation
  BY <1>0, <1>1, OperationSaves, SaveEffect
<1>2. ASSUME NEW a \in Agents, AskThenSave(a) PROVE BreakerTypeOK' /\ StoreTypes'
  <2>1. BreakerTypeOK'
    BY <1>0, <1>2, BreakerTypeStep DEF AskThenSave
  <2>. QED
    BY <1>0, <1>2, <2>1 DEF AskThenSave, StoreTypes, HistoryTypes, tables, histories
<1>3. ASSUME NEW a \in Agents, LateRead(a) PROVE BreakerTypeOK' /\ StoreTypes'
  <2>1. BreakerTypeOK'
    BY <1>0, <1>3, BreakerTypeStep DEF LateRead
  <2>2. entry[a] \in Entry /\ lateRow[a] \in Entry
    BY <1>0 DEF BreakerTypeOK, StoreTypes
  <2>3. [lateRow[a] EXCEPT !.state = entry[a].state] \in Entry
    BY <2>2 DEF Entry
  <2>4. [Stored(entry[a]) EXCEPT !.state = lateRow[a].state] \in Entry
    BY <2>2, StoredFacts DEF Entry
  <2>5. lateRow' \in [Agents -> Entry] /\ late' \in [Agents -> {"none", "unread", "half_read", "read"}]
    BY <1>0, <1>3, <2>3, <2>4 DEF LateRead, StoreTypes
  <2>. QED
    BY <1>0, <1>3, <2>1, <2>5 DEF LateRead, StoreTypes, HistoryTypes, tables, histories
<1>4. ASSUME NEW a \in Agents, LateWrite(a) PROVE BreakerTypeOK' /\ StoreTypes'
  <2>1. BreakerTypeOK'
    BY <1>0, <1>4, BreakerTypeStep DEF LateWrite
  <2>2. faults' \in 0 .. MaxFaults
    BY <1>0, <1>4, StoreAssumption DEF LateWrite, Fault, StoreTypes
  <2>3. HistoryTypes'
    BY <1>0, <1>4 DEF LateWrite, HistoryTypes
  <2>4. /\ disk' \in [Agents -> Entry]
        /\ lateRow' \in [Agents -> Entry]
        /\ late' \in [Agents -> {"none", "unread", "half_read", "read"}]
        /\ diskIndex' = diskIndex
    BY <1>0, <1>a, <1>4 DEF LateWrite, StoreTypes
  <2>. QED  BY <1>0, <2>1, <2>2, <2>3, <2>4 DEF StoreTypes
<1>5. ASSUME NEW a \in Agents, Elapse(a) PROVE BreakerTypeOK' /\ StoreTypes'
  BY <1>0, <1>5, BreakerTypeStep
     DEF Elapse, StoreTypes, HistoryTypes, tables, lateVars, histories
<1>6. ASSUME NEW a \in Agents, PeerSaves(a) PROVE BreakerTypeOK' /\ StoreTypes'
  <2>1. BreakerTypeOK'
    BY <1>0, <1>6, BreakerTypeStep DEF PeerSaves
  <2>2. disk' \in [Agents -> Entry]
    BY <1>0, <1>6 DEF PeerSaves, SavedRow, StoreTypes
  <2>3. HistoryTypes' /\ faults' \in 0 .. MaxFaults
    BY <1>0, <1>6, StoreAssumption DEF PeerSaves, Fault, HistoryTypes, StoreTypes
  <2>. QED  BY <1>0, <1>6, <2>1, <2>2, <2>3 DEF PeerSaves, StoreTypes, lateVars
<1>7. ASSUME NEW n \in Names, PeerMoves(n) PROVE BreakerTypeOK' /\ StoreTypes'
  <2>1. BreakerTypeOK'
    BY <1>0, <1>7, BreakerTypeStep DEF PeerMoves
  <2>2. PICK i \in 0 .. Len(ChainOf[n]) - 1 : diskIndex' = [diskIndex EXCEPT ![n] = i]
    BY <1>7 DEF PeerMoves
  <2>3. i \in Nat /\ i <= Len(ChainOf[n])
    BY BreakerAssumption
  <2>4. diskIndex' \in [Names -> Nat] /\ \A m \in Names : diskIndex'[m] <= Len(ChainOf[m])
    BY <1>0, <2>2, <2>3 DEF StoreTypes
  <2>5. HistoryTypes' /\ faults' \in 0 .. MaxFaults
    BY <1>0, <1>7, StoreAssumption DEF PeerMoves, Fault, HistoryTypes, StoreTypes
  <2>. QED  BY <1>0, <1>7, <2>1, <2>4, <2>5 DEF PeerMoves, StoreTypes, lateVars
<1>8. CASE Restart
  <2>1. BreakerTypeOK'
    BY <1>0, <1>8 DEF Restart, BreakerTypeOK, StoreTypes
  <2>2. faults' \in 0 .. MaxFaults
    BY <1>0, <1>8, StoreAssumption DEF Restart, Fault, StoreTypes
  <2>3. HistoryTypes'
    BY <1>8 DEF Restart, HistoryTypes
  <2>. QED
    BY <1>0, <1>8, <1>a, <2>1, <2>2, <2>3 DEF Restart, StoreTypes, tables
<1>9. CASE UNCHANGED storedVars
  BY <1>0, <1>9, BreakerTypeStep
     DEF storedVars, breakerVars, tables, lateVars, histories, StoreTypes, HistoryTypes
<1>. QED
  BY <1>1, <1>2, <1>3, <1>4, <1>5, <1>6, <1>7, <1>8, <1>9 DEF StoreNext, Operation

\* StoreTypeOK always holds: in particular no chain's index, in memory or stored, leaves it.
THEOREM StoreTypeCorrect == StoreSpec => []StoreTypeOK
<1>1. StoreInit => StoreTypeOK
  BY StoreTypeInit
<1>2. StoreTypeOK /\ [StoreNext]_storedVars => StoreTypeOK'
  BY StoreTypeStep
<1>. QED  BY <1>1, <1>2, PTL DEF StoreSpec

(***************************************************************************)
(* What the database knows.  A restart turns rows into entries, so rows    *)
(* must be fixed points of Stored: none says that a cooldown has elapsed.  *)
(* And what a late save has read must still be what the entry says, unless *)
(* an operation has run since.                                             *)
(***************************************************************************)
RowsAreStored ==
    \A a \in Agents : disk[a].stamp # "elapsed" /\ lateRow[a].stamp # "elapsed"

LateIsRead ==
    \A a \in Agents : ~overtaken[a] =>
        /\ late[a] = "half_read" => lateRow[a].state = entry[a].state
        /\ late[a] = "read" => lateRow[a] = Stored(entry[a])

LEMMA RowsStep == StoreTypeOK /\ RowsAreStored /\ [StoreNext]_storedVars => RowsAreStored'
<1> SUFFICES ASSUME StoreTypeOK, RowsAreStored, [StoreNext]_storedVars PROVE RowsAreStored'
  OBVIOUS
<1> USE DEF RowsAreStored
<1>0. BreakerTypeOK /\ StoreTypes
  BY StoreTypeParts
<1>1. CASE Operation
  <2>1. BreakerTypeOK' /\ \E rows, indexes : Saved(rows, indexes)
    BY <1>0, <1>1, OperationSaves
  <2>2. \A a \in Agents : Stored(entry'[a]).stamp # "elapsed"
    BY <2>1, StoredFacts DEF BreakerTypeOK
  <2>3. /\ \A a \in Agents : disk'[a] = disk[a] \/ disk'[a] = Stored(entry'[a])
        /\ lateRow' = lateRow
    BY <1>0, <2>1, SaveEffect
  <2>. QED  BY <2>2, <2>3
<1>2. ASSUME NEW a \in Agents, AskThenSave(a) \/ Elapse(a) PROVE RowsAreStored'
  BY <1>2 DEF AskThenSave, Elapse, tables, lateVars
<1>3. ASSUME NEW a \in Agents, LateRead(a) PROVE RowsAreStored'
  <2>1. entry[a] \in Entry /\ lateRow[a] \in Entry
    BY <1>0 DEF BreakerTypeOK, StoreTypes
  <2>2. [lateRow[a] EXCEPT !.state = entry[a].state].stamp # "elapsed"
    BY <2>1 DEF Entry
  <2>3. [Stored(entry[a]) EXCEPT !.state = lateRow[a].state].stamp # "elapsed"
    BY <2>1, StoredFacts DEF Entry
  <2>. QED  BY <1>0, <1>3, <2>2, <2>3 DEF LateRead, StoreTypes, tables
<1>4. ASSUME NEW a \in Agents, LateWrite(a) PROVE RowsAreStored'
  BY <1>0, <1>4 DEF LateWrite, StoreTypes, Fresh
<1>5. ASSUME NEW a \in Agents, PeerSaves(a) PROVE RowsAreStored'
  BY <1>0, <1>5 DEF PeerSaves, SavedRow, StoreTypes, lateVars
<1>6. ASSUME NEW n \in Names, PeerMoves(n) PROVE RowsAreStored'
  BY <1>6 DEF PeerMoves, lateVars
<1>7. CASE Restart
  BY <1>7 DEF Restart, Fresh, tables
<1>8. CASE UNCHANGED storedVars
  BY <1>8 DEF storedVars, tables, lateVars
<1>. QED
  BY <1>1, <1>2, <1>3, <1>4, <1>5, <1>6, <1>7, <1>8 DEF StoreNext, Operation

\* The two halves of DiskIsCurrent, and LateIsRead of one agent.
RowIsCurrent(a) == late[a] = "none" /\ ~foreign[a] => disk[a] = Stored(entry[a])
IndexIsCurrent(n) ==
    ~foreignIndex[n] => diskIndex[n] = index[n] \/ index[n] = Len(ChainOf[n])
ReadIsCurrent(a) ==
    ~overtaken[a] =>
        /\ late[a] = "half_read" => lateRow[a].state = entry[a].state
        /\ late[a] = "read" => lateRow[a] = Stored(entry[a])

LEMMA DiskStep ==
    ASSUME StoreTypeOK, RowsAreStored, LateIsRead, DiskIsCurrent, [StoreNext]_storedVars
    PROVE  LateIsRead' /\ DiskIsCurrent'
<1> DEFINE Current == /\ \A a \in Agents : RowIsCurrent(a) /\ ReadIsCurrent(a)
                      /\ \A n \in Names : IndexIsCurrent(n)
<1> SUFFICES Current'
  BY DEF DiskIsCurrent, LateIsRead, RowIsCurrent, IndexIsCurrent, ReadIsCurrent
<1>0. BreakerTypeOK /\ StoreTypes /\ HistoryTypes
  BY StoreTypeParts DEF StoreTypes
<1>a. Current
  BY DEF DiskIsCurrent, LateIsRead, RowIsCurrent, IndexIsCurrent, ReadIsCurrent
<1> USE DEF RowIsCurrent, IndexIsCurrent, ReadIsCurrent
<1>1. CASE Operation
  <2>1. BreakerTypeOK' /\ \E rows, indexes : Saved(rows, indexes)
    BY <1>0, <1>1, OperationSaves
  <2>2. /\ \A a \in Agents :
             /\ foreign'[a] \/ disk'[a] = Stored(entry'[a])
                \/ (disk'[a] = disk[a] /\ entry'[a] = entry[a] /\ foreign'[a] = foreign[a])
             /\ entry'[a] = entry[a] \/ overtaken'[a] \/ late[a] \in {"none", "unread"}
             /\ overtaken[a] => overtaken'[a]
        /\ \A n \in Names :
             foreignIndex'[n] \/ diskIndex'[n] = index'[n]
             \/ (diskIndex'[n] = diskIndex[n] /\ foreignIndex'[n] = foreignIndex[n]
                 /\ index'[n] \in {index[n], Len(ChainOf[n])})
        /\ late' = late /\ lateRow' = lateRow
    BY <1>0, <2>1, SaveEffect
  <2>. QED  BY <1>a, <2>2
\* Either nothing changes or the save is on its way and has read nothing.
<1>2. ASSUME NEW a \in Agents, AskThenSave(a) PROVE Current'
  BY <1>0, <1>a, <1>2
     DEF AskThenSave, IsAvailable, Asked, StoreTypes, BreakerTypeOK, tables, histories
<1>3. ASSUME NEW a \in Agents, LateRead(a) PROVE Current'
  <2>1. UNCHANGED <<entry, index, disk, diskIndex, overtaken, foreign, foreignIndex>>
    BY <1>3 DEF LateRead, breakerVars, tables, histories
  <2>2. entry[a] \in Entry /\ lateRow[a] \in Entry
    BY <1>0 DEF BreakerTypeOK, StoreTypes
  <2>3. CASE late[a] = "unread"
    <3>1. /\ late' = [late EXCEPT ![a] = "half_read"]
          /\ lateRow' = [lateRow EXCEPT ![a].state = entry[a].state]
      BY <1>3, <2>3 DEF LateRead
    <3>2. [lateRow[a] EXCEPT !.state = entry[a].state].state = entry[a].state
      BY <2>2 DEF Entry
    <3>. QED  BY <1>0, <1>a, <2>1, <3>1, <3>2 DEF StoreTypes
  <2>4. CASE late[a] = "half_read"
    <3>1. /\ late' = [late EXCEPT ![a] = "read"]
          /\ lateRow' = [lateRow EXCEPT ![a] = [Stored(entry[a]) EXCEPT !.state = lateRow[a].state]]
      BY <1>3, <2>4 DEF LateRead
    <3>2. ~overtaken[a] => lateRow[a].state = entry[a].state
      BY <1>a, <2>4
    <3>3. ~overtaken[a] => [Stored(entry[a]) EXCEPT !.state = lateRow[a].state] = Stored(entry[a])
      <4>1. entry[a].state \in {"closed", "open", "half_open"}
        BY <2>2 DEF Entry
      <4>2. [Stored(entry[a]) EXCEPT !.state = entry[a].state] = Stored(entry[a])
        BY <2>2, <4>1, StoredFacts
      <4>. QED  BY <3>2, <4>2
    <3>. QED  BY <1>0, <1>a, <2>1, <3>1, <3>3 DEF StoreTypes
  <2>. QED  BY <1>3, <2>3, <2>4 DEF LateRead
\* Not overtaken: what is written is what the entry is stored as.
<1>4. ASSUME NEW a \in Agents, LateWrite(a) PROVE Current'
  <2>1. /\ UNCHANGED <<entry, index, diskIndex, foreignIndex>>
        /\ late' = [late EXCEPT ![a] = "none"]
        /\ lateRow' = [lateRow EXCEPT ![a] = Fresh]
        /\ overtaken' = [overtaken EXCEPT ![a] = FALSE]
    BY <1>4 DEF LateWrite, breakerVars
  <2>2. foreign'[a] \/ disk'[a] = Stored(entry[a])
    <3>1. ~overtaken[a] => lateRow[a] = Stored(entry[a])
      BY <1>4, <1>a DEF LateWrite
    <3>. QED  BY <1>0, <1>4, <3>1 DEF LateWrite, StoreTypes, HistoryTypes
  <2>3. \A b \in Agents \ {a} : disk'[b] = disk[b] /\ foreign'[b] = foreign[b]
    BY <1>0, <1>4 DEF LateWrite, StoreTypes, HistoryTypes
  <2>4. \A b \in Agents \ {a} : /\ late'[b] = late[b] /\ lateRow'[b] = lateRow[b]
                                /\ overtaken'[b] = overtaken[b]
    BY <1>0, <2>1 DEF StoreTypes, HistoryTypes
  <2>5. late'[a] = "none"
    BY <1>0, <2>1 DEF StoreTypes
  <2>. QED  BY <1>a, <2>1, <2>2, <2>3, <2>4, <2>5
<1>5. ASSUME NEW a \in Agents, Elapse(a) PROVE Current'
  <2>1. entry[a] \in Entry /\ entry[a].stamp = "set" /\ index' = index
        /\ entry' = [entry EXCEPT ![a].stamp = "elapsed"]
    BY <1>0, <1>5 DEF Elapse, Cooldown, BreakerTypeOK
  <2>2. /\ Stored([entry[a] EXCEPT !.stamp = "elapsed"]) = Stored(entry[a])
        /\ [entry[a] EXCEPT !.stamp = "elapsed"].state = entry[a].state
    BY <2>1, StoredFacts DEF Entry
  <2>3. \A b \in Agents : Stored(entry'[b]) = Stored(entry[b]) /\ entry'[b].state = entry[b].state
    BY <1>0, <2>1, <2>2 DEF BreakerTypeOK
  <2>4. UNCHANGED <<disk, diskIndex, late, lateRow, overtaken, foreign, foreignIndex>>
    BY <1>5 DEF Elapse, tables, lateVars, histories
  <2>. QED  BY <1>a, <2>1, <2>3, <2>4
<1>6. ASSUME NEW a \in Agents, PeerSaves(a) PROVE Current'
  BY <1>0, <1>a, <1>6 DEF PeerSaves, StoreTypes, HistoryTypes, breakerVars, lateVars
<1>7. ASSUME NEW n \in Names, PeerMoves(n) PROVE Current'
  BY <1>0, <1>a, <1>7 DEF PeerMoves, StoreTypes, HistoryTypes, breakerVars, lateVars
<1>8. CASE Restart
  <2>1. \A b \in Agents : Stored(disk[b]) = disk[b]
    BY <1>0, StoredFacts DEF RowsAreStored, StoreTypes
  <2>. QED  BY <1>8, <2>1 DEF Restart, tables
<1>9. CASE UNCHANGED storedVars
  BY <1>a, <1>9 DEF storedVars, breakerVars, tables, lateVars, histories
<1>. QED
  BY <1>1, <1>2, <1>3, <1>4, <1>5, <1>6, <1>7, <1>8, <1>9 DEF StoreNext, Operation

\* A row that this breaker saved last is that of its entry, for any number of agents,
\* chains, late saves, other breakers and restarts: a late save is only wrong when an
\* operation ran while it read.
THEOREM DiskIsTrue == StoreSpec => []DiskIsCurrent
<1>1. StoreInit => RowsAreStored /\ LateIsRead /\ DiskIsCurrent
  BY DEF StoreInit, BreakerInit, RowsAreStored, LateIsRead, DiskIsCurrent, Fresh, Stored
<1>2. StoreTypeOK /\ RowsAreStored /\ [StoreNext]_storedVars => RowsAreStored'
  BY RowsStep
<1>3. StoreTypeOK /\ RowsAreStored /\ LateIsRead /\ DiskIsCurrent /\ [StoreNext]_storedVars
        => LateIsRead' /\ DiskIsCurrent'
  BY DiskStep
<1>. QED  BY <1>1, <1>2, <1>3, StoreTypeCorrect, PTL DEF StoreSpec

(***************************************************************************)
(* The dispatcher: types.                                                  *)
(***************************************************************************)
CallTypes ==
    /\ call \in [Calls -> Call]
    /\ cancels \in 0 .. MaxCancels
    /\ mended \in BOOLEAN

BalancerTypes ==
    /\ load \in [Agents -> Nat] /\ early \in [Agents -> Nat] /\ leaked \in [Agents -> Nat]
    /\ known \subseteq Agents

\* An open or half-open breaker has had its failures in a row, a closed one has not.
CountIsTrue == \A a \in Agents : (entry[a].state = "closed") = (entry[a].failures < Threshold)

LEMMA TypeParts == TypeOK <=> BreakerTypeOK /\ CountIsTrue /\ CallTypes /\ BalancerTypes
BY DEF TypeOK, CountIsTrue, CallTypes, BalancerTypes

LEMMA BusyCounts == \A a \in Agents : IsFiniteSet(Busy(a)) /\ Cardinality(Busy(a)) \in Nat
<1>1. \A a \in Agents : IsFiniteSet(Busy(a))
  BY DispatchAssumption, FS_Subset DEF Busy
<1>. QED  BY <1>1, FS_CardinalityType

\* The steps of the breaker that Dispatch makes.
BreakerStep ==
    \/ \E a \in Agents : \/ RecordSuccess(a) \/ RecordFailure(a)
                         \/ IsAvailable(a) \/ Recover(a) \/ Cooldown(a)
    \/ \E n \in Names : \E i \in Candidates(n) : Resolve(n, i)
    \/ UNCHANGED breakerVars

LEMMA BreakerSteps == TypeOK /\ [Next]_vars => BreakerStep
<1> SUFFICES ASSUME TypeOK, [Next]_vars PROVE BreakerStep
  OBVIOUS
<1> USE DEF BreakerStep
<1>0. \A c \in Calls : AgentOf(c) \in Agents
  BY DEF AgentOf, TypeOK, Call
<1>1. ASSUME NEW c \in Calls, Check(c) \/ Succeed(c) \/ Fail(c) PROVE BreakerStep
  BY <1>0, <1>1 DEF Check, Succeed, Fail
<1>2. ASSUME NEW c \in Calls, FailOver(c) PROVE BreakerStep
  BY <1>2 DEF FailOver, Fallbacks
<1>3. ASSUME NEW c \in Calls,
             GiveUp(c) \/ Reject(c) \/ NoDriver(c) \/ Enqueue(c) \/ Acquire(c) \/ DriverEnds(c) \/ Cancel(c)
      PROVE  BreakerStep
  BY <1>3 DEF GiveUp, Reject, NoDriver, Enqueue, Acquire, DriverEnds, Cancel
<1>4. ASSUME NEW c \in Calls, NEW a \in Agents, Begin(c, a) PROVE BreakerStep
  BY <1>4 DEF Begin
<1>5. ASSUME NEW a \in Agents, Maintain(a) \/ Enroll(a) PROVE BreakerStep
  BY <1>5 DEF Maintain, Enroll
<1>6. CASE Mend \/ UNCHANGED vars
  BY <1>6 DEF Mend, vars, breakerVars
<1>. QED  BY <1>1, <1>2, <1>3, <1>4, <1>5, <1>6 DEF Next, Proceed

LEMMA CountStep == BreakerTypeOK /\ CountIsTrue /\ BreakerStep => CountIsTrue'
<1> SUFFICES ASSUME BreakerTypeOK, CountIsTrue, BreakerStep PROVE CountIsTrue'
  OBVIOUS
<1> USE BreakerAssumption DEF CountIsTrue
<1>0. \A b \in Agents : entry[b] \in Entry
  BY DEF BreakerTypeOK
<1>1. ASSUME NEW a \in Agents, RecordSuccess(a) PROVE CountIsTrue'
  BY <1>0, <1>1 DEF RecordSuccess, Fresh, BreakerTypeOK
<1>2. ASSUME NEW a \in Agents, RecordFailure(a) PROVE CountIsTrue'
  <2>1. (AfterFailure(a).state = "closed") = (AfterFailure(a).failures < Threshold)
    BY <1>0 DEF AfterFailure, Entry
  <2>. QED  BY <1>0, <1>2, <2>1 DEF RecordFailure, BreakerTypeOK
<1>3. ASSUME NEW a \in Agents, entry' = [entry EXCEPT ![a] = Asked(a)] PROVE CountIsTrue'
  <2>1. (Asked(a).state = "closed") = (Asked(a).failures < Threshold)
    BY <1>0 DEF Asked, Due, Entry
  <2>. QED  BY <1>0, <1>3, <2>1 DEF BreakerTypeOK
<1>4. ASSUME NEW a \in Agents, Recover(a) PROVE CountIsTrue'
  <2>1. Recovered(a).state = "closed" /\ Recovered(a).failures = 0
    BY <1>0 DEF Recovered, Entry
  <2>. QED  BY <1>0, <1>4, <2>1 DEF Recover, BreakerTypeOK
<1>5. ASSUME NEW a \in Agents, Cooldown(a) PROVE CountIsTrue'
  <2>1. /\ [entry[a] EXCEPT !.stamp = "elapsed"].state = entry[a].state
        /\ [entry[a] EXCEPT !.stamp = "elapsed"].failures = entry[a].failures
    BY <1>0 DEF Entry
  <2>. QED  BY <1>0, <1>5, <2>1 DEF Cooldown, BreakerTypeOK
<1>6. ASSUME NEW n \in Names, NEW i \in Candidates(n), Resolve(n, i) PROVE CountIsTrue'
  BY <1>3, <1>6, CandidateInChain DEF Resolve
<1>7. CASE UNCHANGED breakerVars
  BY <1>7 DEF breakerVars
<1>. QED  BY <1>1, <1>2, <1>3, <1>4, <1>5, <1>6, <1>7 DEF BreakerStep, IsAvailable

\* What the actions put in a caller's place is a call.
LEMMA CallPlaces ==
    ASSUME TypeOK, NEW c \in Calls
    PROVE  /\ Calm \in Call
           /\ Over(c) \in [Calls -> Call]
           /\ \A s \in Steps : To(c, s) \in [Calls -> Call] /\ Ended(c, s) \in [Calls -> Call]
           /\ [call EXCEPT ![c].live = FALSE] \in [Calls -> Call]
           /\ \A a \in Agents, d \in 0 .. MaxDepth :
                [call EXCEPT ![c].step = "check", ![c].agent = a, ![c].depth = d] \in [Calls -> Call]
<1> USE DispatchAssumption
<1>1. call \in [Calls -> Call] /\ call[c] \in Call
  BY DEF TypeOK
<1>2. call[c].agent \in Agents
  BY <1>1 DEF Call
<1>3. Calm \in Call
  <2>1. (CHOOSE a \in Agents : TRUE) \in Agents
    BY <1>2
  <2>. QED  BY <2>1 DEF Calm, Call, Steps
<1>4. Over(c) \in [Calls -> Call]
  BY <1>1, <1>3 DEF Over
<1>5. ASSUME NEW s \in Steps PROVE To(c, s) \in [Calls -> Call]
  BY <1>1 DEF To, Call
<1>6. ASSUME NEW s \in Steps PROVE Ended(c, s) \in [Calls -> Call]
  <2>1. 0 \in 0 .. MaxDepth
    OBVIOUS
  <2>2. [call[c] EXCEPT !.step = s, !.depth = 0, !.overtaken = FALSE] \in Call
    BY ONLY <1>1, <2>1, s \in Steps DEF Call
  <2>. QED  BY <1>1, <2>2 DEF Ended
<1>7. [call EXCEPT ![c].live = FALSE] \in [Calls -> Call]
  BY <1>1 DEF Call
<1>8. ASSUME NEW a \in Agents, NEW d \in 0 .. MaxDepth
      PROVE [call EXCEPT ![c].step = "check", ![c].agent = a, ![c].depth = d] \in [Calls -> Call]
  BY <1>1 DEF Call, Steps
<1>. QED  BY <1>3, <1>4, <1>5, <1>6, <1>7, <1>8

LEMMA TypeInit == Init => TypeOK
<1> SUFFICES ASSUME Init PROVE TypeOK
  OBVIOUS
<1> USE BreakerAssumption, DispatchAssumption
<1>1. Fresh \in Entry
  BY DEF Fresh, Entry
<1>2. BreakerTypeOK
  <2>1. \A n \in Names : 0 <= Len(ChainOf[n])
    OBVIOUS
  <2>. QED  BY <1>1, <2>1 DEF Init, BreakerInit, BreakerTypeOK
<1>3. CountIsTrue
  BY DEF Init, BreakerInit, Fresh, CountIsTrue
<1>4. mended \in BOOLEAN
  BY DEF Init
<1>5. BalancerTypes /\ cancels \in 0 .. MaxCancels
  BY DEF Init, BalancerTypes
<1>6. (Agents # {}) => Calm \in Call
  <2>1. Agents # {} => (CHOOSE a \in Agents : TRUE) \in Agents
    OBVIOUS
  <2>. QED  BY <2>1 DEF Calm, Call, Steps
<1>7. call \in [Calls -> Call]
  BY <1>6 DEF Init
<1>. QED  BY <1>2, <1>3, <1>4, <1>5, <1>7, TypeParts DEF CallTypes

\* The load balancer's counters stay counters.
LEMMA BalancerTypeStep == TypeOK /\ [Next]_vars => BalancerTypes'
<1> SUFFICES ASSUME TypeOK, [Next]_vars PROVE BalancerTypes'
  OBVIOUS
<1> USE DEF BalancerTypes
<1>0. BalancerTypes /\ \A c \in Calls : AgentOf(c) \in Agents
  BY TypeParts DEF CallTypes, Call, AgentOf
<1>a. ASSUME Settle PROVE early' \in [Agents -> Nat]
  BY <1>0, <1>a DEF Settle
<1>1. ASSUME NEW c \in Calls,
             \/ Check(c) \/ FailOver(c) \/ GiveUp(c) \/ Reject(c) \/ NoDriver(c)
             \/ Acquire(c) \/ Succeed(c) \/ Fail(c)
      PROVE  BalancerTypes'
  <2>1. UNCHANGED balancerVars
    BY <1>1 DEF Check, FailOver, GiveUp, Reject, NoDriver, Acquire, Succeed, Fail
  <2>. QED  BY <1>0, <2>1 DEF balancerVars
<1>2. ASSUME NEW c \in Calls, NEW a \in Agents, Begin(c, a) PROVE BalancerTypes'
  BY <1>0, <1>2 DEF Begin, balancerVars
<1>3. ASSUME NEW c \in Calls, Enqueue(c) PROVE BalancerTypes'
  BY <1>0, <1>3 DEF Enqueue
<1>4. ASSUME NEW c \in Calls, DriverEnds(c) PROVE BalancerTypes'
  <2>1. load' \in [Agents -> Nat]
    BY <1>0, <1>4 DEF DriverEnds, Unloaded
  <2>. QED  BY <1>0, <1>a, <1>4, <2>1 DEF DriverEnds
<1>5. ASSUME NEW c \in Calls, Cancel(c) PROVE BalancerTypes'
  <2>1. leaked' \in [Agents -> Nat]
    BY <1>0, <1>5 DEF Cancel
  <2>. QED  BY <1>0, <1>a, <1>5, <2>1 DEF Cancel
<1>6. ASSUME NEW a \in Agents, Enroll(a) PROVE BalancerTypes'
  BY <1>0, <1>6, BusyCounts DEF Enroll
<1>7. ASSUME (\E a \in Agents : Maintain(a)) \/ Mend \/ UNCHANGED vars PROVE BalancerTypes'
  BY <1>0, <1>7 DEF Maintain, Mend, vars, balancerVars
<1>. QED
  BY <1>1, <1>2, <1>3, <1>4, <1>5, <1>6, <1>7 DEF Next, Proceed

LEMMA TypeStep == TypeOK /\ [Next]_vars => TypeOK'
<1> SUFFICES ASSUME TypeOK, [Next]_vars PROVE TypeOK'
  OBVIOUS
<1>0. BreakerTypeOK' /\ CountIsTrue'
  <2>1. BreakerTypeOK /\ CountIsTrue /\ BreakerStep
    BY TypeParts, BreakerSteps
  <2>. QED  BY <2>1, BreakerTypeStep, CountStep DEF BreakerStep
<1>a. \A c \in Calls : call[c] \in Call /\ AgentOf(c) \in Agents
  BY DEF AgentOf, TypeOK, Call
<1> USE DEF CallTypes
<1>b. CallTypes
  BY TypeParts
<1>1. ASSUME NEW c \in Calls, NEW a \in Agents, Begin(c, a) PROVE CallTypes'
  <2>1. [Calm EXCEPT !.step = "check", !.agent = a, !.live = TRUE] \in Call
    BY CallPlaces DEF Call, Steps
  <2>. QED  BY <1>b, <1>1, <2>1 DEF Begin
<1>2. ASSUME NEW c \in Calls, Check(c) \/ Acquire(c) \/ GiveUp(c) \/ Reject(c) \/ NoDriver(c) \/ Succeed(c)
      PROVE  CallTypes'
  <2>0. call' \in {Over(c), To(c, "passed"), To(c, "refused"), To(c, "running"), Ended(c, "failed")}
    BY <1>2 DEF Check, Acquire, GiveUp, Reject, NoDriver, Succeed
  <2>a. \A p \in {"passed", "refused", "running", "failed"} : p \in Steps
    BY DEF Steps
  <2>b. /\ Over(c) \in [Calls -> Call]
        /\ \A s \in Steps : To(c, s) \in [Calls -> Call] /\ Ended(c, s) \in [Calls -> Call]
    BY CallPlaces
  <2>1. call' \in [Calls -> Call]
    BY ONLY <2>0, <2>a, <2>b
  <2>2. cancels' = cancels /\ mended' = mended
    BY <1>2 DEF Check, Acquire, GiveUp, Reject, NoDriver, Succeed
  <2>. QED  BY <1>b, <2>1, <2>2
<1>3. ASSUME NEW c \in Calls, FailOver(c) PROVE CallTypes'
  <2> DEFINE a == AgentOf(c)
  <2>1. PICK i \in Fallbacks(a) :
             call' = [call EXCEPT ![c].step = "check", ![c].agent = ChainOf[a][i + 1],
                                  ![c].depth = @ + 1]
    BY <1>3 DEF FailOver
  <2>2. ChainOf[a][i + 1] \in Agents
    BY <2>1, CandidateInChain, TypeParts DEF Fallbacks
  <2>3. call[c].depth + 1 \in 0 .. MaxDepth
    BY <1>3, <1>a, DispatchAssumption DEF FailOver, Call
  <2>4. call' = [call EXCEPT ![c].step = "check", ![c].agent = ChainOf[a][i + 1],
                             ![c].depth = call[c].depth + 1]
    BY <1>a, <1>b, <2>1 DEF Call
  <2>5. call' \in [Calls -> Call]
    BY <2>2, <2>3, <2>4, CallPlaces
  <2>6. cancels' = cancels /\ mended' = mended
    BY <1>3 DEF FailOver
  <2>. QED  BY <1>b, <2>5, <2>6
<1>4. ASSUME NEW c \in Calls, Enqueue(c) PROVE CallTypes'
  <2>0. 0 \in 0 .. MaxDepth /\ "waiting" \in Steps /\ call[c] \in Call
    BY <1>a, DispatchAssumption DEF Steps
  <2>1. [call[c] EXCEPT !.step = "waiting", !.depth = 0] \in Call
    BY ONLY <2>0 DEF Call
  <2>2. call' \in [Calls -> Call]
    BY <1>4, <1>b, <2>1 DEF Enqueue
  <2>. QED  BY <1>4, <1>b, <2>2 DEF Enqueue
<1>5. ASSUME NEW c \in Calls, DriverEnds(c) PROVE CallTypes'
  <2>0. call' \in {Ended(c, "succeeded"), Ended(c, "failed")}
    BY <1>5 DEF DriverEnds
  <2>a. "succeeded" \in Steps /\ "failed" \in Steps
    BY DEF Steps
  <2>b. \A s \in Steps : Ended(c, s) \in [Calls -> Call]
    BY CallPlaces
  <2>1. call' \in [Calls -> Call]
    BY ONLY <2>0, <2>a, <2>b
  <2>. QED  BY <1>5, <1>b, <2>1 DEF DriverEnds
<1>6. ASSUME NEW c \in Calls, Fail(c) PROVE CallTypes'
  <2>1. ASSUME NEW d \in Calls PROVE [call[d] EXCEPT !.overtaken = TRUE] \in Call
    BY <1>a DEF Call
  <2>2. Calm \in Call
    BY CallPlaces
  <2>3. call' \in [Calls -> Call]
    BY <1>6, <1>a, <2>1, <2>2 DEF Fail
  <2>. QED  BY <1>6, <1>b, <2>3 DEF Fail
<1>7. ASSUME NEW c \in Calls, Cancel(c) PROVE CallTypes'
  <2>0. call' \in {Over(c), [call EXCEPT ![c].live = FALSE]}
    BY <1>7 DEF Cancel
  <2>a. Over(c) \in [Calls -> Call] /\ [call EXCEPT ![c].live = FALSE] \in [Calls -> Call]
    BY CallPlaces
  <2>1. call' \in [Calls -> Call]
    BY ONLY <2>0, <2>a
  <2>2. cancels' \in 0 .. MaxCancels
    BY <1>7, <1>b, DispatchAssumption DEF Cancel
  <2>. QED  BY <1>7, <1>b, <2>1, <2>2 DEF Cancel
<1>8. ASSUME NEW a \in Agents, Maintain(a) \/ Enroll(a) PROVE CallTypes'
  BY <1>8, <1>b DEF Maintain, Enroll
<1>9. ASSUME Mend PROVE CallTypes'
  <2>1. mended' \in BOOLEAN
    BY <1>9, Zenon DEF Mend
  <2>. QED  BY <1>9, <1>b, <2>1 DEF Mend
<1>10. ASSUME UNCHANGED vars PROVE CallTypes'
  BY <1>10, <1>b DEF vars
<1>11. CallTypes'
  BY <1>1, <1>2, <1>3, <1>4, <1>5, <1>6, <1>7, <1>8, <1>9, <1>10 DEF Next, Proceed
<1>12. TypeOK' <=> BreakerTypeOK' /\ CountIsTrue' /\ CallTypes' /\ BalancerTypes'
  BY DEF TypeOK, CountIsTrue, BalancerTypes
<1>. QED  BY <1>0, <1>11, <1>12, BalancerTypeStep

\* TypeOK always holds: in particular a breaker is closed exactly as long as its agent
\* has failed fewer times in a row than the threshold, in whatever order threads report.
THEOREM TypeCorrect == Spec => []TypeOK
<1>1. Init => TypeOK
  BY TypeInit
<1>2. TypeOK /\ [Next]_vars => TypeOK'
  BY TypeStep
<1>. QED  BY <1>1, <1>2, PTL DEF Spec

(***************************************************************************)
(* Open means no calls.  OpenIsRespected is inductive: a breaker opens only *)
(* by a failure, which marks whoever was let through before.               *)
(***************************************************************************)
\* How an agent's breaker stands after the breaker's own steps, but for a failure.
LEMMA OpensByFailureOnly ==
    ASSUME BreakerTypeOK, NEW b \in Agents, entry'[b].state = "open",
           \/ \E a \in Agents : RecordSuccess(a) \/ IsAvailable(a) \/ Recover(a) \/ Cooldown(a)
           \/ \E n \in Names : \E i \in Candidates(n) : Resolve(n, i)
           \/ UNCHANGED breakerVars
    PROVE  entry[b].state = "open"
<1>0. \A a \in Agents : entry[a] \in Entry
  BY DEF BreakerTypeOK
<1>1. ASSUME NEW a \in Agents, RecordSuccess(a) PROVE entry[b].state = "open"
  BY <1>0, <1>1 DEF RecordSuccess, Fresh, BreakerTypeOK
<1>2. ASSUME NEW a \in Agents, entry' = [entry EXCEPT ![a] = Asked(a)] PROVE entry[b].state = "open"
  <2>1. Asked(a).state = "open" => entry[a].state = "open"
    BY <1>0 DEF Asked, Entry
  <2>. QED  BY <1>2, <2>1 DEF BreakerTypeOK
<1>3. ASSUME NEW a \in Agents, Recover(a) PROVE entry[b].state = "open"
  <2>1. Recovered(a).state = "closed"
    BY <1>0 DEF Recovered, Entry
  <2>. QED  BY <1>3, <2>1 DEF Recover, BreakerTypeOK
<1>4. ASSUME NEW a \in Agents, Cooldown(a) PROVE entry[b].state = "open"
  <2>1. [entry[a] EXCEPT !.stamp = "elapsed"].state = entry[a].state
    BY <1>0 DEF Entry
  <2>. QED  BY <1>4, <2>1 DEF Cooldown, BreakerTypeOK
<1>5. ASSUME NEW n \in Names, NEW i \in Candidates(n), Resolve(n, i) PROVE entry[b].state = "open"
  BY <1>2, <1>5, CandidateInChain DEF Resolve
<1>6. ASSUME UNCHANGED breakerVars PROVE entry[b].state = "open"
  BY <1>6 DEF breakerVars
<1>. QED  BY <1>1, <1>2, <1>3, <1>4, <1>5, <1>6 DEF IsAvailable

LEMMA OpenStep == TypeOK /\ OpenIsRespected /\ [Next]_vars => OpenIsRespected'
<1> SUFFICES ASSUME TypeOK, OpenIsRespected, [Next]_vars, NEW d \in Calls,
                    call'[d].step \in {"passed", "waiting", "running"},
                    entry'[call'[d].agent].state = "open"
             PROVE  call'[d].overtaken
  BY DEF OpenIsRespected, AgentOf
<1>0. /\ BreakerTypeOK /\ call \in [Calls -> Call]
      /\ \A c \in Calls : call[c] \in Call /\ AgentOf(c) \in Agents
  BY DEF TypeOK, AgentOf, Call
<1>a. BreakerTypeOK'
  BY TypeStep DEF TypeOK
\* Whoever was on the way already and stays on the way is marked if the breaker was open.
<1>b. ASSUME call[d].step \in {"passed", "waiting", "running"},
             call'[d].agent = call[d].agent, call'[d].overtaken = call[d].overtaken,
             entry[call[d].agent].state = "open"
      PROVE  call'[d].overtaken
  BY <1>b DEF OpenIsRespected, AgentOf
<1>1. ASSUME NEW c \in Calls, NEW a \in Agents, Begin(c, a) PROVE call'[d].overtaken
  <2>1. d # c
    BY <1>0, <1>1 DEF Begin, Calm
  <2>. QED  BY <1>0, <1>1, <1>b, <2>1 DEF Begin, breakerVars
\* The answer is "available", so the breaker is not open afterwards.
<1>2. ASSUME NEW c \in Calls, Check(c) PROVE call'[d].overtaken
  <2>1. call' \in {Over(c), To(c, "passed"), To(c, "refused")} /\ IsAvailable(AgentOf(c))
    BY <1>2 DEF Check
  <2>2. CASE d = c
    <3>1. call' = To(c, "passed") /\ Available(AgentOf(c))
      <4>1. Over(c)[c].step = "idle" /\ To(c, "refused")[c].step = "refused"
        BY <1>0 DEF Over, To, Calm, Call
      <4>2. call' # Over(c) /\ call' # To(c, "refused")
        BY <2>2, <4>1
      <4>. QED  BY <1>2, <4>2 DEF Check
    <3>2. call'[d].agent = AgentOf(c)
      BY <1>0, <2>2, <3>1 DEF To, AgentOf, Call
    <3>3. entry'[AgentOf(c)] = Asked(AgentOf(c))
      BY <1>0, <2>1 DEF IsAvailable, BreakerTypeOK
    <3>4. Asked(AgentOf(c)).state # "open"
      BY <1>0, <3>1 DEF Asked, Available, Due, BreakerTypeOK, Entry
    <3>. QED  BY <3>2, <3>3, <3>4
  <2>3. CASE d # c
    <3>1. call'[d] = call[d]
      BY <1>0, <2>1, <2>3 DEF Over, To
    <3>2. entry[call[d].agent].state = "open"
      BY <1>0, <2>1, <3>1, OpensByFailureOnly DEF AgentOf
    <3>. QED  BY <1>b, <3>1, <3>2
  <2>. QED  BY <2>2, <2>3
<1>3. ASSUME NEW c \in Calls, FailOver(c) PROVE call'[d].overtaken
  <2>1. PICK i \in Fallbacks(AgentOf(c)) :
          /\ Resolve(AgentOf(c), i)
          /\ call' = [call EXCEPT ![c].step = "check", ![c].agent = ChainOf[AgentOf(c)][i + 1],
                                  ![c].depth = @ + 1]
    BY <1>3 DEF FailOver
  <2>2. d # c
    BY <1>0, <2>1 DEF Call
  <2>3. call'[d] = call[d]
    BY <1>0, <2>1, <2>2
  <2>4. entry[call[d].agent].state = "open"
    BY <1>0, <2>1, <2>3, OpensByFailureOnly DEF AgentOf, Fallbacks
  <2>. QED  BY <1>b, <2>3, <2>4
<1>4. ASSUME NEW c \in Calls, GiveUp(c) \/ Reject(c) \/ NoDriver(c) \/ DriverEnds(c) \/ Cancel(c)
      PROVE  call'[d].overtaken
  <2>1. /\ entry' = entry
        /\ call' \in {Over(c), Ended(c, "succeeded"), Ended(c, "failed"), [call EXCEPT ![c].live = FALSE]}
    BY <1>4 DEF GiveUp, Reject, NoDriver, DriverEnds, Cancel, breakerVars
  <2>2. call'[d] = call[d] \/ call'[d] = [call[d] EXCEPT !.live = FALSE]
    <3>1. CASE d # c
      BY <1>0, <2>1, <3>1 DEF Over, Ended
    <3>2. CASE d = c
      <4>1. /\ Over(c)[c].step = "idle"
            /\ Ended(c, "succeeded")[c].step = "succeeded"
            /\ Ended(c, "failed")[c].step = "failed"
        BY <1>0 DEF Over, Ended, Calm, Call
      <4>2. call' = [call EXCEPT ![c].live = FALSE]
        BY <2>1, <3>2, <4>1
      <4>. QED  BY <1>0, <3>2, <4>2
    <3>. QED  BY <3>1, <3>2
  <2>3. /\ call'[d].step = call[d].step
        /\ call'[d].agent = call[d].agent
        /\ call'[d].overtaken = call[d].overtaken
    BY <1>0, <2>2 DEF Call
  <2>. QED  BY <1>b, <2>1, <2>3
<1>5. ASSUME NEW c \in Calls, Enqueue(c) \/ Acquire(c) PROVE call'[d].overtaken
  <2>1. /\ entry' = entry
        /\ call[c].step \in {"passed", "waiting"}
        /\ call' \in {To(c, "running"), [call EXCEPT ![c].step = "waiting", ![c].depth = 0]}
    BY <1>5 DEF Enqueue, Acquire, At, breakerVars
  <2>2. /\ call[d].step \in {"passed", "waiting", "running"}
        /\ call'[d].agent = call[d].agent
        /\ call'[d].overtaken = call[d].overtaken
    BY <1>0, <2>1 DEF To, Call
  <2>. QED  BY <1>b, <2>1, <2>2
<1>6. ASSUME NEW c \in Calls, Succeed(c) PROVE call'[d].overtaken
  <2>1. RecordSuccess(AgentOf(c)) /\ call' = Over(c)
    BY <1>6 DEF Succeed
  <2>2. call'[d] = call[d]
    BY <1>0, <2>1 DEF Over, Calm
  <2>3. entry[call[d].agent].state = "open"
    BY <1>0, <2>1, <2>2, OpensByFailureOnly DEF AgentOf
  <2>. QED  BY <1>b, <2>2, <2>3
\* The failure that opens the breaker marks the calls that were let through.
<1>7. ASSUME NEW c \in Calls, Fail(c) PROVE call'[d].overtaken
  <2> DEFINE a == AgentOf(c)
             marked == d \in LetThrough(a) /\ AfterFailure(a).state = "open"
  <2>1. call'[d] = IF d = c THEN Calm
                   ELSE IF marked THEN [call[d] EXCEPT !.overtaken = TRUE] ELSE call[d]
    BY <1>7 DEF Fail
  <2>2. d # c
    BY <2>1 DEF Calm
  <2>3. CASE marked
    BY <1>0, <2>1, <2>2, <2>3 DEF Call
  <2>4. CASE ~marked
    <3>1. call'[d] = call[d]
      BY <2>1, <2>2, <2>4
    <3>2. entry' = [entry EXCEPT ![a] = AfterFailure(a)]
      BY <1>7 DEF Fail, RecordFailure
    <3>3. AgentOf(d) # a
      BY <1>0, <2>4, <3>1, <3>2 DEF LetThrough, AgentOf, BreakerTypeOK
    <3>4. entry[call[d].agent].state = "open"
      BY <1>0, <3>1, <3>2, <3>3 DEF AgentOf, BreakerTypeOK
    <3>. QED  BY <1>b, <3>1, <3>4
  <2>. QED  BY <2>3, <2>4
<1>8. ASSUME NEW a \in Agents, Maintain(a) \/ Enroll(a) PROVE call'[d].overtaken
  <2>1. call' = call /\ (Recover(a) \/ Cooldown(a) \/ entry' = entry)
    BY <1>8 DEF Maintain, Enroll, breakerVars
  <2>2. entry[call[d].agent].state = "open"
    BY <1>0, <2>1, OpensByFailureOnly DEF AgentOf
  <2>. QED  BY <1>b, <2>1, <2>2
<1>9. ASSUME Mend \/ UNCHANGED vars PROVE call'[d].overtaken
  BY <1>9, <1>b DEF Mend, vars, breakerVars
<1>. QED
  BY <1>1, <1>2, <1>3, <1>4, <1>5, <1>6, <1>7, <1>8, <1>9 DEF Next, Proceed

\* A call on its way to the driver of an agent whose breaker is open got past the
\* breaker before it opened, in a thread or through a chain, for any number of callers.
THEOREM OpenMeansNoCalls == Spec => []OpenIsRespected
<1>1. Init => OpenIsRespected
  BY DEF Init, OpenIsRespected, Calm
<1>2. TypeOK /\ OpenIsRespected /\ [Next]_vars => OpenIsRespected'
  BY OpenStep
<1>. QED  BY <1>1, <1>2, TypeCorrect, PTL DEF Spec

(***************************************************************************)
(* The load balancer's counters.  LoadIsTrue is inductive: each action     *)
(* adds the caller to an agent's busy calls, takes it away, or leaves them. *)
(***************************************************************************)
LEMMA LoadStep == TypeOK /\ LoadIsTrue /\ [Next]_vars => LoadIsTrue'
<1> SUFFICES ASSUME TypeOK, LoadIsTrue, [Next]_vars, NEW a \in Agents
             PROVE  IF a \in known'
                    THEN load'[a] \in Cardinality(Busy(a)') - early'[a]
                                      .. Cardinality(Busy(a)') + leaked'[a]
                    ELSE load'[a] = 0
  BY DEF LoadIsTrue
<1> DEFINE n == Cardinality(Busy(a))
           m == Cardinality(Busy(a)')
           Kept == IF a \in known' THEN load'[a] \in m - early'[a] .. m + leaked'[a]
                   ELSE load'[a] = 0
           Settled == early'[a] = IF Busy(a)' = {} THEN 0 ELSE early[a]
<1>0. /\ call \in [Calls -> Call] /\ \A c \in Calls : call[c] \in Call /\ AgentOf(c) \in Agents
      /\ BalancerTypes
      /\ load[a] \in Nat /\ early[a] \in Nat /\ leaked[a] \in Nat
  BY TypeParts DEF CallTypes, BalancerTypes, Call, AgentOf
<1>a. /\ IsFiniteSet(Busy(a)) /\ n \in Nat
      /\ a \in known => load[a] >= n - early[a] /\ load[a] <= n + leaked[a]
      /\ a \notin known => load[a] = 0
  BY <1>0, BusyCounts DEF LoadIsTrue
\* The busy calls stay as they are; the history may be settled.
<1>b. ASSUME Busy(a)' = Busy(a), load'[a] = load[a], known' = known,
             leaked'[a] = leaked[a], early'[a] = early[a] \/ Settled
      PROVE  Kept
  <2>1. m = n
    BY <1>b
  <2>2. Busy(a)' = {} => m = 0
    BY FS_EmptySet
  <2> HIDE DEF n, m
  <2>. QED  BY <1>0, <1>a, <1>b, <2>1, <2>2
\* A busy call ends: it is taken off, or it is cancelled and leaks.
<1>c. ASSUME NEW c \in Busy(a), Busy(a)' = Busy(a) \ {c}, known' = known, Settled,
             \/ /\ load'[a] = IF load[a] > 0 THEN load[a] - 1 ELSE 0
                /\ leaked'[a] = leaked[a]
             \/ load'[a] = load[a] /\ leaked'[a] = leaked[a] + 1
      PROVE  Kept
  <2>1. m = n - 1
    BY <1>a, <1>c, FS_RemoveElement, ZenonT(30)
  <2>2. n # 0
    BY <1>a, <1>c, FS_EmptySet
  <2>3. Busy(a)' = {} => m = 0
    BY FS_EmptySet
  <2> HIDE DEF n, m
  <2>. QED  BY <1>0, <1>a, <1>c, <2>1, <2>2, <2>3
\* Steps outside "waiting" and "running" change no busy set.
<1>d. ASSUME NEW c \in Calls, call[c].step \notin {"waiting", "running"},
             \A d \in Calls \ {c} : /\ call'[d].step = call[d].step
                                    /\ call'[d].agent = call[d].agent,
             call'[c].step \notin {"waiting", "running"}
      PROVE  Busy(a)' = Busy(a)
  BY <1>d DEF Busy, AgentOf
<1>1. ASSUME NEW c \in Calls, NEW b \in Agents, Begin(c, b) PROVE Kept
  <2>1. Busy(a)' = Busy(a)
    BY <1>0, <1>1, <1>d DEF Begin, Calm, At
  <2>2. UNCHANGED <<load, known, early, leaked>>
    BY <1>1 DEF Begin, balancerVars
  <2> HIDE DEF Kept
  <2>. QED  BY <1>b, <2>1, <2>2
<1>2. ASSUME NEW c \in Calls, Check(c) \/ GiveUp(c) \/ Reject(c) \/ NoDriver(c) \/ Succeed(c) PROVE Kept
  <2>1. /\ call[c].step \notin {"waiting", "running"}
        /\ call' \in {Over(c), To(c, "passed"), To(c, "refused"), Ended(c, "failed")}
    BY <1>2 DEF Check, GiveUp, Reject, NoDriver, Succeed, At
  <2>2. call'[c].step \notin {"waiting", "running"}
    BY <1>0, <2>1 DEF Over, To, Ended, Calm, Call
  <2>3. \A d \in Calls \ {c} : call'[d] = call[d]
    BY <1>0, <2>1 DEF Over, To, Ended
  <2>4. Busy(a)' = Busy(a)
    BY <1>d, <2>1, <2>2, <2>3
  <2>5. UNCHANGED <<load, known, early, leaked>>
    BY <1>2 DEF Check, GiveUp, Reject, NoDriver, Succeed, balancerVars
  <2> HIDE DEF Kept
  <2>. QED  BY <1>b, <2>4, <2>5
<1>3. ASSUME NEW c \in Calls, FailOver(c) PROVE Kept
  <2>1. /\ call[c].step \notin {"waiting", "running"}
        /\ call'[c].step \notin {"waiting", "running"}
        /\ \A d \in Calls \ {c} : call'[d] = call[d]
    BY <1>0, <1>3 DEF FailOver, At, Call
  <2>2. Busy(a)' = Busy(a)
    BY <1>d, <2>1
  <2>3. UNCHANGED <<load, known, early, leaked>>
    BY <1>3 DEF FailOver, balancerVars
  <2> HIDE DEF Kept
  <2>. QED  BY <1>b, <2>2, <2>3
<1>4. ASSUME NEW c \in Calls, Enqueue(c) PROVE Kept
  <2>1. /\ call[c].step = "passed"
        /\ call'[c].step = "waiting" /\ call'[c].agent = call[c].agent
        /\ \A d \in Calls \ {c} : call'[d] = call[d]
    BY <1>0, <1>4 DEF Enqueue, At, Call
  <2>2. /\ UNCHANGED <<known, early, leaked>>
        /\ load'[a] = IF a = AgentOf(c) /\ a \in known THEN load[a] + 1 ELSE load[a]
    BY <1>4 DEF Enqueue
  <2>3. CASE AgentOf(c) = a
    <3>1. Busy(a)' = Busy(a) \union {c} /\ c \notin Busy(a)
      BY <2>1, <2>3 DEF Busy, AgentOf
    <3>2. m = n + 1
      BY <1>a, <3>1, FS_AddElement
    <3> HIDE DEF n, m
    <3>. QED  BY <1>0, <1>a, <2>2, <2>3, <3>2
  <2>4. CASE AgentOf(c) # a
    <3>1. Busy(a)' = Busy(a)
      BY <2>1, <2>4 DEF Busy, AgentOf
    <3> HIDE DEF Kept
    <3>. QED  BY <1>b, <2>2, <2>4, <3>1
  <2>. QED  BY <2>3, <2>4
<1>5. ASSUME NEW c \in Calls, Acquire(c) PROVE Kept
  <2>1. Busy(a)' = Busy(a)
    BY <1>0, <1>5 DEF Acquire, At, To, Busy, AgentOf, Call
  <2>2. UNCHANGED <<load, known, early, leaked>>
    BY <1>5 DEF Acquire, balancerVars
  <2> HIDE DEF Kept
  <2>. QED  BY <1>b, <2>1, <2>2
<1>6. ASSUME NEW c \in Calls, DriverEnds(c) PROVE Kept
  <2>1. /\ call[c].step = "running"
        /\ call' \in {Ended(c, "succeeded"), Ended(c, "failed")}
        /\ load' = Unloaded(AgentOf(c)) /\ known' = known /\ leaked' = leaked
    BY <1>6 DEF DriverEnds, At
  <2>2. Settled
    BY <1>6 DEF DriverEnds, Settle
  <2>3. /\ call'[c].step \notin {"waiting", "running"}
        /\ \A d \in Calls \ {c} : call'[d] = call[d]
    BY <1>0, <2>1 DEF Ended, Call
  <2>4. CASE AgentOf(c) = a
    <3>1. Busy(a)' = Busy(a) \ {c} /\ c \in Busy(a)
      BY <2>1, <2>3, <2>4 DEF Busy, AgentOf
    <3>2. load'[a] = IF load[a] > 0 THEN load[a] - 1 ELSE 0
      BY <1>0, <2>1, <2>4 DEF Unloaded, BalancerTypes
    <3> HIDE DEF Kept, Settled
    <3>. QED  BY <1>c, <2>1, <2>2, <3>1, <3>2
  <2>5. CASE AgentOf(c) # a
    <3>1. Busy(a)' = Busy(a)
      BY <2>1, <2>3, <2>5 DEF Busy, AgentOf
    <3>2. load'[a] = load[a]
      BY <1>0, <2>1, <2>5 DEF Unloaded, BalancerTypes
    <3> HIDE DEF Kept, Settled
    <3>. QED  BY <1>b, <2>1, <2>2, <3>1, <3>2
  <2>. QED  BY <2>4, <2>5
<1>7. ASSUME NEW c \in Calls, Fail(c) PROVE Kept
  <2>1. /\ call[c].step = "failed"
        /\ \A d \in Calls : call'[d] \in {Calm, call[d], [call[d] EXCEPT !.overtaken = TRUE]}
        /\ \A d \in Calls \ {c} : call'[d] \in {call[d], [call[d] EXCEPT !.overtaken = TRUE]}
        /\ call'[c] = Calm
    BY <1>0, <1>7 DEF Fail, At
  <2>2. \A d \in Calls \ {c} : call'[d].step = call[d].step /\ call'[d].agent = call[d].agent
    BY <1>0, <2>1 DEF Call
  <2>3. Busy(a)' = Busy(a)
    BY <1>d, <2>1, <2>2 DEF Calm
  <2>4. UNCHANGED <<load, known, early, leaked>>
    BY <1>7 DEF Fail, balancerVars
  <2> HIDE DEF Kept
  <2>. QED  BY <1>b, <2>3, <2>4
\* A cancelled call that was busy never gets to record_finish: the counter stays.
<1>8. ASSUME NEW c \in Calls, Cancel(c) PROVE Kept
  <2>1. /\ call' = Over(c)
           \/ (call' = [call EXCEPT ![c].live = FALSE]
               /\ call[c].step \notin {"waiting", "running"})
        /\ load' = load /\ known' = known
    BY <1>8 DEF Cancel
  <2>2. leaked' = IF c \in Busy(AgentOf(c))
                  THEN [leaked EXCEPT ![AgentOf(c)] = @ + 1] ELSE leaked
    BY <1>8 DEF Cancel
  <2>3. Settled
    BY <1>8 DEF Cancel, Settle
  <2>4. \A d \in Calls \ {c} : call'[d] = call[d]
    BY <1>0, <2>1 DEF Over
  <2>5. CASE c \in Busy(a)
    <3>1. AgentOf(c) = a /\ call' = Over(c)
      BY <2>1, <2>5 DEF Busy
    <3>2. call'[c].step = "idle"
      BY <1>0, <3>1 DEF Over, Calm
    <3>3. Busy(a)' = Busy(a) \ {c}
      BY <2>4, <3>2 DEF Busy, AgentOf
    <3>4. leaked'[a] = leaked[a] + 1
      BY <1>0, <2>2, <2>5, <3>1 DEF BalancerTypes
    <3> HIDE DEF Kept, Settled
    <3>. QED  BY <1>c, <2>1, <2>3, <2>5, <3>3, <3>4
  <2>6. CASE c \notin Busy(a)
    <3>1. leaked'[a] = leaked[a]
      BY <1>0, <2>2, <2>6 DEF BalancerTypes
    <3>2. c \notin Busy(a)'
      <4>1. CASE call' = Over(c)
        BY <1>0, <4>1 DEF Over, Calm, Busy
      <4>2. CASE call' = [call EXCEPT ![c].live = FALSE]
        BY <1>0, <2>6, <4>2 DEF Busy, AgentOf, Call
      <4>. QED  BY <2>1, <4>1, <4>2
    <3>3. Busy(a)' = Busy(a)
      BY <2>4, <2>6, <3>2 DEF Busy, AgentOf
    <3> HIDE DEF Kept, Settled
    <3>. QED  BY <1>b, <2>1, <2>3, <3>1, <3>3
  <2>. QED  BY <2>5, <2>6
\* An agent that becomes known is idle; all that are busy are early.
<1>9. ASSUME NEW b \in Agents, Enroll(b) PROVE Kept
  <2>1. /\ b \notin known /\ known' = known \union {b}
        /\ early' = [early EXCEPT ![b] = Cardinality(Busy(b))]
        /\ call' = call /\ load' = load /\ leaked' = leaked
    BY <1>9 DEF Enroll
  <2>2. Busy(a)' = Busy(a) /\ m = n
    BY <2>1 DEF Busy, AgentOf
  <2>3. early'[a] = IF a = b THEN n ELSE early[a]
    BY <1>0, <2>1 DEF BalancerTypes
  <2> HIDE DEF n, m
  <2>. QED  BY <1>0, <1>a, <2>1, <2>2, <2>3
<1>10. ASSUME (\E b \in Agents : Maintain(b)) \/ Mend \/ UNCHANGED vars PROVE Kept
  <2>1. call' = call /\ UNCHANGED <<load, known, early, leaked>>
    BY <1>10 DEF Maintain, Mend, vars, balancerVars
  <2>2. Busy(a)' = Busy(a)
    BY <2>1 DEF Busy, AgentOf
  <2> HIDE DEF Kept
  <2>. QED  BY <1>b, <2>1, <2>2
<1>. QED
  BY <1>1, <1>2, <1>3, <1>4, <1>5, <1>6, <1>7, <1>8, <1>9, <1>10 DEF Next, Proceed

\* The load balancer is wrong about an agent by at most the calls it was told of too late
\* and those that were cancelled, for any number of callers and permits.
THEOREM LoadIsKnown == Spec => []LoadIsTrue
<1>1. Init => LoadIsTrue
  <2>1. ASSUME Init, NEW a \in Agents
        PROVE  IF a \in known
               THEN load[a] \in Cardinality(Busy(a)) - early[a] .. Cardinality(Busy(a)) + leaked[a]
               ELSE load[a] = 0
    <3>1. Busy(a) = {} /\ load[a] = 0 /\ early[a] = 0 /\ leaked[a] = 0
      BY <2>1 DEF Init, Busy, Calm
    <3>2. Cardinality(Busy(a)) = 0
      BY <3>1, FS_EmptySet
    <3>. QED  BY <3>1, <3>2
  <2>. QED  BY <2>1 DEF LoadIsTrue
<1>2. TypeOK /\ LoadIsTrue /\ [Next]_vars => LoadIsTrue'
  BY LoadStep
<1>. QED  BY <1>1, <1>2, TypeCorrect, PTL DEF Spec
=============================================================================
