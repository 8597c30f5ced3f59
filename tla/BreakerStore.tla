---------------------------- MODULE BreakerStore ----------------------------
(***************************************************************************)
(* The database behind a CircuitBreaker: circuit_breaker_state and          *)
(* failover_chains, loaded when the process starts and written by every     *)
(* operation, here called by any thread at any time.  Operations save while *)
(* they hold the lock; the move to half-open in is_available is saved after *)
(* the lock is released, by reading the shared entry field by field while   *)
(* other threads change it.  Errors of the database are logged and dropped. *)
(*                                                                         *)
(* Other CircuitBreakers, of this process and of others, save to the same   *)
(* tables.  None reads them again once it has started.                      *)
(***************************************************************************)
EXTENDS CircuitBreaker

CONSTANT MaxFaults    \* bound on failed saves, restarts and saves of other breakers

ASSUME StoreAssumption == MaxFaults \in Nat

VARIABLES
    disk,       \* circuit_breaker_state
    diskIndex,  \* failover_chains
    late,       \* the save that a thread in is_available still has to do
    lateRow,    \* what that thread has read of the entry so far
    faults,     \* number of faults so far
    \* Histories:
    overtaken,     \* an operation has saved the entry since the late save began to read it
    foreign,       \* the last save of the row failed, was overtaken or was another breaker's
    foreignIndex   \* the last save of the chain failed or was another breaker's

tables == <<disk, diskIndex>>
lateVars == <<late, lateRow>>
histories == <<overtaken, foreign, foreignIndex>>
storedVars == <<breakerVars, tables, lateVars, faults, histories>>

StoreInit ==
    /\ BreakerInit
    /\ disk = [a \in Agents |-> Fresh]
    /\ diskIndex = [n \in Names |-> 0]
    /\ late = [a \in Agents |-> "none"]
    /\ lateRow = [a \in Agents |-> Fresh]
    /\ faults = 0
    /\ overtaken = [a \in Agents |-> FALSE]
    /\ foreign = [a \in Agents |-> FALSE]
    /\ foreignIndex = [n \in Names |-> FALSE]

Fault ==
    /\ faults < MaxFaults
    /\ faults' = faults + 1

\* A row keeps the time itself; whether the cooldown has passed is found out again.
Stored(e) == [e EXCEPT !.stamp = IF @ = "never" THEN "never" ELSE "set"]

\* The table with the given rows replaced.
Replaced(table, rows) ==
    [x \in DOMAIN table |-> IF x \in DOMAIN rows THEN rows[x] ELSE table[x]]

\* The rows and the indexes are saved one after the other; either save may fail.
Save(rows, indexes) ==
    /\ \E saved, moved \in BOOLEAN :
        /\ IF saved /\ moved THEN UNCHANGED faults ELSE Fault
        /\ disk' = IF saved THEN Replaced(disk, rows) ELSE disk
        /\ diskIndex' = IF moved THEN Replaced(diskIndex, indexes) ELSE diskIndex
        /\ foreign' = Replaced(foreign, [a \in DOMAIN rows |-> ~saved])
        /\ foreignIndex' = Replaced(foreignIndex, [n \in DOMAIN indexes |-> ~moved])
    /\ overtaken' = [a \in Agents |->
            overtaken[a] \/ (a \in DOMAIN rows /\ late[a] \in {"half_read", "read"})]
    /\ UNCHANGED lateVars

NoRows == [a \in {} |-> Fresh]
NoIndexes == [n \in {} |-> 0]

-----------------------------------------------------------------------------
(* Operations that save under the lock *)

SaveSuccess(a) ==
    /\ RecordSuccess(a)
    /\ Save([b \in {a} |-> Fresh], [n \in {m \in Names : ResetBy(m, a)} |-> 0])

\* A chain that has run off its end is not saved.
SaveFailure(a) ==
    /\ RecordFailure(a)
    /\ Save([b \in {a} |-> AfterFailure(a)],
            [n \in {m \in Names : Points(m, a) /\ index[m] + 1 < Len(ChainOf[m])} |->
                index[n] + 1])

\* The lock is held by resolve_failover while is_available saves.
SaveResolve(n, i) ==
    LET a == ChainOf[n][i + 1] IN
    /\ Resolve(n, i)
    /\ Save([b \in {b \in {a} : Due(b)} |-> Stored(Asked(a))], [m \in {n} |-> i])

SaveRecover(a) ==
    /\ Recover(a)
    /\ Save([b \in {a} |-> Stored(Recovered(a))], NoIndexes)

SaveRegister(n) ==
    /\ Register(n)
    /\ Save(NoRows, [m \in {n} |-> 0])

-----------------------------------------------------------------------------
(* The save of is_available *)

\* Mutant of AskThenSave: the move to half-open is not saved.
AskUnsaved(a) ==
    /\ IsAvailable(a)
    /\ UNCHANGED <<tables, lateVars, faults, histories>>

\* Bound: one unfinished late save per agent.
AskThenSave(a) ==
    /\ IsAvailable(a)
    /\ IF Due(a)
       THEN late[a] = "none" /\ late' = [late EXCEPT ![a] = "unread"]
       ELSE UNCHANGED late
    /\ UNCHANGED <<tables, lateRow, faults, histories>>

\* The state is read, then the other fields.
LateRead(a) ==
    /\ \/ /\ late[a] = "unread"
          /\ late' = [late EXCEPT ![a] = "half_read"]
          /\ lateRow' = [lateRow EXCEPT ![a].state = entry[a].state]
       \/ /\ late[a] = "half_read"
          /\ late' = [late EXCEPT ![a] = "read"]
          /\ lateRow' = [lateRow EXCEPT ![a] = [Stored(entry[a]) EXCEPT !.state = lateRow[a].state]]
    /\ UNCHANGED <<breakerVars, tables, faults, histories>>

LateWrite(a) ==
    /\ late[a] = "read"
    /\ late' = [late EXCEPT ![a] = "none"]
    /\ lateRow' = [lateRow EXCEPT ![a] = Fresh]
    /\ overtaken' = [overtaken EXCEPT ![a] = FALSE]
    /\ \/ /\ disk' = [disk EXCEPT ![a] = lateRow[a]]
          /\ foreign' = [foreign EXCEPT ![a] = overtaken[a]]
          /\ UNCHANGED faults
       \/ /\ Fault
          /\ foreign' = [foreign EXCEPT ![a] = TRUE]
          /\ UNCHANGED disk
    /\ UNCHANGED <<breakerVars, diskIndex, foreignIndex>>

-----------------------------------------------------------------------------
(* The environment *)

Elapse(a) == Cooldown(a) /\ UNCHANGED <<tables, lateVars, faults, histories>>

\* What a breaker saves of an agent.
SavedRow ==
    {row \in Entry :
        /\ row.stamp # "elapsed" /\ (row.stamp = "never" => row = Fresh)
        /\ row.state = "closed" <=> row.failures < Threshold}

\* Another breaker, of this process or another, replaces a row by what it knows itself.
PeerSaves(a) ==
    /\ Fault
    /\ \E row \in SavedRow : disk' = [disk EXCEPT ![a] = row]
    /\ foreign' = [foreign EXCEPT ![a] = TRUE]
    /\ UNCHANGED <<breakerVars, diskIndex, lateVars, overtaken, foreignIndex>>

\* Likewise with the index of a chain.
PeerMoves(n) ==
    /\ Fault
    /\ \E i \in 0 .. Len(ChainOf[n]) - 1 : diskIndex' = [diskIndex EXCEPT ![n] = i]
    /\ foreignIndex' = [foreignIndex EXCEPT ![n] = TRUE]
    /\ UNCHANGED <<breakerVars, disk, lateVars, overtaken, foreign>>

\* The process dies and loads the database again.
Restart ==
    /\ Fault
    /\ entry' = disk
    /\ index' = diskIndex
    /\ late' = [a \in Agents |-> "none"]
    /\ lateRow' = [a \in Agents |-> Fresh]
    /\ overtaken' = [a \in Agents |-> FALSE]
    /\ foreign' = [a \in Agents |-> FALSE]
    /\ foreignIndex' = [n \in Names |-> FALSE]
    /\ UNCHANGED tables

StoreNext ==
    \/ \E a \in Agents :
        \/ SaveSuccess(a) \/ SaveFailure(a) \/ SaveRecover(a)
        \/ AskThenSave(a) \/ LateRead(a) \/ LateWrite(a) \/ Elapse(a)
        \/ PeerSaves(a)
    \/ \E n \in Names :
        \/ SaveRegister(n)
        \/ \E i \in 0 .. Len(ChainOf[n]) : SaveResolve(n, i)
        \/ PeerMoves(n)
    \/ Restart

StoreSpec == StoreInit /\ [][StoreNext]_storedVars

-----------------------------------------------------------------------------
(* Properties *)

StoreTypeOK ==
    /\ BreakerTypeOK
    /\ disk \in [Agents -> Entry]
    /\ lateRow \in [Agents -> Entry]
    /\ diskIndex \in [Names -> Nat]
    /\ \A n \in Names : diskIndex[n] <= Len(ChainOf[n])
    /\ late \in [Agents -> {"none", "unread", "half_read", "read"}]
    /\ faults \in 0 .. MaxFaults
    /\ overtaken \in [Agents -> BOOLEAN]
    /\ foreign \in [Agents -> BOOLEAN]
    /\ foreignIndex \in [Names -> BOOLEAN]

\* What a restart brings back of an agent is what this breaker knew of it, if the save it
\* ended with went through, was not another breaker's, and, when it was the late one of
\* is_available, no operation ran between its first read and its write: a late save whose
\* entry changed before it read it, and one that overwrites another breaker's row, are
\* harmless.  Likewise of a chain's index, unless it has run off the end, which is not saved.
DiskIsCurrent ==
    /\ \A a \in Agents : late[a] = "none" /\ ~foreign[a] => disk[a] = Stored(entry[a])
    /\ \A n \in Names :
        ~foreignIndex[n] => diskIndex[n] = index[n] \/ index[n] = Len(ChainOf[n])
=============================================================================
