--------------------------- MODULE LeaderElection ---------------------------
(***************************************************************************)
(* DistributedLease and LeaseBasedLeaderElection                            *)
(* (core/reliability/distributed_lease.py): instances that compete for one  *)
(* Redis key with a time to live, renew it from a background loop and act   *)
(* as leader while is_leader says so.                                       *)
(*                                                                         *)
(* A value of the key is "<holder>:<token>".  The code only ever compares   *)
(* it with the value of one's own latest acquisition, so the key is         *)
(* abstracted to whose latest value it is, or Stale when it is nobody's: a  *)
(* restarted process has a new holder id.  Time is abstracted: the key may  *)
(* expire at any moment, and must when nobody renews it.  A call to Redis   *)
(* may fail, before or after the server has executed it.                    *)
(***************************************************************************)
EXTENDS Integers, FiniteSets

CONSTANTS
    Instances,   \* processes, each with one election object
    NoKey,       \* the key is absent
    Stale,       \* the key holds a value that is no instance's latest
    MaxFaults    \* bound on failed calls, crashes and late renewals

ASSUME LeaseAssumption ==
    /\ NoKey # Stale /\ NoKey \notin Instances /\ Stale \notin Instances
    /\ MaxFaults \in Nat

VARIABLES
    key,       \* NoKey, Stale, or the instance whose value it holds
    held,      \* _held of each lease
    tokened,   \* the lease has a token: it was acquired and not released
    renewing,  \* the renewal task is alive
    leader,    \* _is_leader of each election
    faults,    \* number of faults so far
    clean      \* history: no acquisition failed open, no held key expired

vars == <<key, held, tokened, renewing, leader, faults, clean>>

Init ==
    /\ key = NoKey
    /\ held = [i \in Instances |-> FALSE]
    /\ tokened = [i \in Instances |-> FALSE]
    /\ renewing = [i \in Instances |-> FALSE]
    /\ leader = [i \in Instances |-> FALSE]
    /\ faults = 0
    /\ clean = TRUE

IsLeader(i) == leader[i] /\ held[i]

Fault ==
    /\ faults < MaxFaults
    /\ faults' = faults + 1

-----------------------------------------------------------------------------
(* Acquisition: start() and contested_once() *)

\* Mutant of Acquired: SET without NX.
AcquiredByForce(i) ==
    /\ key' = i
    /\ held' = [held EXCEPT ![i] = TRUE]
    /\ tokened' = [tokened EXCEPT ![i] = TRUE]
    /\ renewing' = [renewing EXCEPT ![i] = TRUE]
    /\ leader' = [leader EXCEPT ![i] = TRUE]
    /\ UNCHANGED <<faults, clean>>

\* SET NX succeeded.
Acquired(i) ==
    /\ key = NoKey
    /\ key' = i
    /\ held' = [held EXCEPT ![i] = TRUE]
    /\ tokened' = [tokened EXCEPT ![i] = TRUE]
    /\ renewing' = [renewing EXCEPT ![i] = TRUE]
    /\ leader' = [leader EXCEPT ![i] = TRUE]
    /\ UNCHANGED <<faults, clean>>

\* The key exists, be it one's own: the lease is left as it is, a renewal loop
\* included, and the election takes the instance for a follower.
Refused(i) ==
    /\ key # NoKey
    /\ leader' = [leader EXCEPT ![i] = FALSE]
    /\ UNCHANGED <<key, held, tokened, renewing, faults, clean>>

\* The call failed: the instance assumes that it leads, with a new token and without
\* a renewal loop of its own.
FailedOpen(i) ==
    /\ Fault
    /\ key' \in IF key = NoKey THEN {NoKey, i} ELSE {IF key = i THEN Stale ELSE key}
    /\ held' = [held EXCEPT ![i] = TRUE]
    /\ tokened' = [tokened EXCEPT ![i] = TRUE]
    /\ leader' = [leader EXCEPT ![i] = TRUE]
    /\ clean' = FALSE
    /\ UNCHANGED renewing

Contest(i) == Acquired(i) \/ Refused(i)

-----------------------------------------------------------------------------
(* The renewal loop *)

\* SET XX: any existing key is overwritten with one's own value; without a key the
\* lease is lost.
Renew(i) ==
    /\ renewing[i] /\ held[i]
    /\ \/ /\ key # NoKey
          /\ key' = i
          /\ UNCHANGED <<held, renewing>>
       \/ /\ key = NoKey
          /\ held' = [held EXCEPT ![i] = FALSE]
          /\ renewing' = [renewing EXCEPT ![i] = FALSE]
          /\ UNCHANGED key
    /\ UNCHANGED <<tokened, leader, faults, clean>>

\* An exception ends the loop; _held stays as it is.
RenewFails(i) ==
    /\ renewing[i] /\ held[i]
    /\ Fault
    /\ key' \in {key, IF key = NoKey THEN NoKey ELSE i}
    /\ renewing' = [renewing EXCEPT ![i] = FALSE]
    /\ UNCHANGED <<held, tokened, leader, clean>>

\* heartbeat(): the leader notices that it has lost the lease.
Heartbeat(i) ==
    /\ leader[i] /\ ~held[i]
    /\ leader' = [leader EXCEPT ![i] = FALSE]
    /\ UNCHANGED <<key, held, tokened, renewing, faults, clean>>

-----------------------------------------------------------------------------
(* Release: close(), and stop() of a leader *)

\* The script deletes the key if it holds the value of one's own token.
Deleted(i) == IF tokened[i] /\ key = i THEN NoKey ELSE key

Release(i) ==
    /\ held' = [held EXCEPT ![i] = FALSE]
    /\ tokened' = [tokened EXCEPT ![i] = FALSE]
    /\ renewing' = [renewing EXCEPT ![i] = FALSE]
    /\ leader' = [leader EXCEPT ![i] = FALSE]
    /\ UNCHANGED clean

Close(i) ==
    /\ Release(i)
    /\ key' = Deleted(i)
    /\ UNCHANGED faults

CloseFails(i) ==
    /\ Fault
    /\ tokened[i]
    /\ Release(i)
    /\ key' \in {Deleted(i), IF key = i THEN Stale ELSE key}

\* stop() releases only what the election believes to lead.
StopElection(i) == leader[i] /\ Close(i)

-----------------------------------------------------------------------------
(* The environment *)

\* The process dies; its successor is another holder.
Crash(i) ==
    /\ Fault
    /\ Release(i)
    /\ key' = IF key = i THEN Stale ELSE key

\* Nobody renews the key: it is sure to expire.
Unattended == key = Stale \/ (key \in Instances /\ ~(held[key] /\ renewing[key]))

\* Mutant of Expire: the key is written without a time to live.
NeverExpires == FALSE /\ UNCHANGED vars

\* The time to live runs out; of a key that is being renewed only if the holder's
\* event loop was blocked for that long.
Expire ==
    /\ key # NoKey
    /\ key' = NoKey
    /\ IF Unattended THEN UNCHANGED faults ELSE Fault
    /\ clean' = (clean /\ ~(key \in Instances /\ held[key]))
    /\ UNCHANGED <<held, tokened, renewing, leader>>

-----------------------------------------------------------------------------
Next ==
    \/ \E i \in Instances : Contest(i)
    \/ \E i \in Instances : FailedOpen(i)
    \/ \E i \in Instances : Renew(i)
    \/ \E i \in Instances : RenewFails(i)
    \/ \E i \in Instances : Heartbeat(i)
    \/ \E i \in Instances : Close(i)
    \/ \E i \in Instances : CloseFails(i)
    \/ \E i \in Instances : StopElection(i)
    \/ \E i \in Instances : Crash(i)
    \/ Expire

Spec == Init /\ [][Next]_vars

(* Renewal loops are scheduled and Redis expires what nobody renews.  That an     *)
(* instance which does not lead keeps contesting is what the class asks of its    *)
(* users.                                                                         *)
Fairness ==
    /\ \A i \in Instances :
        /\ WF_vars(Renew(i))
        /\ WF_vars(~IsLeader(i) /\ Contest(i))
    /\ WF_vars(Unattended /\ Expire)

FairSpec == Spec /\ Fairness

-----------------------------------------------------------------------------
(* Properties *)

\* The types, and that a renewal loop runs only for a lease that is held and has a token.
TypeOK ==
    /\ key \in Instances \union {NoKey, Stale}
    /\ held \in [Instances -> BOOLEAN]
    /\ tokened \in [Instances -> BOOLEAN]
    /\ renewing \in [Instances -> BOOLEAN]
    /\ leader \in [Instances -> BOOLEAN]
    /\ faults \in 0 .. MaxFaults
    /\ clean \in BOOLEAN
    /\ \A i \in Instances : (renewing[i] => held[i]) /\ (held[i] => tokened[i])

\* Mutual exclusion, as far as the code goes: as long as no acquisition has failed
\* open and no key has expired under a holder, two instances never both lead,
\* whatever crashes, steps down or loses its renewal loop.
AtMostOneLeader ==
    clean => \A i, k \in Instances : IsLeader(i) /\ IsLeader(k) => i = k

\* There is always a leader again, unless an instance contested an election it was
\* already winning: it is a follower then, and its renewal loop keeps the key.
LeaderAgain ==
    []<>(\E i \in Instances : IsLeader(i)) \/ <>[](\E i \in Instances : held[i] /\ ~leader[i])

=============================================================================
