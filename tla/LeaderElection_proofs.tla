----------------------- MODULE LeaderElection_proofs -----------------------
(* Theorems of LeaderElection, for any set of instances and any number of  *)
(* faults.                                                                 *)
EXTENDS LeaderElection, TLAPS

(***************************************************************************)
(* Types, and that a renewal loop belongs to a lease that is held.         *)
(***************************************************************************)
LEMMA TypeInit == Init => TypeOK
BY LeaseAssumption DEF Init, TypeOK

LEMMA TypeStep == TypeOK /\ [Next]_vars => TypeOK'
<1> SUFFICES ASSUME TypeOK, [Next]_vars PROVE TypeOK'
  OBVIOUS
<1> USE LeaseAssumption DEF TypeOK
<1>1. ASSUME NEW i \in Instances, Contest(i) PROVE TypeOK'
  <2>1. CASE Acquired(i)
    BY <2>1 DEF Acquired
  <2>2. CASE Refused(i)
    BY <2>2 DEF Refused
  <2>. QED  BY <1>1, <2>1, <2>2 DEF Contest
<1>2. ASSUME NEW i \in Instances, FailedOpen(i) PROVE TypeOK'
  <2>1. key' \in {NoKey, Stale, i, key}
    BY <1>2 DEF FailedOpen
  <2>2. /\ held' = [held EXCEPT ![i] = TRUE]
        /\ tokened' = [tokened EXCEPT ![i] = TRUE]
        /\ leader' = [leader EXCEPT ![i] = TRUE]
        /\ renewing' = renewing
        /\ clean' = FALSE
        /\ faults < MaxFaults /\ faults' = faults + 1
    BY <1>2 DEF FailedOpen, Fault
  <2>3. clean' \in BOOLEAN
    BY <2>2, Zenon
  <2>4. faults' \in 0 .. MaxFaults
    BY <2>2
  <2>5. \A k \in Instances : (renewing'[k] => held'[k]) /\ (held'[k] => tokened'[k])
    BY <2>2
  <2>. QED  BY <2>1, <2>2, <2>3, <2>4, <2>5
<1>3. ASSUME NEW i \in Instances, Renew(i) PROVE TypeOK'
  BY <1>3 DEF Renew
<1>4. ASSUME NEW i \in Instances, RenewFails(i) PROVE TypeOK'
  BY <1>4 DEF RenewFails, Fault
<1>5. ASSUME NEW i \in Instances, Heartbeat(i) PROVE TypeOK'
  BY <1>5 DEF Heartbeat
<1>6. ASSUME NEW i \in Instances, Close(i) \/ StopElection(i) PROVE TypeOK'
  BY <1>6 DEF Close, StopElection, Release, Deleted
<1>7. ASSUME NEW i \in Instances, CloseFails(i) PROVE TypeOK'
  <2>1. key' \in {NoKey, Stale, key}
    BY <1>7 DEF CloseFails, Deleted
  <2>. QED  BY <1>7, <2>1 DEF CloseFails, Release, Fault
<1>8. ASSUME NEW i \in Instances, Crash(i) PROVE TypeOK'
  BY <1>8 DEF Crash, Release, Fault
<1>9. CASE Expire
  BY <1>9 DEF Expire, Fault
<1>10. CASE UNCHANGED vars
  BY <1>10 DEF vars
<1>. QED
  BY <1>1, <1>2, <1>3, <1>4, <1>5, <1>6, <1>7, <1>8, <1>9, <1>10 DEF Next

\* TypeOK always holds: in particular no renewal loop outlives its lease.
THEOREM TypeCorrect == Spec => []TypeOK
<1>1. Init => TypeOK
  BY TypeInit
<1>2. TypeOK /\ [Next]_vars => TypeOK'
  BY TypeStep
<1>. QED  BY <1>1, <1>2, PTL DEF Spec

(***************************************************************************)
(* One leader.  The strengthening is that the key names whoever holds the  *)
(* lease: there is one key, so there is one holder.                        *)
(***************************************************************************)
KeyNamesHolder == clean => \A i \in Instances : held[i] => key = i

LEMMA KeyStep == TypeOK /\ KeyNamesHolder /\ [Next]_vars => KeyNamesHolder'
<1> SUFFICES ASSUME TypeOK, KeyNamesHolder, [Next]_vars PROVE KeyNamesHolder'
  OBVIOUS
<1> USE LeaseAssumption DEF TypeOK, KeyNamesHolder
\* SET NX needs an absent key, so nobody held the lease.
<1>1. ASSUME NEW i \in Instances, Contest(i) PROVE KeyNamesHolder'
  <2>1. CASE Acquired(i)
    BY <2>1 DEF Acquired
  <2>2. CASE Refused(i)
    BY <2>2 DEF Refused
  <2>. QED  BY <1>1, <2>1, <2>2 DEF Contest
<1>2. ASSUME NEW i \in Instances, FailedOpen(i) PROVE KeyNamesHolder'
  BY <1>2 DEF FailedOpen
\* A renewal loop belongs to the holder, so SET XX writes what the key holds.
<1>3. ASSUME NEW i \in Instances, Renew(i) PROVE KeyNamesHolder'
  BY <1>3 DEF Renew
<1>4. ASSUME NEW i \in Instances, RenewFails(i) PROVE KeyNamesHolder'
  BY <1>4 DEF RenewFails
<1>5. ASSUME NEW i \in Instances, Heartbeat(i) PROVE KeyNamesHolder'
  BY <1>5 DEF Heartbeat
\* Only one's own value is deleted.
<1>6. ASSUME NEW i \in Instances, Close(i) \/ StopElection(i) PROVE KeyNamesHolder'
  BY <1>6 DEF Close, StopElection, Release, Deleted
<1>7. ASSUME NEW i \in Instances, CloseFails(i) PROVE KeyNamesHolder'
  <2>1. key = i \/ key' = key
    BY <1>7 DEF CloseFails, Deleted
  <2>2. held' = [held EXCEPT ![i] = FALSE] /\ clean' = clean
    BY <1>7 DEF CloseFails, Release
  <2>. QED  BY <2>1, <2>2
<1>8. ASSUME NEW i \in Instances, Crash(i) PROVE KeyNamesHolder'
  BY <1>8 DEF Crash, Release
<1>9. CASE Expire
  BY <1>9 DEF Expire
<1>10. CASE UNCHANGED vars
  BY <1>10 DEF vars
<1>. QED
  BY <1>1, <1>2, <1>3, <1>4, <1>5, <1>6, <1>7, <1>8, <1>9, <1>10 DEF Next

\* Until an acquisition fails open or a key expires under its holder, two instances
\* never both lead, whatever crashes, steps down or loses its renewal loop.
THEOREM OneLeader == Spec => []AtMostOneLeader
<1>1. Init => KeyNamesHolder
  BY DEF Init, KeyNamesHolder
<1>2. TypeOK /\ KeyNamesHolder /\ [Next]_vars => KeyNamesHolder'
  BY KeyStep
<1>3. TypeOK /\ KeyNamesHolder => AtMostOneLeader
  BY DEF KeyNamesHolder, AtMostOneLeader, IsLeader
<1>. QED  BY <1>1, <1>2, <1>3, TypeCorrect, PTL DEF Spec

=============================================================================
