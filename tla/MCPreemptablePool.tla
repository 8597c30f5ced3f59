-------------------------- MODULE MCPreemptablePool --------------------------
(* Small instances of PreemptablePool for TLC.                                *)
EXTENDS PreemptablePool, TLC

CONSTANTS bg, low, high

\* bg and low share a priority, low has a deadline; high preempts all of them.
MixedPrio == [j \in Jobs |-> IF j = high THEN 1 ELSE 5]
MixedDeadline == [j \in Jobs |-> IF j = low THEN 10 ELSE 100]
=============================================================================
