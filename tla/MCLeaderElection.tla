-------------------------- MODULE MCLeaderElection --------------------------
(* Small instances of LeaderElection for TLC.                                *)
EXTENDS LeaderElection, TLC

CONSTANTS i1, i2, i3
=============================================================================
