--------------------------- MODULE MCQuotaBucket ---------------------------
(* Small instances of QuotaBucket for TLC.                                   *)
EXTENDS QuotaBucket, TLC

CONSTANTS c1, c2

Alike == Permutations(Clients)
=============================================================================
