--------------------------- MODULE MCBreakerStore ---------------------------
(* Small instances of BreakerStore for TLC.                                  *)
EXTENDS BreakerStore, TLC

CONSTANTS a1, a2

\* The second agent stands in for the first.
MCChainOf == (a1 :> <<a1, a2>>)
=============================================================================
