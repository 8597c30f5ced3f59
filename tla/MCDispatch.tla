----------------------------- MODULE MCDispatch -----------------------------
(* Small instances of Dispatch for TLC.                                      *)
EXTENDS Dispatch, TLC

CONSTANTS a1, a2, c1, c2

\* Two agents, the second of which stands in for the first.
MCChainOf == (a1 :> <<a1, a2>>)
=============================================================================
