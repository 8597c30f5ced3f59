----------------------------- MODULE MCBlackboard -----------------------------
(* Two processes with a controller each.  p1 writes a problem whose answer is  *)
(* a problem too; p2 gets copies of both.                                      *)
EXTENDS Blackboard, TLC

CONSTANTS p1, p2, ask, answer

Homes   == [e \in Entries |-> p1]
Replies == [e \in Entries |-> IF e = ask THEN answer ELSE NoEntry]

=============================================================================
