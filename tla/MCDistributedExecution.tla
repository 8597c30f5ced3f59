----------------------- MODULE MCDistributedExecution -----------------------
(* Instances of DistributedExecution for TLC: node, worker and run names, and   *)
(* the graphs the configurations choose from.                                   *)
EXTENDS DistributedExecution, TLC

CONSTANTS a, b, c, x, y, w1, w2

\* Graphs: nodes without dependencies, and a layered one in which c waits for a
\* node of the first layer and one of the second, and a spawned x for c.
One == [n \in Nodes |-> {}]
Layered == [n \in Nodes |-> CASE n = b -> {a} [] n = c -> {a, b} [] n = x -> {c} [] OTHER -> {}]

Anyone == [n \in Nodes |-> Workers]

NoSpawns == [n \in Nodes |-> <<>>]
SpawnX == [n \in Nodes |-> IF n = a THEN <<x>> ELSE <<>>]

=============================================================================
