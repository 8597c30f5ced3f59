------------------------------ MODULE MCEngine ------------------------------
(* Small instances of Engine for TLC.                                       *)
EXTENDS Engine, TLC

CONSTANTS r1, r2, t1, t2, a, p, v, k, d, b, x, y, p0, p1

\* r1: an agent step with a retry and a fallback that aborts the run, a plan step of
\* two sub-steps, a verify step over both, and an agent step that skips.  r2: an
\* agent step beside a terminal step that names x, which only the first may supply.
\* Spawned: x, a condition, and y, a terminal step.
TwoRuns == {r1, r2}
OwnTraces == r1 :> t1 @@ r2 :> t2

Graph == [r \in Runs |-> IF r = r1 THEN {a, p, v, k} ELSE {d, b}]
GraphDeps == [s \in Steps |-> CASE s = v -> {a, p} [] s = k -> {p} [] s = b -> {x} [] OTHER -> {}]
Kinds == [s \in Steps |-> CASE s = p -> "plan" [] s = v -> "verify" [] s = x -> "condition"
                           [] s \in {b, y} -> "terminal" [] OTHER -> "agent"]
Policies == [s \in Steps |-> CASE s = a -> "abort" [] s = k -> "skip" [] OTHER -> ""]
Retries == [s \in Steps |-> IF s = a THEN 1 ELSE 0]
TwoSubs == [s \in Steps |-> IF s = p THEN <<p0, p1>> ELSE <<>>]
Offers == [s \in Steps \union Inner |->
             CASE s = a -> <<x, y>> [] s = p0 -> <<x>> [] s = p1 -> <<y>> [] s = d -> <<x>> [] OTHER -> <<>>]
OffersDeps == [s \in Steps \union Inner |-> IF s = p1 THEN {v} ELSE Default]
=============================================================================
