------------------------------ MODULE GraphRun ------------------------------
(***************************************************************************)
(* What a task backend promises the engine (TaskBackend.run in             *)
(* core/scheduling/task_backend.py, EngineResult in engine_types.py),      *)
(* whatever executes the steps: a run settles the nodes of its graph in    *)
(* dependency order, each once and for good, while spawns make the graph   *)
(* grow, and returns one result per node or raises.  Engine and            *)
(* DistributedExecution implement it; each says how its state maps to this *)
(* one.                                                                    *)
(***************************************************************************)
CONSTANTS Runs, Nodes

VARIABLES
    phase,  \* run -> whether it is new, active, over (returned) or raised
    known,  \* run -> the nodes of its graph so far
    deps,   \* run -> node -> the nodes it waits for
    out     \* run -> node -> its result

vars == <<phase, known, deps, out>>

Result == {"success", "failed", "skipped"}

Settled(r) == {n \in Nodes : out[r][n] # "none"}

Init ==
    /\ phase = [r \in Runs |-> "new"]
    /\ known = [r \in Runs |-> {}]
    /\ out = [r \in Runs |-> [n \in Nodes |-> "none"]]

Others(r) ==
    \A q \in Runs \ {r} :
        phase'[q] = phase[q] /\ known'[q] = known[q] /\ deps'[q] = deps[q] /\ out'[q] = out[q]

\* run() is called: with a trace id that ran before, nothing of that run is left.
Submit(r) ==
    /\ phase[r] # "active"
    /\ phase' = [phase EXCEPT ![r] = "active"]
    /\ known'[r] \subseteq Nodes
    /\ out' = [out EXCEPT ![r] = [n \in Nodes |-> "none"]]
    /\ Others(r)

\* The graph only grows, and nodes it already has keep their dependencies.
Grows(r) ==
    /\ known[r] \subseteq known'[r] /\ known'[r] \subseteq Nodes
    /\ \A n \in known[r] : deps'[r][n] = deps[r][n]

\* Results are final.  A node is executed once everything it waits for has a
\* result; only a node that is skipped need not wait.
Settles(r) ==
    \A n \in Nodes :
        \/ out'[r][n] = out[r][n]
        \/ /\ out[r][n] = "none" /\ n \in known[r] /\ out'[r][n] \in Result
           /\ out'[r][n] # "skipped" => deps[r][n] \subseteq Settled(r)

\* The run goes on, returns a result for every node, or raises.
Progress(r) ==
    /\ phase[r] = "active"
    /\ phase' \in {[phase EXCEPT ![r] = p] : p \in {"active", "over", "raised"}}
    /\ Grows(r)
    /\ Settles(r)
    /\ phase'[r] = "over" => \A n \in known'[r] : out'[r][n] # "none"
    /\ Others(r)

Next == \E r \in Runs : Submit(r) \/ Progress(r)

Safe == Init /\ [][Next]_vars

\* A run does not hang.
Ends == \A r \in Runs : phase[r] = "active" ~> phase[r] \in {"over", "raised"}

Spec == Safe /\ Ends

=============================================================================
