----------------------------- MODULE KahnLayers -----------------------------
(***************************************************************************)
(* DistributedScheduler._compute_layers: Kahn's algorithm over the nodes   *)
(* of a submitted graph, one action per round of its loops, for every      *)
(* graph over Ids: unknown and repeated dependencies, self-loops and       *)
(* cycles included.  What DistributedScheduler assumes of a graph that it  *)
(* runs, and the order in which it runs the layers, is checked here.       *)
(***************************************************************************)
EXTENDS Integers, FiniteSets, Sequences

CONSTANTS
    Ids,      \* node ids of the graph
    Unknown,  \* a dependency that names no node
    MaxTimes  \* bound: how often depends_on lists one dependency

ASSUME KahnAssumption == IsFiniteSet(Ids) /\ Unknown \notin Ids /\ MaxTimes \in Nat

VARIABLES
    times,      \* n -> d -> how often n.depends_on lists d (the input)
    in_degree,  \* node -> dependency entries not yet released
    ready,      \* what is left of the layer whose dependents are released
    next_ready, \* the next layer so far
    visited,
    layers,
    outcome     \* "counting", "layering", then "layers", "unknown" or "cycle"

kahnVars == <<times, in_degree, ready, next_ready, visited, layers, outcome>>

KahnInit ==
    /\ times \in [Ids -> [Ids \union {Unknown} -> 0..MaxTimes]]
    /\ in_degree = [n \in Ids |-> 0]
    /\ ready = {} /\ next_ready = {} /\ visited = {}
    /\ layers = <<>>
    /\ outcome = "counting"

\* The entries of n.depends_on that name a node of S, one for each time it is listed.
Listed(n, S) == {e \in S \X (1..MaxTimes) : e[2] <= times[n][e[1]]}

\* How many entries there are; SchedulingError at an unknown one.
Entries(n) == Cardinality(Listed(n, Ids))

Count ==
    /\ outcome = "counting"
    /\ IF \E n \in Ids : times[n][Unknown] > 0
       THEN outcome' = "unknown" /\ UNCHANGED <<in_degree, ready>>
       ELSE /\ outcome' = "layering"
            /\ in_degree' = [n \in Ids |-> Entries(n)]
            /\ ready' = {n \in Ids : Entries(n) = 0}
    /\ UNCHANGED <<times, next_ready, visited, layers>>

\* The layer is recorded before its dependents are looked at.
TakeLayer ==
    /\ outcome = "layering"
    /\ ready # {}
    /\ ~ ready \subseteq visited
    /\ layers' = Append(layers, ready)
    /\ visited' = visited \union ready
    /\ UNCHANGED <<times, in_degree, ready, next_ready, outcome>>

\* Mutant: a dependent joins the next layer at the first release.
ReleaseEarly(n) ==
    /\ outcome = "layering"
    /\ n \in ready /\ ready \subseteq visited
    /\ in_degree' = [c \in Ids |-> in_degree[c] - times[c][n]]
    /\ next_ready' = next_ready \union {c \in Ids \ visited : times[c][n] > 0}
    /\ ready' = ready \ {n}
    /\ UNCHANGED <<times, visited, layers, outcome>>

\* The dependents of one node of the layer: each entry that names it is released,
\* and the one whose last entry it was joins the next layer.
Release(n) ==
    /\ outcome = "layering"
    /\ n \in ready /\ ready \subseteq visited
    /\ in_degree' = [c \in Ids |-> in_degree[c] - times[c][n]]
    /\ next_ready' = next_ready \union
            {c \in Ids \ visited : times[c][n] > 0 /\ in_degree[c] = times[c][n]}
    /\ ready' = ready \ {n}
    /\ UNCHANGED <<times, visited, layers, outcome>>

NextRound ==
    /\ outcome = "layering"
    /\ ready = {} /\ next_ready # {}
    /\ ready' = next_ready
    /\ next_ready' = {}
    /\ UNCHANGED <<times, in_degree, visited, layers, outcome>>

\* Mutants: the loop goes on until every node is visited; the check for a cycle is
\* left out.
FinishWhenAll ==
    /\ outcome = "layering"
    /\ ready = {} /\ next_ready = {} /\ visited = Ids
    /\ outcome' = "layers"
    /\ UNCHANGED <<times, in_degree, ready, next_ready, visited, layers>>

FinishUnchecked ==
    /\ outcome = "layering"
    /\ ready = {} /\ next_ready = {}
    /\ outcome' = "layers"
    /\ UNCHANGED <<times, in_degree, ready, next_ready, visited, layers>>

FinishLayers ==
    /\ outcome = "layering"
    /\ ready = {} /\ next_ready = {}
    /\ outcome' = IF Cardinality(visited) # Cardinality(Ids) THEN "cycle" ELSE "layers"
    /\ UNCHANGED <<times, in_degree, ready, next_ready, visited, layers>>

KahnNext == Count \/ TakeLayer \/ (\E n \in Ids : Release(n)) \/ NextRound \/ FinishLayers

KahnSpec == KahnInit /\ [][KahnNext]_kahnVars /\ WF_kahnVars(KahnNext)

-----------------------------------------------------------------------------
(* What the layering is, stated without the algorithm *)

DepsOf(n) == {d \in Ids \union {Unknown} : times[n][d] > 0}

Acyclic == \A S \in SUBSET Ids : S # {} => \E n \in S : DepsOf(n) \intersect S = {}
Earlier(k) == UNION {layers[i] : i \in 1..(k - 1)}

\* run() refuses exactly the graphs that name an unknown node or have a cycle; for
\* the others it gets layers in which every node occurs.
RefusesExactly ==
    /\ outcome = "unknown" => \E n \in Ids : Unknown \in DepsOf(n)
    /\ outcome = "cycle" => ~ Acyclic
    /\ outcome = "layers" =>
        /\ Acyclic
        /\ \A n \in Ids : Unknown \notin DepsOf(n)
        /\ UNION {layers[i] : i \in DOMAIN layers} = Ids

\* Each layer is the set of the nodes that are in no earlier layer and have all
\* their dependencies in earlier layers: what StaticReady of DistributedScheduler
\* computes from the settled nodes, layer after layer.
LayersAreReadySets ==
    \A k \in DOMAIN layers : layers[k] = {n \in Ids \ Earlier(k) : DepsOf(n) \subseteq Earlier(k)}

\* The algorithm ends on every graph.
Terminates == <>(outcome \in {"layers", "unknown", "cycle"})

=============================================================================
