------------------------ MODULE DistributedScheduler ------------------------
(***************************************************************************)
(* The scheduler process of a distributed run                              *)
(* (core/scheduling/distributed_scheduler/): DistributedScheduler.run()    *)
(* executes a graph layer by layer, writing one task message per node to   *)
(* the task stream and reading the run's results stream until every node   *)
(* of the layer has a result.  Engine keeps one scheduler, so the runs of  *)
(* a process are coroutines that share its registry and in-flight map.     *)
(*                                                                         *)
(* Between two awaits a coroutine is alone in its process.  A pass of the  *)
(* collect loop and the work between two layers contain no await and are   *)
(* several actions here; nothing else of the process runs while a run is   *)
(* in phase "layer".  Worker processes interleave freely: they share only  *)
(* the streams.                                                            *)
(***************************************************************************)
EXTENDS WorkerPool, Sequences

CONSTANTS
    Runs,        \* run ids
    Static,      \* the nodes of the submitted graph; the others are spawnable
    Deps,        \* node -> the nodes it depends on
    Capable,     \* node -> the workers that advertise its affinity tags
    MaxRetries,  \* DistributedScheduler(max_retries)
    MaxSubmits,  \* bound: how many times a run id is submitted
    Late,        \* TRUE: the deadline (or the one-hour safety cap) can pass
    Filtered,    \* TRUE: a capable worker can be unhealthy or drained
    NoWorker     \* no worker selected

ASSUME GraphAssumption ==
    /\ Static \subseteq Nodes
    /\ IsFiniteSet(Nodes) /\ IsFiniteSet(Workers)
    /\ Deps \in [Nodes -> SUBSET Nodes]
    /\ Capable \in [Nodes -> SUBSET Workers]
    /\ NoWorker \notin Workers
    /\ MaxRetries \in Nat /\ MaxSubmits \in Nat
    /\ Late \in BOOLEAN /\ Filtered \in BOOLEAN

\* What _compute_layers accepts: no unknown dependency, no cycle.  For any
\* other graph run() raises before it dispatches anything (module KahnLayers).
ASSUME AcyclicAssumption ==
    /\ \A n \in Static : Deps[n] \subseteq Static
    /\ \A S \in SUBSET Static : S # {} => \E n \in S : Deps[n] \intersect S = {}

VARIABLES
    tasks,    \* Redis: task messages no worker has read yet
    answers,  \* Redis: run id -> its results stream
    run,      \* scheduler process: run id -> the locals of run()
    selected  \* Redis: run, node -> the worker its newest task message names

schedVars == <<tasks, answers, run, selected>>

Answered == {"success", "failed", "cancelled"}
Outcome == Answered \union {"absent", "pending", "skipped"}

\* A task message.  It carries run id and node id; gen (which submission of the
\* run id) and nth (which dispatch of the node) tell the copies apart.
Message == [run : Runs, gen : Nat, node : Nodes, nth : Nat]

\* A results-stream entry: spawns lists the spawn directives of the executor.
Answer == [gen : Nat, node : Nodes, status : Answered, worker : Workers, spawns : Seq(Nodes)]

Run ==
    [phase : {"idle", "collect", "layer", "over", "raised"},
     gen : Nat,
     out : [Nodes -> Outcome],      \* results; "absent": no key
     known : SUBSET Nodes,          \* keys of node_map
     pending : SUBSET Nodes,        \* pending of the layer being collected
     retries : [Nodes -> Nat],
     again : [Nodes -> Nat],        \* reschedule_queue, order abstracted
     cursor : Nat,                  \* results entries read for this layer
     opened : Nat,                  \* of those, whose spawns were merged
     todo : Seq(Nodes),             \* directives of the entry being merged
     added : SUBSET Nodes,          \* new_layer of _merge_spawns
     extra : Seq(SUBSET Nodes)]     \* layers appended by spawns, not yet run

SchedTypeOK ==
    /\ PoolTypeOK
    /\ tasks \subseteq Message
    /\ answers \in [Runs -> Seq(Answer)]
    /\ run \in [Runs -> Run]
    /\ selected \in [Runs -> [Nodes -> Workers \union {NoWorker}]]

None0 == [n \in Nodes |-> 0]

SchedInit ==
    /\ PoolInit
    /\ tasks = {}
    /\ answers = [r \in Runs |-> <<>>]
    /\ run = [r \in Runs |->
                [phase |-> "idle", gen |-> 0, out |-> [n \in Nodes |-> "absent"],
                 known |-> {}, pending |-> {}, retries |-> None0, again |-> None0,
                 cursor |-> 0, opened |-> 0, todo |-> <<>>, added |-> {},
                 extra |-> <<>>]]
    /\ selected = [r \in Runs |-> [n \in Nodes |-> NoWorker]]

-----------------------------------------------------------------------------
(* Helpers *)

Active(r) == run[r].phase \in {"collect", "layer"}
Ended(r) == run[r].phase \in {"over", "raised"}

\* No coroutine of the process is in the middle of the work between layers.
Quiet == \A r \in Runs : run[r].phase # "layer"

Failed(r) == {n \in Nodes : run[r].out[n] = "failed"}
Settled(r) == {n \in Nodes : run[r].out[n] \notin {"absent", "pending"}}

\* _dispatch_node() for every node of layer, a message per node.  The worker it
\* selects is advisory: it is recorded in the in-flight map and in the message,
\* and any worker of the consumer group may read the message.  Which capable worker it is depends
\* on health, weights and load, which the model leaves open; NoWorker when there
\* is none, or when every one is filtered out.
Candidates(n) == Capable[n] \intersect registered
Selectable(n) ==
    IF Filtered \/ Candidates(n) = {} THEN Candidates(n) \union {NoWorker} ELSE Candidates(n)
Copy(r, n, k) == [run |-> r, gen |-> run[r].gen, node |-> n, nth |-> k]
Dispatch(r, layer, nth) ==
    /\ \E chosen \in [layer -> Workers \union {NoWorker}] :
        /\ \A n \in layer : chosen[n] \in Selectable(n)
        /\ AssignTasks(layer, chosen)
        /\ selected' = [selected EXCEPT ![r] =
                           [n \in Nodes |-> IF n \in layer THEN chosen[n] ELSE selected[r][n]]]
    /\ tasks' = tasks \union {Copy(r, n, nth[n]) : n \in layer}
    /\ UNCHANGED <<registered, beating>>

-----------------------------------------------------------------------------
(* run(): the first steps, up to the first layer *)

\* run(): node_map, results and the queue are fresh; what the results stream
\* holds is not touched.
Submit(r) ==
    /\ Quiet
    /\ run[r].phase \in {"idle", "over", "raised"}
    /\ run[r].gen < MaxSubmits
    /\ run' = [run EXCEPT ![r] =
                 [@ EXCEPT !.phase = "layer", !.gen = run[r].gen + 1, !.known = Static,
                           !.out = [n \in Nodes |-> IF n \in Static THEN "pending" ELSE "absent"]]]
    /\ UNCHANGED <<tasks, answers, selected, poolVars>>

-----------------------------------------------------------------------------
(* A pass of the collect loop of _dispatch_and_collect *)

NoPending(r) == {n \in Nodes : run[r].again[n] > 0} \ run[r].pending

\* Entries of the queue for nodes that are not pending are dropped.
DropStale(r) ==
    /\ Quiet
    /\ run[r].phase = "collect"
    /\ NoPending(r) # {}
    /\ run' = [run EXCEPT ![r].again = [n \in Nodes |-> IF n \in NoPending(r) THEN 0 ELSE @[n]]]
    /\ UNCHANGED <<tasks, answers, selected, poolVars>>

\* Mutant: the queue entry is looked at and not taken.
RescheduleKeeps(r, n) ==
    /\ Quiet
    /\ run[r].phase = "collect"
    /\ n \in run[r].pending
    /\ run[r].again[n] > 0
    /\ \/ /\ run[r].retries[n] < MaxRetries
          /\ Dispatch(r, {n}, [run[r].retries EXCEPT ![n] = @ + 1])
          /\ run' = [run EXCEPT ![r].retries[n] = @ + 1]
       \/ /\ run[r].retries[n] >= MaxRetries
          /\ run' = [run EXCEPT ![r] = [@ EXCEPT !.out[n] = "failed", !.pending = run[r].pending \ {n}]]
          /\ UNCHANGED <<tasks, selected, poolVars>>
    /\ UNCHANGED answers

\* An entry for a pending node: dispatch it once more, or give it up when the
\* retries are spent.
Reschedule(r, n) ==
    /\ Quiet
    /\ run[r].phase = "collect"
    /\ n \in run[r].pending
    /\ run[r].again[n] > 0
    /\ \/ /\ run[r].retries[n] < MaxRetries
          /\ Dispatch(r, {n}, [run[r].retries EXCEPT ![n] = @ + 1])
          /\ run' = [run EXCEPT ![r] = [@ EXCEPT !.again[n] = run[r].again[n] - 1,
                                                 !.retries[n] = run[r].retries[n] + 1]]
       \/ /\ run[r].retries[n] >= MaxRetries
          /\ run' = [run EXCEPT ![r] = [@ EXCEPT !.again[n] = run[r].again[n] - 1,
                                                 !.out[n] = "failed",
                                                 !.pending = run[r].pending \ {n}]]
          /\ UNCHANGED <<tasks, selected, poolVars>>
    /\ UNCHANGED answers

Unread(r) == (run[r].cursor + 1)..Len(answers[r])

\* Mutants: results of nodes that are no longer pending are taken too; results
\* other than a success are skipped.
ExpectAny(r) == Unread(r)
ExpectSuccess(r) == {i \in Unread(r) : answers[r][i].node \in run[r].pending
                                        /\ answers[r][i].status = "success"}

Expected(r) == {i \in Unread(r) : answers[r][i].node \in run[r].pending}
Told(r) == {answers[r][i].node : i \in Expected(r)}
Latest(r, n) == CHOOSE i \in Expected(r) :
    /\ answers[r][i].node = n
    /\ \A j \in Expected(r) : answers[r][j].node = n => j <= i

\* _read_results() once the queue is empty: every unread entry, of which those of
\* pending nodes count, the last one of a node over the earlier ones.
ReadResults(r) ==
    /\ Quiet
    /\ run[r].phase = "collect"
    /\ \A n \in Nodes : run[r].again[n] = 0
    /\ Unread(r) # {} \/ run[r].pending = {}
    /\ run' = [run EXCEPT ![r] =
                 [@ EXCEPT !.out = [n \in Nodes |-> IF n \in Told(r)
                                                    THEN answers[r][Latest(r, n)].status
                                                    ELSE run[r].out[n]],
                           !.pending = run[r].pending \ Told(r),
                           !.cursor = Len(answers[r]),
                           !.phase = IF run[r].pending \subseteq Told(r) THEN "layer" ELSE "collect"]]
    /\ CompleteTasks({<<answers[r][i].worker, answers[r][i].node>> : i \in Expected(r)})
    /\ UNCHANGED <<tasks, answers, selected, registered, beating>>

-----------------------------------------------------------------------------
(* Between two layers *)

Offers(r) == {i \in (run[r].opened + 1)..run[r].cursor : answers[r][i].spawns # <<>>}
Merged(r) == run[r].todo = <<>> /\ Offers(r) = {}

\* The directives of the next results entry that has some, whatever its status.
OpenSpawns(r) ==
    /\ run[r].phase = "layer"
    /\ run[r].todo = <<>>
    /\ \E i \in Offers(r) :
        /\ \A j \in Offers(r) : i <= j
        /\ run' = [run EXCEPT ![r] = [@ EXCEPT !.opened = i, !.todo = answers[r][i].spawns]]
    /\ UNCHANGED <<tasks, answers, selected, poolVars>>

\* Mutant: an id that is in node_map already is not dropped.
MergeTwice(r) ==
    /\ run[r].phase = "layer"
    /\ run[r].todo # <<>>
    /\ LET s == Head(run[r].todo)
           new == IF Deps[s] \subseteq run[r].known THEN {s} ELSE {}
       IN run' = [run EXCEPT ![r] = [@ EXCEPT !.todo = Tail(run[r].todo),
                                              !.known = run[r].known \union new,
                                              !.added = run[r].added \union new]]
    /\ UNCHANGED <<tasks, answers, selected, poolVars>>

\* _merge_spawns() on one directive: dropped when the id is taken or a dependency
\* is not in node_map; node_map already holds the ids merged just before.
MergeSpawn(r) ==
    /\ run[r].phase = "layer"
    /\ run[r].todo # <<>>
    /\ LET s == Head(run[r].todo)
           taken == s \notin run[r].known /\ Deps[s] \subseteq run[r].known
           new == IF taken THEN {s} ELSE {}
       IN run' = [run EXCEPT ![r] = [@ EXCEPT !.todo = Tail(run[r].todo),
                                              !.known = run[r].known \union new,
                                              !.added = run[r].added \union new]]
    /\ UNCHANGED <<tasks, answers, selected, poolVars>>

\* The layers that spawns added and that have not run, and the next layer: the
\* static layers come first, in Kahn's order, which is at each point the nodes
\* whose dependencies are settled.
Appended(r) == IF run[r].added = {} THEN run[r].extra ELSE Append(run[r].extra, run[r].added)

\* Mutant: a node is ready as soon as one of its dependencies is settled.
ReadyTooSoon(r) == {n \in Static : /\ run[r].out[n] = "pending"
                                   /\ Deps[n] = {} \/ Deps[n] \intersect Settled(r) # {}}
StaticReady(r) == {n \in Static : run[r].out[n] = "pending" /\ Deps[n] \subseteq Settled(r)}
NextNodes(r) ==
    IF StaticReady(r) # {} THEN StaticReady(r)
    ELSE IF Appended(r) # <<>> THEN Head(Appended(r)) ELSE {}

NextLayer(r) ==
    /\ run[r].phase = "layer"
    /\ Merged(r)
    /\ Failed(r) = {}
    /\ NextNodes(r) # {}
    /\ Dispatch(r, NextNodes(r), None0)
    /\ run' = [run EXCEPT ![r] =
                 [@ EXCEPT !.phase = "collect", !.pending = NextNodes(r), !.retries = None0,
                           !.cursor = 0, !.opened = 0, !.added = {},
                           !.extra = IF StaticReady(r) # {} THEN Appended(r) ELSE Tail(Appended(r))]]
    /\ UNCHANGED answers

\* The finally block: the failure loop stops, the results stream is deleted, the
\* locals go out of scope.
End(r, how, final) ==
    /\ run' = [run EXCEPT ![r] =
                 [@ EXCEPT !.phase = how, !.out = final, !.pending = {}, !.retries = None0,
                           !.again = None0, !.cursor = 0, !.opened = 0, !.todo = <<>>,
                           !.added = {}, !.extra = <<>>]]
    /\ answers' = [answers EXCEPT ![r] = <<>>]
    /\ UNCHANGED <<tasks, selected, poolVars>>

Complete(r) ==
    /\ run[r].phase = "layer"
    /\ Merged(r)
    /\ Failed(r) = {}
    /\ NextNodes(r) = {}
    /\ End(r, "over", run[r].out)

\* A failure ends the run after its layer.  A node of node_map that has no entry
\* in results, because it was spawned and its layer has not run, makes the loop
\* raise KeyError instead.
Abort(r) ==
    /\ run[r].phase = "layer"
    /\ Merged(r)
    /\ Failed(r) # {}
    /\ IF \E n \in run[r].known : run[r].out[n] = "absent"
       THEN End(r, "raised", run[r].out)
       ELSE End(r, "over", [n \in Nodes |-> IF run[r].out[n] = "pending" THEN "skipped"
                                            ELSE run[r].out[n]])

\* The deadline or the safety cap passes: SchedulingError, checked at the head of
\* each pass and, for an explicit deadline, before each layer.
GiveUp(r) ==
    /\ Late
    /\ \/ Quiet /\ run[r].phase = "collect" /\ run[r].pending # {}
       \/ run[r].phase = "layer" /\ Merged(r) /\ Failed(r) = {} /\ NextNodes(r) # {}
    /\ End(r, "raised", run[r].out)

-----------------------------------------------------------------------------
(* The failure detection loop of run r: the dead workers it is the first to
   see are pruned, and the nodes they held go into its own queue *)

DetectFailures(r) ==
    /\ Quiet
    /\ Active(r)
    /\ Dead # {}
    /\ Prune
    /\ run' = [run EXCEPT ![r].again = [n \in Nodes |-> @[n] + Orphans[n]]]
    /\ UNCHANGED <<tasks, answers, selected>>

SchedulerStep(r) ==
    \/ DropStale(r)
    \/ \E n \in Nodes : Reschedule(r, n)
    \/ ReadResults(r)
    \/ OpenSpawns(r)
    \/ MergeSpawn(r)
    \/ NextLayer(r)
    \/ Complete(r)
    \/ Abort(r)

=============================================================================
