----------------------------- MODULE WorkerPool -----------------------------
(***************************************************************************)
(* The worker registry (core/scheduling/worker_pool.py) as one scheduler   *)
(* process uses it.  Registration and heartbeat are Redis keys, shared by  *)
(* every process; the in-flight map is local to the scheduler's process,   *)
(* and is shared by all the runs of that process.                          *)
(*                                                                         *)
(* The module holds the registry's state and one operator per method; the  *)
(* processes that call them are in DistributedScheduler (the scheduler)    *)
(* and DistributedExecution (the workers).                                 *)
(***************************************************************************)
EXTENDS Naturals, FiniteSets

CONSTANTS
    Workers,    \* ids of worker processes; an id is used by one process
    Nodes       \* ids of graph nodes, those of spawned steps included

VARIABLES
    registered, \* Redis: the set of registered worker ids
    beating,    \* Redis: the workers whose heartbeat key has not expired
    inflight    \* scheduler process: worker -> node ids "assigned" to it

poolVars == <<registered, beating, inflight>>

PoolTypeOK ==
    /\ registered \subseteq Workers
    /\ beating \subseteq Workers
    /\ inflight \in [Workers -> SUBSET Nodes]

PoolInit ==
    /\ registered = {}
    /\ beating = {}
    /\ inflight = [w \in Workers |-> {}]

\* register(): the registry entry and the heartbeat key in one pipeline.  The
\* in-flight entry it creates is in the worker's own process.
Register(w) ==
    /\ registered' = registered \union {w}
    /\ beating' = beating \union {w}
    /\ UNCHANGED inflight

\* unregister(), called by the worker: the keys go, and the scheduler's
\* process keeps the in-flight entry it has for the worker.
Unregister(w) ==
    /\ registered' = registered \ {w}
    /\ beating' = beating \ {w}
    /\ UNCHANGED inflight

\* heartbeat(): refused for a worker that was pruned.  A worker that gets
\* FALSE ignores it: it neither stops nor registers again.
Heartbeat(w) ==
    /\ w \in registered
    /\ beating' = beating \union {w}
    /\ UNCHANGED <<registered, inflight>>

\* The heartbeat key outlives heartbeat_timeout without being refreshed.
HeartbeatLapses(w) ==
    /\ w \in beating
    /\ beating' = beating \ {w}
    /\ UNCHANGED <<registered, inflight>>

\* detect_failures(): the workers it finds dead, what it returns of them (for
\* each node, how many dead workers were holding it) and what it prunes.
Dead == registered \ beating
Orphans == [n \in Nodes |-> Cardinality({w \in Dead : n \in inflight[w]})]
Prune ==
    /\ registered' = registered \ Dead
    /\ inflight' = [w \in Workers |-> IF w \in Dead THEN {} ELSE inflight[w]]
    /\ UNCHANGED beating

\* assign_task() for each node n of layer on worker chosen[n], which is no
\* worker when none was selected.
AssignTasks(layer, chosen) ==
    inflight' = [w \in Workers |-> inflight[w] \union {n \in layer : chosen[n] = w}]

\* complete_task() for every <<worker, node>> pair of done: on the worker the
\* result names, whichever worker the node was assigned to.
CompleteTasks(done) ==
    inflight' = [w \in Workers |-> inflight[w] \ {n \in Nodes : <<w, n>> \in done}]

=============================================================================
