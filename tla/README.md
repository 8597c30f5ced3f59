# Verification of MAOP

TLA+ specifications of the parts of MAOP (`py/maop`) whose correctness depends on
the order in which several processes, threads, coroutines or messages act; TLC runs
over small instances of them; and TLAPS proofs for every instance. Everything is
translated from the source; `PROJECT.json` says, definition by definition, which
lines a definition stands for, lists the hazards of the code and what covers each.

    tlc -workers 2 -config MessageQueue_pair.cfg MCMessageQueue     # one run
    tlapm MessageQueue_proofs.tla                                   # the proofs

Contents: 1 the system, 2 the modules and how they correspond to the code, 3 the
runs, 4 fairness, 5 what is proved, 6 abstractions, 7 disagreements between the
code and what is said of it, 8 what is not modelled, 9 the plan.

## 1. The system

MAOP orchestrates external command line agents. A run enters through the CLI, the
dashboard or the message queue; the Plan-Execute-Verify loop turns it into a graph
of steps; the engine executes the graph, in its own process or through a Redis
backed pool of worker processes. Each step is a call of an agent's driver, made by the
dispatcher, which asks the circuit breaker first and counts what it cost against the
agent's quotas.

| part | state | operations | who interacts how | what makes it correct |
|---|---|---|---|---|
| message queue (`core/reliability/message_queue.py`, `worker/agent_executor.py`, `worker/queue_worker.py`) | SQLite tables `queue_messages`, `queue_dead_letters`, `queue_idempotent` | enqueue, dequeue (reclaim, select, claim, idempotency check), ack, nack, purge_acked, cleanup_dead_letters, requeue_dead_letter, recover_unacked | any number of processes through one database file; each method is one or two transactions | no accepted job disappears; an ack means done; one holder per delivery; attempts as promised; everything is settled |
| distributed scheduler (`core/scheduling/distributed_scheduler/`) | locals of `run()` per run; Redis task stream and results streams | run, dispatch, collect, reschedule, merge spawns, detect failures, give up | coroutines of one process share scheduler and registry; workers see streams only | dependencies first; nothing lost or run twice without a reason; results genuine and final; every run ends |
| worker registry (`core/scheduling/worker_pool.py`) | Redis registry and heartbeat keys; in-flight map in the scheduler's memory | register, unregister, heartbeat, detect_failures, assign/complete | called by both sides | a dead worker's tasks come back |
| distributed worker (`worker/distributed_worker.py`) | tasks read, in flight, in the semaphore | start, consume, handle, heartbeat, stop | threads of its own process, signals | each task taken is answered |
| engine, local run (`engine.py`, `engine_executor.py`, `engine_pause.py`) | locals of `_run_single`, `_spawns` by trace id, pause file | layer loop, pause, abort, merge spawns, execute a step with retries, fallback, sub-steps, time limit | coroutines of one event loop; executors; the pause file of another process | calls in order and bounded; true report; failures seen; spawns neither leak nor come from failures; every run ends |
| preemptable pool (`preemptable_worker_pool.py`, `priority_queue.py`, `worker_pool.py` in `core/reliability/`) | priority heap, running tasks, results and events by token | submit, admit, preempt, work, watch, wait, stop | coroutines of one event loop | each submission is answered once; preemption is invisible and bounded |
| distributed lease and leader election (`core/reliability/distributed_lease.py`) | a Redis key with expiry; token, `_held`, `_is_leader`, renewal task of each instance | contest, renew, heartbeat, release, stop, close | competing instances see the key only | one leader at a time, and always one again |
| circuit breaker and failover chains (`core/reliability/circuit_breaker.py`) | entry per agent, position in each chain, SQLite copy of both | record_success, record_failure, is_available, resolve_failover, register_failover, health_check | threads under a lock; the process after a restart | open means no calls; it closes again; the copy is current |
| dispatcher (`delegate/dispatch_core.py`, `dispatch_impl.py`) | calls in progress, semaphore, load balancer's `active_tasks` | check, fail over, run the driver, record, be cancelled | coroutines; breaker calls in threads | the breaker's answer is respected; load is known |
| quotas (`core/agent/billing/quota_bucket.py`) | three quotas and what is used of them per agent, last reset | consume, refund, set_quota, reset_quota, automatic reset | processes through SQLite | nothing overspent, no consumption lost |
| task backends (`core/scheduling/task_backend.py`) | a lazily made scheduler | run a graph | engine to scheduler | the same promise whichever backend runs |
| checkpointed distributed runs (`distributed_checkpoint_coordinator.py`, `distributed_checkpoint.py`) | run and node rows | start, record, resume | one coordinator after another | a resumed run repeats nothing that is done and loses nothing |
| blackboard and controller (`core/reliability/blackboard*.py`, `core/coordination/bb_task_context.py`) | entries by domain; sync layer, trigger queue and iteration count of each process; snapshot hash in Redis | write, subscribe, start and stop of sync and controller, listen, merge, control step | callbacks in a process, publish and subscribe between processes | one copy of an entry per blackboard, none missing; an entry is worked on once; no trigger is lost |
| convergence controller, debate, consensus (`bb_trigger_engine.py`, `debate_engine.py`, `consensus_tracker.py`) | rules, scores, trace of a solve | cycles of rules over a blackboard | callbacks | a solve ends for the reason it reports |
| in-process DAG scheduler (`dag_scheduler.py`) | node results | run with abort, continue, retry | coroutines | as the engine |
| queue backends (`backends_queue.py`, `backends_redis.py`, `backends_rabbitmq.py`) | none, or Redis lists | enqueue, dequeue, ack, nack | adapters | the queue's promises survive the adapter |
| supervisor, failure detector (`scheduling/supervisor*.py`, `failure_detector.py`, `health_service.py`) | health states, sliding windows | patrol, verdicts | asked before a dispatch | quarantine ends, recovery is seen |
| Plan-Execute-Verify loop (`maop_loop*.py`, `maop_plan.py`, `maop_execute.py`, `maop_verify.py`) | phase, retries | phases in order | calls the engine and the dispatcher | bounded retries, verified result |

The other parts (event bus, caches and file locks, agents, gateway, memory, MCP,
evolution, storage, security, monitoring, configuration, deployment, CLI, dashboard)
are data, I/O or text; `components` in `PROJECT.json` lists each with the reason why it
has no module.

The hard behaviours: SQLite methods that read in one transaction and write in the
next; deliveries that outlive their timeout; workers that die, stall or are stopped
with work at hand; results that come twice or late; graphs that grow while they run;
executors that hang, fail, or are cancelled; runs that share an engine; tasks that are
preempted while they wait, run or unwind; leases that expire under a blocked holder;
answers of a breaker that are stale when acted on; saves that are late or torn; messages
published to nobody, and controllers told in the middle of a step.

## 2. Modules

| module | stands for | composed of |
|---|---|---|
| `MessageQueue` | the queue and its consumers | |
| `GraphRun` | the abstract promise of a task backend | |
| `WorkerPool` | the registry: state and one operator per method | |
| `DistributedScheduler` | `DistributedScheduler.run` and its mixins | `WorkerPool` |
| `DistributedExecution` | worker processes, the streams, faults; the whole distributed system | `DistributedScheduler`; implements `GraphRun` |
| `KahnLayers` | `_compute_layers` for every graph | |
| `Engine` | `Engine._run_single` and `execute_step_helper` | implements `GraphRun` |
| `PreemptablePool` | `PreemptableWorkerPool` with its heap and its `WorkerPool` | |
| `LeaderElection` | `DistributedLease` and `LeaseBasedLeaderElection` | |
| `CircuitBreaker` | the breaker and the chains in memory | |
| `BreakerStore` | its database: saves, failed saves, restarts | `CircuitBreaker` |
| `Dispatch` | concurrent dispatches that ask the breaker and report to it | `CircuitBreaker` |
| `QuotaBucket` | the quotas of an agent | |
| `Blackboard` | the blackboards of several processes, their sync layers and controllers | |
| `*_proofs` | the theorems about a module | that module, `TLAPS` |
| `MC*` | instances for TLC | |

**MessageQueue.** `queue`, `dlq`, `idem` are the tables; `job` remembers the payload
of an id, so that a requeued dead letter is the same job under a new id. sqlite3
opens a transaction at the first write of a method, so the SELECT of `dequeue`,
`nack`, `_reclaim_unacked` and `requeue_dead_letter` is an action and the writes
that follow another, with the rows read kept in `seen`, `cur` or `asked`. A consumer
goes `poll` (ReclaimSelect), `reclaim` (ReclaimCommit), `select` (SelectNext),
`claim` (Claim), `check` (CheckIdempotent), then `skip` or `work`, `ack` or `nack`,
`renew` (NackCommit). Consumers are of two kinds: agent_executor, which looks at what
its dispatch returned, and queue_worker (`QueueWorkers`), which does not, and so can
end a failure as if it had been a success (`FailureReturned`; `shrugged` remembers it).
`Crash` rolls back whatever is not committed, `DbError` is the
`except` clause of each method, which logs and returns 0, None or False. Time is what
the queries compare: a delayed message becomes visible (`Appear`), a delivery becomes
`overdue` and later `stale` (past recover_unacked's buffer).

**GraphRun.** The interface `TaskBackend.run` as a state machine: a run is new, active,
over or raised; its graph only grows; a node is executed once every node it waits for
has a result, and results are final; a run that returns has a result for every node;
no run hangs (`Ends`). `Engine` and `DistributedExecution` each instantiate it with
their own state (`Promise == INSTANCE GraphRun WITH ...`). The local backend implements
all of it. The distributed one implements the safety part: a run ends
by itself only under the conditions of `RunsComplete`, and two spawned steps of one directive that depend on each
other share a layer, so the map leaves dependencies on spawned steps out.

**WorkerPool, DistributedScheduler, DistributedExecution.** `run[r]` holds the locals
of one `run()` call: results (`out`), the keys of `node_map` (`known`), `pending`,
retries, the reschedule queue (`again`), what has been read of the results stream
(`cursor`), the spawn layers not yet executed (`extra`). Phase `collect` is the loop
of `_dispatch_and_collect`, phase `layer` the code between two layers, which has no
await: while a run is in it no other coroutine of the process moves (`Quiet`).
Workers interleave freely. A worker reads messages (`fresh`), starts handlers when the
stream is empty (`held`), runs up to `Conc` executors (`busy`), posts, stops, exits
or dies; its heartbeat key lapses when it is dead or stalled. A message carries a
generation and a dispatch number that exist only in the model, to tell copies apart.
`selected` is the worker whose in-flight entry stands for a dispatched node; the
histories `robbed` and `lost` are the nodes whose entry another run removed and the
messages whose answer Redis refused.

**KahnLayers.** `_compute_layers`, one action per round of its loops, for every
graph over three nodes, with unknown and repeated dependencies. It justifies two
things `DistributedScheduler` uses: the assumption `AcyclicAssumption` on the graphs
it runs and `StaticReady`, the next layer as the set of nodes whose dependencies are
settled.

**Engine.** `run[r]` holds the locals of `_run_single`, `step[r][s]` the place of a
step's coroutine in the present layer, `spawns` the engine's queues. Phase `loop` is
the code between two layers (no await unless the pause file exists: `held`), phase
`merge` the loop over the drained directives, one step per round; nothing else of the
process moves in either (`Quiet`). One action per way an executor call can end:
`Succeed`, `Fail`, `FailPlan`, `Raise`, `Cancelled`, `Timeout`.

**PreemptablePool.** A `PriorityTask` can be pushed several times, so the model keeps
`copies`, every entry ever pushed, each with its stage (queued, waiting for the
semaphore, running, unwinding, ended), its result future, its membership in
`_preempt_ids` (`mark`) and in `_running` (`watched`). The three dictionaries keyed by
token are sets of tokens. `Admit` is a whole turn of the dispatch loop, which has no
await until it sleeps: it empties the heap in priority order. `Preempt` cancels the
least urgent running copy and pushes its task again; `Start`, `Finish`, `Land` are the
worker coroutine, `Watch` the watcher that turns a future into an answer; `Stop`
cancels what is admitted and leaves the heap. A cancelled task that was running need not
end as cancelled: what it awaits may have ended already, or its clean-up raises
something else, and then `Land` is an ordinary result or error.

**LeaderElection.** `key` is whose latest value the Redis key holds; the Lua script of
release compares exactly that. One action per method and per way it can fail:
`Contest`, `FailedOpen` (acquire returns True without Redis), `Renew` and `RenewFails`
(the background loop, which overwrites any existing key), `Heartbeat`, `Close`,
`CloseFails`, `StopElection`, `Crash`. `Expire` is Redis.

**CircuitBreaker, BreakerStore, Dispatch.** `CircuitBreaker` has the state under
`_sync_lock` and one operator per public method. `BreakerStore` calls them from
any thread and adds the database: what each saves and when, saves that fail, restarts
that load what is there, and the one save made after the lock is released, which reads
the shared entry in two steps (`LateRead`) and writes later (`LateWrite`). The table is
not this breaker's alone: every service container, dispatcher and dashboard reader makes
a `CircuitBreaker` of its own over it (`services.py:120`, `dispatch_impl.py:79`,
`dashboard/provider.py:99`), reads it once, when it is made, and replaces whole rows. To
the one breaker that is modelled in full the others are `PeerSaves` and `PeerMoves`,
which put any row, or index, a breaker can have. Three histories tell by cause, not by
outcome, which rows are no longer its own: `overtaken` (an operation saved the entry
after the late save had begun to read it), `foreign` and `foreignIndex` (the last save
failed, was overtaken, or was another breaker's). `Dispatch`
calls them from dispatches: `check` waits for the breaker's answer in a thread,
`refused` asks for a fallback, `waiting` is the semaphore, `running` the driver,
`succeeded` and `failed` the record in the breaker. `MaxDepth` is `_MAX_FAILOVER_DEPTH`,
3 in the code. `Cancel` is the caller's timeout at any await. The load balancer counts
the calls to agents it knows (`known`): those of the configuration (`Configured`) from
the start, others from when a second loop or a `select` registers them (`Enroll`), with
nothing counted as running, in mid-call or not. `early` and `leaked` are histories of what
can make its counters wrong: the calls on their way when the agent became known, and
those cancelled before `record_finish`.

**QuotaBucket.** `row` is the agent's row, `now` counts periods. `consume` and
`refund` are one BEGIN IMMEDIATE transaction, hence one action, with the automatic
reset of `_entry_from_row` in it (`Renewed`). `set_bucket_quota` is `ReadEntry`,
`LookUp` and `Insert` or `Update`; `reset_quota` is `BeginReset`, which reads the
clock, and `Reset`. `charged`, `ceiling`, `spent`, `clean` are history.

**Blackboard.** `held` counts the copies of an entry in a process's `_entries`. A
`write` goes from `notify`, where it has `calls` callbacks of the sync layer to go
through (`Publish`, `Save`, or `SkipCall`, `CallFails`), to `written`, when the event
bus has told the controller (`Raise`). `sync` is `joining` between the bootstrap
(`Join`) and the subscription (`Listen`); `inbox` is what the connection has received,
`saving` the copy between `Merge` and `SaveMerged`. `queue`, `batch` and `doing` are the
controller's triggers: waiting, taken by the present control step, and being executed.
`missed`, `again`, `raised`, `dropped` and `solved` are history.

## 3. Runs

| run | instance | states | question |
|---|---|---|---|
| `mq_pair` | 1 message with a producer's own key, sent at most twice, 2 consumers (one identified) in a group each, 1 operator, 1 fault, recover_unacked included | 77 k | `NoSilentLoss`, `AckedWasProcessed`, `SoleHolder`, and under fairness `EventuallySettled` |
| `mq_attempts` | 2 messages of different priority, 3 retries, 1 queue worker that may fault twice and may return from failures, 1 operator | 420 k | `ExactAttempts`: at most max_retries + 1 attempts, and dead after exactly so many |
| `ds_safety` | 3-layer graph, first node spawns a step, 2 workers, 2 retries, deadline, 1 fault of 5 kinds | 1.4 M | `DepsFirst`, `NodesAccounted`, `Traceable`, `OneExecution`, `SuccessIsEarned`, and the refinement `ImplementsGraphRun` |
| `ds_completes` | 2 runs of one process on 2 shared workers, 1 retry, no deadline, 1 fault of 5 kinds | 328 k | under fairness `RunsComplete` |
| `kahn_layers` | every graph over 3 nodes, each dependency listed 0 to 2 times, one unknown id | 1.1 M | `RefusesExactly`, `LayersAreReadySets`, `Terminates` |
| `engine_run` | 2 runs: one with retry, fallback, abort, plan of two sub-steps, verify, skip and competing spawns; one with a dangling dependency that a spawned step may supply | 170 k | `CallsInOrder`, `ReportIsTrue`, `FailuresAreSeen`, `SpawnsAreEarned`, `NoSpawnLeaks`, `RefusesBadGraphs`, `AbortIsFinal`, and the refinement `ImplementsGraphRun`, its liveness included |
| `pool` | 3 jobs, two of one priority, one with a deadline, one slot, 2 preemptions | 362 k | `NeverVanishes`, `PreemptionIsInvisible`, `ThrashBound`, and under fairness `EventuallyAnswered` |
| `lease` | 3 instances, 2 faults | 723 | `AtMostOneLeader`, and under fairness `LeaderAgain` |
| `breaker` | 2 agents in a chain, threshold 2, 1 failed save, restart or save of another breaker | 1.3 M | `DiskIsCurrent` |
| `dispatch` | 2 calls, 2 agents, one of them with a chain and known to the load balancer from the start, threshold 2, 1 permit, 1 cancellation | 1.1 M | `OpenIsRespected`, `LoadIsTrue`, and under fairness `Recovers` |
| `quota` | 2 processes that set and reset, quotas of 1, amounts of 1 and 2, 2 periods | 1.2 M | `UsedIsSpent`, `NoOverspend` |
| `blackboard` | 2 processes with controllers, 2 entries of which one answers the other, 3 starts per process, 1 control step, 1 fault | 2.0 M | `OneCopy`, `NothingMissed`, `SolvedOnce`, `TriggersKept` |

The type invariants are proved (section 5), and so no run is spent on them.

Bounds. The interesting cases of the queue are races of two parties over one row:
two consumers, one row and one operator make them all, and a second send of the same
key makes the row come back after it was acked, purged or buried. The two are in groups
of their own, because a message is taken back by the group that lost it and claimed by
any. They are agent_executor consumers, of which the two safety properties hold without
exception; a queue worker's are the business of `AcksAreEarned` and of `mq_attempts`. `MaxInserts` bounds
rows ever inserted, `MaxFaults` crashes and failed transactions (one is enough to
leave a delivery without a holder; two to hit a redelivery again). Attempt counts need
a single consumer, because with two the code does not keep them (section 7), and two
messages, so that the priority order and requeued copies occur. In the distributed
system a duplicate execution needs two workers and one fault; a growing graph needs
one layer before and one after the spawn; cross-run effects need two runs, which
`ds_completes` has on one node each, to stay small. The five faults are a crash, a
stall, a stop, a process that exits before `stop()` has drained, and an answer that
neither post brings to Redis. `MaxRetries` of 2 allows a node to be dispatched
three times. Three nodes suffice for KahnLayers' self-loops, two- and three-cycles,
diamond halves and multi-edges. In the engine a spawn cap of 1 is below what the
executors offer, so that the cap is met, and each policy and step type occurs once.
In the pool one slot and three jobs make a victim that is preempted in the queue of
the semaphore, while it runs and while it unwinds, and two preemptions make one that
is slow to unwind and is preempted again; `MaxPreemptions` bounds the copies and thereby
the whole run. Two leases can collide through a third instance only. A breaker's count
of failures is cut off at `Threshold`, which is all it is compared with; a thread in
is_available has one unfinished save per agent. A dispatch that fails over
needs two agents, and one failover (`MaxDepth` is 1 there) leaves it at the limit; one
permit makes a second dispatch wait while the breaker changes. `MaxFaults` of `breaker`
counts the turns of other breakers too: what one of them does to a row is done to it by
any number.
The quota instance has two setters, because one of them can only lose what another
one did; amounts of 1 and 2 over quotas of 1 are within a bucket, span buckets and
exceed all of them; the second period makes every prepared write stale. On the
blackboards a copy needs two processes, an answer that arrives in the middle of a control
step needs two entries; three starts allow a restart of each part, or one in the next
life of a process.

Deadlock is checked in the runs of the queue, the engine, the lease, the breaker, the
dispatcher and the quotas, where a state without a successor would be an error; the
distributed, the Kahn, the pool and the blackboard runs stop when their bounded work is
done.

The one-message instances cannot show what two rows do to each other through one
snapshot; the theorems of section 5 cover that for the properties that matter most.

## 4. Fairness

* Queue (`FairSpec`): consumers are `while` loops that poll, so each consumer's next
  step is weakly fair; the process manager restarts a crashed one; time passes, so a
  delivery becomes overdue and a delayed message visible. Handlers may fail for ever.
  Producers, operators, maintenance and faults have no fairness.
* Distributed execution: the scheduler's coroutines and the failure loop are run by
  their event loop; live workers poll, their executors return, stopped workers end
  their drain; the heartbeat key of a dead process expires because Redis expires it.
  No fairness for faults, nor for `GiveUp`: `RunsComplete` is about runs whose safety
  cap is far away. Its one way out, `Stranded`, names what the code cannot bring back:
  all workers dead; or no live worker has a task and no sweep hands it back, and this
  for one of three reasons, each recorded when it happens: a worker took the task that
  was not the selected one (`Misattributed`), another run removed the in-flight entry
  (`robbed`), or an answer was lost (`lost`). A task that dies with the selected worker
  and comes back to nobody for any other reason violates the property.
* Engine: what is ready is run by the event loop, and `asyncio.wait_for` fires.
  Executors may hang for ever and the pause file may stay: `check_pause_async`
  gives up after its maximum.
* KahnLayers: it is a sequential loop.
* Pool: dispatch loop, workers and watchers are coroutines of one event loop, and a job
  ends because its drivers have time limits. Nothing is assumed of submitters or `stop()`.
* Lease: renewal loops are scheduled, Redis expires a key that nobody renews, and an
  instance that does not lead contests again, which the class asks of its users.
  No fairness for failures, nor against them.
* Dispatch: breaker calls, drivers and records end, and a cooldown passes. That every
  agent is asked for again and again (`SF`) is what `Recovers` is conditional on: a
  breaker that nobody asks stays open. The agents work again from `Mend` on.

The breaker's, the quotas' and the blackboard's runs are about safety.

## 5. What is proved

All theorems hold for every value of the constants that satisfies the named
assumptions of the module, which TLC evaluates with the runs.

**`MessageQueue_proofs`**, of `RecoverySpec` (every operation, recover_unacked included):

* `TypeCorrect`: `TypeOK`.
* `JobsAreNotLost`: `NoSilentLoss`. The tables move a job in one transaction at a time,
  but under ids that are reused: a producer may send its key again, an operator
  requeues under a new id. `Lineage` is the strengthening: whatever tables and
  processes refer to was accepted, and a keyed id names its own job, so a second send
  replaces nothing but itself.
* `AcksAreEarned`: `AckedWasProcessed`. `ack` does not look at who holds the message.
  `AckEarned` carries what is known at `HandlerSucceeds` to the ack, however the row
  changed in between: the consumer that is about to acknowledge holds a job that is
  done. The skip branch needs the idempotency record to be earned as well, so the two
  and `Lineage` are proved together as `Integrity`.
  Both except the jobs in `shrugged`, whose failure a queue worker returned from, and
  nothing else.
* `AgentJobsAreKept`: where agent_executor consumes (`QueueWorkers = {}`) the two hold
  with `done` in place of `Ended`: no job is lost and what is acknowledged was completed.
* `AttemptsAreExact`: `ExactAttempts`, of `Spec` and on the assumption `OneWorker` (one
  consumer, no key used again). A delivery is counted where it ends, in a transaction
  after the one that read the counter. `RetriesCount` says that the deliveries of a row
  are its counter, plus one while it is being processed, and `ReadIsCurrent` that what a
  consumer has read of a row it is about to return is still so. Both fail with a second
  consumer, and so does the claim (section 7).
* `OneHolderInTime`: `SoleHolder`. Two transactions lie between the SELECT of a pending
  row and its delivery. `Owned` is the strengthening: as long as an id never outlived a
  timeout, its processing row is fresh, its holder's row is processing, and no snapshot
  that would take it back names it. So the claim's `status = 'pending'` guard excludes
  a second holder (`Exclusive`).

**`DistributedExecution_proofs`**, for every acyclic graph, every spawned step, any
number of runs, workers, retries and faults:

* `TypeCorrect`: `TypeOK`; with it, that a cursor never passes the end of its stream.
* `DependenciesFirst` (`DepsFirst`) and `EveryNodeAccounted` (`NodesAccounted`) from
  `GraphInv`: for each run, which results its nodes can have in which phase (`Outcomes`),
  that the layers still to come hold every node that is known and not settled, each once
  (`Layers`), that what is pending has its dependencies settled (`PendingOK`); and that
  every message was prepared by a run that had dispatched its node.
* `KeepsTheBackendPromise` (`ImplementsGraphRun`): the refinement. Every step of the
  distributed system is a submission, a step of one run of `GraphRun` or a stutter;
  faults, workers and late answers are stutters, because an answer counts only for a node
  that is pending, and `GraphInv` gives the dependencies of those.
* `NothingIsLost` (`Traceable`). A message that leaves a worker leaves an answer behind
  it that the run has not read, or is in `lost`.
* `ExecutedOncePerPrune` (`OneExecution`): `CountInv` bounds a node's retries plus its
  entries in the reschedule queue by the number of workers pruned, and every message's
  dispatch number by its node's retries.
* `SuccessOnlyIfEarned` (`SuccessIsEarned`), on the assumption `MaxSubmits <= 1`: with a
  second submission under the same id an old answer is read as a new one (section 7).
* `GraphsAreRefusedExactly` (`RefusesExactly`) and `LayersAreReady`
  (`LayersAreReadySets`), of `KahnLayers`, for every graph. `DegreesCount` says that a
  node's degree is the number of its entries that are not released yet, and that the next
  layer is exactly what the released nodes free; `ReleaseCounts` is the arithmetic of it,
  with dependencies listed any number of times. When the rounds end, the nodes in no layer
  each wait for another of them, which is the cycle; `VisitedClosed` says that there is
  none among the others.

**`Engine_proofs`**, for any runs, graphs, step types, policies and directives. One
invariant, `Inv`, serves all but the last two theorems. `GraphOK`: a run's graph grows
within its cap by steps that depend on what was there before them. `OrderOK`: unless a
failure aborts the run, what has a result had all its dependencies before it, so no cycle
is ever executed. `StepOK`: how the
place of a coroutine tells the calls it has made (`Counted`), and what a result says of
the calls and of the results it depends on (`Truth`), also for results a coroutine
holds and the run does not know yet. `QueueOK`: a queue has entries only while a layer of
a run of that trace id is executed.

* `TypeCorrect`, `CallsAreInOrder` (`CallsInOrder`), `ReportsAreTrue` (`ReportIsTrue`),
  `DependentsSeeFailures` (`FailuresAreSeen`), `QueuesAreEmptied` (`NoSpawnLeaks`),
  `BadGraphsAreRefused` (`RefusesBadGraphs`).
* `AbortsAreFinal` (`AbortIsFinal`), an action property: a call is made in a layer only,
  and a layer is begun only without a failure that aborts; the layer's own results are
  not known before it ends.
* `SpawnedStepsAreEarned` (`SpawnsAreEarned`), on the assumption `OwnTrace`, that no two
  runs share a trace id: otherwise one run drains what the other's executors returned
  (section 7). `EarnInv` follows a directive from the call that returned it through the
  queue and the list being merged into the graph.
* `KeepsTheBackendPromise`: the refinement of `GraphRun`, its safety part
  (`Spec => Promise!Safe`). An `EndLayer` settles the steps of the layer, whose
  dependencies have results by `StepOK`; a round of the merge grows the graph; an abort
  settles all the rest as skipped and is the last step of its run.

**`Blackboard_proofs`**, for any number of processes, entries and faults. Two invariants
over `TypeCorrect`.

* `OneSolver` (`SolvedOnce`) and `NoTriggerIsLost` (`TriggersKept`) from `ControlInv`:
  triggers are only ever at the home of their entry, and, unless its controller was
  started twice, each is there once, in the queue or in the batch, and not any more
  when its entry has been worked on, but for the one at hand.
* `NoSecondCopy` (`OneCopy`) and `ListenersHaveTheSnapshot` (`NothingMissed`) from
  `BoardInv`. An entry is not published yet, published and not saved, or in the
  snapshot, and for each the invariant says who may hold it and in how many inboxes it
  may be (`OwnAt`, `ConnAt`, `CopyAt`). The order of the code, publish before save
  and read the snapshot before subscribing, makes the cases exclude each other.

**`PreemptablePool_proofs`**: `TypeCorrect`, `TasksNeverVanish` (`NeverVanishes`),
`PreemptionUnseen` (`PreemptionIsInvisible`), `ThrashIsBounded` (`ThrashBound`). None of
the three is inductive. `IInv` adds `Shape` (every copy is `Sound`: queued, it is not
watched, not marked and has no future; dropped or unwinding, it is marked unless the pool
was stopped; its future is cancelled only after a stop), `TokenInv` (tokens are below the
counter, and two jobs never share one), `CopiesSubmitted`, and `Counted` (a job has one
copy more than it was preempted times, so `preempted_count` bounds executions although a
slow victim can be cancelled twice). The first two properties need each other's help, so
`IInv` contains them.

**`LeaderElection_proofs`**: `TypeCorrect`, `OneLeader` (`AtMostOneLeader`). The
strengthening is `KeyNamesHolder`: as long as `clean`, whoever holds a lease is the instance the key names.

**`Breaker_proofs`**, of `BreakerStore` and `Dispatch`, whose state and lemmas about the
breaker are the same: `StoreTypeCorrect` and `TypeCorrect` are their types. The lemmas about
the breaker's operators (`BreakerTypeStep`: an entry stays an entry, an index within its
chain) are stated once and used by both. `DiskIsTrue` is `DiskIsCurrent`. `LateIsRead` is the
strengthening that carries it over the late save: as long as no operation has saved the
entry since, what a half-open save has read so far is still what the entry holds.
`RowsAreStored` says that no row of the database tells that a cooldown has elapsed.
`OpenMeansNoCalls` is `OpenIsRespected`; its heart is `OpensByFailureOnly`, that only a
recorded failure opens a breaker, which marks the calls on their way as overtaken.
`LoadIsKnown` is `LoadIsTrue`. The counter is not inductive by a difference to the calls on
their way, because `record_finish` stops at 0 and takes counts that are not its own; the
two bounds are, and both need that `early` is reset only when no call is on its way.

**`QuotaBucket_proofs`**: `TypeCorrect`, `NothingUncounted` (`UsedIsSpent`), `QuotasHold`
(`NoOverspend`). The lemmas about `Drawn` say that the shares of a request add up to it
and fit the buckets (arithmetic, for every quota and amount). `Spending` adds to the
first that a call about to insert finds nothing used yet while there is no row.
`Charging` adds to the second that what was charged in this period is at most what is
used, unless the row is due for a reset, in which case nothing was charged.

Each follows the same pattern: an invariant holds initially, each action preserves it
(one step per action, lemmas for what actions share), and it implies the property.

Every safety property of the runs, action properties and the safety part of both
refinements included, is thus proved. Only model-checked: liveness, because neither
fairness nor ENABLED is in the prover's reach. These are `EventuallySettled`,
`RunsComplete`, `Terminates`, `EventuallyAnswered`, `LeaderAgain`, `Recovers`, and `Ends`,
the part of the local engine's `ImplementsGraphRun` that `Promise!Safe` leaves out.

Four theorems have a hypothesis beyond the modules' assumptions: `AttemptsAreExact`
(`OneWorker`), `SpawnedStepsAreEarned` (`OwnTrace`), `SuccessOnlyIfEarned`
(`MaxSubmits <= 1`) and `AgentJobsAreKept` (`QueueWorkers = {}`), each because its claim
is violated without it.

## 6. Abstractions

Queue. One topic; payload, statistics and formatting are left out. The SELECT that
`_move_to_dead_letter` makes is part of its transaction. `purge_acked` and
`cleanup_dead_letters` choose any sets of old rows in place of a cutoff. `enqueue` is
one step: a row that appears between its SELECT and its INSERT is caught by the
primary key. `recover_unacked` is called only by tests and therefore is in
`RecoverySpec` and not in `Spec`.

Distributed execution. The order of the reschedule queue, priorities in the stream, and
which capable worker is selected (weights, load, health) are left open. Acknowledging
a stream entry has no effect, because the pending-entries list is never read, and is
left out. Redis read errors, the death of the scheduler's process, and the engine's
local fallback after the scheduler raises are not modelled. A spawned step may depend
only on what `Deps` gives it.

Engine. An executor is configured. Outputs, templates, condition expressions and the
text heuristics that split a plan are abstracted: a condition step may succeed or
skip, a plan's sub-steps are a constant. A supervisor's verdict is a choice. Runs of an
instance have trace ids of their own. The cap on plan depth does not occur with
one level of sub-steps.

Pool. Clocks are left out: a deadline only orders the heap. `run_cpu`, `run_all`, `clear`
and `reorder`, a task's durable checkpoint and worktree, and metrics are not modelled.

Lease. A value of the key is only compared with one's own latest one, so the key is
whose latest value it holds. There are no clocks: a key may expire whenever Redis could
expire it, and a blocked holder notices late. `renew()` only prolongs a key that holds
one's own value, which is no step of a model without clocks.

Breaker. A time stamp is never, set, or older than the cooldown. `set_state` is called by
tests and tools only; capability filters, the event log, metrics and the snapshot cache
are left out.

Breakers of others are arbitrary and take no part in `Dispatch`: its `breaker` is the
one object that the concurrent dispatches of one loop share.

Dispatch. A driver is an outcome. The gates before the breaker (unknown agent, health,
guardrail) and the budget are one refusal each. Metrics, traces, route scores, model
selection, SLA gauges and the queue of `drain_pending` are left out; of the load
balancer's algorithms only the counters they all share.

Blackboard. An entry is written once and by one process; what a second execution of a
knowledge source would write is left out. A knowledge source writes one answer or none
(`DistributedTaskKS` writes two). Domains are reduced to whether somebody reads them.
`start()` is one step although it awaits `hgetall`: what is written or published in
between behaves as if it came before. Reading, `clear`, priorities among knowledge
sources, subscribers other than the sync layer, and the context without live sync are
left out; one control loop runs per process.

Quotas. Days, weeks and months are a count of periods; a corrupt `last_reset` and an
unknown `reset_period` are left out. Rows of agents do not touch, so there is one.

## 7. Where the code and what is said of it part

Observed while modelling; the models take the code's side, and no property states what
the code does not keep.

Queue.
* `queue_worker` acknowledges failures. `_execute_task` drops what `pool.wait` answers
  (`queue_worker.py:166`), and a run of `MaopLoop` that failed is an ordinary answer, with
  `success=False`; a payload without task or agent returns at once (`:146-150`). Both
  reach the ack (`:260`), although the docstring says that a message that fails is
  NACKed (`:225-229`). Once `purge_acked` has run, nothing is left of the
  job: not queued, not dead, not done.
* nack's UPDATE has no status condition (`message_queue.py:473`). The nack of a
  consumer that outlived its timeout makes a message pending that its successor has
  acknowledged.
* With two consumers a reclaim and a late nack may count one delivery twice, so a
  message can die before its last retry; a consumer without a group takes back
  deliveries of every group; a dead letter requeued by two operators becomes two
  messages; recover_unacked buries one retry earlier than nack.

Distributed execution.
* "Dead workers' in-flight tasks are automatically rescheduled" (`worker_pool.py:5`): the
  in-flight map records the worker that was selected (`_scheduler.py:423`), while any
  worker of the group may take the message. The task of a dead worker that was not the
  selected one never comes back; the run waits for its deadline or safety cap.
* Spawned ids are in `node_map` and not in `results`; a failure in the layer that spawned
  makes the skip loop raise KeyError (`_scheduler.py:221`).
* After a signal `run_worker` closes the loop under the first `stop()`
  (`distributed_worker.py:557`), so nothing is drained, answered or unregistered.
* Several runs on one registry: the first sweep to see a dead worker takes the tasks of
  all runs; the others' queues drop them (`_failure.py:40`), a sweep of one run may
  hand back nodes of another that have the same id, and `complete_task` of one removes the
  entry of another for its node of that id (`worker_pool.py:351`).
* A worker whose posts both fail acknowledges the task all the same
  (`distributed_worker.py:475`) and lives on: the run waits for its deadline or safety cap.
* `heartbeat` returns FALSE to a worker that was pruned, which ignores it and keeps
  working unregistered. Affinity is advisory: any worker of the group may take a message.
  A worker reads more than its concurrency while the stream has entries
  (`distributed_worker.py:335`), although others idle.
* Spawned steps of one directive run in one layer even if one depends on the other.
* An answer posted after the results stream was deleted waits for the next run of that
  id and is read as its own; a node whose status is "cancelled" lets its dependents run.

Engine.
* An atomic plan step never looks at its executor's error (`engine_executor.py:325`): it
  counts as a success.
* Directives of a plan's sub-steps whose depends_on is left to default are always
  dropped, since the sub-step's id is not in the graph.
* An executor that ends with CancelledError makes `Engine.run` raise AttributeError.
* Two concurrent runs of one trace id drain each other's spawn queue.

Preemptable pool.
* A preempted task is "re-enqueued under its original token", which is its order; but an
  order of 0 means not assigned (`priority_queue.py:139`) and the counter starts at 0.
  The first task of a pool comes back under a new token and its `wait()` hangs. The
  properties except that task by `KeepsToken`.
* A victim that is slow to unwind is still in `_running`: it may be chosen again and is
  then queued twice. Both copies run, and a `wait()` that has returned a result may
  raise when it is called again.
* The dispatch loop counts idle slots once per task without suspending, so a slot that
  looks idle admits the whole heap: later tasks are ordered by the semaphore and no
  longer by priority.
* `stop()` leaves what is still queued unanswered.
* A preempted run whose clean-up raises, or that had an error of its own when it was
  cancelled, ends as failed (`reliability/worker_pool.py:336`) after its task was queued again: the
  error is recorded, and `wait()`, which looks at errors first, raises it although the
  second copy gives a result.

Lease.
* acquire fails open (`:181`): without Redis every instance leads.
* The renewal loop sets any existing key to its own value (`:286`): a holder that was
  blocked beyond its time takes the key back from its successor, and both lead.
* An error ends the renewal loop and leaves `_held` true (`:297`): the key expires and
  the instance still reports that it leads.
* A leader that contests again is refused by its own key and steps down (`:361`), while
  its renewal loop keeps everybody else out.

Breaker and dispatcher.
* A half-open breaker lets every caller through until an answer comes (`:447`), and the
  success of a call made before it opened closes it without a probe.
* The late save of half-open (`:466`) may be torn by another thread or overtake a newer
  save. A row that says open with no time of failure never becomes half-open after a
  restart.
* The comment in `dashboard/provider.py:96` calls the table the breakers' "truth source".
  Each `CircuitBreaker` reads it when it is made and never again, and the ones of other
  loops, dispatchers and processes replace its rows by what they know themselves
  (`circuit_breaker.py:301`): failures are counted per object, and a restart loads whoever
  wrote last.
* A chain that ran off its end makes `resolve_failover` return None (`:431`) though a
  fallback is closed, until a success resets it.
* Cancelling a dispatch at its driver skips `record_finish` (`dispatch_core.py:486`): the
  agent's `active_tasks` never comes down again. An agent that the load balancer comes to
  know in mid-call (`load_balancer.py:185`, `:267`) starts at 0, and the `record_finish` of
  that call takes the count of another: the agent looks less busy than it is.
* The model chosen for one dispatch is written to the configuration shared by all
  (`dispatch_core.py:336`): two concurrent dispatches of an agent may use each other's.
* A `drain_pending` that is cancelled after it popped a request
  (`dispatch_priority.py:95`) leaves that request's caller waiting.

Quotas.
* `set_bucket_quota` says that the other buckets keep their quotas. It writes the whole
  entry it read in an earlier transaction (`quota_bucket.py:183-211`), which undoes a
  concurrent change of another bucket and dates `last_reset` back, so that quotas are
  granted twice in a period. `reset_quota` reads the clock before its transaction, with the
  same effect at the turn of a period. Without `clean`, `NoOverspend` is violated by both.
* A request that is refused rolls back the automatic reset too, although the comment says
  that nothing was modified. A refund beyond what its bucket used is dropped.

Blackboard.
* `Controller.stop()` and `EventBus.unsubscribe` compare bound methods with `is not`, and
  each access makes a new one: nothing is ever unsubscribed. A controller that was started
  again handles each entry twice (`blackboard.py:650`).
* The comment in `_merge_remote_entry` says that controllers see the update
  (`blackboard_redis_sync.py:253`). Merged entries go to domain subscribers only, and
  never to the event bus, where controllers listen. `SolvedOnce` holds because of it.
* What is published between the bootstrap and the subscription, or while the listener
  reconnects, is never fetched (`:196`, `:212`).
* `RedisBlackboardSync.stop` leaves its subscription to local writes: when it is started
  again on the same blackboard it merges the snapshot a second time and publishes each
  write twice.
* `clear()` stays in its process, and the next bootstrap brings the entries back.
* `run_control_loop` tests `if self.controller.is_converged()` without await
  (`blackboard_engine_bridge.py`), so it stops after one iteration. Idle control steps
  count towards `max_iterations`, after which triggers stay queued for ever.
* `TriggerRule.max_dispatches` can be exceeded in one cycle of the convergence controller,
  because all pairs of rule and entry are collected before one is marked; a cycle that
  was stopped counts as a quiet one, so a stopped solve may report quiescence.

Queue backends.
* `SQLiteQueueBackend` acknowledges with the topic where the message id belongs
  (`backends_queue.py:83`): nothing consumed through it is ever acknowledged.

Checkpointed runs.
* `DistributedCheckpointCoordinator` calls `scheduler.run` with a `node_map` argument that
  `DistributedScheduler.run` does not take, and nothing creates a coordinator. A layer
  that is skipped as a whole is not recorded, so that the layers after it are counted
  differently on resume.

## 8. Not modelled

The repository has 176,000 lines in 655 implementation files. The map covers the ones
in which several parties act on shared state; they are a small share, and the largest
part of the rest has no state that outlives a call or only stores and shows it: 
dashboard routers and services and their front end, migrations, monitoring, drivers that
wrap a command line, catalogues, memory and retrieval, prompts, deployment manifests,
CLI. A module about a router that passes a request to a service would restate its code
and check nothing.

Parts that do have a protocol and no module yet: the convergence controller over the
blackboard, the in-process DAG scheduler, the phases of the Plan-Execute-Verify
loop, the dispatcher's waiting queue, the file locks. The checkpointed distributed runs
are left out because the coordinator as it stands cannot start a run (section 7).
Composition not stated: the engine's fallback from the distributed to the local backend,
and the dispatcher as the executor of the engine's steps.

## 9. Plan

Done, in this order: the queue and its proofs; the distributed system; Kahn's layers;
the local engine; `GraphRun` and its two implementations; the pool, the leases, the
breaker with its store and the dispatcher, the quotas, each with its proofs; the proofs
of the distributed system and of its refinement; the blackboard; the proofs of the
engine and of its refinement, of the blackboard, of attempt counts and of Kahn's layers.
To come, most important first:

1. A composition: that the graphs `_compute_layers` accepts are those
   `AcyclicAssumption` allows, and its layers those `NextNodes` gives, as one theorem over
   `KahnLayers` and `DistributedScheduler` in place of two that meet in this text.
2. What two runs of one trace id may do to each other in `Engine`, as a property.
3. The convergence controller: cycles, rules and reasons of a solve over `Blackboard`.
4. The dispatcher's waiting queue, composed with `Dispatch`.
5. The in-process DAG scheduler as a third implementation of `GraphRun`.
