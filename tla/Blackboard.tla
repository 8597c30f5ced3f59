------------------------------ MODULE Blackboard ------------------------------
(***************************************************************************)
(* The blackboard (core/reliability/blackboard.py) of several processes,   *)
(* kept alike through Redis (blackboard_redis_sync.py, used by             *)
(* core/coordination/bb_task_context.py), and the Controller that executes *)
(* a knowledge source for what is written (blackboard_engine_bridge.py).   *)
(*                                                                         *)
(* A process is one event loop; a step ends where its code awaits Redis or *)
(* a knowledge source.  PUBLISH reaches the connections that are           *)
(* subscribed at that moment and nobody else; the snapshot hash only       *)
(* grows.  An entry is written once, by the process Home gives it; what    *)
(* others hold are copies with the same entry_id.                          *)
(***************************************************************************)
EXTENDS Naturals, Sequences, FiniteSets, SequencesExt

CONSTANTS
    Processes,      \* processes with a blackboard of their own
    Entries,        \* entries that may be written
    Home,           \* entry -> the process that writes it
    Reply,          \* entry -> the entry a knowledge source writes for it, or NoEntry
    Problems,       \* entries in a domain that a knowledge source reads
    MaxIterations,  \* Controller.max_iterations
    Controlled,     \* the processes that have a Controller
    MaxStarts,      \* bound: starts of the sync layer and of the controller, per process
    MaxFaults,      \* bound: crashes, Redis errors and cancelled control steps
    NoEntry

ASSUME BlackboardAssumption ==
    /\ NoEntry \notin Entries
    /\ Home \in [Entries -> Processes]
    /\ Reply \in [Entries -> Entries \cup {NoEntry}]
    /\ Problems \subseteq Entries
    /\ Controlled \subseteq Processes
    /\ \A e \in Problems : Reply[e] # NoEntry => Home[Reply[e]] = Home[e]
    /\ {MaxIterations, MaxStarts, MaxFaults} \subseteq Nat

VARIABLES
    held,     \* process -> entry -> copies of it in _entries
    place,    \* entry -> where its write() is
    calls,    \* entry -> sync callbacks its write() has yet to go through
    sync,     \* process -> sync layer: off, joining (not subscribed), listening
    hooks,    \* process -> times _on_local_write is among the subscribers
    inbox,    \* process -> messages its pub/sub connection has received
    saving,   \* process -> the merged entry it is about to save, or NoEntry
    snapshot, \* Redis: the entries in the snapshot hash
    subs,     \* process -> times the controller is subscribed to the event bus
    queue,    \* process -> _trigger_queue
    batch,    \* process -> the triggers its control step has yet to finish
    doing,    \* process -> the entry its knowledge source is writing, or NoEntry
    steps,    \* process -> _iteration_count
    starts,   \* process -> starts of the sync layer and of the controller
    faults,
    solved,   \* history: entry -> executions of a knowledge source for it
    raised,   \* history: entries some controller was told of
    dropped,  \* history: entries whose trigger a crash or a cancellation took away
    missed,   \* history: process -> entries published when it could not hear
    again     \* history: processes whose sync layer or controller started twice

boards   == <<held, place, calls>>
redis    == <<sync, hooks, inbox, saving, snapshot>>
control  == <<subs, queue, batch, doing, steps>>
history  == <<solved, raised, dropped, missed, again>>
vars     == <<boards, redis, control, starts, faults, history>>

Nothing == [e \in Entries |-> 0]

Init ==
    /\ held = [n \in Processes |-> Nothing]
    /\ place = [e \in Entries |-> "new"]
    /\ calls = Nothing
    /\ sync = [n \in Processes |-> "off"]
    /\ hooks = [n \in Processes |-> 0]
    /\ inbox = [n \in Processes |-> <<>>]
    /\ saving = [n \in Processes |-> NoEntry]
    /\ snapshot = {}
    /\ subs = [n \in Processes |-> 0]
    /\ queue = [n \in Processes |-> <<>>]
    /\ batch = [n \in Processes |-> <<>>]
    /\ doing = [n \in Processes |-> NoEntry]
    /\ steps = [n \in Processes |-> 0]
    /\ starts = [n \in Processes |-> 0]
    /\ faults = 0
    /\ solved = Nothing
    /\ raised = {}
    /\ dropped = {}
    /\ missed = [n \in Processes |-> {}]
    /\ again = {}

Fault == faults < MaxFaults /\ faults' = faults + 1

-----------------------------------------------------------------------------
(* Blackboard.write                                                        *)

Answers == {Reply[e] : e \in Problems}

\* The entry is appended under the lock, with the subscribers of that moment.
AppendEntry(n, e) ==
    /\ place[e] = "new"
    /\ held' = [held EXCEPT ![n][e] = @ + 1]
    /\ place' = [place EXCEPT ![e] = "notify"]
    /\ calls' = [calls EXCEPT ![e] = hooks[n]]

Write(n, e) ==
    /\ Home[e] = n
    /\ e \notin Answers
    /\ AppendEntry(n, e)
    /\ UNCHANGED <<redis, control, starts, faults, history>>

\* The processes that hear a message; a process ignores its own.
Hearing(e) == {n \in Processes : sync[n] = "listening" /\ n # Home[e]}

Deliver(e) ==
    inbox' = [n \in Processes |-> IF n \in Hearing(e) THEN Append(inbox[n], e) ELSE inbox[n]]

\* What _on_local_write of e does next, while the write waits for it.
Calling(e) == place[e] = "notify" /\ calls[e] > 0

\* _publish_entry
Publish(e) ==
    /\ Calling(e)
    /\ sync[Home[e]] # "off"
    /\ Deliver(e)
    /\ place' = [place EXCEPT ![e] = "save"]
    /\ missed' = [n \in Processes |-> IF sync[n] = "joining" /\ n # Home[e]
                                      THEN missed[n] \cup {e} ELSE missed[n]]
    /\ UNCHANGED <<held, calls, sync, hooks, saving, snapshot, control, starts, faults,
                   solved, raised, dropped, again>>

Called(e) ==
    /\ place' = [place EXCEPT ![e] = "notify"]
    /\ calls' = [calls EXCEPT ![e] = @ - 1]
    /\ UNCHANGED held

\* _save_snapshot
Save(e) ==
    /\ place[e] = "save"
    /\ snapshot' = snapshot \cup {e}
    /\ Called(e)
    /\ UNCHANGED <<sync, hooks, inbox, saving, control, starts, faults, history>>

\* The sync layer is stopped: the callback returns at once.
SkipCall(e) ==
    /\ Calling(e)
    /\ sync[Home[e]] = "off"
    /\ Called(e)
    /\ UNCHANGED <<redis, control, starts, faults, history>>

\* Publishing or saving raises: the warning is all that is left of it.
CallFails(e) ==
    /\ Fault
    /\ place[e] = "save" \/ (Calling(e) /\ sync[Home[e]] # "off")
    /\ Called(e)
    /\ UNCHANGED <<redis, control, starts, history>>

\* _publish_event: the bus calls each subscription of the controller, which only
\* puts the entry into the trigger queue.
Raise(e) ==
    /\ place[e] = "notify" /\ calls[e] = 0
    /\ LET n == Home[e] IN
        /\ queue' = [queue EXCEPT ![n] = @ \o [i \in 1..subs[n] |-> e]]
        /\ raised' = IF subs[n] > 0 THEN raised \cup {e} ELSE raised
    /\ place' = [place EXCEPT ![e] = "written"]
    /\ UNCHANGED <<held, calls, redis, subs, batch, doing, steps, starts, faults,
                   solved, dropped, missed, again>>

-----------------------------------------------------------------------------
(* RedisBlackboardSync                                                     *)

Plus(copies, S) == [e \in Entries |-> copies[e] + (IF e \in S THEN 1 ELSE 0)]

\* Published entries that no snapshot read at this moment can contain.
Unsaved ==
    {e \in Entries : place[e] = "save" \/ \E m \in Processes : e \in ToSet(inbox[m]) \cup {saving[m]}}
        \ snapshot

\* start(): the snapshot is merged into whatever the blackboard holds, then the
\* listener is created and the local subscription made.  boot is what hgetall gave.
Join(n, boot) ==
    /\ sync[n] = "off"
    /\ starts[n] < MaxStarts
    /\ starts' = [starts EXCEPT ![n] = @ + 1]
    /\ sync' = [sync EXCEPT ![n] = "joining"]
    /\ held' = [held EXCEPT ![n] = Plus(@, boot)]
    /\ hooks' = [hooks EXCEPT ![n] = @ + 1]
    /\ missed' = [missed EXCEPT ![n] = Unsaved \cup (snapshot \ boot)]
    /\ again' = IF hooks[n] > 0 THEN again \cup {n} ELSE again
    /\ UNCHANGED <<place, calls, inbox, saving, snapshot, control, solved, raised, dropped>>

Start(n) == Join(n, snapshot) /\ UNCHANGED faults

\* Redis cannot be read: start() goes on with nothing.
StartBlind(n) == Fault /\ Join(n, {})

\* Mutant of Listen: the snapshot is read only now, after subscribing.
ListenThenBoot(n) ==
    /\ sync[n] = "joining"
    /\ sync' = [sync EXCEPT ![n] = "listening"]
    /\ held' = [held EXCEPT ![n] = Plus(@, snapshot)]
    /\ UNCHANGED <<place, calls, hooks, inbox, saving, snapshot, control, starts, faults, history>>

\* The listener subscribes.
Listen(n) ==
    /\ sync[n] = "joining"
    /\ sync' = [sync EXCEPT ![n] = "listening"]
    /\ UNCHANGED <<boards, hooks, inbox, saving, snapshot, control, starts, faults, history>>

\* Mutants of Merge: an entry the snapshot has is taken for known; the event bus,
\* and so the controller, hears of the copy.
MergeIfUnsaved(n) ==
    /\ inbox[n] # <<>>
    /\ saving[n] = NoEntry
    /\ IF Head(inbox[n]) \in snapshot
       THEN UNCHANGED <<held, saving>>
       ELSE /\ held' = [held EXCEPT ![n][Head(inbox[n])] = @ + 1]
            /\ saving' = [saving EXCEPT ![n] = Head(inbox[n])]
    /\ inbox' = [inbox EXCEPT ![n] = Tail(@)]
    /\ UNCHANGED <<place, calls, sync, hooks, snapshot, control, starts, faults, history>>

MergeAndRaise(n) ==
    /\ inbox[n] # <<>>
    /\ saving[n] = NoEntry
    /\ held' = [held EXCEPT ![n][Head(inbox[n])] = @ + 1]
    /\ saving' = [saving EXCEPT ![n] = Head(inbox[n])]
    /\ inbox' = [inbox EXCEPT ![n] = Tail(@)]
    /\ queue' = [queue EXCEPT ![n] = @ \o [i \in 1..subs[n] |-> Head(inbox[n])]]
    /\ UNCHANGED <<place, calls, sync, hooks, snapshot, subs, batch, doing, steps, starts, faults,
                   history>>

\* _handle_message: append the copy, marked so that _on_local_write lets it pass.
\* The event bus hears nothing of it.
Merge(n) ==
    /\ inbox[n] # <<>>
    /\ saving[n] = NoEntry
    /\ held' = [held EXCEPT ![n][Head(inbox[n])] = @ + 1]
    /\ saving' = [saving EXCEPT ![n] = Head(inbox[n])]
    /\ inbox' = [inbox EXCEPT ![n] = Tail(@)]
    /\ UNCHANGED <<place, calls, sync, hooks, snapshot, control, starts, faults, history>>

SaveMerged(n) ==
    /\ saving[n] # NoEntry
    /\ snapshot' = snapshot \cup {saving[n]}
    /\ saving' = [saving EXCEPT ![n] = NoEntry]
    /\ UNCHANGED <<boards, sync, hooks, inbox, control, starts, faults, history>>

\* The connection of n goes, with what it had received.
Disconnect(n, to) ==
    /\ sync' = [sync EXCEPT ![n] = to]
    /\ inbox' = [inbox EXCEPT ![n] = <<>>]
    /\ saving' = [saving EXCEPT ![n] = NoEntry]

\* An error in the listener, which subscribes again and reads no snapshot.
ListenFails(n) ==
    /\ Fault
    /\ sync[n] = "listening"
    /\ Disconnect(n, "joining")
    /\ missed' = [missed EXCEPT ![n] = @ \cup ToSet(inbox[n])]
    /\ UNCHANGED <<boards, hooks, snapshot, control, starts, solved, raised, dropped, again>>

\* stop(): the subscription to local writes stays.
Stop(n) ==
    /\ sync[n] # "off"
    /\ Disconnect(n, "off")
    /\ UNCHANGED <<boards, hooks, snapshot, control, starts, faults, history>>

\* BlackboardTaskContext.detach: stop(), and the blackboard is let go; the next
\* attach makes a new one.
Writing(n) == {e \in Entries : Home[e] = n /\ place[e] \in {"notify", "save"}}

Detach(n) ==
    /\ sync[n] # "off"
    /\ subs[n] = 0 /\ Writing(n) = {}
    /\ Disconnect(n, "off")
    /\ held' = [held EXCEPT ![n] = Nothing]
    /\ hooks' = [hooks EXCEPT ![n] = 0]
    /\ UNCHANGED <<place, calls, snapshot, control, starts, faults, history>>

-----------------------------------------------------------------------------
(* Controller                                                              *)

\* start().  stop() has no effect: unsubscribe compares a new bound method with
\* the one that was subscribed.
StartController(n) ==
    /\ n \in Controlled
    /\ starts[n] < MaxStarts
    /\ starts' = [starts EXCEPT ![n] = @ + 1]
    /\ subs' = [subs EXCEPT ![n] = @ + 1]
    /\ again' = IF subs[n] > 0 THEN again \cup {n} ELSE again
    /\ UNCHANGED <<boards, redis, queue, batch, doing, steps, faults,
                   solved, raised, dropped, missed>>

Idle(n) == batch[n] = <<>> /\ doing[n] = NoEntry

\* control_step: take the whole queue.  One control loop per process runs it.
ControlStep(n) ==
    /\ n \in Controlled
    /\ Idle(n)
    /\ steps[n] < MaxIterations
    /\ batch' = [batch EXCEPT ![n] = queue[n]]
    /\ queue' = [queue EXCEPT ![n] = <<>>]
    /\ steps' = IF queue[n] = <<>> THEN [steps EXCEPT ![n] = @ + 1] ELSE steps
    /\ UNCHANGED <<boards, redis, subs, doing, starts, faults, history>>

\* The trigger at hand is done; after the last one the iteration counts.
NextTrigger(n) ==
    /\ batch' = [batch EXCEPT ![n] = Tail(@)]
    /\ steps' = IF Len(batch[n]) = 1 THEN [steps EXCEPT ![n] = @ + 1] ELSE steps

\* execute() of the knowledge source that reads the entry's domain, if one does:
\* it begins to write its answer, or it fails and the step goes on.
Execute(n) ==
    /\ batch[n] # <<>>
    /\ doing[n] = NoEntry
    /\ LET e == Head(batch[n]) IN
        /\ solved' = IF e \in Problems THEN [solved EXCEPT ![e] = @ + 1] ELSE solved
        /\ \/ /\ e \in Problems /\ Reply[e] # NoEntry
              /\ AppendEntry(n, Reply[e])
              /\ doing' = [doing EXCEPT ![n] = Reply[e]]
              /\ UNCHANGED <<batch, steps>>
           \/ NextTrigger(n) /\ UNCHANGED <<boards, doing>>
    /\ UNCHANGED <<redis, subs, queue, starts, faults, raised, dropped, missed, again>>

\* Mutant of Executed: the queue is cleared after its triggers were executed.
ExecutedThenCleared(n) ==
    /\ doing[n] # NoEntry
    /\ place[doing[n]] = "written"
    /\ NextTrigger(n)
    /\ doing' = [doing EXCEPT ![n] = NoEntry]
    /\ queue' = IF Len(batch[n]) = 1 THEN [queue EXCEPT ![n] = <<>>] ELSE queue
    /\ UNCHANGED <<boards, redis, subs, starts, faults, history>>

\* The write of the answer has returned, and with it execute().
Executed(n) ==
    /\ doing[n] # NoEntry
    /\ place[doing[n]] = "written"
    /\ NextTrigger(n)
    /\ doing' = [doing EXCEPT ![n] = NoEntry]
    /\ UNCHANGED <<boards, redis, subs, queue, starts, faults, history>>

\* The caller of control_step cancels it: the triggers taken are gone, and the
\* write it waits for is cut off after the append.
CancelStep(n) ==
    /\ Fault
    /\ ~Idle(n)
    /\ batch' = [batch EXCEPT ![n] = <<>>]
    /\ doing' = [doing EXCEPT ![n] = NoEntry]
    /\ place' = IF doing[n] \in Writing(n) THEN [place EXCEPT ![doing[n]] = "lost"] ELSE place
    /\ dropped' = dropped \cup ToSet(batch[n])
    /\ UNCHANGED <<held, calls, redis, subs, queue, steps, starts, solved, raised, missed, again>>

-----------------------------------------------------------------------------
\* A process dies with all it has in memory; starts counts for its next life too.
Crash(n) ==
    /\ Fault
    /\ held' = [held EXCEPT ![n] = Nothing]
    /\ place' = [e \in Entries |-> IF e \in Writing(n) THEN "lost" ELSE place[e]]
    /\ Disconnect(n, "off")
    /\ hooks' = [hooks EXCEPT ![n] = 0]
    /\ subs' = [subs EXCEPT ![n] = 0]
    /\ queue' = [queue EXCEPT ![n] = <<>>]
    /\ batch' = [batch EXCEPT ![n] = <<>>]
    /\ doing' = [doing EXCEPT ![n] = NoEntry]
    /\ steps' = [steps EXCEPT ![n] = 0]
    /\ dropped' = dropped \cup ToSet(queue[n]) \cup ToSet(batch[n])
    /\ UNCHANGED <<calls, snapshot, starts, solved, raised, missed, again>>

WriteStep(e) ==
    Publish(e) \/ Save(e) \/ SkipCall(e) \/ CallFails(e) \/ Raise(e)

SyncStep(n) ==
    \/ Start(n) \/ StartBlind(n) \/ Listen(n) \/ Merge(n) \/ SaveMerged(n)
    \/ ListenFails(n) \/ Stop(n) \/ Detach(n)

ControlNext(n) ==
    StartController(n) \/ ControlStep(n) \/ Execute(n) \/ Executed(n) \/ CancelStep(n)

Next ==
    \/ \E e \in Entries : Write(Home[e], e) \/ WriteStep(e)
    \/ \E n \in Processes : SyncStep(n) \/ ControlNext(n) \/ Crash(n)

Spec == Init /\ [][Next]_vars

-----------------------------------------------------------------------------
(* Properties *)

TypeOK ==
    /\ held \in [Processes -> [Entries -> Nat]]
    /\ place \in [Entries -> {"new", "notify", "save", "written", "lost"}]
    /\ calls \in [Entries -> Nat]
    /\ sync \in [Processes -> {"off", "joining", "listening"}]
    /\ hooks \in [Processes -> Nat] /\ subs \in [Processes -> Nat]
    /\ inbox \in [Processes -> Seq(Entries)]
    /\ saving \in [Processes -> Entries \cup {NoEntry}]
    /\ snapshot \subseteq Entries
    /\ queue \in [Processes -> Seq(Entries)] /\ batch \in [Processes -> Seq(Entries)]
    /\ doing \in [Processes -> Entries \cup {NoEntry}]
    /\ steps \in [Processes -> Nat] /\ starts \in [Processes -> Nat] /\ faults \in Nat
    /\ solved \in [Entries -> Nat]
    /\ raised \subseteq Entries /\ dropped \subseteq Entries
    /\ missed \in [Processes -> SUBSET Entries] /\ again \subseteq Processes

\* The snapshot is read before the channel is subscribed to, and an entry is
\* published before it is saved: what a process finds in the one it cannot get from
\* the other, so no blackboard holds an entry twice (unless a sync layer was started
\* again on the blackboard it had).
OneCopy ==
    \A n \in Processes, e \in Entries :
        held[n][e] > 1 => {n, Home[e]} \cap again # {}

\* A process that listens has every entry of the snapshot, or is about to, but for
\* those published while its connection was not subscribed: before it subscribed,
\* or when the connection failed ("other nodes can merge it").
NothingMissed ==
    \A n \in Processes : sync[n] = "listening" =>
        \A e \in snapshot :
            held[n][e] > 0 \/ e \in ToSet(inbox[n]) \cup missed[n]

\* However many blackboards an entry reaches, in life after life of their processes,
\* one knowledge source works on it, once (unless a controller was started twice).
SolvedOnce ==
    \A e \in Problems : solved[e] > 1 => Home[e] \in again

\* A trigger that was raised is queued, being handled, or was handled, even if it
\* came in the middle of a control step; only a crash or a cancelled step loses any.
TriggersKept ==
    \A e \in raised \cap Problems :
        \/ e \in ToSet(queue[Home[e]]) \cup ToSet(batch[Home[e]])
        \/ solved[e] > 0
        \/ e \in dropped

=============================================================================
