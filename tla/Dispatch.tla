------------------------------ MODULE Dispatch ------------------------------
(***************************************************************************)
(* Dispatcher (delegate/dispatch_core.py, dispatch_impl.py) over one        *)
(* CircuitBreaker: concurrent calls of _dispatch_impl_inner on the event    *)
(* loop, whose questions to the breaker and whose records in it are made    *)
(* in threads and awaited, with failover to other agents, the semaphore,    *)
(* the load balancer's counters, and cancellation by the caller's timeout   *)
(* at any await.                                                           *)
(*                                                                         *)
(* dispatch asks the breaker for a chain under the name of the agent, so    *)
(* names of chains are agents.  The gates that come before the breaker      *)
(* (unknown agent, health, guardrail) and the budget are one refusal each.  *)
(* Metrics, traces and the route scorer's penalties are left out.           *)
(***************************************************************************)
EXTENDS CircuitBreaker

CONSTANTS
    Configured,  \* the agents that the loop has registered with the load balancer at its start
    Calls,       \* callers, each with one dispatch at a time
    Permits,     \* the semaphore's value
    MaxDepth,    \* _MAX_FAILOVER_DEPTH
    MaxCancels   \* bound on cancelled calls

ASSUME DispatchAssumption ==
    /\ Agents # {} /\ Names \subseteq Agents /\ Configured \subseteq Agents
    /\ Permits \in Nat \ {0} /\ MaxDepth \in Nat /\ MaxCancels \in Nat
    /\ IsFiniteSet(Calls)

VARIABLES
    call,    \* the dispatch of each caller
    load,    \* active_tasks of each agent in the load balancer; 0 of one it does not know
    known,   \* the agents that the load balancer knows
    early,   \* history: how many calls were on their way when it came to know the agent,
             \* as long as any has been since
    leaked,  \* history: how many calls to the agent were cancelled between start and finish
    cancels, \* number of cancelled calls so far
    mended   \* environment: from now on every driver succeeds and no gate refuses

balancerVars == <<load, known, early, leaked>>
vars == <<breakerVars, balancerVars, call, cancels, mended>>

Steps == {"idle", "check", "passed", "refused", "waiting", "running", "succeeded", "failed"}

Call == [step : Steps,
         agent : Agents,
         depth : 0 .. MaxDepth, \* _failover_depth, until it no longer matters
         live : BOOLEAN,        \* somebody awaits the result
         overtaken : BOOLEAN]   \* history: the agent's breaker opened after the check

Calm == [step |-> "idle", agent |-> CHOOSE a \in Agents : TRUE, depth |-> 0,
         live |-> FALSE, overtaken |-> FALSE]

Init ==
    /\ BreakerInit
    /\ call = [c \in Calls |-> Calm]
    /\ load = [a \in Agents |-> 0]
    /\ known = Configured
    /\ early = [a \in Agents |-> 0]
    /\ leaked = [a \in Agents |-> 0]
    /\ cancels = 0
    /\ mended = FALSE

At(c, s) == call[c].step = s
AgentOf(c) == call[c].agent

\* The calls between record_start and record_finish.
Busy(a) == {c \in Calls : AgentOf(c) = a /\ call[c].step \in {"waiting", "running"}}

\* The dispatch is over and forgotten: returned, cancelled, or its thread has ended.
Over(c) == [call EXCEPT ![c] = Calm]

To(c, s) == [call EXCEPT ![c].step = s]

\* The driver is behind it.
Ended(c, s) == [call EXCEPT ![c].step = s, ![c].depth = 0, ![c].overtaken = FALSE]

-----------------------------------------------------------------------------
(* The way to the driver *)

\* A dispatch that passes the first gates awaits the breaker's answer in a thread.
Begin(c, a) ==
    /\ At(c, "idle")
    /\ call' = [call EXCEPT ![c] = [Calm EXCEPT !.step = "check", !.agent = a, !.live = TRUE]]
    /\ UNCHANGED <<breakerVars, balancerVars, cancels, mended>>

\* The thread's answer; nobody hears that of a cancelled call.
Check(c) ==
    LET a == AgentOf(c) IN
    /\ At(c, "check")
    /\ IsAvailable(a)
    /\ call' = IF ~call[c].live THEN Over(c)
               ELSE To(c, IF Available(a) THEN "passed" ELSE "refused")
    /\ UNCHANGED <<balancerVars, cancels, mended>>

\* Mutant of FailOver: the call goes to the fallback's driver without asking the breaker.
FailOverUnchecked(c) ==
    /\ At(c, "refused") /\ call[c].depth < MaxDepth /\ AgentOf(c) \in Names
    /\ \E i \in 1 .. Len(ChainOf[AgentOf(c)]) :
        call' = [call EXCEPT ![c].step = "passed",
                             ![c].agent = ChainOf[AgentOf(c)][i],
                             ![c].depth = @ + 1]
    /\ UNCHANGED <<breakerVars, balancerVars, cancels, mended>>

\* Where a chain of the agent's name, if there is one, may go on.
Fallbacks(a) == IF a \in Names THEN Candidates(a) ELSE {}

\* A nested dispatch to the agent that the chain of this one resolves to.
FailOver(c) ==
    LET a == AgentOf(c) IN
    /\ At(c, "refused") /\ call[c].depth < MaxDepth
    /\ \E i \in Fallbacks(a) :
        /\ Resolve(a, i)
        /\ call' = [call EXCEPT ![c].step = "check",
                                ![c].agent = ChainOf[a][i + 1],
                                ![c].depth = @ + 1]
    /\ UNCHANGED <<balancerVars, cancels, mended>>

\* No chain, nobody left on it or too deep: the dispatch is answered "OPEN".
GiveUp(c) ==
    /\ At(c, "refused")
    /\ call[c].depth = MaxDepth \/ Fallbacks(AgentOf(c)) = {}
    /\ call' = Over(c)
    /\ UNCHANGED <<breakerVars, balancerVars, cancels, mended>>

\* A gate of a nested dispatch, or the budget, refuses.
Reject(c) ==
    /\ ~mended
    /\ call[c].live
    /\ \/ At(c, "passed")
       \/ At(c, "check") /\ call[c].depth > 0
    /\ call' = Over(c)
    /\ UNCHANGED <<breakerVars, balancerVars, cancels, mended>>

\* No driver of that name: a failure of the agent.
NoDriver(c) ==
    /\ ~mended
    /\ At(c, "passed")
    /\ call' = Ended(c, "failed")
    /\ UNCHANGED <<breakerVars, balancerVars, cancels, mended>>

\* record_start, which counts the agents that the load balancer knows, then the semaphore.
Enqueue(c) ==
    /\ At(c, "passed")
    /\ call' = [call EXCEPT ![c].step = "waiting", ![c].depth = 0]
    /\ load' = [a \in Agents |-> IF a = AgentOf(c) /\ a \in known THEN load[a] + 1 ELSE load[a]]
    /\ UNCHANGED <<breakerVars, known, early, leaked, cancels, mended>>

Acquire(c) ==
    /\ At(c, "waiting")
    /\ Cardinality({d \in Calls : At(d, "running")}) < Permits
    /\ call' = To(c, "running")
    /\ UNCHANGED <<breakerVars, balancerVars, cancels, mended>>

-----------------------------------------------------------------------------
(* After the driver *)

\* Of the history: an agent has no call on its way any more.
Settle == early' = [a \in Agents |-> IF Busy(a)' = {} THEN 0 ELSE early[a]]

\* record_finish, which does not know whether record_start has counted the call.
Unloaded(a) == [load EXCEPT ![a] = IF @ > 0 THEN @ - 1 ELSE 0]

\* Mutant of DriverEnds: record_finish only follows a success.
DriverEndsSkewed(c) ==
    /\ At(c, "running")
    /\ \/ call' = Ended(c, "succeeded") /\ load' = Unloaded(AgentOf(c))
       \/ ~mended /\ call' = Ended(c, "failed") /\ UNCHANGED load
    /\ Settle
    /\ UNCHANGED <<breakerVars, known, leaked, cancels, mended>>

\* The driver returns or raises; record_finish.
DriverEnds(c) ==
    /\ At(c, "running")
    /\ call' \in {Ended(c, "succeeded")} \union (IF mended THEN {} ELSE {Ended(c, "failed")})
    /\ load' = Unloaded(AgentOf(c))
    /\ Settle
    /\ UNCHANGED <<breakerVars, known, leaked, cancels, mended>>

\* The record is made in a thread, whether or not the call was cancelled meanwhile.
Succeed(c) ==
    /\ At(c, "succeeded")
    /\ RecordSuccess(AgentOf(c))
    /\ call' = Over(c)
    /\ UNCHANGED <<balancerVars, cancels, mended>>

\* The calls that were let through to the agent and have not ended.
LetThrough(a) == {d \in Calls : AgentOf(d) = a /\ call[d].step \in {"passed", "waiting", "running"}}

Fail(c) ==
    LET a == AgentOf(c) IN
    /\ At(c, "failed")
    /\ RecordFailure(a)
    /\ call' = [d \in Calls |->
                    IF d = c THEN Calm
                    ELSE IF d \in LetThrough(a) /\ AfterFailure(a).state = "open"
                         THEN [call[d] EXCEPT !.overtaken = TRUE]
                         ELSE call[d]]
    /\ UNCHANGED <<balancerVars, cancels, mended>>

-----------------------------------------------------------------------------
(* Cancellation and the environment *)

\* The caller's timeout cancels the dispatch where it awaits.  A thread that has begun is
\* not stopped; one that has not never begins.  record_finish is skipped.
Cancel(c) ==
    LET a == AgentOf(c) IN
    /\ cancels < MaxCancels
    /\ cancels' = cancels + 1
    /\ call[c].live
    /\ call' \in {Over(c)} \union
           (IF call[c].step \in {"check", "succeeded", "failed"}
            THEN {[call EXCEPT ![c].live = FALSE]} ELSE {})
    /\ leaked' = IF c \in Busy(a) THEN [leaked EXCEPT ![a] = @ + 1] ELSE leaked
    /\ Settle
    /\ UNCHANGED <<breakerVars, load, known, mended>>

\* Another loop registers its agents, or select the candidates it is given, with no task
\* counted as running.
Enroll(a) ==
    /\ a \notin known
    /\ known' = known \union {a}
    /\ early' = [early EXCEPT ![a] = Cardinality(Busy(a))]
    /\ UNCHANGED <<breakerVars, call, load, leaked, cancels, mended>>

Mend ==
    /\ ~mended
    /\ mended' = TRUE
    /\ UNCHANGED <<breakerVars, balancerVars, call, cancels>>

\* What the breaker does on its own or at the request of others.
Maintain(a) ==
    /\ Recover(a) \/ Cooldown(a)
    /\ UNCHANGED <<balancerVars, call, cancels, mended>>

-----------------------------------------------------------------------------
\* What a call does once it has begun.
Proceed(c) ==
    \/ Check(c) \/ FailOver(c) \/ GiveUp(c) \/ Reject(c) \/ NoDriver(c)
    \/ Enqueue(c) \/ Acquire(c) \/ DriverEnds(c) \/ Succeed(c) \/ Fail(c)

Next ==
    \/ \E c \in Calls, a \in Agents : Begin(c, a)
    \/ \E c \in Calls : Proceed(c)
    \/ \E c \in Calls : Cancel(c)
    \/ \E a \in Agents : Maintain(a) \/ Enroll(a)
    \/ Mend

Spec == Init /\ [][Next]_vars

(* Threads, drivers and cooldowns end, and every agent keeps being asked for.       *)
Fairness ==
    /\ \A c \in Calls : WF_vars(Proceed(c))
    /\ \A a \in Agents :
        /\ WF_vars(Cooldown(a) /\ UNCHANGED <<balancerVars, call, cancels, mended>>)
        /\ SF_vars(\E c \in Calls : Begin(c, a))

FairSpec == Spec /\ Fairness

-----------------------------------------------------------------------------
(* Properties *)

\* The types, and that a breaker is closed exactly as long as its agent has failed fewer
\* times in a row than the threshold.
TypeOK ==
    /\ BreakerTypeOK
    /\ \A a \in Agents : (entry[a].state = "closed") = (entry[a].failures < Threshold)
    /\ call \in [Calls -> Call]
    /\ load \in [Agents -> Nat] /\ early \in [Agents -> Nat] /\ leaked \in [Agents -> Nat]
    /\ known \subseteq Agents
    /\ cancels \in 0 .. MaxCancels
    /\ mended \in BOOLEAN

\* A call that is on its way to the driver of an agent whose breaker is open was let
\* through before the breaker opened: no later call gets past it before the cooldown has
\* moved it to half-open, by the agent's own name or through a chain.
OpenIsRespected ==
    \A c \in Calls :
        /\ call[c].step \in {"passed", "waiting", "running"}
        /\ entry[AgentOf(c)].state = "open"
        => call[c].overtaken

\* The load balancer believes an agent busy by at most as many calls too few as were on
\* their way when it came to know it, whose record_finish takes the count of others, and
\* that only until no call to the agent is on its way; and by at most as many too many as
\* were cancelled before record_finish.  Neither error grows however the calls go on, and
\* an agent it does not know is idle to it.
LoadIsTrue ==
    \A a \in Agents :
        LET busy == Cardinality(Busy(a)) IN
        IF a \in known THEN load[a] \in busy - early[a] .. busy + leaked[a]
        ELSE load[a] = 0

\* Once the agents work again every breaker closes for good, whatever state it and the
\* calls were left in.
Recovers ==
    <>[](mended => \A a \in Agents : entry[a].state = "closed")
=============================================================================
