--------------------------- MODULE CircuitBreaker ---------------------------
(***************************************************************************)
(* CircuitBreaker (core/reliability/circuit_breaker.py) in memory: one      *)
(* entry per agent and failover chains of agents.  Every operation is       *)
(* atomic under _sync_lock.  BreakerStore adds the database, Dispatch the   *)
(* calls that ask the breaker and report to it.                             *)
(*                                                                         *)
(* failures is only ever compared with the threshold and is cut off there.  *)
(* A time stamp is "never" or "set", and "elapsed" when cooldown_s is known *)
(* to have passed since: the code asks that of open entries only.           *)
(***************************************************************************)
EXTENDS Integers, Sequences, FiniteSets

CONSTANTS
    Agents,
    ChainOf,    \* the chains: a function from names to sequences of agents
    Threshold   \* failures in a row that open a breaker

Names == DOMAIN ChainOf

ASSUME BreakerAssumption ==
    /\ ChainOf \in [Names -> Seq(Agents)]
    /\ Threshold \in Nat \ {0}

VARIABLES
    entry,   \* _data: the breaker of each agent
    index    \* current_index of each chain, from 0

breakerVars == <<entry, index>>

Entry == [state : {"closed", "open", "half_open"},
          failures : 0 .. Threshold,
          stamp : {"never", "set", "elapsed"}]

Fresh == [state |-> "closed", failures |-> 0, stamp |-> "never"]

BreakerInit ==
    /\ entry = [a \in Agents |-> Fresh]
    /\ index = [n \in Names |-> 0]

\* The agent the chain points at, if it has not run off its end.
Points(n, a) ==
    /\ index[n] < Len(ChainOf[n])
    /\ ChainOf[n][index[n] + 1] = a

IsPrimary(n, a) == ChainOf[n] # <<>> /\ ChainOf[n][1] = a

-----------------------------------------------------------------------------
(* Answers of agents *)

\* A success resets the chains that point at the agent and those it is primary of.
ResetBy(n, a) == index[n] > 0 /\ (Points(n, a) \/ IsPrimary(n, a))

RecordSuccess(a) ==
    /\ entry' = [entry EXCEPT ![a] = Fresh]
    /\ index' = [n \in Names |-> IF ResetBy(n, a) THEN 0 ELSE index[n]]

AfterFailure(a) ==
    LET e == entry[a]
        failures == IF e.failures < Threshold THEN e.failures + 1 ELSE Threshold
    IN [state |-> IF e.state = "half_open" \/ failures = Threshold THEN "open" ELSE e.state,
        failures |-> failures,
        stamp |-> "set"]

\* Every chain that points at the agent moves on, whether or not the breaker opens.
RecordFailure(a) ==
    /\ entry' = [entry EXCEPT ![a] = AfterFailure(a)]
    /\ index' = [n \in Names |-> IF Points(n, a) THEN index[n] + 1 ELSE index[n]]

-----------------------------------------------------------------------------
(* Questions *)

\* Mutant of Due: the test of last_failure is turned round.
DueUnstamped(a) == entry[a].state = "open" /\ entry[a].stamp = "never"

Due(a) == entry[a].state = "open" /\ entry[a].stamp = "elapsed"

Available(a) == entry[a].state # "open" \/ Due(a)

\* What is left of the entry when its availability has been asked for.
Asked(a) ==
    IF Due(a) THEN [entry[a] EXCEPT !.state = "half_open", !.stamp = "set"] ELSE entry[a]

\* is_available
IsAvailable(a) ==
    /\ entry' = [entry EXCEPT ![a] = Asked(a)]
    /\ UNCHANGED index

\* The positions of the chain, from its index on, whose agents are available.
Candidates(n) ==
    {i \in index[n] .. Len(ChainOf[n]) - 1 : Available(ChainOf[n][i + 1])}

\* resolve_failover settles on position i, the first candidate.
Resolve(n, i) ==
    /\ i \in Candidates(n)
    /\ \A j \in Candidates(n) : i <= j
    /\ entry' = [entry EXCEPT ![ChainOf[n][i + 1]] = Asked(ChainOf[n][i + 1])]
    /\ index' = [index EXCEPT ![n] = i]

-----------------------------------------------------------------------------
(* Maintenance *)

Recovered(a) == [entry[a] EXCEPT !.state = "closed", !.failures = 0]

\* health_check found the agent well: its time stamp and its chains stay as they are.
Recover(a) ==
    /\ entry[a].state = "half_open"
    /\ entry' = [entry EXCEPT ![a] = Recovered(a)]
    /\ UNCHANGED index

\* register_failover, again, of a chain.
Register(n) ==
    /\ index' = [index EXCEPT ![n] = 0]
    /\ UNCHANGED entry

\* cooldown_s seconds have passed since the agent's last failure.
Cooldown(a) ==
    /\ entry[a].state = "open" /\ entry[a].stamp = "set"
    /\ entry' = [entry EXCEPT ![a].stamp = "elapsed"]
    /\ UNCHANGED index

-----------------------------------------------------------------------------
BreakerTypeOK ==
    /\ entry \in [Agents -> Entry]
    /\ index \in [Names -> Nat]
    /\ \A n \in Names : index[n] <= Len(ChainOf[n])
=============================================================================
