---------------------------- MODULE Engine_proofs ----------------------------
(* Theorems of Engine, for any runs, graphs, policies and directives.       *)
EXTENDS Engine, SequenceTheorems, FiniteSetTheorems, TLAPS

-----------------------------------------------------------------------------
(* Types, and what a step of a coroutine leaves alone *)

\* A coroutine moves: one action of the execution of step s.
Work(r, s) ==
    \/ Begin(r, s) \/ BeginSub(r, s) \/ Succeed(r, s) \/ Fail(r, s) \/ FailPlan(r, s)
    \/ Raise(r, s) \/ Cancelled(r, s) \/ Timeout(r, s)

\* Where the coroutine of s is afterwards.
Moves(r, s, place) ==
    /\ place \in Place /\ place.at # "out"
    /\ step' = [step EXCEPT ![r][s] = place]

LEMMA OutsideType == Outside \in Place
BY DEF Outside, Place

LEMMA DirectiveType ==
    ASSUME NEW w \in Ids
    PROVE  /\ Directive(w) \in Seq(Ids \X Steps)
           /\ \A k \in DOMAIN Directive(w) :
                Directive(w)[k][1] = w /\ Directive(w)[k][2] \in ToSet(Offer[w])
<1>1. Offer[w] \in Seq(Steps)
  BY EngineAssumption DEF Ids
<1>2. DOMAIN Offer[w] = 1 .. Len(Offer[w]) /\ Len(Offer[w]) \in Nat
  BY <1>1
<1>3. \A j \in DOMAIN Offer[w] : <<w, Offer[w][j]>> \in Ids \X Steps
  BY <1>1
<1>4. Directive(w) \in [1 .. Len(Offer[w]) -> Ids \X Steps]
  BY <1>2, <1>3 DEF Directive
<1>5. Directive(w) \in Seq(Ids \X Steps)
  BY <1>2, <1>4, SeqDef
<1>6. \A k \in DOMAIN Directive(w) : Directive(w)[k] = <<w, Offer[w][k]>> /\ k \in DOMAIN Offer[w]
  BY DEF Directive
<1>. QED  BY <1>5, <1>6 DEF ToSet

LEMMA CallerType ==
    ASSUME TypeOK, NEW r \in Runs, NEW s \in Steps,
           Splits(s) => step[r][s].nth \in 1 .. Len(Subs[s])
    PROVE  Caller(r, s) \in Ids
<1>1. Subs[s] \in Seq(Inner)
  BY EngineAssumption
<1>2. CASE Splits(s)
  BY <1>1, <1>2 DEF Caller, Ids
<1>3. CASE ~ Splits(s)
  BY <1>3 DEF Caller, Ids
<1>. QED  BY <1>2, <1>3

LEMMA SettleMoves ==
    ASSUME NEW r, NEW s, NEW res \in {"success", "failed", "skipped", "cancelled"},
           Settle(r, s, res)
    PROVE  \E place : /\ Moves(r, s, place)
                      /\ place = [Outside EXCEPT !.at = "ended", !.res = res]
                      /\ place.at = "ended" /\ place.res = res
<1> DEFINE place == [Outside EXCEPT !.at = "ended", !.res = res]
<1>1. place \in Place /\ place.at = "ended" /\ place.res = res
  BY DEF Outside, Place
<1>2. step' = [step EXCEPT ![r][s] = place]
  BY DEF Settle, Put
<1>. QED  BY <1>1, <1>2 DEF Moves

\* After a sub-step the plan step waits for its next one, or has ended.
LEMMA AfterSubMoves ==
    ASSUME TypeOK, NEW r \in Runs, NEW s \in Steps, NEW n \in Nat, NEW bad \in BOOLEAN,
           AfterSub(r, s, n, bad)
    PROVE  \E place :
              /\ Moves(r, s, place)
              /\ \/ place.at = "queued" /\ place.nth = n /\ n < Len(Subs[s])
                 \/ place.at = "ended" /\ place.res \in {"success", "failed"}
<1>1. CASE n < Len(Subs[s])
  <2> DEFINE place == [step[r][s] EXCEPT !.at = "queued", !.nth = n, !.bad = bad]
  <2>1. step[r][s] \in Place
    BY DEF TypeOK
  <2>2. place \in Place /\ place.at = "queued" /\ place.nth = n
    BY <2>1 DEF Place
  <2>3. step' = [step EXCEPT ![r][s] = place]
    BY <1>1 DEF AfterSub, Put
  <2>. QED  BY <1>1, <2>2, <2>3 DEF Moves
<1>2. CASE ~ n < Len(Subs[s])
  <2>1. Settle(r, s, IF bad THEN "failed" ELSE "success")
    BY <1>2 DEF AfterSub
  <2>. QED  BY <2>1, SettleMoves
<1>. QED  BY <1>1, <1>2

-----------------------------------------------------------------------------
(* The state of one step *)

Limit(s) == 1 + Retry[s] + (IF s \in Spare THEN 1 ELSE 0)

\* What a result says of the calls made for the step and of what it depends on.
Truth(r, s, res) ==
    /\ res = "success" /\ Kind[s] \in {"agent", "dag"} => <<r, s>> \in won
    /\ res = "skipped" => calls[r][s] = 0
    /\ res = "success" =>
        /\ Kind[s] = "verify" => DepsSucceeded(r, s)
        /\ Kind[s] = "terminal" \/ OnFailure[s] = "skip" => ~ DepFailed(r, s)

\* A coroutine exists while its layer is executed, and for a step that is due.
Due(r, s) ==
    /\ run[r].phase = "layer"
    /\ s \in run[r].known
    /\ run[r].out[s] = "none"
    /\ run[r].deps[s] \subseteq Done(r)

\* How the place of a coroutine tells the calls it has made.
Queued(r, s) ==
    IF Splits(s)
    THEN step[r][s].nth < Len(Subs[s]) /\ (step[r][s].nth > 0 => ~ Skips(r, s))
    ELSE step[r][s].nth = 0 /\ step[r][s].spare = FALSE /\ calls[r][s] = 0

InCall(r, s) ==
    /\ Kind[s] \in {"agent", "dag", "plan"}
    /\ ~ Skips(r, s)
    /\ calls[r][Caller(r, s)] > 0
    /\ IF Splits(s) THEN step[r][s].nth \in 1 .. Len(Subs[s])
       ELSE /\ step[r][s].nth \in 1 .. 1 + Retry[s]
            /\ step[r][s].spare => s \in Spare
            /\ calls[r][s] = step[r][s].nth + (IF step[r][s].spare THEN 1 ELSE 0)

InPlace(r, s) ==
    /\ step[r][s].at # "out" => Due(r, s)
    /\ step[r][s].at = "queued" => Queued(r, s)
    /\ step[r][s].at = "call" => InCall(r, s)
    /\ step[r][s].at = "ended" => step[r][s].res # "none" /\ Truth(r, s, step[r][s].res)

Counted(r, s) ==
    /\ calls[r][s] <= Limit(s)
    /\ Splits(s) => calls[r][s] = 0
    /\ calls[r][s] > 0 => s \in run[r].known /\ run[r].deps[s] \subseteq Done(r)
    /\ /\ step[r][s].at = "out" /\ run[r].out[s] = "none" /\ run[r].phase # "crashed"
       => calls[r][s] = 0

\* What the run has recorded of a step.
Recorded(r, s) ==
    run[r].out[s] # "none" =>
        /\ s \in run[r].known
        /\ Truth(r, s, run[r].out[s])
        /\ run[r].out[s] # "skipped" => run[r].deps[s] \subseteq Done(r)

StepOK(r, s) == InPlace(r, s) /\ Counted(r, s) /\ Recorded(r, s)

\* The effect of a coroutine's step on the rest of the state.
Frame(r, s) ==
    /\ run' = run /\ paused' = paused
    /\ step[r][s].at \in {"queued", "call"}
    /\ \E place : Moves(r, s, place)
    /\ calls' \in [Runs -> [Ids -> Nat]]
    /\ \A q \in Runs, u \in Ids : calls'[q][u] >= calls[q][u]
    /\ \A q \in Runs, u \in Steps : <<q, u>> # <<r, s>> => calls'[q][u] = calls[q][u]
    /\ \A q \in Runs \ {r} : calls'[q] = calls[q]
    /\ won \subseteq won' /\ won' \subseteq Runs \X Ids

\* An executor is called for a step itself or for a sub-step.
LEMMA CallFrame ==
    ASSUME TypeOK, NEW r \in Runs, NEW s \in Steps, NEW whom \in Inner \union {s},
           NEW place \in Place, place.at # "out", Call(r, s, whom, place)
    PROVE  /\ Moves(r, s, place)
           /\ calls' \in [Runs -> [Ids -> Nat]]
           /\ \A q \in Runs, u \in Ids : calls'[q][u] >= calls[q][u]
           /\ \A q \in Runs, u \in Steps : <<q, u>> # <<r, s>> => calls'[q][u] = calls[q][u]
           /\ \A q \in Runs \ {r} : calls'[q] = calls[q]
           /\ whom = s => calls'[r][s] = calls[r][s] + 1
           /\ whom # s => calls'[r][s] = calls[r][s]
           /\ calls'[r][whom] > 0
<1>1. calls \in [Runs -> [Ids -> Nat]] /\ whom \in Ids
  BY DEF TypeOK, Ids
<1>2. calls' = [calls EXCEPT ![r][whom] = calls[r][whom] + 1] /\ Moves(r, s, place)
  BY DEF Call, Put, Moves
<1>3. calls' \in [Runs -> [Ids -> Nat]]
  BY <1>1, <1>2
<1>4. \A q \in Runs, u \in Ids : calls'[q][u] = IF q = r /\ u = whom THEN calls[q][u] + 1
                                                                    ELSE calls[q][u]
  BY <1>1, <1>2
<1>5. \A u \in Steps : u \in Ids /\ (u # s => u # whom)
  BY EngineAssumption DEF Ids
<1>6. \A q \in Runs \ {r} : calls'[q] = calls[q]
  BY <1>1, <1>2
<1>. QED  BY <1>1, <1>2, <1>3, <1>4, <1>5, <1>6

\* The facts about the state before the step of a coroutine.
LEMMA Before ==
    ASSUME TypeOK, NEW r \in Runs, NEW s \in Steps, StepOK(r, s),
           step[r][s].at \in {"queued", "call"}
    PROVE  /\ Due(r, s) /\ Counted(r, s)
           /\ step[r][s].at = "queued" => Queued(r, s)
           /\ step[r][s].at = "call" => InCall(r, s)
           /\ step[r][s] \in Place /\ calls[r][s] \in Nat
           /\ Subs[s] \in Seq(Inner) /\ Len(Subs[s]) \in Nat
           /\ s \in Ids
<1>1. step[r][s] \in Place /\ calls[r][s] \in Nat /\ s \in Ids
  BY DEF TypeOK, Ids
<1>2. Subs[s] \in Seq(Inner)
  BY EngineAssumption
<1>3. Len(Subs[s]) \in Nat
  BY <1>2
<1>. QED  BY <1>1, <1>2, <1>3 DEF StepOK, InPlace

\* What the run records does not change under a coroutine's step.
LEMMA SameRun ==
    ASSUME NEW r \in Runs, NEW s \in Steps, run' = run
    PROVE  /\ Done(r)' = Done(r)
           /\ DepFailed(r, s)' = DepFailed(r, s)
           /\ DepsSucceeded(r, s)' = DepsSucceeded(r, s)
           /\ Skips(r, s)' = Skips(r, s)
           /\ Due(r, s)' = Due(r, s)
BY DEF Done, DepFailed, DepsSucceeded, Skips, Due

LEMMA MovedTo ==
    ASSUME TypeOK, NEW r \in Runs, NEW s \in Steps, NEW place, Moves(r, s, place)
    PROVE  /\ step'[r][s] = place
           /\ step' \in [Runs -> [Steps -> Place]]
           /\ \A q \in Runs, u \in Steps : <<q, u>> # <<r, s>> => step'[q][u] = step[q][u]
BY DEF TypeOK, Moves

\* The coroutine ends.
LEMMA EndsOK ==
    ASSUME TypeOK, NEW r \in Runs, NEW s \in Steps, StepOK(r, s),
           step[r][s].at \in {"queued", "call"},
           run' = run, calls' = calls, won \subseteq won', won' \subseteq Runs \X Ids,
           paused' = paused,
           NEW place, Moves(r, s, place), place.at = "ended", place.res # "none",
           place.res = "skipped" => calls[r][s] = 0,
           place.res = "success" =>
                /\ Kind[s] \in {"agent", "dag"} => <<r, s>> \in won'
                /\ Kind[s] = "verify" => DepsSucceeded(r, s)
                /\ Kind[s] = "terminal" \/ OnFailure[s] = "skip" => ~ DepFailed(r, s)
    PROVE  Frame(r, s) /\ StepOK(r, s)'
<1> USE Before, SameRun, MovedTo
<1>1. step'[r][s] = place
  OBVIOUS
<1>2. Truth(r, s, place.res)'
  BY DEF Truth
<1>3. InPlace(r, s)'
  BY <1>1, <1>2 DEF InPlace
<1>4. Counted(r, s)'
  BY <1>1 DEF Counted
<1>5. Recorded(r, s)'
  BY DEF Recorded, Due
<1>6. Frame(r, s)
  <2>1. calls' \in [Runs -> [Ids -> Nat]] /\ \A q \in Runs, u \in Ids : calls'[q][u] >= calls[q][u]
    BY DEF TypeOK
  <2>. QED  BY <2>1 DEF Frame
<1>. QED  BY <1>3, <1>4, <1>5, <1>6 DEF StepOK

\* The coroutine calls an executor.
LEMMA CallsOK ==
    ASSUME TypeOK, NEW r \in Runs, NEW s \in Steps, StepOK(r, s),
           step[r][s].at \in {"queued", "call"},
           run' = run, won' = won, paused' = paused,
           Kind[s] \in {"agent", "dag", "plan"}, ~ Skips(r, s),
           NEW whom \in Inner \union {s}, NEW place \in Place, place.at = "call",
           Call(r, s, whom, place),
           Splits(s) => place.nth \in 1 .. Len(Subs[s]) /\ whom = Subs[s][place.nth],
           ~ Splits(s) =>
                /\ whom = s
                /\ place.nth \in 1 .. 1 + Retry[s] /\ (place.spare => s \in Spare)
                /\ calls[r][s] + 1 = place.nth + (IF place.spare THEN 1 ELSE 0)
    PROVE  Frame(r, s) /\ StepOK(r, s)'
<1> USE Before, SameRun
<1>1. /\ Moves(r, s, place)
      /\ calls' \in [Runs -> [Ids -> Nat]]
      /\ \A q \in Runs, u \in Ids : calls'[q][u] >= calls[q][u]
      /\ \A q \in Runs, u \in Steps : <<q, u>> # <<r, s>> => calls'[q][u] = calls[q][u]
      /\ \A q \in Runs \ {r} : calls'[q] = calls[q]
      /\ whom = s => calls'[r][s] = calls[r][s] + 1
      /\ whom # s => calls'[r][s] = calls[r][s]
      /\ calls'[r][whom] > 0
  BY CallFrame
<1>2. step'[r][s] = place
  BY <1>1, MovedTo
<1>3. InCall(r, s)'
  <2>1. Caller(r, s)' = whom /\ Splits(s)' = Splits(s) /\ ~ Skips(r, s)'
    BY <1>2 DEF Caller, Splits
  <2>. QED  BY <1>1, <1>2, <2>1 DEF InCall, Splits
<1>4. InPlace(r, s)'
  BY <1>2, <1>3 DEF InPlace
<1>5. Counted(r, s)'
  <2>1. Retry[s] \in Nat
    BY EngineAssumption
  <2>2. s \in run[r].known /\ run[r].deps[s] \subseteq Done(r)
    BY DEF Due
  <2>3. CASE Splits(s)
    <3>1. whom \in Inner /\ whom # s
      <4>1. Subs[s] \in Seq(Inner) /\ Steps \intersect Inner = {}
        BY EngineAssumption
      <4>2. whom = Subs[s][place.nth] /\ place.nth \in 1 .. Len(Subs[s])
        BY <2>3
      <4>. QED  BY ONLY <4>1, <4>2, s \in Steps
    <3>2. calls'[r][s] = calls[r][s] /\ Splits(s)' = Splits(s)
      BY <1>1, <3>1 DEF Splits
    <3>. QED  BY <1>2, <2>2, <3>2 DEF Counted
  <2>4. CASE ~ Splits(s)
    <3>1. /\ calls'[r][s] = place.nth + (IF place.spare THEN 1 ELSE 0)
          /\ place.nth \in 1 .. 1 + Retry[s] /\ (place.spare => s \in Spare)
      BY <1>1, <2>4
    <3>2. calls'[r][s] <= Limit(s)
      BY <2>1, <3>1 DEF Limit
    <3>3. ~ Splits(s)'
      BY <2>4 DEF Splits
    <3>. QED  BY <1>2, <2>2, <3>2, <3>3 DEF Counted
  <2>. QED  BY <2>3, <2>4
<1>6. Recorded(r, s)'
  BY DEF Recorded, Due
<1>7. Frame(r, s)
  BY <1>1, TypeOK DEF Frame, TypeOK
<1>. QED  BY <1>4, <1>5, <1>6, <1>7 DEF StepOK

\* A sub-step has ended.
LEMMA AfterSubOK ==
    ASSUME TypeOK, NEW r \in Runs, NEW s \in Steps, StepOK(r, s),
           step[r][s].at \in {"queued", "call"},
           run' = run, calls' = calls, won \subseteq won', won' \subseteq Runs \X Ids,
           paused' = paused,
           Splits(s), ~ Skips(r, s), NEW n \in Nat, n > 0, NEW bad \in BOOLEAN,
           AfterSub(r, s, n, bad)
    PROVE  Frame(r, s) /\ StepOK(r, s)'
<1> USE Before, SameRun, MovedTo
<1>1. PICK place : /\ Moves(r, s, place)
                   /\ \/ place.at = "queued" /\ place.nth = n /\ n < Len(Subs[s])
                      \/ place.at = "ended" /\ place.res \in {"success", "failed"}
  BY AfterSubMoves
<1>2. CASE place.at = "queued" /\ place.nth = n /\ n < Len(Subs[s])
  <2>1. step'[r][s] = place
    BY <1>1
  <2>2. InPlace(r, s)'
    <3>1. Splits(s)' /\ Due(r, s)' /\ ~ Skips(r, s)'
      BY DEF Splits
    <3>2. step'[r][s].at = "queued" /\ step'[r][s].nth = n
      BY <1>2, <2>1
    <3>3. Queued(r, s)'
      BY <1>2, <3>1, <3>2 DEF Queued
    <3>. QED  BY <3>1, <3>2, <3>3 DEF InPlace
  <2>3. Counted(r, s)'
    BY <1>2, <2>1 DEF Counted
  <2>4. Recorded(r, s)'
    BY DEF Recorded, Due
  <2>5. Frame(r, s)
    BY <1>1, SMTT(30) DEF Frame, TypeOK
  <2>. QED  BY <2>2, <2>3, <2>4, <2>5 DEF StepOK
<1>3. CASE place.at = "ended" /\ place.res \in {"success", "failed"}
  <2>1. OnFailure[s] = "skip" => ~ DepFailed(r, s)
    BY DEF Skips
  <2>2. Kind[s] = "plan"
    BY DEF Splits
  <2>. QED  BY <1>1, <1>3, <2>1, <2>2, EndsOK
<1>. QED  BY <1>1, <1>2, <1>3


LEMMA SettleOK ==
    ASSUME TypeOK, NEW r \in Runs, NEW s \in Steps, StepOK(r, s),
           step[r][s].at \in {"queued", "call"},
           run' = run, calls' = calls, won \subseteq won', won' \subseteq Runs \X Ids,
           paused' = paused,
           NEW res \in {"success", "failed", "skipped", "cancelled"}, Settle(r, s, res),
           res = "skipped" => calls[r][s] = 0,
           res = "success" =>
                /\ Kind[s] \in {"agent", "dag"} => <<r, s>> \in won'
                /\ Kind[s] = "verify" => DepsSucceeded(r, s)
                /\ Kind[s] = "terminal" \/ OnFailure[s] = "skip" => ~ DepFailed(r, s)
    PROVE  Frame(r, s) /\ StepOK(r, s)' /\ step'[r][s].at = "ended" /\ step'[r][s].res = res
<1>1. PICK place : /\ Moves(r, s, place)
                   /\ place.at = "ended" /\ place.res = res
  BY SettleMoves
<1>2. place.res # "none" /\ step'[r][s] = place
  BY <1>1, MovedTo
<1>. QED  BY <1>1, <1>2, EndsOK

LEMMA BeginOK ==
    ASSUME TypeOK, NEW r \in Runs, NEW s \in Steps, StepOK(r, s), Begin(r, s)
    PROVE  Frame(r, s) /\ StepOK(r, s)' /\ spawns' = spawns
<1>1. /\ step[r][s].at = "queued" /\ ~ Splits(s)
      /\ run' = run /\ spawns' = spawns /\ paused' = paused /\ won' = won
      /\ won' \subseteq Runs \X Ids
  BY DEF Begin, Running, TypeOK
<1>2. /\ calls[r][s] = 0 /\ step[r][s].nth = 0 /\ step[r][s].spare = FALSE
      /\ step[r][s] \in Place
  BY <1>1, Before DEF Queued
<1>3. CASE Settle(r, s, "skipped") /\ UNCHANGED calls
  BY <1>1, <1>2, <1>3, SettleOK
<1>4. CASE ~ Skips(r, s) /\ Kind[s] = "terminal" /\ Settle(r, s, "success") /\ UNCHANGED calls
  <2>1. ~ DepFailed(r, s)
    BY <1>4 DEF Skips
  <2>. QED  BY <1>1, <1>4, <2>1, SettleOK
<1>5. CASE /\ ~ Skips(r, s) /\ Kind[s] = "verify"
           /\ Settle(r, s, IF DepsSucceeded(r, s) THEN "success" ELSE "failed") /\ UNCHANGED calls
  <2>1. OnFailure[s] = "skip" => ~ DepFailed(r, s)
    BY <1>5 DEF Skips
  <2>2. CASE DepsSucceeded(r, s)
    BY <1>1, <1>5, <2>1, <2>2, SettleOK
  <2>3. CASE ~ DepsSucceeded(r, s)
    <3>1. Settle(r, s, "failed")
      BY <1>5, <2>3
    <3>. QED  BY <1>1, <1>5, <3>1, SettleOK
  <2>. QED  BY <2>2, <2>3
<1>6. CASE /\ ~ Skips(r, s) /\ Kind[s] = "condition" /\ UNCHANGED calls
           /\ \E res \in {"success", "skipped"} : Settle(r, s, res)
  <2>1. OnFailure[s] = "skip" => ~ DepFailed(r, s)
    BY <1>6 DEF Skips
  <2>2. PICK res \in {"success", "skipped"} : Settle(r, s, res)
    BY <1>6
  <2>. QED  BY <1>1, <1>2, <1>6, <2>1, <2>2, SettleOK
<1>7. CASE /\ ~ Skips(r, s) /\ Kind[s] \in {"agent", "dag", "plan"}
           /\ Call(r, s, s, [step[r][s] EXCEPT !.at = "call", !.nth = 1])
  <2> DEFINE place == [step[r][s] EXCEPT !.at = "call", !.nth = 1]
  <2>1. place \in Place /\ place.at = "call" /\ place.nth = 1 /\ place.spare = FALSE
    BY <1>2 DEF Place
  <2>2. Retry[s] \in Nat
    BY EngineAssumption
  <2>3. Call(r, s, s, place)
    BY <1>7
  <2>4. /\ place.nth \in 1 .. 1 + Retry[s] /\ (place.spare => s \in Spare)
        /\ calls[r][s] + 1 = place.nth + (IF place.spare THEN 1 ELSE 0)
    BY <1>2, <2>1, <2>2
  <2> HIDE DEF place
  <2>. QED  BY <1>1, <1>7, <2>1, <2>3, <2>4, CallsOK
<1>. QED  BY <1>1, <1>3, <1>4, <1>5, <1>6, <1>7 DEF Begin

LEMMA BeginSubOK ==
    ASSUME TypeOK, NEW r \in Runs, NEW s \in Steps, StepOK(r, s), BeginSub(r, s)
    PROVE  Frame(r, s) /\ StepOK(r, s)' /\ spawns' = spawns
<1> DEFINE n == step[r][s].nth + 1
<1>1. /\ step[r][s].at = "queued" /\ Splits(s)
      /\ run' = run /\ spawns' = spawns /\ paused' = paused /\ won' = won
      /\ won' \subseteq Runs \X Ids
  BY DEF BeginSub, Running, TypeOK
<1>2. /\ step[r][s].nth < Len(Subs[s]) /\ (step[r][s].nth > 0 => ~ Skips(r, s))
      /\ step[r][s] \in Place /\ Subs[s] \in Seq(Inner) /\ Len(Subs[s]) \in Nat
      /\ calls[r][s] = 0 /\ step[r][s].nth \in Nat
  BY <1>1, Before DEF Queued, Counted, Place
<1>3. n \in Nat /\ n > 0 /\ n \in 1 .. Len(Subs[s]) /\ Subs[s][n] \in Inner
  BY <1>2 DEF Place
<1>4. CASE Settle(r, s, "skipped") /\ UNCHANGED calls
  BY <1>1, <1>2, <1>4, SettleOK
<1>5. CASE (n > 1 \/ ~ Skips(r, s)) /\ AfterSub(r, s, n, TRUE) /\ UNCHANGED calls
  <2>1. ~ Skips(r, s)
    BY <1>2, <1>5
  <2>. QED  BY <1>1, <1>3, <1>5, <2>1, AfterSubOK
<1>6. CASE /\ n > 1 \/ ~ Skips(r, s)
           /\ Call(r, s, Subs[s][n], [step[r][s] EXCEPT !.at = "call", !.nth = n])
  <2> DEFINE place == [step[r][s] EXCEPT !.at = "call", !.nth = n]
  <2>1. place \in Place /\ place.at = "call" /\ place.nth = n
    BY <1>2, <1>3 DEF Place
  <2>2. ~ Skips(r, s) /\ Kind[s] = "plan"
    BY <1>1, <1>2, <1>6 DEF Splits
  <2>3. Call(r, s, Subs[s][n], place)
    BY <1>6
  <2> HIDE DEF place, n
  <2>. QED  BY <1>1, <1>3, <2>1, <2>2, <2>3, CallsOK
<1>7. \/ Settle(r, s, "skipped") /\ UNCHANGED calls
      \/ /\ n > 1 \/ ~ Skips(r, s)
         /\ \/ AfterSub(r, s, n, TRUE) /\ UNCHANGED calls
            \/ Call(r, s, Subs[s][n], [step[r][s] EXCEPT !.at = "call", !.nth = n])
  BY DEF BeginSub
<1>. QED  BY <1>1, <1>4, <1>5, <1>6, <1>7

\* The executor that has returned is that of a coroutine in a call.
LEMMA Returning ==
    ASSUME TypeOK, NEW r \in Runs, NEW s \in Steps, StepOK(r, s), Running(r, s, "call")
    PROVE  /\ run[r].phase = "layer" /\ step[r][s].at \in {"queued", "call"}
           /\ InCall(r, s)
           /\ won \subseteq Runs \X Ids
           /\ step[r][s] \in Place /\ step[r][s].nth \in Nat /\ step[r][s].spare \in BOOLEAN
           /\ step[r][s].bad \in BOOLEAN
           /\ Splits(s) => step[r][s].nth > 0
           /\ OnFailure[s] = "skip" => ~ DepFailed(r, s)
           /\ Kind[s] \in {"agent", "dag", "plan"}
           /\ Caller(r, s) \in Ids /\ calls[r][Caller(r, s)] > 0
           /\ Caller(r, s) \in Steps => Caller(r, s) = s /\ ~ Splits(s)
<1>1. step[r][s].at = "call" /\ run[r].phase = "layer"
  BY DEF Running
<1>2. InCall(r, s) /\ step[r][s] \in Place /\ Subs[s] \in Seq(Inner)
  BY <1>1, Before
<1>3. /\ step[r][s].nth \in Nat /\ step[r][s].spare \in BOOLEAN
      /\ step[r][s].bad \in BOOLEAN
  BY <1>2 DEF Place
<1>4. Splits(s) => step[r][s].nth \in 1 .. Len(Subs[s])
  BY <1>2 DEF InCall
<1>5. Caller(r, s) \in Ids
  BY <1>4, CallerType
<1>6. ASSUME Caller(r, s) \in Steps PROVE Caller(r, s) = s /\ ~ Splits(s)
  <2>1. Steps \intersect Inner = {}
    BY EngineAssumption
  <2>2. Splits(s) => Caller(r, s) \in Inner
    BY <1>2, <1>4 DEF Caller
  <2>. QED  BY <1>6, <2>1, <2>2 DEF Caller
<1>7. OnFailure[s] = "skip" => ~ DepFailed(r, s)
  BY <1>2 DEF InCall, Skips
<1>8. /\ Kind[s] \in {"agent", "dag", "plan"} /\ calls[r][Caller(r, s)] > 0
      /\ Splits(s) => step[r][s].nth > 0
  BY <1>2, <1>4 DEF InCall
<1>. QED  BY <1>1, <1>2, <1>3, <1>5, <1>6, <1>7, <1>8 DEF TypeOK

\* A directive is recorded for what has just succeeded.
Earning(r, s) ==
    \/ spawns' = spawns
    \/ \E w \in Ids : /\ Record(r, w)
                      /\ calls'[r][w] > 0
                      /\ IF w \in Steps
                         THEN w = s /\ step'[r][s].at = "ended" /\ step'[r][s].res = "success"
                         ELSE <<r, w>> \in won'

LEMMA SucceedOK ==
    ASSUME TypeOK, NEW r \in Runs, NEW s \in Steps, StepOK(r, s), Succeed(r, s)
    PROVE  Frame(r, s) /\ StepOK(r, s)' /\ Earning(r, s)
<1> DEFINE w == Caller(r, s)
<1>1. Running(r, s, "call") /\ run' = run /\ paused' = paused /\ calls' = calls
  BY DEF Succeed
<1>2. /\ won' = won \union {<<r, w>>} /\ w \in Ids
      /\ won \subseteq won' /\ won' \subseteq Runs \X Ids
      /\ calls[r][w] > 0
  BY <1>1, Returning DEF Succeed
<1>3. CASE Splits(s)
  <2>1. AfterSub(r, s, step[r][s].nth, step[r][s].bad)
    BY <1>3 DEF Succeed
  <2>2. ~ Skips(r, s)
    BY <1>1, Returning DEF InCall
  <2>3. Frame(r, s) /\ StepOK(r, s)'
    BY <1>1, <1>2, <1>3, <2>1, <2>2, Returning, AfterSubOK
  <2>4. w \notin Steps
    BY <1>1, <1>3, Returning
  <2>. QED  BY <1>1, <1>2, <2>3, <2>4 DEF Earning, Succeed
<1>4. CASE ~ Splits(s)
  <2>1. Settle(r, s, "success") /\ w = s
    BY <1>4 DEF Succeed, Caller
  <2>2. /\ Frame(r, s) /\ StepOK(r, s)'
        /\ step'[r][s].at = "ended" /\ step'[r][s].res = "success"
    BY <1>1, <1>2, <2>1, Returning, SettleOK
  <2>. QED  BY <1>1, <1>2, <2>1, <2>2 DEF Earning, Succeed
<1>. QED  BY <1>3, <1>4

LEMMA FailOK ==
    ASSUME TypeOK, NEW r \in Runs, NEW s \in Steps, StepOK(r, s), Fail(r, s)
    PROVE  Frame(r, s) /\ StepOK(r, s)' /\ spawns' = spawns
<1>1. /\ Running(r, s, "call") /\ run' = run /\ paused' = paused /\ won' = won
      /\ spawns' = spawns /\ Kind[s] \in {"agent", "dag"}
  BY DEF Fail
<1>2. ~ Splits(s) /\ Retry[s] \in Nat
  BY <1>1, EngineAssumption DEF Splits
<1>3. /\ step[r][s].nth \in 1 .. 1 + Retry[s] /\ (step[r][s].spare => s \in Spare)
      /\ calls[r][s] = step[r][s].nth + (IF step[r][s].spare THEN 1 ELSE 0)
      /\ ~ Skips(r, s)
  BY <1>1, <1>2, Returning DEF InCall
<1>4. step[r][s] \in Place
  BY <1>1, Returning
<1>5. CASE /\ step[r][s].nth <= Retry[s] /\ ~ step[r][s].spare
           /\ Call(r, s, s, [step[r][s] EXCEPT !.nth = step[r][s].nth + 1])
  <2> DEFINE place == [step[r][s] EXCEPT !.nth = step[r][s].nth + 1]
  <2>1. /\ place \in Place /\ place.at = "call" /\ place.nth = step[r][s].nth + 1
        /\ place.spare = FALSE
    BY <1>1, <1>3, <1>4, <1>5 DEF Place, Running
  <2>2. /\ place.nth \in 1 .. 1 + Retry[s] /\ (place.spare => s \in Spare)
        /\ calls[r][s] + 1 = place.nth + (IF place.spare THEN 1 ELSE 0)
    BY <1>2, <1>3, <1>5, <2>1
  <2>3. Call(r, s, s, place)
    BY <1>5
  <2> HIDE DEF place
  <2>. QED  BY <1>1, <1>2, <1>3, <2>1, <2>2, <2>3, Returning, CallsOK
<1>6. CASE /\ step[r][s].nth > Retry[s] /\ s \in Spare /\ ~ step[r][s].spare
           /\ Call(r, s, s, [step[r][s] EXCEPT !.spare = TRUE])
  <2> DEFINE place == [step[r][s] EXCEPT !.spare = TRUE]
  <2>1. /\ place \in Place /\ place.at = "call" /\ place.nth = step[r][s].nth
        /\ place.spare = TRUE
    BY <1>1, <1>4 DEF Place, Running
  <2>2. /\ place.nth \in 1 .. 1 + Retry[s] /\ (place.spare => s \in Spare)
        /\ calls[r][s] + 1 = place.nth + (IF place.spare THEN 1 ELSE 0)
    BY <1>2, <1>3, <1>6, <2>1
  <2>3. Call(r, s, s, place)
    BY <1>6
  <2> HIDE DEF place
  <2>. QED  BY <1>1, <1>2, <1>3, <2>1, <2>2, <2>3, Returning, CallsOK
<1>7. CASE Settle(r, s, "failed") /\ UNCHANGED calls
  BY <1>1, <1>7, Returning, SettleOK
<1>. QED  BY <1>5, <1>6, <1>7, <1>1 DEF Fail

LEMMA FailPlanOK ==
    ASSUME TypeOK, NEW r \in Runs, NEW s \in Steps, StepOK(r, s), FailPlan(r, s)
    PROVE  Frame(r, s) /\ StepOK(r, s)' /\ Earning(r, s)
<1>1. /\ Running(r, s, "call") /\ run' = run /\ paused' = paused /\ calls' = calls
      /\ won' = won /\ Kind[s] = "plan"
  BY DEF FailPlan
<1>2. CASE Splits(s)
  <2>1. AfterSub(r, s, step[r][s].nth, TRUE) /\ spawns' = spawns
    BY <1>2 DEF FailPlan
  <2>2. ~ Skips(r, s)
    BY <1>1, Returning DEF InCall
  <2>3. Frame(r, s) /\ StepOK(r, s)'
    BY <1>1, <1>2, <2>1, <2>2, Returning, AfterSubOK
  <2>. QED  BY <2>1, <2>3 DEF Earning
<1>3. CASE ~ Splits(s)
  <2>1. Settle(r, s, "success") /\ (Record(r, s) \/ spawns' = spawns)
    BY <1>3 DEF FailPlan
  <2>2. /\ Frame(r, s) /\ StepOK(r, s)'
        /\ step'[r][s].at = "ended" /\ step'[r][s].res = "success"
    BY <1>1, <2>1, Returning, SettleOK
  <2>3. s \in Ids /\ calls[r][s] > 0
    BY <1>1, <1>3, Returning DEF Caller, Ids
  <2>. QED  BY <1>1, <2>1, <2>2, <2>3 DEF Earning
<1>. QED  BY <1>2, <1>3

LEMMA BreakOK ==
    ASSUME TypeOK, NEW r \in Runs, NEW s \in Steps, StepOK(r, s),
           Raise(r, s) \/ Cancelled(r, s) \/ Timeout(r, s)
    PROVE  Frame(r, s) /\ StepOK(r, s)' /\ spawns' = spawns
<1>1. /\ Running(r, s, "call") /\ run' = run /\ paused' = paused /\ calls' = calls
      /\ won' = won /\ spawns' = spawns
  BY DEF Raise, Cancelled, Timeout
<1>2. CASE Settle(r, s, "failed") \/ Settle(r, s, "cancelled")
  BY <1>1, <1>2, Returning, SettleOK
<1>3. CASE Splits(s) /\ AfterSub(r, s, step[r][s].nth, TRUE)
  <2>1. ~ Skips(r, s)
    BY <1>1, Returning DEF InCall
  <2>. QED  BY <1>1, <1>3, <2>1, Returning, AfterSubOK
<1>. QED  BY <1>2, <1>3 DEF Raise, Cancelled, Timeout

\* Every step of a coroutine.
LEMMA WorkOK ==
    ASSUME TypeOK, NEW r \in Runs, NEW s \in Steps, StepOK(r, s), Work(r, s)
    PROVE  /\ run[r].phase = "layer"
           /\ Frame(r, s) /\ StepOK(r, s)' /\ Earning(r, s)
<1>1. run[r].phase = "layer"
  BY DEF Work, Begin, BeginSub, Succeed, Fail, FailPlan, Raise, Cancelled, Timeout, Running
<1>. QED
  BY <1>1, BeginOK, BeginSubOK, SucceedOK, FailOK, FailPlanOK, BreakOK DEF Work, Earning

-----------------------------------------------------------------------------
(* The state of one run *)

\* The steps that joined the graph, in the order of some dependency after another.
Grown(r) == run[r].known \ Static[r]

Grounded(r, N) ==
    \A S \in SUBSET N :
        S # {} => \E s \in S : run[r].deps[s] \intersect S = {} /\ run[r].deps[s] \subseteq run[r].known

GraphOK(r) ==
    /\ run[r].phase = "new" => run[r].known = {}
    /\ run[r].phase # "new" =>
        Static[r] \subseteq run[r].known /\ \A s \in Static[r] : run[r].deps[s] = Deps[s]
    /\ IsFiniteSet(Grown(r)) /\ Cardinality(Grown(r)) = run[r].spawned
    /\ run[r].spawned <= MaxSpawned
    /\ Grounded(r, Grown(r))
    /\ run[r].phase = "merge" => run[r].todo # <<>>

\* Results have come in dependency order.
Layered(r) == Grounded(r, Done(r)) /\ \A s \in Done(r) : run[r].deps[s] \subseteq Done(r)

\* Unless a failure aborts the run, its results are layered.
OrderOK(r) ==
    /\ Aborted(r) \/ Layered(r)
    /\ run[r].phase = "layer" => ~ Aborted(r)
    /\ run[r].phase = "over" => run[r].known = Done(r)
    /\ run[r].phase = "cycle" => ~ Sound(r, Static[r])

RunOK(r) == GraphOK(r) /\ OrderOK(r) /\ \A s \in Steps : StepOK(r, s)

\* Directives wait only while some run of the trace id executes a layer.
QueueOK ==
    \A t \in Traces :
        spawns[t] # <<>> => \E r \in Runs : Trace[r] = t /\ run[r].phase = "layer"

Inv == TypeOK /\ (\A r \in Runs : RunOK(r)) /\ QueueOK

\* A run of which nothing changes but what may be appended to won.
LEMMA Kept ==
    ASSUME NEW q \in Runs, RunOK(q), run'[q] = run[q], step'[q] = step[q], calls'[q] = calls[q],
           won \subseteq won'
    PROVE  RunOK(q)'
<1>1. /\ Done(q)' = Done(q) /\ Aborted(q)' = Aborted(q) /\ Grown(q)' = Grown(q)
      /\ \A N : Sound(q, N)' = Sound(q, N)
  BY DEF Done, Aborted, Grown, Sound
<1>2. GraphOK(q)'
  BY <1>1 DEF RunOK, GraphOK, Grounded
<1>3. OrderOK(q)'
  <2>1. ASSUME Layered(q) PROVE Layered(q)'
    <3>1. Done(q)' = Done(q) /\ run'[q] = run[q]
      BY <1>1
    <3>. QED  BY ONLY <2>1, <3>1 DEF Layered, Grounded
  <2>. QED  BY <1>1, <2>1 DEF RunOK, OrderOK
<1>4. ASSUME NEW s \in Steps PROVE StepOK(q, s)'
  <2>1. StepOK(q, s)
    BY DEF RunOK
  <2>2. /\ DepFailed(q, s)' = DepFailed(q, s) /\ DepsSucceeded(q, s)' = DepsSucceeded(q, s)
        /\ Skips(q, s)' = Skips(q, s) /\ Due(q, s)' = Due(q, s)
        /\ Caller(q, s)' = Caller(q, s) /\ Splits(s)' = Splits(s)
    BY <1>1 DEF DepFailed, DepsSucceeded, Skips, Due, Caller, Splits
  <2>3. \A res : Truth(q, s, res) => Truth(q, s, res)'
    BY <2>2 DEF Truth
  <2>4. InPlace(q, s)'
    BY <2>1, <2>2, <2>3 DEF StepOK, InPlace, Queued, InCall
  <2>5. Counted(q, s)' /\ Recorded(q, s)'
    BY <1>1, <2>1, <2>2, <2>3 DEF StepOK, Counted, Recorded
  <2>. QED  BY <2>4, <2>5 DEF StepOK
<1>. QED  BY <1>2, <1>3, <1>4 DEF RunOK

\* No coroutine outside a layer.
LEMMA NoLayerNoCoroutine ==
    ASSUME NEW r \in Runs, RunOK(r), run[r].phase # "layer", NEW s \in Steps
    PROVE  step[r][s].at = "out"
BY DEF RunOK, StepOK, InPlace, Due

-----------------------------------------------------------------------------
(* The steps of Engine keep the invariant *)

LEMMA WorkRuns ==
    ASSUME TypeOK, \A q \in Runs : RunOK(q), NEW r \in Runs, NEW s \in Steps, Work(r, s)
    PROVE  \A q \in Runs : RunOK(q)'
<1>1. /\ run[r].phase = "layer"
      /\ Frame(r, s) /\ StepOK(r, s)'
  BY WorkOK DEF RunOK
<1>2. PICK place : Moves(r, s, place)
  BY <1>1 DEF Frame
<1>3. /\ run' = run /\ won \subseteq won'
      /\ \A q \in Runs, u \in Ids : calls'[q][u] >= calls[q][u]
      /\ \A u \in Steps \ {s} : calls'[r][u] = calls[r][u] /\ step'[r][u] = step[r][u]
      /\ \A q \in Runs \ {r} : calls'[q] = calls[q] /\ step'[q] = step[q]
  <2>1. \A u \in Steps \ {s} : step'[r][u] = step[r][u]
    BY <1>2, MovedTo
  <2>2. \A q \in Runs \ {r} : step'[q] = step[q]
    BY <1>2 DEF Moves, TypeOK
  <2>. QED  BY <1>1, <2>1, <2>2 DEF Frame
<1>4. ASSUME NEW q \in Runs \ {r} PROVE RunOK(q)'
  BY <1>3, Kept
<1>5. ASSUME NEW u \in Steps \ {s} PROVE StepOK(r, u)'
  <2>1. StepOK(r, u)
    BY DEF RunOK
  <2>2. /\ Done(r)' = Done(r)
        /\ DepFailed(r, u)' = DepFailed(r, u) /\ DepsSucceeded(r, u)' = DepsSucceeded(r, u)
        /\ Skips(r, u)' = Skips(r, u) /\ Due(r, u)' = Due(r, u)
    BY <1>3, SameRun
  <2>3. Caller(r, u)' = Caller(r, u) /\ Splits(u)' = Splits(u)
    BY <1>3 DEF Caller, Splits
  <2>4. \A res : Truth(r, u, res) => Truth(r, u, res)'
    BY <1>3, <2>2 DEF Truth
  <2>5. ASSUME InCall(r, u), step[r][u].at = "call" PROVE InCall(r, u)'
    <3>1. Caller(r, u) \in Ids
      BY <2>5, CallerType DEF InCall
    <3>2. calls'[r][Caller(r, u)] > 0
      <4>1. calls'[r][Caller(r, u)] >= calls[r][Caller(r, u)] /\ calls[r][Caller(r, u)] > 0
        BY <1>3, <2>5, <3>1 DEF InCall
      <4>2. calls[r][Caller(r, u)] \in Nat /\ calls'[r][Caller(r, u)] \in Nat
        BY <1>1, <3>1 DEF TypeOK, Frame
      <4>. QED  BY <4>1, <4>2
    <3>. QED  BY <1>3, <2>2, <2>3, <2>5, <3>2 DEF InCall
  <2>6. InPlace(r, u)'
    BY <1>3, <2>1, <2>2, <2>3, <2>4, <2>5 DEF StepOK, InPlace, Queued
  <2>7. Counted(r, u)' /\ Recorded(r, u)'
    BY <1>3, <2>1, <2>2, <2>3, <2>4 DEF StepOK, Counted, Recorded
  <2>. QED  BY <2>6, <2>7 DEF StepOK
<1>6. GraphOK(r)' /\ OrderOK(r)'
  <2>1. /\ Done(r)' = Done(r) /\ Aborted(r)' = Aborted(r) /\ Grown(r)' = Grown(r)
        /\ \A N : Sound(r, N)' = Sound(r, N)
    BY <1>3 DEF Done, Aborted, Grown, Sound
  <2>2. GraphOK(r) /\ OrderOK(r) /\ run'[r] = run[r]
    BY <1>3 DEF RunOK
  <2>3. GraphOK(r)'
    BY <2>1, <2>2 DEF GraphOK, Grounded
  <2>4. OrderOK(r)'
    <3>1. ASSUME Layered(r) PROVE Layered(r)'
      <4>1. Done(r)' = Done(r) /\ run'[r].deps = run[r].deps /\ run'[r].known = run[r].known
        BY <2>1, <2>2
      <4>. QED  BY ONLY <3>1, <4>1 DEF Layered, Grounded
    <3>. QED  BY <2>1, <2>2, <3>1 DEF OrderOK
  <2>. QED  BY <2>3, <2>4
<1>7. RunOK(r)'
  BY <1>1, <1>5, <1>6 DEF RunOK
<1>. QED  BY <1>4, <1>7

\* The run loop leaves the calls and what was won alone.
Loop(r) == RunStep(r) \/ Submit(r) \/ Cancel(r)

LEMMA LoopFrame ==
    ASSUME TypeOK, NEW r \in Runs, Loop(r)
    PROVE  /\ calls' = calls /\ won' = won /\ paused' = paused
           /\ \A q \in Runs \ {r} : run'[q] = run[q] /\ step'[q] = step[q]
           /\ \/ step' = step
              \/ step' = [step EXCEPT ![r] = [s \in Steps |-> Outside]]
              \/ StartLayer(r)
           /\ spawns' = spawns \/ Pop(r)
BY DEF Loop, RunStep, Submit, Cancel, NoMoreLayers, Hold, Abort, StartLayer, EndLayer, MergeSpawn,
       TypeOK

\* A run that grows no graph and settles nothing keeps what was recorded.
LEMMA PhaseChange ==
    ASSUME TypeOK, NEW r \in Runs, RunOK(r), NEW phase,
           run' = [run EXCEPT ![r].phase = phase],
           run[r].phase # "new", phase \notin {"new", "layer", "merge"},
           calls' = calls, won' = won,
           \A s \in Steps : step'[r][s].at = "out",
           phase # "crashed" => \A s \in Steps : step[r][s].at = "out",
           run[r].phase # "crashed",
           phase = "over" => run[r].known = Done(r),
           phase = "cycle" => ~ Sound(r, Static[r])
    PROVE  RunOK(r)'
<1>1. run'[r] = [run[r] EXCEPT !.phase = phase] /\ run[r] \in Run
  BY DEF TypeOK
<1>2. /\ run'[r].phase = phase /\ run'[r].known = run[r].known /\ run'[r].deps = run[r].deps
      /\ run'[r].out = run[r].out /\ run'[r].spawned = run[r].spawned
      /\ run'[r].todo = run[r].todo
  BY <1>1 DEF Run
<1>3. /\ Done(r)' = Done(r) /\ Aborted(r)' = Aborted(r) /\ Grown(r)' = Grown(r)
      /\ Sound(r, Static[r])' = Sound(r, Static[r])
  BY <1>2 DEF Done, Aborted, Grown, Sound
<1>4. GraphOK(r)'
  BY <1>2, <1>3 DEF RunOK, GraphOK, Grounded
<1>5. OrderOK(r)'
  <2>1. Aborted(r)' \/ Layered(r)'
    <3>1. Aborted(r) \/ Layered(r)
      BY DEF RunOK, OrderOK
    <3>2. ASSUME Layered(r) PROVE Layered(r)'
      <4>1. Done(r)' = Done(r) /\ run'[r].deps = run[r].deps /\ run'[r].known = run[r].known
        BY <1>2, <1>3
      <4>. QED  BY ONLY <3>2, <4>1 DEF Layered, Grounded
    <3>. QED  BY <1>3, <3>1, <3>2
  <2>2. phase = "over" => run'[r].known = Done(r)'
    BY <1>2, <1>3
  <2>. QED  BY <1>2, <1>3, <2>1, <2>2 DEF OrderOK
<1>6. ASSUME NEW s \in Steps PROVE StepOK(r, s)'
  <2>1. StepOK(r, s)
    BY DEF RunOK
  <2>2. DepFailed(r, s)' = DepFailed(r, s) /\ DepsSucceeded(r, s)' = DepsSucceeded(r, s)
    BY <1>2 DEF DepFailed, DepsSucceeded
  <2>3. \A res : Truth(r, s, res) => Truth(r, s, res)'
    BY <2>2 DEF Truth
  <2>4. InPlace(r, s)'
    BY DEF InPlace
  <2>5. Counted(r, s)' /\ Recorded(r, s)'
    BY <1>2, <1>3, <2>1, <2>3 DEF StepOK, Counted, Recorded, Splits
  <2>. QED  BY <2>4, <2>5 DEF StepOK
<1>. QED  BY <1>4, <1>5, <1>6 DEF RunOK

\* A run without a ready step whose graph is not done had a bad graph to begin with.
LEMMA StuckUnsound ==
    ASSUME NEW r \in Runs, RunOK(r), run[r].phase # "new", Ready(r) = {}, run[r].known # Done(r)
    PROVE  ~ Sound(r, Static[r])
<1> SUFFICES ASSUME Sound(r, Static[r]) PROVE FALSE
  OBVIOUS
<1> DEFINE stuck == run[r].known \ Done(r)
<1>1. /\ Static[r] \subseteq run[r].known
      /\ \A s \in Static[r] : run[r].deps[s] = Deps[s]
      /\ Grounded(r, Grown(r))
  BY DEF RunOK, GraphOK
<1>2. stuck # {}
  BY DEF Done
<1>3. CASE stuck \intersect Static[r] # {}
  <2>1. PICK s \in stuck \intersect Static[r] :
            Deps[s] \intersect (stuck \intersect Static[r]) = {} /\ Deps[s] \subseteq Static[r]
    BY <1>3, ZenonT(60) DEF Sound
  <2>2. run[r].deps[s] \subseteq Done(r)
    BY <1>1, <2>1
  <2>. QED  BY <2>1, <2>2 DEF Ready
<1>4. CASE stuck \intersect Static[r] = {}
  <2>1. stuck \in SUBSET Grown(r)
    BY <1>4 DEF Grown
  <2>2. PICK s \in stuck : /\ run[r].deps[s] \intersect stuck = {}
                           /\ run[r].deps[s] \subseteq run[r].known
    BY <1>1, <1>2, <2>1 DEF Grounded
  <2>3. run[r].deps[s] \subseteq Done(r)
    BY <2>2
  <2>. QED  BY <2>2, <2>3 DEF Ready
<1>. QED  BY <1>3, <1>4

LEMMA NoMoreLayersOK ==
    ASSUME TypeOK, NEW r \in Runs, RunOK(r), NoMoreLayers(r)
    PROVE  RunOK(r)'
<1> DEFINE phase == IF run[r].known = Done(r) THEN "over" ELSE "cycle"
<1>1. /\ run' = [run EXCEPT ![r].phase = phase]
      /\ run[r].phase = "loop" /\ calls' = calls /\ won' = won /\ step' = step
  BY DEF NoMoreLayers
<1>2. \A s \in Steps : step[r][s].at = "out"
  BY <1>1, NoLayerNoCoroutine
<1>3. phase = "cycle" => ~ Sound(r, Static[r])
  BY <1>1, StuckUnsound DEF NoMoreLayers
<1>4. phase \in {"over", "cycle"} /\ (phase = "over" => run[r].known = Done(r))
  OBVIOUS
<1> HIDE DEF phase
<1>. QED  BY <1>1, <1>2, <1>3, <1>4, PhaseChange

LEMMA HoldOK ==
    ASSUME TypeOK, NEW r \in Runs, RunOK(r), Hold(r)
    PROVE  RunOK(r)'
<1>1. /\ run' = [run EXCEPT ![r].phase = "held"]
      /\ run[r].phase = "loop" /\ calls' = calls /\ won' = won /\ step' = step
  BY DEF Hold
<1>2. \A s \in Steps : step[r][s].at = "out" /\ step'[r][s].at = "out"
  BY <1>1, NoLayerNoCoroutine
<1> DEFINE phase == "held"
<1>3. /\ phase \notin {"new", "layer", "merge", "over", "cycle"}
      /\ run' = [run EXCEPT ![r].phase = phase]
  BY <1>1
<1> HIDE DEF phase
<1>. QED  BY <1>1, <1>2, <1>3, PhaseChange

\* Cancellation, and a layer that ends with a cancelled executor.
LEMMA CrashOK ==
    ASSUME TypeOK, NEW r \in Runs, RunOK(r), run[r].phase \in {"held", "layer"},
           run' = [run EXCEPT ![r].phase = "crashed"],
           step' = [step EXCEPT ![r] = [s \in Steps |-> Outside]],
           calls' = calls, won' = won
    PROVE  RunOK(r)'
<1>1. \A s \in Steps : step'[r][s].at = "out"
  BY DEF Outside, TypeOK
<1> DEFINE phase == "crashed"
<1>2. /\ phase \notin {"new", "layer", "merge", "over", "cycle"} /\ phase = "crashed"
      /\ run' = [run EXCEPT ![r].phase = phase]
  OBVIOUS
<1> HIDE DEF phase
<1>. QED  BY <1>1, <1>2, PhaseChange

LEMMA StartLayerOK ==
    ASSUME TypeOK, NEW r \in Runs, RunOK(r), StartLayer(r)
    PROVE  RunOK(r)'
<1>1. /\ run' = [run EXCEPT ![r].phase = "layer"]
      /\ step' = [step EXCEPT ![r] = [s \in Steps |-> IF s \in Ready(r)
                                                      THEN [Outside EXCEPT !.at = "queued"]
                                                      ELSE Outside]]
      /\ calls' = calls /\ won' = won
      /\ run[r].phase \in {"loop", "held"} /\ ~ Aborted(r)
  BY DEF StartLayer, Unpaused
<1>2. /\ run'[r].phase = "layer" /\ run'[r].known = run[r].known /\ run'[r].deps = run[r].deps
      /\ run'[r].out = run[r].out /\ run'[r].spawned = run[r].spawned
  BY <1>1 DEF TypeOK, Run
<1>3. Done(r)' = Done(r) /\ (Aborted(r)' <=> Aborted(r)) /\ Grown(r)' = Grown(r)
  BY <1>2 DEF Done, Aborted, Grown
<1>4. ASSUME NEW s \in Steps
      PROVE  \/ /\ step'[r][s].at = "queued" /\ s \in Ready(r)
                /\ step'[r][s].nth = 0 /\ step'[r][s].spare = FALSE
             \/ step'[r][s].at = "out"
  BY <1>1 DEF TypeOK, Outside
<1>5. GraphOK(r)'
  <2>1. GraphOK(r)
    BY DEF RunOK
  <2>2. Grounded(r, Grown(r))'
    BY ONLY <1>2, <1>3, <2>1 DEF GraphOK, Grounded
  <2>. QED  BY <1>1, <1>2, <1>3, <2>1, <2>2 DEF GraphOK
<1>6. OrderOK(r)'
  <2>1. Layered(r)
    BY <1>1 DEF RunOK, OrderOK
  <2>2. Layered(r)'
    BY ONLY <1>2, <1>3, <2>1 DEF Layered, Grounded
  <2>. QED  BY <1>1, <1>2, <1>3, <2>2 DEF OrderOK
<1>7. ASSUME NEW s \in Steps PROVE StepOK(r, s)'
  <2>1. /\ StepOK(r, s) /\ step[r][s].at = "out" /\ Subs[s] \in Seq(Inner)
    BY <1>1, NoLayerNoCoroutine, EngineAssumption DEF RunOK
  <2>2. DepFailed(r, s)' = DepFailed(r, s) /\ DepsSucceeded(r, s)' = DepsSucceeded(r, s)
    BY <1>2 DEF DepFailed, DepsSucceeded
  <2>3. \A res : Truth(r, s, res) => Truth(r, s, res)'
    BY <1>1, <2>2 DEF Truth
  <2>4. Counted(r, s)' /\ Recorded(r, s)'
    <3>1. Recorded(r, s)'
      BY <1>2, <1>3, <2>1, <2>3 DEF StepOK, Recorded
    <3>2. Counted(r, s)'
      BY <1>1, <1>2, <1>3, <2>1 DEF StepOK, Counted, Splits
    <3>. QED  BY <3>1, <3>2
  <2>5. CASE step'[r][s].at = "out"
    BY <2>4, <2>5 DEF StepOK, InPlace
  <2>6. CASE /\ step'[r][s].at = "queued" /\ s \in Ready(r)
             /\ step'[r][s].nth = 0 /\ step'[r][s].spare = FALSE
    <3>1. Due(r, s)' /\ run[r].out[s] = "none"
      BY <1>2, <1>3, <2>6 DEF Due, Ready, Done
    <3>2. calls'[r][s] = 0
      BY <1>1, <2>1, <3>1 DEF StepOK, Counted
    <3>3. Splits(s) => 0 < Len(Subs[s])
      BY <2>1 DEF Splits
    <3>4. Queued(r, s)'
      BY <2>6, <3>2, <3>3 DEF Queued, Splits
    <3>. QED  BY <2>4, <2>6, <3>1, <3>4 DEF StepOK, InPlace
  <2>. QED  BY <1>4, <2>5, <2>6
<1>. QED  BY <1>5, <1>6, <1>7 DEF RunOK

LEMMA SubmitOK ==
    ASSUME TypeOK, NEW r \in Runs, RunOK(r), Submit(r)
    PROVE  RunOK(r)'
<1>1. /\ run[r].phase = "new" /\ calls' = calls /\ won' = won /\ step' = step
      /\ run[r] \in Run
      /\ run'[r] = [run[r] EXCEPT !.phase = "loop", !.known = Static[r], !.deps = Deps]
  BY DEF Submit, TypeOK
<1>2. /\ run'[r].phase = "loop" /\ run'[r].known = Static[r] /\ run'[r].deps = Deps
      /\ run'[r].out = run[r].out /\ run'[r].spawned = run[r].spawned
      /\ run[r].spawned \in Nat
  BY <1>1 DEF Run
<1>3. run[r].known = {} /\ Grown(r) = {} /\ Grown(r)' = {}
  BY <1>1, <1>2 DEF RunOK, GraphOK, Grown
<1>4. \A s \in Steps : run[r].out[s] = "none" /\ step[r][s].at = "out" /\ calls[r][s] = 0
  <2>1. ASSUME NEW s \in Steps PROVE run[r].out[s] = "none"
    BY <1>3 DEF RunOK, StepOK, Recorded
  <2>2. ASSUME NEW s \in Steps PROVE step[r][s].at = "out"
    BY <1>1, NoLayerNoCoroutine
  <2>3. ASSUME NEW s \in Steps PROVE calls[r][s] = 0
    BY <1>1, <2>1, <2>2 DEF RunOK, StepOK, Counted
  <2>. QED  BY <2>1, <2>2, <2>3
<1>5. Done(r)' = {}
  <2>1. Static[r] \subseteq Steps
    BY EngineAssumption
  <2>. QED  BY <1>2, <1>4, <2>1 DEF Done
<1>6. GraphOK(r)'
  <2>1. /\ IsFiniteSet(Grown(r)') /\ Cardinality(Grown(r)') = run'[r].spawned
        /\ run'[r].spawned <= MaxSpawned
    BY <1>2, <1>3 DEF RunOK, GraphOK
  <2>2. Grounded(r, Grown(r))'
    BY <1>3 DEF Grounded
  <2>. QED  BY <1>2, <2>1, <2>2 DEF GraphOK
<1>7. OrderOK(r)'
  <2>1. Layered(r)'
    BY <1>5 DEF Layered, Grounded
  <2>. QED  BY <1>2, <2>1 DEF OrderOK
<1>8. ASSUME NEW s \in Steps PROVE StepOK(r, s)'
  <2>1. calls'[r][s] <= Limit(s)
    <3>1. Retry[s] \in Nat
      BY EngineAssumption
    <3>. QED  BY <1>1, <1>4, <3>1 DEF Limit
  <2>2. InPlace(r, s)' /\ Counted(r, s)' /\ Recorded(r, s)'
    BY <1>1, <1>2, <1>4, <2>1 DEF InPlace, Counted, Recorded
  <2>. QED  BY <2>2 DEF StepOK
<1>. QED  BY <1>6, <1>7, <1>8 DEF RunOK

\* Results that are added leave the truth of the earlier ones alone.
LEMMA TruthKept ==
    ASSUME NEW r \in Runs, NEW s \in Steps, NEW res, Truth(r, s, res),
           run'[r].deps[s] = run[r].deps[s],
           \A d \in Done(r) : run'[r].out[d] = run[r].out[d],
           res # "skipped" => run[r].deps[s] \subseteq Done(r),
           calls' = calls, won' = won
    PROVE  Truth(r, s, res)'
<1>1. CASE res = "success"
  <2>1. \A d \in run[r].deps[s] : run'[r].out[d] = run[r].out[d]
    BY <1>1
  <2>2. /\ (DepFailed(r, s)' <=> DepFailed(r, s))
        /\ (DepsSucceeded(r, s)' <=> DepsSucceeded(r, s))
    BY <2>1 DEF DepFailed, DepsSucceeded
  <2>. QED  BY <1>1, <2>2 DEF Truth
<1>2. CASE res # "success"
  BY <1>2 DEF Truth
<1>. QED  BY <1>1, <1>2

LEMMA AbortOK ==
    ASSUME TypeOK, NEW r \in Runs, RunOK(r), Abort(r)
    PROVE  RunOK(r)'
<1> DEFINE out == [s \in Steps |-> IF s \in run[r].known \ Done(r) THEN "skipped" ELSE run[r].out[s]]
<1>1. /\ run[r].phase \in {"loop", "held"} /\ Aborted(r)
      /\ calls' = calls /\ won' = won /\ step' = step
      /\ run[r] \in Run
      /\ run'[r] = [run[r] EXCEPT !.phase = "over", !.out = out]
  BY DEF Abort, Unpaused, TypeOK
<1>2. /\ run'[r].phase = "over" /\ run'[r].known = run[r].known /\ run'[r].deps = run[r].deps
      /\ run'[r].out = out /\ run'[r].spawned = run[r].spawned
      /\ run[r].known \subseteq Steps
  BY <1>1 DEF Run
<1>3. \A s \in Steps : run'[r].out[s] = IF s \in run[r].known \ Done(r) THEN "skipped"
                                        ELSE run[r].out[s]
  BY <1>2
<1> HIDE DEF out
<1>4. Done(r)' = run[r].known /\ Grown(r)' = Grown(r) /\ Done(r) \subseteq run[r].known
  BY <1>2, <1>3 DEF Done, Grown
<1>5. \A s \in Done(r) : s \in Steps /\ run'[r].out[s] = run[r].out[s]
  BY <1>2, <1>3, <1>4
<1>6. GraphOK(r)'
  <2>1. GraphOK(r)
    BY DEF RunOK
  <2>2. Grounded(r, Grown(r))'
    BY ONLY <1>2, <1>4, <2>1 DEF GraphOK, Grounded
  <2>. QED  BY <1>1, <1>2, <1>4, <2>1, <2>2 DEF GraphOK
<1>7. OrderOK(r)'
  <2>1. Aborted(r)'
    BY <1>1, <1>4, <1>5 DEF Aborted
  <2>. QED  BY <1>2, <1>4, <2>1 DEF OrderOK
<1>8. ASSUME NEW s \in Steps PROVE StepOK(r, s)'
  <2>1. StepOK(r, s) /\ step[r][s].at = "out"
    BY <1>1, NoLayerNoCoroutine DEF RunOK
  <2>2. InPlace(r, s)'
    BY <1>1, <2>1 DEF InPlace
  <2>3. Counted(r, s)'
    <3>1. calls[r][s] > 0 => s \in run[r].known /\ run[r].deps[s] \subseteq Done(r)
      BY <2>1 DEF StepOK, Counted
    <3>2. run'[r].out[s] = "none" => run[r].out[s] = "none"
      BY <1>3
    <3>3. run[r].phase # "crashed"
      BY <1>1
    <3>. QED  BY <1>1, <1>2, <1>4, <2>1, <3>1, <3>2, <3>3 DEF StepOK, Counted, Splits
  <2>4. Recorded(r, s)'
    <3>1. CASE s \in run[r].known \ Done(r)
      <4>1. calls[r][s] = 0
        BY <1>1, <2>1, <3>1 DEF StepOK, Counted, Done
      <4>2. run'[r].out[s] = "skipped"
        BY <1>3, <3>1
      <4>3. Truth(r, s, "skipped")'
        BY <1>1, <4>1 DEF Truth
      <4>. QED  BY <1>2, <3>1, <4>2, <4>3 DEF Recorded
    <3>2. CASE s \notin run[r].known \ Done(r)
      <4>1. run'[r].out[s] = run[r].out[s] /\ Recorded(r, s)
        BY <1>3, <2>1, <3>2 DEF StepOK
      <4>2. ASSUME run[r].out[s] # "none" PROVE Truth(r, s, run[r].out[s])'
        BY <1>1, <1>2, <1>5, <4>1, <4>2, TruthKept DEF Recorded
      <4>. QED  BY <1>2, <1>4, <4>1, <4>2 DEF Recorded
    <3>. QED  BY <3>1, <3>2
  <2>. QED  BY <2>2, <2>3, <2>4 DEF StepOK
<1>. QED  BY <1>6, <1>7, <1>8 DEF RunOK

\* The layer has ended and what its steps returned is recorded.
LEMMA RecordLayerOK ==
    ASSUME TypeOK, NEW r \in Runs, RunOK(r), EndLayer(r),
           \A s \in Steps : step[r][s].res # "cancelled"
    PROVE  RunOK(r)'
<1>1. /\ run[r].phase = "layer" /\ calls' = calls /\ won' = won
      /\ run' = [run EXCEPT ![r].phase = Merging(Queue(r)), ![r].out = Told(r),
                            ![r].todo = Queue(r)]
      /\ step' = [step EXCEPT ![r] = [s \in Steps |-> Outside]]
  BY DEF EndLayer
<1>2. run[r] \in Run /\ run \in [Runs -> Run] /\ step \in [Runs -> [Steps -> Place]]
  BY DEF TypeOK
<1>3. /\ run'[r].phase = Merging(Queue(r)) /\ run'[r].known = run[r].known
      /\ run'[r].deps = run[r].deps /\ run'[r].out = Told(r)
      /\ run'[r].spawned = run[r].spawned /\ run'[r].todo = Queue(r)
      /\ run[r].known \subseteq Steps
  BY <1>1, <1>2 DEF Run
<1>4. /\ run'[r].phase \in {"loop", "merge"}
      /\ run'[r].phase = "merge" => run'[r].todo # <<>>
  BY <1>3 DEF Merging
<1>5. \A s \in Steps : step'[r][s].at = "out"
  BY <1>1, <1>2 DEF Outside
<1>6. \A s \in Steps : run'[r].out[s] = IF step[r][s].at = "ended" THEN step[r][s].res
                                        ELSE run[r].out[s]
  BY <1>3 DEF Told
<1>7. ASSUME NEW s \in Steps, step[r][s].at = "ended"
      PROVE  /\ s \in run[r].known /\ run[r].out[s] = "none" /\ run[r].deps[s] \subseteq Done(r)
             /\ run'[r].out[s] = step[r][s].res /\ step[r][s].res # "none"
             /\ Truth(r, s, step[r][s].res)
  BY <1>6, <1>7 DEF RunOK, StepOK, InPlace, Due
<1>8. /\ Done(r)' = Done(r) \union {s \in Steps : step[r][s].at = "ended"}
      /\ Grown(r)' = Grown(r)
  BY <1>3, <1>6, <1>7 DEF Done, Grown
<1>9. \A d \in Done(r) : d \in Steps /\ run'[r].out[d] = run[r].out[d]
  BY <1>3, <1>6, <1>7 DEF Done
<1>10. GraphOK(r)'
  <2>1. GraphOK(r)
    BY DEF RunOK
  <2>2. Grounded(r, Grown(r))'
    BY ONLY <1>3, <1>8, <2>1 DEF GraphOK, Grounded
  <2>. QED  BY <1>1, <1>3, <1>4, <1>8, <2>1, <2>2 DEF GraphOK
<1>11. OrderOK(r)'
  <2>1. Layered(r)
    BY <1>1 DEF RunOK, OrderOK
  <2>2. \A s \in Done(r)' : run'[r].deps[s] \subseteq Done(r)
    BY <1>3, <1>7, <1>8, <2>1 DEF Layered
  <2>3. ASSUME NEW S \in SUBSET Done(r)', S # {}
        PROVE  \E s \in S : run'[r].deps[s] \intersect S = {} /\ run'[r].deps[s] \subseteq run'[r].known
    <3>1. Done(r) \subseteq run[r].known
      BY DEF Done
    <3>2. CASE S \intersect Done(r) = {}
      BY <1>3, <2>2, <2>3, <3>1, <3>2
    <3>3. CASE S \intersect Done(r) # {}
      <4>1. PICK s \in S \intersect Done(r) : run[r].deps[s] \intersect (S \intersect Done(r)) = {}
        BY <2>1, <3>3 DEF Layered, Grounded
      <4>2. run'[r].deps[s] \subseteq Done(r)
        BY <2>2, <2>3, <4>1
      <4>. QED  BY <1>3, <3>1, <4>1, <4>2
    <3>. QED  BY <3>2, <3>3
  <2>4. Layered(r)'
    BY <1>8, <2>2, <2>3 DEF Layered, Grounded
  <2>. QED  BY <1>4, <2>4 DEF OrderOK
<1>12. ASSUME NEW s \in Steps PROVE StepOK(r, s)'
  <2>1. StepOK(r, s) /\ step[r][s].at \in {"out", "ended"}
    BY DEF RunOK, EndLayer
  <2>2. InPlace(r, s)'
    BY <1>5 DEF InPlace
  <2>3. Counted(r, s)'
    <3>1. run'[r].out[s] = "none" => run[r].out[s] = "none" /\ step[r][s].at = "out"
      BY <1>6, <1>7, <2>1
    <3>. QED  BY <1>1, <1>3, <1>8, <2>1, <3>1 DEF StepOK, Counted, Splits
  <2>4. Recorded(r, s)'
    <3>1. CASE step[r][s].at = "ended"
      <4>1. PICK res : res = step[r][s].res
        OBVIOUS
      <4>2. Truth(r, s, res)'
        BY <1>1, <1>3, <1>7, <1>9, <3>1, <4>1, TruthKept
      <4>. QED  BY <1>3, <1>7, <1>8, <3>1, <4>1, <4>2 DEF Recorded
    <3>2. CASE step[r][s].at # "ended"
      <4>1. run'[r].out[s] = run[r].out[s] /\ Recorded(r, s)
        BY <1>6, <2>1, <3>2 DEF StepOK
      <4>2. ASSUME run[r].out[s] # "none" PROVE Truth(r, s, run[r].out[s])'
        BY <1>1, <1>3, <1>9, <4>1, <4>2, TruthKept DEF Recorded
      <4>. QED  BY <1>3, <1>8, <4>1, <4>2 DEF Recorded
    <3>. QED  BY <3>1, <3>2
  <2>. QED  BY <2>2, <2>3, <2>4 DEF StepOK
<1>. QED  BY <1>10, <1>11, <1>12 DEF RunOK

LEMMA EndLayerOK ==
    ASSUME TypeOK, NEW r \in Runs, RunOK(r), EndLayer(r)
    PROVE  RunOK(r)'
<1>1. CASE \E s \in Steps : step[r][s].res = "cancelled"
  BY <1>1, CrashOK DEF EndLayer
<1>2. CASE ~ \E s \in Steps : step[r][s].res = "cancelled"
  BY <1>2, RecordLayerOK
<1>. QED  BY <1>1, <1>2

\* One drained pair is merged: the graph stays as it is, or a step of the pair that it
\* did not have joins it, with dependencies that it had.
Joins(r, new, deps) ==
    /\ new \in Steps \ run[r].known /\ deps \subseteq run[r].known
    /\ run[r].spawned < MaxSpawned
    /\ run'[r].known = run[r].known \union {new}
    /\ run'[r].deps = [run[r].deps EXCEPT ![new] = deps]
    /\ run'[r].spawned = run[r].spawned + 1

Stays(r) ==
    /\ run'[r].known = run[r].known /\ run'[r].deps = run[r].deps
    /\ run'[r].spawned = run[r].spawned

LEMMA MergeShape ==
    ASSUME TypeOK, NEW r \in Runs, RunOK(r), MergeSpawn(r)
    PROVE  /\ run[r].phase = "merge"
           /\ run' \in [Runs -> Run] /\ \A q \in Runs \ {r} : run'[q] = run[q]
           /\ run'[r].out = run[r].out
           /\ run[r].todo # <<>> /\ run'[r].todo = Tail(run[r].todo)
           /\ run'[r].phase = Merging(Tail(run[r].todo))
           /\ Stays(r) \/ \E deps : Joins(r, Head(run[r].todo)[2], deps)
<1> DEFINE R == run[r]
           todo == R.todo
           pair == Head(todo)
           new == pair[2]
           deps == IF OfferDeps[pair[1]] = Default THEN {pair[1]} ELSE OfferDeps[pair[1]]
           M == Merge(R, pair)
<1>1. R \in Run /\ R.phase = "merge" /\ todo # <<>>
  BY DEF MergeSpawn, TypeOK, RunOK, GraphOK
<1>2. /\ R.known \in SUBSET Steps /\ R.deps \in [Steps -> SUBSET Ids]
      /\ R.out \in [Steps -> {"none", "success", "failed", "skipped"}]
      /\ R.spawned \in Nat /\ todo \in Seq(Ids \X Steps)
  BY <1>1 DEF Run
<1>3. pair \in Ids \X Steps /\ Tail(todo) \in Seq(Ids \X Steps)
  BY <1>1, <1>2
<1>4. pair[1] \in Ids /\ new \in Steps
  BY <1>3
<1>5. deps \in SUBSET Ids
  <2>1. OfferDeps[pair[1]] \in {Default} \union SUBSET Ids
    BY <1>4, EngineAssumption DEF Ids
  <2>. QED  BY <1>4, <2>1
<1>6. run' = [run EXCEPT ![r] = [M EXCEPT !.phase = Merging(Tail(todo)), !.todo = Tail(todo)]]
  BY DEF MergeSpawn
<1>7. Merging(Tail(todo)) \in {"loop", "merge"}
  BY DEF Merging
<1> HIDE DEF deps, new, pair
<1>8. CASE R.spawned < MaxSpawned /\ new \notin R.known /\ deps \subseteq R.known
  <2>1. M = [R EXCEPT !.known = R.known \union {new}, !.deps = [R.deps EXCEPT ![new] = deps],
                      !.spawned = R.spawned + 1]
    BY <1>8 DEF Merge, pair, new, deps
  <2>2. /\ R.known \union {new} \in SUBSET Steps
        /\ [R.deps EXCEPT ![new] = deps] \in [Steps -> SUBSET Ids]
        /\ R.spawned + 1 \in Nat
    BY <1>2, <1>4, <1>5
  <2>3. /\ M \in Run
        /\ M.known = R.known \union {new} /\ M.deps = [R.deps EXCEPT ![new] = deps]
        /\ M.spawned = R.spawned + 1 /\ M.out = R.out
    BY <1>1, <2>1, <2>2 DEF Run
  <2> HIDE DEF M
  <2>4. /\ run' \in [Runs -> Run] /\ \A q \in Runs \ {r} : run'[q] = run[q]
        /\ run'[r] = [M EXCEPT !.phase = Merging(Tail(todo)), !.todo = Tail(todo)]
    BY <1>3, <1>6, <1>7, <2>3, ZenonT(30) DEF TypeOK, Run
  <2>5. /\ run'[r].known = M.known /\ run'[r].deps = M.deps /\ run'[r].spawned = M.spawned
        /\ run'[r].out = M.out
        /\ run'[r].todo = Tail(todo) /\ run'[r].phase = Merging(Tail(todo))
    BY <2>3, <2>4 DEF Run
  <2>6. Joins(r, new, deps)
    BY <1>4, <1>8, <2>3, <2>5 DEF Joins
  <2>. QED  BY <1>1, <2>3, <2>4, <2>5, <2>6 DEF new, pair
<1>9. CASE ~ (R.spawned < MaxSpawned /\ new \notin R.known /\ deps \subseteq R.known)
  <2>1. M = R
    BY <1>9 DEF Merge, pair, new, deps
  <2> HIDE DEF M
  <2>2. /\ run' \in [Runs -> Run] /\ \A q \in Runs \ {r} : run'[q] = run[q]
        /\ run'[r] = [R EXCEPT !.phase = Merging(Tail(todo)), !.todo = Tail(todo)]
    BY <1>1, <1>3, <1>6, <1>7, <2>1 DEF TypeOK, Run
  <2>3. /\ run'[r].known = R.known /\ run'[r].deps = R.deps /\ run'[r].spawned = R.spawned
        /\ run'[r].out = R.out
        /\ run'[r].todo = Tail(todo) /\ run'[r].phase = Merging(Tail(todo))
    BY <1>1, <2>2 DEF Run
  <2>. QED  BY <1>1, <2>2, <2>3 DEF Stays
<1>. QED  BY <1>8, <1>9

\* A step that joins the graph leaves the other steps as they are.
LEMMA MergeSpawnOK ==
    ASSUME TypeOK, NEW r \in Runs, RunOK(r), MergeSpawn(r)
    PROVE  RunOK(r)'
<1>1. /\ run[r].phase = "merge" /\ run'[r].out = run[r].out
      /\ run'[r].todo = Tail(run[r].todo) /\ run'[r].phase = Merging(Tail(run[r].todo))
      /\ Stays(r) \/ \E deps : Joins(r, Head(run[r].todo)[2], deps)
  BY MergeShape
<1>2. /\ run'[r].phase \in {"loop", "merge"}
      /\ run'[r].phase = "merge" => run'[r].todo # <<>>
  BY <1>1 DEF Merging
<1>3. /\ run[r] \in Run /\ run[r].known \subseteq Steps /\ run[r].spawned \in Nat
      /\ run[r].deps \in [Steps -> SUBSET Ids]
      /\ step' = step /\ calls' = calls /\ won' = won /\ MaxSpawned \in Nat
  BY EngineAssumption DEF MergeSpawn, TypeOK, Run
<1>4. \A s \in Steps : run[r].out[s] # "none" => s \in run[r].known
  BY DEF RunOK, StepOK, Recorded
<1>5. /\ Static[r] \subseteq run[r].known /\ \A s \in Static[r] : run[r].deps[s] = Deps[s]
      /\ IsFiniteSet(Grown(r)) /\ Cardinality(Grown(r)) = run[r].spawned
      /\ run[r].spawned <= MaxSpawned /\ Grounded(r, Grown(r))
  BY <1>1 DEF RunOK, GraphOK
<1>6. /\ run[r].known \subseteq run'[r].known
      /\ \A s \in run[r].known : run'[r].deps[s] = run[r].deps[s]
  BY <1>1, <1>3 DEF Stays, Joins
<1>7. Done(r)' = Done(r) /\ Done(r) \subseteq run[r].known
  <2>1. \A s \in run'[r].known : s \in Steps
    BY <1>1, <1>3 DEF Stays, Joins
  <2>. QED  BY <1>1, <1>4, <1>6, <2>1 DEF Done
<1>8. GraphOK(r)'
  <2>1. CASE Stays(r)
    <3>1. Grown(r)' = Grown(r)
      BY <2>1 DEF Stays, Grown
    <3>2. Grounded(r, Grown(r))'
      BY ONLY <1>5, <2>1, <3>1 DEF Stays, Grounded
    <3>3. run'[r].known = run[r].known /\ run'[r].deps = run[r].deps /\ run'[r].spawned = run[r].spawned
      BY <2>1 DEF Stays
    <3>. QED  BY <1>2, <1>5, <3>1, <3>2, <3>3 DEF GraphOK
  <2>2. CASE \E deps : Joins(r, Head(run[r].todo)[2], deps)
    <3>1. PICK new, deps : Joins(r, new, deps)
      BY <2>2
    <3>2. /\ new \in Steps \ run[r].known /\ deps \subseteq run[r].known
          /\ run[r].spawned < MaxSpawned
          /\ run'[r].known = run[r].known \union {new}
          /\ run'[r].deps[new] = deps
          /\ run'[r].spawned = run[r].spawned + 1
      BY <1>3, <3>1 DEF Joins
    <3>3. Grown(r)' = Grown(r) \union {new} /\ new \notin Grown(r)
      BY <1>5, <3>2 DEF Grown
    <3>4. IsFiniteSet(Grown(r)') /\ Cardinality(Grown(r)') = run[r].spawned + 1
      BY <1>5, <3>3, FS_AddElement
    <3>5. ASSUME NEW S \in SUBSET (Grown(r)'), S # {}
          PROVE  \E s \in S : /\ run'[r].deps[s] \intersect S = {}
                             /\ run'[r].deps[s] \subseteq run'[r].known
      <4>1. CASE S \subseteq {new}
        <5>1. S = {new} /\ deps \intersect S = {}
          BY <3>2, <3>5, <4>1
        <5>. QED  BY <1>6, <3>2, <5>1
      <4>2. CASE S \ {new} # {}
        <5>1. S \ {new} \in SUBSET Grown(r)
          BY <3>3, <3>5
        <5>2. PICK s \in S \ {new} : /\ run[r].deps[s] \intersect (S \ {new}) = {}
                                    /\ run[r].deps[s] \subseteq run[r].known
          BY <1>5, <4>2, <5>1 DEF Grounded
        <5>3. s \in run[r].known
          BY <5>1, <5>2 DEF Grown
        <5>4. run'[r].deps[s] = run[r].deps[s] /\ new \notin run[r].deps[s]
          BY <1>6, <3>2, <5>2, <5>3
        <5>. QED  BY <1>6, <5>2, <5>4
      <4>. QED  BY <3>5, <4>1, <4>2
    <3>6. Grounded(r, Grown(r))'
      BY <3>5 DEF Grounded
    <3>7. run'[r].spawned <= MaxSpawned /\ Cardinality(Grown(r)') = run'[r].spawned
      BY <1>3, <3>2, <3>4
    <3>8. Static[r] \subseteq run'[r].known /\ \A s \in Static[r] : run'[r].deps[s] = Deps[s]
      BY <1>5, <1>6
    <3>. QED  BY <1>2, <3>4, <3>6, <3>7, <3>8 DEF GraphOK
  <2>. QED  BY <1>1, <2>1, <2>2
<1>9. OrderOK(r)'
  <2>1. Aborted(r)' <=> Aborted(r)
    BY <1>1, <1>7 DEF Aborted
  <2>2. ASSUME Layered(r) PROVE Layered(r)'
    <3>1. \A s \in Done(r) : /\ run'[r].deps[s] = run[r].deps[s]
                             /\ (run[r].deps[s] \subseteq run[r].known
                                   => run'[r].deps[s] \subseteq run'[r].known)
      BY <1>6, <1>7
    <3>2. ASSUME NEW S \in SUBSET Done(r), S # {}
          PROVE  \E s \in S : /\ run'[r].deps[s] \intersect S = {}
                             /\ run'[r].deps[s] \subseteq run'[r].known
      <4>1. PICK s \in S : /\ run[r].deps[s] \intersect S = {}
                          /\ run[r].deps[s] \subseteq run[r].known
        BY <2>2, <3>2 DEF Layered, Grounded
      <4>. QED  BY <3>1, <3>2, <4>1
    <3>. QED  BY <1>7, <2>2, <3>1, <3>2, SMTT(30) DEF Layered, Grounded
  <2>3. Aborted(r) \/ Layered(r)
    BY DEF RunOK, OrderOK
  <2>. QED  BY <1>2, <2>1, <2>2, <2>3 DEF OrderOK
<1>10. ASSUME NEW s \in Steps PROVE StepOK(r, s)'
  <2>1. StepOK(r, s) /\ step[r][s].at = "out"
    BY <1>1, NoLayerNoCoroutine DEF RunOK
  <2>2. InPlace(r, s)'
    BY <1>3, <2>1 DEF InPlace
  <2>3. Counted(r, s)'
    <3>1. calls[r][s] > 0 => s \in run[r].known /\ run[r].deps[s] \subseteq Done(r)
      BY <2>1 DEF StepOK, Counted
    <3>2. calls[r][s] > 0 => s \in run'[r].known /\ run'[r].deps[s] \subseteq Done(r)'
      BY <1>6, <1>7, <3>1
    <3>. QED  BY <1>1, <1>3, <2>1, <3>2 DEF StepOK, Counted, Splits
  <2>4. Recorded(r, s)'
    <3>1. ASSUME run[r].out[s] # "none"
          PROVE  /\ s \in run[r].known /\ run'[r].deps[s] = run[r].deps[s]
                 /\ run[r].out[s] # "skipped" => run[r].deps[s] \subseteq Done(r)
                 /\ Truth(r, s, run[r].out[s])
      BY <1>4, <1>6, <2>1, <3>1 DEF StepOK, Recorded
    <3>2. \A d \in Done(r) : run'[r].out[d] = run[r].out[d]
      BY <1>1
    <3>3. PICK res : res = run[r].out[s]
      OBVIOUS
    <3>4. ASSUME run[r].out[s] # "none" PROVE Truth(r, s, res)'
      BY <1>3, <3>1, <3>2, <3>3, <3>4, TruthKept
    <3>. QED  BY <1>1, <1>6, <1>7, <3>1, <3>3, <3>4 DEF Recorded
  <2>. QED  BY <2>2, <2>3, <2>4 DEF StepOK
<1>. QED  BY <1>8, <1>9, <1>10 DEF RunOK

LEMMA LoopRuns ==
    ASSUME TypeOK, \A q \in Runs : RunOK(q), NEW r \in Runs, Loop(r)
    PROVE  \A q \in Runs : RunOK(q)'
<1>1. /\ calls' = calls /\ won' = won
      /\ \A q \in Runs \ {r} : run'[q] = run[q] /\ step'[q] = step[q]
  BY LoopFrame
<1>2. ASSUME NEW q \in Runs \ {r} PROVE RunOK(q)'
  BY <1>1, Kept
<1>3. ASSUME Cancel(r) PROVE RunOK(r)'
  BY <1>3, CrashOK DEF Cancel
<1>4. RunOK(r)'
  BY <1>3, NoMoreLayersOK, HoldOK, AbortOK, StartLayerOK, EndLayerOK, MergeSpawnOK, SubmitOK
     DEF Loop, RunStep
<1>. QED  BY <1>2, <1>4

-----------------------------------------------------------------------------
(* Type correctness *)

LEMMA WorkType ==
    ASSUME TypeOK, NEW r \in Runs, NEW s \in Steps, Frame(r, s), Earning(r, s)
    PROVE  TypeOK'
<1>1. spawns' \in [Traces -> Seq(Ids \X Steps)]
  <2>1. ASSUME NEW w \in Ids, Record(r, w) PROVE spawns' \in [Traces -> Seq(Ids \X Steps)]
    <3>1. Directive(w) \in Seq(Ids \X Steps)
      BY DirectiveType
    <3>2. spawns \in [Traces -> Seq(Ids \X Steps)] /\ Trace[r] \in Traces
      BY DEF TypeOK, Traces
    <3>3. spawns[Trace[r]] \o Directive(w) \in Seq(Ids \X Steps)
      BY <3>1, <3>2
    <3>4. spawns' = [spawns EXCEPT ![Trace[r]] = spawns[Trace[r]] \o Directive(w)]
      BY <2>1 DEF Record
    <3>. QED  BY <3>2, <3>3, <3>4
  <2>. QED  BY <2>1 DEF Earning, TypeOK
<1>2. step' \in [Runs -> [Steps -> Place]]
  BY MovedTo DEF Frame
<1>. QED  BY <1>1, <1>2 DEF TypeOK, Frame

LEMMA LoopType ==
    ASSUME TypeOK, \A q \in Runs : RunOK(q), NEW r \in Runs, Loop(r)
    PROVE  TypeOK'
<1> USE DEF TypeOK
<1>1. run[r] \in Run /\ [s \in Steps |-> Outside] \in [Steps -> Place]
  BY OutsideType
<1>2. spawns' \in [Traces -> Seq(Ids \X Steps)]
  <2>1. ASSUME Pop(r) PROVE spawns' \in [Traces -> Seq(Ids \X Steps)]
    <3>1. <<>> \in Seq(Ids \X Steps)
      OBVIOUS
    <3>. QED  BY <2>1, <3>1 DEF Pop
  <2>. QED  BY <2>1, LoopFrame
<1>3. step' \in [Runs -> [Steps -> Place]]
  <2>1. CASE StartLayer(r)
    <3>1. [Outside EXCEPT !.at = "queued"] \in Place
      BY DEF Outside, Place
    <3>. QED  BY <1>1, <2>1, <3>1, OutsideType DEF StartLayer
  <2>. QED  BY <1>1, <2>1, LoopFrame
<1>4. run' \in [Runs -> Run]
  <2>1. ASSUME NEW phase \in {"loop", "held", "layer", "over", "cycle", "crashed"},
               run' = [run EXCEPT ![r].phase = phase]
        PROVE  run' \in [Runs -> Run]
    BY <1>1, <2>1 DEF Run
  <2>2. CASE Submit(r)
    <3>1. Static[r] \in SUBSET Steps
      BY EngineAssumption
    <3>2. Deps \in [Steps -> SUBSET Ids]
      BY EngineAssumption DEF Ids
    <3>. QED  BY <1>1, <2>2, <3>1, <3>2 DEF Submit, Run
  <2>3. CASE NoMoreLayers(r)
    BY <2>1, <2>3 DEF NoMoreLayers
  <2>4. CASE Hold(r)
    BY <2>1, <2>4 DEF Hold
  <2>5. CASE Abort(r)
    <3>1. [s \in Steps |-> IF s \in run[r].known \ Done(r) THEN "skipped" ELSE run[r].out[s]]
              \in [Steps -> {"none", "success", "failed", "skipped"}]
      BY <1>1 DEF Run
    <3>. QED  BY <1>1, <2>5, <3>1 DEF Abort, Run
  <2>6. CASE StartLayer(r)
    BY <2>1, <2>6 DEF StartLayer
  <2>7. CASE EndLayer(r)
    <3>1. CASE \E s \in Steps : step[r][s].res = "cancelled"
      BY <2>1, <2>7, <3>1 DEF EndLayer
    <3>2. CASE ~ \E s \in Steps : step[r][s].res = "cancelled"
      <4>1. run' = [run EXCEPT ![r].phase = Merging(Queue(r)), ![r].out = Told(r),
                               ![r].todo = Queue(r)]
        BY <2>7, <3>2 DEF EndLayer
      <4>2. Merging(Queue(r)) \in {"loop", "merge"}
        BY DEF Merging
      <4>3. Queue(r) \in Seq(Ids \X Steps)
        BY DEF Queue, Traces
      <4>4. Told(r) \in [Steps -> {"none", "success", "failed", "skipped"}]
        <5>1. ASSUME NEW s \in Steps
              PROVE  step[r][s].res \in {"none", "success", "failed", "skipped"}
          BY <3>2 DEF Place
        <5>. QED  BY <1>1, <5>1 DEF Told, Run
      <4>. QED  BY <1>1, <4>1, <4>2, <4>3, <4>4 DEF Run
    <3>. QED  BY <3>1, <3>2
  <2>8. CASE MergeSpawn(r)
    BY <2>8, MergeShape
  <2>9. CASE Cancel(r)
    BY <2>1, <2>9 DEF Cancel
  <2>. QED
    BY <2>2, <2>3, <2>4, <2>5, <2>6, <2>7, <2>8, <2>9 DEF Loop, RunStep
<1>5. paused' \in BOOLEAN /\ calls' \in [Runs -> [Ids -> Nat]] /\ won' \subseteq Runs \X Ids
  BY LoopFrame
<1>. QED  BY <1>2, <1>3, <1>4, <1>5

-----------------------------------------------------------------------------
(* The queues *)

LEMMA WorkQueue ==
    ASSUME TypeOK, QueueOK, NEW r \in Runs, NEW s \in Steps, run[r].phase = "layer",
           run' = run, Earning(r, s)
    PROVE  QueueOK'
<1>1. ASSUME NEW t \in Traces, spawns'[t] # <<>>
      PROVE  \E q \in Runs : Trace[q] = t /\ run'[q].phase = "layer"
  <2>1. CASE t = Trace[r]
    BY <2>1
  <2>2. CASE t # Trace[r]
    <3>1. spawns'[t] = spawns[t]
      BY <2>2 DEF Earning, Record, TypeOK
    <3>. QED  BY <1>1, <3>1 DEF QueueOK
  <2>. QED  BY <2>1, <2>2
<1>. QED  BY <1>1 DEF QueueOK

LEMMA LoopQueue ==
    ASSUME TypeOK, QueueOK, NEW r \in Runs, Loop(r)
    PROVE  QueueOK'
<1>1. /\ \A q \in Runs \ {r} : run'[q] = run[q]
      /\ spawns' = spawns \/ Pop(r)
  BY LoopFrame
<1>2. run[r].phase = "layer" => Pop(r)
  BY DEF Loop, RunStep, Submit, Cancel, NoMoreLayers, Hold, Abort, StartLayer, EndLayer,
         MergeSpawn, Unpaused
<1>3. ASSUME NEW t \in Traces, spawns'[t] # <<>>
      PROVE  \E q \in Runs : Trace[q] = t /\ run'[q].phase = "layer"
  <2>1. spawns'[t] = spawns[t] /\ (Pop(r) => t # Trace[r])
    BY <1>1, <1>3 DEF Pop, TypeOK
  <2>2. PICK q \in Runs : Trace[q] = t /\ run[q].phase = "layer"
    BY <1>3, <2>1 DEF QueueOK
  <2>3. q # r
    BY <1>2, <2>1, <2>2
  <2>. QED  BY <1>1, <2>2, <2>3
<1>. QED  BY <1>3 DEF QueueOK

-----------------------------------------------------------------------------
(* The invariant *)

LEMMA InitOK == Init => Inv
<1> SUFFICES ASSUME Init PROVE Inv
  OBVIOUS
<1> USE DEF Init
<1>1. TypeOK
  <2>1. [s \in Steps |-> {}] \in [Steps -> SUBSET Ids]
    OBVIOUS
  <2>2. <<>> \in Seq(Ids \X Steps)
    OBVIOUS
  <2>3. run \in [Runs -> Run]
    BY <2>1, <2>2 DEF Run
  <2>4. step \in [Runs -> [Steps -> Place]] /\ calls \in [Runs -> [Ids -> Nat]]
    BY OutsideType DEF Ids
  <2>. QED  BY <2>2, <2>3, <2>4 DEF TypeOK
<1>2. ASSUME NEW r \in Runs PROVE RunOK(r)
  <2>1. Grown(r) = {} /\ Done(r) = {}
    BY DEF Grown, Done
  <2>2. GraphOK(r)
    <3>1. IsFiniteSet({}) /\ Cardinality({}) = 0 /\ MaxSpawned \in Nat
      BY FS_EmptySet, EngineAssumption
    <3>. QED  BY <2>1, <3>1 DEF GraphOK, Grounded
  <2>3. OrderOK(r)
    BY <2>1 DEF OrderOK, Layered, Grounded
  <2>4. ASSUME NEW s \in Steps PROVE StepOK(r, s)
    <3>1. Retry[s] \in Nat /\ s \in Steps \union Inner
      BY EngineAssumption
    <3>2. calls[r][s] = 0 /\ step[r][s] = Outside /\ run[r].out[s] = "none"
      BY <3>1
    <3>3. calls[r][s] <= Limit(s)
      BY <3>1, <3>2 DEF Limit
    <3>. QED  BY <3>2, <3>3 DEF StepOK, InPlace, Counted, Recorded, Outside
  <2>. QED  BY <2>2, <2>3, <2>4 DEF RunOK
<1>3. QueueOK
  BY DEF QueueOK
<1>. QED  BY <1>1, <1>2, <1>3 DEF Inv

LEMMA StepKeeps == Inv /\ [Next]_vars => Inv'
<1> SUFFICES ASSUME Inv, [Next]_vars PROVE Inv'
  OBVIOUS
<1> USE DEF Inv
<1>1. CASE SetPause \/ UNCHANGED vars
  <2>1. /\ run' = run /\ step' = step /\ spawns' = spawns /\ calls' = calls /\ won' = won
        /\ paused' \in BOOLEAN
    BY <1>1 DEF SetPause, vars, TypeOK
  <2>2. TypeOK' /\ QueueOK'
    BY <2>1 DEF TypeOK, QueueOK
  <2>3. ASSUME NEW q \in Runs PROVE RunOK(q)'
    BY <2>1, Kept
  <2>. QED  BY <2>2, <2>3
<1>2. ASSUME NEW r \in Runs, Loop(r) PROVE Inv'
  BY <1>2, LoopRuns, LoopType, LoopQueue
<1>3. ASSUME NEW r \in Runs, NEW s \in Steps, Work(r, s) PROVE Inv'
  <2>1. run[r].phase = "layer" /\ Frame(r, s) /\ Earning(r, s)
    BY <1>3, WorkOK DEF RunOK
  <2>2. TypeOK' /\ QueueOK'
    BY <2>1, WorkType, WorkQueue DEF Frame
  <2>3. \A q \in Runs : RunOK(q)'
    BY <1>3, WorkRuns
  <2>. QED  BY <2>2, <2>3
<1>. QED  BY <1>1, <1>2, <1>3 DEF Next, Loop, Work

\* Every state of every execution satisfies the invariant: the types, what each
\* run's graph, results and coroutines say of each other, and the queues.
THEOREM Invariance == Spec => []Inv
<1>1. Init => Inv
  BY InitOK
<1>2. Inv /\ [Next]_vars => Inv'
  BY StepKeeps
<1>. QED  BY <1>1, <1>2, PTL DEF Spec

\* The variables keep their types.
THEOREM TypeCorrect == Spec => []TypeOK
<1>1. Inv => TypeOK
  BY DEF Inv
<1>. QED  BY <1>1, Invariance, PTL

-----------------------------------------------------------------------------
(* What the invariant says *)

\* An executor is called only for a step whose dependencies have all a result, and no
\* more often than the retries and the fallback agent allow.
THEOREM CallsAreInOrder == Spec => []CallsInOrder
<1>1. Inv => CallsInOrder
  BY DEF Inv, RunOK, StepOK, Counted, Limit, CallsInOrder
<1>. QED  BY <1>1, Invariance, PTL

\* What a run reports is what happened to its steps.
THEOREM ReportsAreTrue == Spec => []ReportIsTrue
<1>1. ASSUME Inv, NEW r \in Runs
      PROVE  /\ run[r].phase = "over" => Done(r) = run[r].known
             /\ \A s \in Done(r) : Truth(r, s, run[r].out[s])
  <2>1. \A s \in Done(r) : s \in Steps /\ run[r].out[s] # "none"
    BY <1>1 DEF Inv, TypeOK, Run, Done
  <2>. QED  BY <1>1, <2>1 DEF Inv, RunOK, OrderOK, StepOK, Recorded
<1>2. Inv => ReportIsTrue
  BY <1>1 DEF ReportIsTrue, Truth
<1>. QED  BY <1>2, Invariance, PTL

\* A step that looks at its dependencies sees their failures, whenever they came.
THEOREM DependentsSeeFailures == Spec => []FailuresAreSeen
<1>1. ASSUME Inv, NEW r \in Runs, NEW s \in Done(r) PROVE Truth(r, s, run[r].out[s])
  <2>1. s \in Steps /\ run[r].out[s] # "none"
    BY <1>1 DEF Inv, TypeOK, Run, Done
  <2>. QED  BY <1>1, <2>1 DEF Inv, RunOK, StepOK, Recorded
<1>2. Inv => FailuresAreSeen
  BY <1>1 DEF FailuresAreSeen, Truth
<1>. QED  BY <1>2, Invariance, PTL

\* A run that is over, raised or torn down leaves nothing in its queue, shared or not.
THEOREM QueuesAreEmptied == Spec => []NoSpawnLeaks
<1>1. Inv => NoSpawnLeaks
  BY DEF Inv, QueueOK, NoSpawnLeaks, Active
<1>. QED  BY <1>1, Invariance, PTL

\* The loop tells a bad graph from a good one: a graph it refuses was bad when it was
\* submitted, and one it finishes has become good, unless a failure aborted it.
THEOREM BadGraphsAreRefused == Spec => []RefusesBadGraphs
<1>1. ASSUME Inv, NEW r \in Runs, run[r].phase = "over", ~ Aborted(r)
      PROVE  Sound(r, run[r].known)
  <2>1. Layered(r) /\ Done(r) = run[r].known
    BY <1>1 DEF Inv, RunOK, OrderOK
  <2>2. Static[r] \subseteq run[r].known /\ \A s \in Static[r] : run[r].deps[s] = Deps[s]
    BY <1>1 DEF Inv, RunOK, GraphOK
  <2>3. ASSUME NEW S \in SUBSET Static[r], S # {}
        PROVE  \E s \in S : Deps[s] \intersect S = {} /\ Deps[s] \subseteq run[r].known
    <3>1. S \in SUBSET Done(r)
      BY <2>1, <2>2
    <3>2. PICK s \in S : run[r].deps[s] \intersect S = {} /\ run[r].deps[s] \subseteq run[r].known
      BY <2>1, <2>3, <3>1 DEF Layered, Grounded
    <3>. QED  BY <2>2, <3>2
  <2>. QED  BY <2>3 DEF Sound
<1>2. ASSUME Inv, NEW r \in Runs, run[r].phase = "cycle" PROVE ~ Sound(r, Static[r])
  BY <1>2 DEF Inv, RunOK, OrderOK
<1>3. Inv => RefusesBadGraphs
  BY <1>1, <1>2 DEF RefusesBadGraphs
<1>. QED  BY <1>3, Invariance, PTL

\* After a failure that aborts, a run makes no executor call, whatever else it still
\* had to start.
THEOREM AbortsAreFinal == Spec => AbortIsFinal
<1>1. ASSUME Inv, [Next]_vars, NEW r \in Runs, Aborted(r) PROVE calls'[r] = calls[r]
  <2>1. CASE SetPause \/ UNCHANGED vars
    BY <2>1 DEF SetPause, vars
  <2>2. ASSUME NEW q \in Runs, Loop(q) PROVE calls'[r] = calls[r]
    BY <1>1, <2>2, LoopFrame DEF Inv
  <2>3. ASSUME NEW q \in Runs, NEW s \in Steps, Work(q, s) PROVE calls'[r] = calls[r]
    <3>1. run[q].phase = "layer" /\ Frame(q, s)
      BY <1>1, <2>3, WorkOK DEF Inv, RunOK
    <3>2. q # r
      BY <1>1, <3>1 DEF Inv, RunOK, OrderOK
    <3>. QED  BY <3>1, <3>2 DEF Frame
  <2>. QED  BY <1>1, <2>1, <2>2, <2>3 DEF Next, Loop, Work
<1>2. Inv /\ [Next]_vars => [\A r \in Runs : Aborted(r) => calls'[r] = calls[r]]_vars
  BY <1>1
<1>. QED  BY <1>2, Invariance, PTL DEF Spec, AbortIsFinal

-----------------------------------------------------------------------------
(* Where the spawned steps come from *)

\* Every run has a trace id of its own.
OwnTrace == \A q, r \in Runs : Trace[q] = Trace[r] => q = r

\* A pair is of a directive that an executor of run r gave and that counts: the step
\* has succeeded, or has just done so in this layer, or the sub-step was won.
Given(r, pair) == pair[2] \in ToSet(Offer[pair[1]]) /\ calls[r][pair[1]] > 0

Earned(r, pair) ==
    /\ Given(r, pair)
    /\ IF pair[1] \in Steps THEN run[r].out[pair[1]] = "success" ELSE <<r, pair[1]>> \in won

JustEarned(r, pair) ==
    /\ Given(r, pair)
    /\ IF pair[1] \in Steps THEN step[r][pair[1]].at = "ended" /\ step[r][pair[1]].res = "success"
       ELSE <<r, pair[1]>> \in won

EarnedOK(r) ==
    /\ \A k \in DOMAIN Queue(r) : JustEarned(r, Queue(r)[k])
    /\ \A k \in DOMAIN run[r].todo : Earned(r, run[r].todo[k])
    /\ \A t \in Grown(r) : \E s \in Ids : Earned(r, <<s, t>>)

EarnInv == Inv /\ \A r \in Runs : EarnedOK(r)

\* Outside a layer a run has no directive waiting.
LEMMA NoLayerNoQueue ==
    ASSUME OwnTrace, QueueOK, NEW r \in Runs, run[r].phase # "layer"
    PROVE  Queue(r) = <<>>
BY DEF OwnTrace, QueueOK, Queue, Traces

\* What was earned stays earned.
LEMMA EarnedKept ==
    ASSUME TypeOK, TypeOK', NEW r \in Runs, NEW pair \in Ids \X Steps, Earned(r, pair),
           calls'[r][pair[1]] >= calls[r][pair[1]], won \subseteq won',
           pair[1] \in Steps /\ run[r].out[pair[1]] = "success" => run'[r].out[pair[1]] = "success"
    PROVE  Earned(r, pair)'
<1>1. calls[r][pair[1]] \in Nat /\ calls'[r][pair[1]] \in Nat
  BY DEF TypeOK
<1>2. Given(r, pair)'
  BY <1>1 DEF Earned, Given
<1>. QED  BY <1>2 DEF Earned

LEMMA PairTypes ==
    ASSUME TypeOK, NEW r \in Runs
    PROVE  /\ Queue(r) \in Seq(Ids \X Steps) /\ run[r].todo \in Seq(Ids \X Steps)
           /\ \A k \in DOMAIN Queue(r) : Queue(r)[k] \in Ids \X Steps
           /\ \A k \in DOMAIN run[r].todo : run[r].todo[k] \in Ids \X Steps
           /\ run[r].known \subseteq Steps
<1>1. Queue(r) \in Seq(Ids \X Steps) /\ run[r] \in Run
  BY DEF TypeOK, Queue, Traces
<1>2. run[r].todo \in Seq(Ids \X Steps) /\ run[r].known \subseteq Steps
  BY <1>1 DEF Run
<1>. QED  BY <1>1, <1>2

\* A run of which nothing changes but what may be appended to won.
LEMMA EarnedUntouched ==
    ASSUME TypeOK, TypeOK', NEW q \in Runs, EarnedOK(q), run'[q] = run[q], step'[q] = step[q],
           calls'[q] = calls[q], won \subseteq won', Queue(q)' = Queue(q)
    PROVE  EarnedOK(q)'
<1>1. \A pair : Earned(q, pair) => Earned(q, pair)'
  BY DEF Earned, Given
<1>2. \A pair : JustEarned(q, pair) => JustEarned(q, pair)'
  BY DEF JustEarned, Given
<1>3. Grown(q)' = Grown(q)
  BY DEF Grown
<1>4. ASSUME NEW k \in DOMAIN Queue(q)' PROVE JustEarned(q, Queue(q)[k])'
  <2>1. PICK pair : pair = Queue(q)[k]
    OBVIOUS
  <2>2. JustEarned(q, pair)
    BY <1>4, <2>1 DEF EarnedOK
  <2>. QED  BY <1>2, <2>1, <2>2
<1>5. ASSUME NEW k \in DOMAIN run'[q].todo PROVE Earned(q, run[q].todo[k])'
  <2>1. PICK pair : pair = run[q].todo[k]
    OBVIOUS
  <2>2. Earned(q, pair)
    BY <1>5, <2>1 DEF EarnedOK
  <2>. QED  BY <1>1, <2>1, <2>2
<1>6. ASSUME NEW t \in Grown(q)' PROVE \E s \in Ids : Earned(q, <<s, t>>)'
  BY <1>1, <1>3, <1>6 DEF EarnedOK
<1>. QED  BY <1>4, <1>5, <1>6 DEF EarnedOK

\* The step of a coroutine keeps and adds earned directives only.
LEMMA WorkEarns ==
    ASSUME OwnTrace, EarnInv, TypeOK', NEW r \in Runs, NEW s \in Steps, Work(r, s)
    PROVE  \A q \in Runs : EarnedOK(q)'
<1>1. /\ TypeOK /\ Frame(r, s) /\ Earning(r, s) /\ EarnedOK(r)
      /\ run' = run /\ won \subseteq won' /\ step[r][s].at \in {"queued", "call"}
  BY WorkOK DEF EarnInv, Inv, RunOK, Frame
<1>2. PICK place : Moves(r, s, place)
  BY <1>1 DEF Frame
<1>3. /\ \A q \in Runs, u \in Ids : calls'[q][u] >= calls[q][u]
      /\ \A u \in Steps \ {s} : step'[r][u] = step[r][u]
      /\ \A q \in Runs \ {r} : calls'[q] = calls[q] /\ step'[q] = step[q]
  <2>1. \A u \in Steps \ {s} : step'[r][u] = step[r][u]
    BY <1>1, <1>2, MovedTo
  <2>2. \A q \in Runs \ {r} : step'[q] = step[q]
    BY <1>1, <1>2 DEF Moves, TypeOK
  <2>. QED  BY <1>1, <2>1, <2>2 DEF Frame
<1>4. ASSUME NEW q \in Runs \ {r} PROVE EarnedOK(q)'
  <2>1. Queue(q)' = Queue(q)
    <3>1. Trace[q] # Trace[r] /\ Trace[q] \in Traces
      BY DEF OwnTrace, Traces
    <3>. QED  BY <1>1, <3>1 DEF Earning, Record, Queue, TypeOK
  <2>. QED  BY <1>1, <1>3, <2>1, EarnedUntouched DEF EarnInv
<1>5. ASSUME NEW pair \in Ids \X Steps, JustEarned(r, pair) PROVE JustEarned(r, pair)'
  <2>1. calls'[r][pair[1]] >= calls[r][pair[1]] /\ calls[r][pair[1]] \in Nat
        /\ calls'[r][pair[1]] \in Nat
    BY <1>1, <1>3 DEF TypeOK
  <2>2. pair[1] \in Steps => pair[1] # s
    BY <1>1, <1>5 DEF JustEarned
  <2>. QED  BY <1>1, <1>3, <1>5, <2>1, <2>2 DEF JustEarned, Given
<1>6. ASSUME NEW pair \in Ids \X Steps, Earned(r, pair) PROVE Earned(r, pair)'
  BY <1>1, <1>3, <1>6, EarnedKept
<1>7. ASSUME NEW k \in DOMAIN Queue(r)' PROVE JustEarned(r, Queue(r)[k])'
  <2>1. CASE spawns' = spawns
    <3>1. PICK pair : pair = Queue(r)[k]
      OBVIOUS
    <3>2. Queue(r)' = Queue(r)
      BY <2>1 DEF Queue
    <3>3. pair \in Ids \X Steps /\ JustEarned(r, pair)
      BY <1>1, <1>7, <3>1, <3>2, PairTypes DEF EarnedOK
    <3>. QED  BY <1>5, <3>1, <3>2, <3>3
  <2>2. ASSUME NEW w \in Ids, Record(r, w), calls'[r][w] > 0,
               IF w \in Steps
               THEN w = s /\ step'[r][s].at = "ended" /\ step'[r][s].res = "success"
               ELSE <<r, w>> \in won'
        PROVE  JustEarned(r, Queue(r)[k])'
    <3>1. /\ Directive(w) \in Seq(Ids \X Steps) /\ Queue(r) \in Seq(Ids \X Steps)
          /\ \A j \in DOMAIN Directive(w) :
                Directive(w)[j][1] = w /\ Directive(w)[j][2] \in ToSet(Offer[w])
      BY <1>1, DirectiveType, PairTypes
    <3>2. Queue(r)' = Queue(r) \o Directive(w)
      BY <1>1, <2>2 DEF Record, Queue, TypeOK, Traces
    <3>3. PICK pair : pair = Queue(r)'[k]
      OBVIOUS
    <3>4. \/ k \in DOMAIN Queue(r) /\ pair = Queue(r)[k]
          \/ \E j \in DOMAIN Directive(w) : pair = Directive(w)[j]
      BY <1>7, <3>1, <3>2, <3>3
    <3>5. CASE k \in DOMAIN Queue(r) /\ pair = Queue(r)[k]
      <4>1. pair \in Ids \X Steps /\ JustEarned(r, pair)
        BY <1>1, <3>5, PairTypes DEF EarnedOK
      <4>. QED  BY <1>5, <3>3, <4>1
    <3>6. CASE \E j \in DOMAIN Directive(w) : pair = Directive(w)[j]
      <4>1. pair[1] = w /\ pair[2] \in ToSet(Offer[w])
        BY <3>1, <3>6
      <4>2. JustEarned(r, pair)'
        BY <2>2, <4>1 DEF JustEarned, Given
      <4>. QED  BY <3>3, <4>2
    <3>. QED  BY <3>4, <3>5, <3>6
  <2>. QED  BY <1>1, <2>1, <2>2 DEF Earning
<1>8. ASSUME NEW k \in DOMAIN run'[r].todo PROVE Earned(r, run[r].todo[k])'
  <2>1. PICK pair : pair = run[r].todo[k]
    OBVIOUS
  <2>2. pair \in Ids \X Steps /\ Earned(r, pair)
    BY <1>1, <1>8, <2>1, PairTypes DEF EarnedOK
  <2>. QED  BY <1>1, <1>6, <2>1, <2>2
<1>9. ASSUME NEW t \in Grown(r)' PROVE \E u \in Ids : Earned(r, <<u, t>>)'
  <2>1. t \in Grown(r) /\ t \in Steps
    BY <1>1, <1>9, PairTypes DEF Grown
  <2>2. PICK u \in Ids : Earned(r, <<u, t>>)
    BY <1>1, <2>1 DEF EarnedOK
  <2>3. <<u, t>> \in Ids \X Steps
    BY <2>1
  <2>. QED  BY <1>6, <2>2, <2>3
<1>10. EarnedOK(r)'
  BY <1>7, <1>8, <1>9 DEF EarnedOK
<1>. QED  BY <1>4, <1>10

\* What a step of the run loop does to results, to the pairs being merged and to the graph.
LEMMA LoopEffect ==
    ASSUME Inv, NEW r \in Runs, Loop(r)
    PROVE  /\ \A s \in Steps : run[r].out[s] = "success" => run'[r].out[s] = "success"
           /\ \/ run'[r].todo = run[r].todo
              \/ run[r].todo # <<>> /\ run'[r].todo = Tail(run[r].todo)
              \/ /\ run'[r].todo = Queue(r)
                 /\ \A s \in Steps : step[r][s].at = "ended" /\ step[r][s].res = "success"
                                     => run'[r].out[s] = "success"
           /\ \A t \in Grown(r)' : t \in Grown(r) \/ (run[r].todo # <<>> /\ t = Head(run[r].todo)[2])
<1>1. run \in [Runs -> Run] /\ run[r] \in Run /\ RunOK(r) /\ TypeOK
  BY DEF Inv, TypeOK
<1>2. CASE Submit(r)
  <2>1. /\ run'[r].out = run[r].out /\ run'[r].todo = run[r].todo /\ run'[r].known = Static[r]
    BY <1>1, <1>2 DEF Submit, Run
  <2>. QED  BY <2>1 DEF Grown
<1>3. ASSUME NEW phase, run' = [run EXCEPT ![r].phase = phase]
      PROVE  /\ run'[r].out = run[r].out /\ run'[r].todo = run[r].todo /\ Grown(r)' = Grown(r)
  BY <1>1, <1>3 DEF Grown, Run
<1>4. CASE NoMoreLayers(r) \/ Hold(r) \/ StartLayer(r) \/ Cancel(r)
  BY <1>3, <1>4 DEF NoMoreLayers, Hold, StartLayer, Cancel
<1>5. CASE Abort(r)
  <2>1. /\ run'[r].out = [s \in Steps |-> IF s \in run[r].known \ Done(r)
                                          THEN "skipped" ELSE run[r].out[s]]
        /\ run'[r].todo = run[r].todo /\ run'[r].known = run[r].known
    BY <1>1, <1>5 DEF Abort, Run
  <2>2. \A s \in run[r].known \ Done(r) : run[r].out[s] = "none"
    BY DEF Done
  <2>. QED  BY <2>1, <2>2 DEF Grown
<1>6. CASE EndLayer(r)
  <2>1. CASE \E s \in Steps : step[r][s].res = "cancelled"
    BY <1>3, <1>6, <2>1 DEF EndLayer
  <2>2. CASE ~ \E s \in Steps : step[r][s].res = "cancelled"
    <3>1. /\ run'[r].out = Told(r) /\ run'[r].todo = Queue(r) /\ run'[r].known = run[r].known
      BY <1>1, <1>6, <2>2 DEF EndLayer, Run
    <3>2. \A s \in Steps : step[r][s].at = "ended" => run[r].out[s] = "none"
      BY <1>1 DEF RunOK, StepOK, InPlace, Due
    <3>. QED  BY <3>1, <3>2 DEF Told, Grown
  <2>. QED  BY <2>1, <2>2
<1>7. CASE MergeSpawn(r)
  <2>1. /\ run'[r].out = run[r].out
        /\ run[r].todo # <<>> /\ run'[r].todo = Tail(run[r].todo)
        /\ Stays(r) \/ \E deps : Joins(r, Head(run[r].todo)[2], deps)
    BY <1>1, <1>7, MergeShape
  <2>. QED  BY <2>1 DEF Stays, Joins, Grown
<1>. QED  BY <1>2, <1>4, <1>5, <1>6, <1>7 DEF Loop, RunStep

LEMMA LoopEarns ==
    ASSUME OwnTrace, EarnInv, Inv', NEW r \in Runs, Loop(r)
    PROVE  \A q \in Runs : EarnedOK(q)'
<1>1. /\ TypeOK /\ TypeOK' /\ QueueOK /\ EarnedOK(r) /\ calls' = calls /\ won' = won
      /\ \A q \in Runs \ {r} : run'[q] = run[q] /\ step'[q] = step[q]
      /\ spawns' = spawns \/ Pop(r)
  BY LoopFrame DEF EarnInv, Inv
<1>2. ASSUME NEW q \in Runs \ {r} PROVE EarnedOK(q)'
  <2>1. Trace[q] # Trace[r] /\ Trace[q] \in Traces
    BY DEF OwnTrace, Traces
  <2>2. Queue(q)' = Queue(q)
    BY <1>1, <2>1 DEF Pop, Queue, TypeOK
  <2>. QED  BY <1>1, <2>2, EarnedUntouched DEF EarnInv
<1>3. Queue(r)' = <<>>
  <2>1. CASE run[r].phase = "layer"
    <3>1. Pop(r)
      BY <2>1 DEF Loop, RunStep, Submit, Cancel, NoMoreLayers, Hold, Abort, StartLayer, EndLayer,
                  MergeSpawn, Unpaused
    <3>. QED  BY <1>1, <3>1 DEF Pop, Queue, TypeOK, Traces
  <2>2. CASE run[r].phase # "layer"
    <3>1. Queue(r) = <<>>
      BY <1>1, <2>2, NoLayerNoQueue
    <3>. QED  BY <1>1, <3>1 DEF Pop, Queue, TypeOK, Traces
  <2>. QED  BY <2>1, <2>2
<1>4. /\ \A s \in Steps : run[r].out[s] = "success" => run'[r].out[s] = "success"
      /\ \/ run'[r].todo = run[r].todo
         \/ run[r].todo # <<>> /\ run'[r].todo = Tail(run[r].todo)
         \/ /\ run'[r].todo = Queue(r)
            /\ \A s \in Steps : step[r][s].at = "ended" /\ step[r][s].res = "success"
                                => run'[r].out[s] = "success"
      /\ \A t \in Grown(r)' : t \in Grown(r) \/ (run[r].todo # <<>> /\ t = Head(run[r].todo)[2])
  BY LoopEffect DEF EarnInv
<1>5. ASSUME NEW pair \in Ids \X Steps, Earned(r, pair) PROVE Earned(r, pair)'
  <2>1. calls'[r][pair[1]] >= calls[r][pair[1]]
    BY <1>1 DEF TypeOK
  <2>. QED  BY <1>1, <1>4, <1>5, <2>1, EarnedKept
<1>6. run[r].todo \in Seq(Ids \X Steps) /\ Queue(r) \in Seq(Ids \X Steps)
  BY <1>1, PairTypes
<1>7. ASSUME NEW k \in DOMAIN run[r].todo PROVE Earned(r, run[r].todo[k]) /\ run[r].todo[k] \in Ids \X Steps
  BY <1>1, <1>7, PairTypes DEF EarnedOK
<1>8. ASSUME NEW k \in DOMAIN run'[r].todo PROVE Earned(r, run[r].todo[k])'
  <2>1. PICK pair : pair = run'[r].todo[k]
    OBVIOUS
  <2>2. CASE run'[r].todo = run[r].todo
    BY <1>5, <1>7, <1>8, <2>1, <2>2
  <2>3. CASE run[r].todo # <<>> /\ run'[r].todo = Tail(run[r].todo)
    <3>1. k + 1 \in DOMAIN run[r].todo /\ pair = run[r].todo[k + 1]
      BY <1>6, <1>8, <2>1, <2>3
    <3>. QED  BY <1>5, <1>7, <2>1, <3>1
  <2>4. CASE /\ run'[r].todo = Queue(r)
             /\ \A s \in Steps : step[r][s].at = "ended" /\ step[r][s].res = "success"
                                 => run'[r].out[s] = "success"
    <3>1. JustEarned(r, pair)
      BY <1>1, <1>8, <2>1, <2>4 DEF EarnedOK
    <3>2. Earned(r, pair)'
      BY <1>1, <2>4, <3>1 DEF JustEarned, Earned, Given
    <3>. QED  BY <2>1, <3>2
  <2>. QED  BY <1>4, <2>2, <2>3, <2>4
<1>9. ASSUME NEW t \in Grown(r)' PROVE \E s \in Ids : Earned(r, <<s, t>>)'
  <2>1. t \in Steps
    BY <1>1, <1>9 DEF Grown, TypeOK, Run
  <2>2. CASE t \in Grown(r)
    <3>1. PICK s \in Ids : Earned(r, <<s, t>>)
      BY <1>1, <2>2 DEF EarnedOK
    <3>. QED  BY <1>5, <2>1, <3>1
  <2>3. CASE run[r].todo # <<>> /\ t = Head(run[r].todo)[2]
    <3>1. 1 \in DOMAIN run[r].todo /\ Head(run[r].todo) = run[r].todo[1]
      BY <1>6, <2>3
    <3>2. PICK pair \in Ids \X Steps : pair = run[r].todo[1] /\ Earned(r, pair)
      BY <1>7, <3>1
    <3>3. pair = <<pair[1], t>> /\ pair[1] \in Ids
      BY <2>3, <3>1, <3>2
    <3>. QED  BY <1>5, <3>2, <3>3
  <2>. QED  BY <1>4, <1>9, <2>2, <2>3
<1>10. EarnedOK(r)'
  BY <1>3, <1>8, <1>9 DEF EarnedOK
<1>. QED  BY <1>2, <1>10

LEMMA EarnedStep ==
    ASSUME OwnTrace, EarnInv, [Next]_vars
    PROVE  EarnInv'
<1>1. Inv'
  BY StepKeeps DEF EarnInv
<1>2. CASE SetPause \/ UNCHANGED vars
  <2>1. /\ run' = run /\ step' = step /\ spawns' = spawns /\ calls' = calls /\ won' = won
    BY <1>2 DEF SetPause, vars
  <2>2. ASSUME NEW q \in Runs PROVE EarnedOK(q)'
    BY <1>1, <2>1, EarnedUntouched DEF EarnInv, Inv, Queue
  <2>. QED  BY <1>1, <2>2 DEF EarnInv
<1>3. ASSUME NEW r \in Runs, Loop(r) PROVE EarnInv'
  BY <1>1, <1>3, LoopEarns DEF EarnInv
<1>4. ASSUME NEW r \in Runs, NEW s \in Steps, Work(r, s) PROVE EarnInv'
  BY <1>1, <1>4, WorkEarns DEF EarnInv, Inv
<1>. QED  BY <1>2, <1>3, <1>4 DEF Next, Loop, Work

LEMMA EarnedInit == Init => EarnInv
<1> SUFFICES ASSUME Init PROVE EarnInv
  OBVIOUS
<1>1. ASSUME NEW r \in Runs PROVE EarnedOK(r)
  <2>1. Queue(r) = <<>> /\ run[r].todo = <<>> /\ Grown(r) = {}
    BY DEF Init, Queue, Grown, Traces
  <2>. QED  BY <2>1 DEF EarnedOK
<1>. QED  BY <1>1, InitOK DEF EarnInv

\* When every run has a trace id of its own, a step joins a graph only if a step or
\* sub-step of that run that succeeded spawned it, and at most MaxSpawned do.
THEOREM SpawnedStepsAreEarned ==
    ASSUME OwnTrace
    PROVE  Spec => []SpawnsAreEarned
<1>1. EarnInv => SpawnsAreEarned
  <2>1. ASSUME EarnInv, NEW r \in Runs
        PROVE  /\ Cardinality(run[r].known \ Static[r]) <= MaxSpawned
               /\ \A t \in run[r].known \ Static[r] : \E s \in Ids : Earned(r, <<s, t>>)
    BY <2>1 DEF EarnInv, Inv, RunOK, GraphOK, EarnedOK, Grown
  <2>. QED  BY <2>1 DEF SpawnsAreEarned, Earned, Given, Ids
<1>2. EarnInv /\ [Next]_vars => EarnInv'
  BY EarnedStep
<1>. QED  BY <1>1, <1>2, EarnedInit, PTL DEF Spec

-----------------------------------------------------------------------------
(* The refinement of GraphRun *)

\* What GraphRun sees of a run whose locals are R.
PhaseOf(R) == CASE R.phase \in {"loop", "held", "layer", "merge"} -> "active"
                [] R.phase \in {"cycle", "crashed"} -> "raised"
                [] OTHER -> R.phase

mphase == [r \in Runs |-> PhaseOf(run[r])]
mknown == [r \in Runs |-> run[r].known]
mdeps == [r \in Runs |-> run[r].deps]
mout == [r \in Runs |-> run[r].out]

MOthers(r) == \A q \in Runs \ {r} : /\ mphase'[q] = mphase[q] /\ mknown'[q] = mknown[q]
                                    /\ mdeps'[q] = mdeps[q] /\ mout'[q] = mout[q]
MSubmit(r) ==
    /\ mphase[r] # "active"
    /\ mphase' = [mphase EXCEPT ![r] = "active"]
    /\ mknown'[r] \subseteq Steps
    /\ mout' = [mout EXCEPT ![r] = [s \in Steps |-> "none"]]
    /\ MOthers(r)
MProgress(r) ==
    /\ mphase[r] = "active"
    /\ mphase' \in {[mphase EXCEPT ![r] = p] : p \in {"active", "over", "raised"}}
    /\ mknown[r] \subseteq mknown'[r] /\ mknown'[r] \subseteq Steps
    /\ \A s \in mknown[r] : mdeps'[r][s] = mdeps[r][s]
    /\ \A s \in Steps :
        \/ mout'[r][s] = mout[r][s]
        \/ /\ mout[r][s] = "none" /\ s \in mknown[r] /\ mout'[r][s] \in {"success", "failed", "skipped"}
           /\ mout'[r][s] # "skipped" => mdeps[r][s] \subseteq {d \in Steps : mout[r][d] # "none"}
    /\ mphase'[r] = "over" => \A s \in mknown'[r] : mout'[r][s] # "none"
    /\ MOthers(r)

LEMMA MappedVars ==
    /\ Promise!vars = <<mphase, mknown, mdeps, mout>>
    /\ \A r \in Runs : Promise!Submit(r) <=> MSubmit(r)
    /\ \A r \in Runs : Promise!Progress(r) <=> MProgress(r)
<1>1. Promise!vars = <<mphase, mknown, mdeps, mout>>
  BY DEF Promise!vars, mphase, mknown, mdeps, mout, PhaseOf, Active
<1>2. \A r \in Runs : Promise!Submit(r) <=> MSubmit(r)
  BY DEF Promise!Submit, Promise!Others, MSubmit, MOthers, mphase, mknown, mdeps, mout, PhaseOf, Active
<1>3. \A r \in Runs : Promise!Progress(r) <=> MProgress(r)
  BY DEF Promise!Progress, Promise!Grows, Promise!Settles, Promise!Others, Promise!Result, Promise!Settled,
         MProgress, MOthers, mphase, mknown, mdeps, mout, PhaseOf, Active
<1>. QED  BY <1>1, <1>2, <1>3

LEMMA MappedOthers ==
    ASSUME NEW r \in Runs, \A q \in Runs \ {r} : run'[q] = run[q]
    PROVE  /\ MOthers(r)
           /\ mphase' = [mphase EXCEPT ![r] = PhaseOf(run'[r])]
           /\ mknown'[r] = run'[r].known /\ mdeps'[r] = run'[r].deps
           /\ mout' = [mout EXCEPT ![r] = run'[r].out]
<1>1. \A q \in Runs \ {r} : PhaseOf(run'[q]) = PhaseOf(run[q])
  OBVIOUS
<1>2. mphase' = [q \in Runs |-> PhaseOf(run'[q])] /\ mphase = [q \in Runs |-> PhaseOf(run[q])]
  BY DEF mphase, PhaseOf
<1>3. mphase' = [mphase EXCEPT ![r] = PhaseOf(run'[r])]
  BY <1>1, <1>2
<1>4. mout' = [mout EXCEPT ![r] = run'[r].out]
  BY DEF mout
<1>5. /\ mknown'[r] = run'[r].known /\ mdeps'[r] = run'[r].deps
      /\ \A q \in Runs \ {r} : /\ mknown'[q] = mknown[q] /\ mdeps'[q] = mdeps[q]
                               /\ mout'[q] = mout[q]
  BY DEF mknown, mdeps, mout
<1>6. MOthers(r)
  BY <1>1, <1>2, <1>5 DEF MOthers
<1>. QED  BY <1>3, <1>4, <1>5, <1>6

LEMMA MappedSubmit ==
    ASSUME Inv, NEW r \in Runs, Submit(r)
    PROVE  MSubmit(r)
<1>1. /\ run[r].phase = "new" /\ \A q \in Runs \ {r} : run'[q] = run[q]
      /\ run[r] \in Run /\ RunOK(r)
  BY DEF Inv, Submit, TypeOK
<1>2. run'[r].phase = "loop" /\ run'[r].known = Static[r] /\ run'[r].out = run[r].out
  BY <1>1 DEF Submit, Inv, TypeOK, Run
<1>3. run[r].out = [s \in Steps |-> "none"]
  <2>1. \A s \in Steps : run[r].out[s] = "none"
    BY <1>1 DEF RunOK, GraphOK, StepOK, Recorded
  <2>. QED  BY <1>1, <2>1 DEF Run
<1>4. mphase[r] # "active" /\ PhaseOf(run'[r]) = "active"
  BY <1>1, <1>2 DEF mphase, PhaseOf
<1>5. Static[r] \subseteq Steps
  BY EngineAssumption
<1>. QED  BY <1>1, <1>2, <1>3, <1>4, <1>5, MappedOthers DEF MSubmit

\* What a step of an active run does to its phase, its graph and its results.
Advances(r) ==
    /\ run[r].phase \in {"loop", "held", "layer", "merge"}
    /\ run'[r].phase # "new"
    /\ run[r].known \subseteq run'[r].known
    /\ \A s \in run[r].known : run'[r].deps[s] = run[r].deps[s]
    /\ \A s \in Steps :
        \/ run'[r].out[s] = run[r].out[s]
        \/ /\ run[r].out[s] = "none" /\ s \in run[r].known /\ run'[r].out[s] # "none"
           /\ run'[r].out[s] # "skipped" => run[r].deps[s] \subseteq Done(r)

LEMMA LoopAdvances ==
    ASSUME Inv, NEW r \in Runs, RunStep(r) \/ Cancel(r)
    PROVE  Advances(r)
<1>1. run \in [Runs -> Run] /\ run[r] \in Run /\ RunOK(r) /\ TypeOK
  BY DEF Inv, TypeOK
<1>2. run[r].phase \in {"loop", "held", "layer", "merge"}
  BY DEF RunStep, Cancel, NoMoreLayers, Hold, Abort, StartLayer, EndLayer, MergeSpawn, Unpaused
<1>3. ASSUME NEW phase, phase # "new", run' = [run EXCEPT ![r].phase = phase]
      PROVE  Advances(r)
  <2>1. /\ run'[r].phase = phase /\ run'[r].out = run[r].out /\ run'[r].known = run[r].known
        /\ run'[r].deps = run[r].deps
    BY <1>1, <1>3 DEF Run
  <2>. QED  BY <1>2, <1>3, <2>1 DEF Advances
<1>4. CASE NoMoreLayers(r) \/ Hold(r) \/ StartLayer(r) \/ Cancel(r)
  BY <1>3, <1>4 DEF NoMoreLayers, Hold, StartLayer, Cancel
<1>5. CASE Abort(r)
  <2>1. /\ run'[r].out = [s \in Steps |-> IF s \in run[r].known \ Done(r)
                                          THEN "skipped" ELSE run[r].out[s]]
        /\ run'[r].phase = "over" /\ run'[r].known = run[r].known /\ run'[r].deps = run[r].deps
    BY <1>1, <1>5 DEF Abort, Run
  <2>2. \A s \in run[r].known \ Done(r) : run[r].out[s] = "none"
    BY DEF Done
  <2>. QED  BY <1>2, <2>1, <2>2 DEF Advances
<1>6. CASE EndLayer(r)
  <2>1. CASE \E s \in Steps : step[r][s].res = "cancelled"
    BY <1>3, <1>6, <2>1 DEF EndLayer
  <2>2. CASE ~ \E s \in Steps : step[r][s].res = "cancelled"
    <3>1. /\ run'[r].out = Told(r) /\ run'[r].phase = Merging(Queue(r))
          /\ run'[r].known = run[r].known /\ run'[r].deps = run[r].deps
      BY <1>1, <1>6, <2>2 DEF EndLayer, Run
    <3>2. ASSUME NEW s \in Steps, step[r][s].at = "ended"
          PROVE  /\ run[r].out[s] = "none" /\ s \in run[r].known /\ step[r][s].res # "none"
                 /\ run[r].deps[s] \subseteq Done(r)
      BY <1>1, <3>2 DEF RunOK, StepOK, InPlace, Due
    <3>3. run'[r].phase # "new"
      BY <3>1 DEF Merging
    <3>. QED  BY <1>2, <3>1, <3>2, <3>3 DEF Told, Advances
  <2>. QED  BY <2>1, <2>2
<1>7. CASE MergeSpawn(r)
  <2>1. /\ run'[r].out = run[r].out /\ run'[r].phase = Merging(Tail(run[r].todo))
        /\ Stays(r) \/ \E deps : Joins(r, Head(run[r].todo)[2], deps)
    BY <1>1, <1>7, MergeShape
  <2>2. run'[r].phase # "new"
    BY <2>1 DEF Merging
  <2>3. /\ run[r].known \subseteq run'[r].known
        /\ \A s \in run[r].known : run'[r].deps[s] = run[r].deps[s]
    BY <1>1, <2>1 DEF Stays, Joins, Run
  <2>. QED  BY <1>2, <2>1, <2>2, <2>3 DEF Advances
<1>. QED  BY <1>4, <1>5, <1>6, <1>7 DEF RunStep

LEMMA MappedProgress ==
    ASSUME Inv, Inv', NEW r \in Runs, RunStep(r) \/ Cancel(r)
    PROVE  MProgress(r)
<1> DEFINE R == run[r]
           Q == run'[r]
<1>1. /\ Advances(r) /\ R \in Run /\ Q \in Run /\ RunOK(r) /\ RunOK(r)'
      /\ \A q \in Runs \ {r} : run'[q] = run[q]
  BY LoopAdvances, LoopFrame DEF Loop, Inv, TypeOK
<1>2. /\ mphase[r] = "active" /\ mknown[r] = R.known /\ mdeps[r] = R.deps /\ mout[r] = R.out
  BY <1>1 DEF Advances, mphase, mknown, mdeps, mout, PhaseOf
<1>3. /\ PhaseOf(Q) \in {"active", "over", "raised"} /\ (PhaseOf(Q) = "over" => Q.phase = "over")
  BY <1>1 DEF PhaseOf, Advances, Run
<1>4. /\ MOthers(r) /\ mphase' = [mphase EXCEPT ![r] = PhaseOf(Q)] /\ mphase'[r] = PhaseOf(Q)
      /\ mknown'[r] = Q.known /\ mdeps'[r] = Q.deps /\ mout'[r] = Q.out
  BY <1>1, MappedOthers DEF mphase, mout
<1>5. R.known \subseteq Q.known /\ Q.known \subseteq Steps /\ \A s \in R.known : Q.deps[s] = R.deps[s]
  BY <1>1 DEF Advances, Run
<1>6. ASSUME NEW s \in Steps
      PROVE  \/ Q.out[s] = R.out[s]
             \/ /\ R.out[s] = "none" /\ s \in R.known /\ Q.out[s] \in {"success", "failed", "skipped"}
                /\ Q.out[s] # "skipped" => R.deps[s] \subseteq {d \in Steps : R.out[d] # "none"}
  <2>1. Q.out[s] \in {"none", "success", "failed", "skipped"}
    BY <1>1 DEF Run
  <2>2. Done(r) \subseteq {d \in Steps : R.out[d] # "none"}
    BY <1>1 DEF Done, Run
  <2>. QED  BY <1>1, <2>1, <2>2 DEF Advances
<1>7. Q.phase = "over" => \A s \in Q.known : Q.out[s] # "none"
  BY <1>1 DEF RunOK, OrderOK, Done
<1>8. mphase' \in {[mphase EXCEPT ![r] = p] : p \in {"active", "over", "raised"}}
  BY <1>3, <1>4
<1> HIDE DEF R, Q
<1>. QED  BY <1>2, <1>3, <1>4, <1>5, <1>6, <1>7, <1>8 DEF MProgress

LEMMA MappedInit == Init => Promise!Init
<1> SUFFICES ASSUME Init PROVE Promise!Init
  OBVIOUS
<1>1. \A r \in Runs : /\ run[r].phase = "new" /\ run[r].known = {}
                      /\ run[r].out = [s \in Steps |-> "none"]
  BY DEF Init
<1>2. mphase = [r \in Runs |-> "new"] /\ mknown = [r \in Runs |-> {}]
      /\ mout = [r \in Runs |-> [s \in Steps |-> "none"]]
  BY <1>1 DEF mphase, mknown, mout, PhaseOf
<1>. QED  BY <1>2 DEF Promise!Init, mphase, mknown, mout, PhaseOf, Active

\* A local run is a run of GraphRun, as far as safety goes: results are final and come in
\* dependency order while the graph grows, whatever the executors do, and a run that
\* returns has a result for each step.
THEOREM KeepsTheBackendPromise == Spec => Promise!Safe
<1>1. Inv /\ Inv' /\ [Next]_vars => [Promise!Next]_(Promise!vars)
  <2> SUFFICES ASSUME Inv, Inv', [Next]_vars PROVE Promise!Next \/ UNCHANGED Promise!vars
    OBVIOUS
  <2>1. ASSUME NEW r \in Runs, Submit(r) PROVE Promise!Next
    BY <2>1, MappedSubmit, MappedVars DEF Promise!Next
  <2>2. ASSUME NEW r \in Runs, RunStep(r) \/ Cancel(r) PROVE Promise!Next
    BY <2>2, MappedProgress, MappedVars DEF Promise!Next
  <2>3. ASSUME run' = run PROVE UNCHANGED Promise!vars
    BY <2>3 DEF Promise!vars, Active
  <2>4. ASSUME NEW r \in Runs, NEW s \in Steps, Work(r, s) PROVE run' = run
    BY <2>4, WorkOK DEF Inv, RunOK, Frame
  <2>5. SetPause \/ UNCHANGED vars => run' = run
    BY DEF SetPause, vars
  <2>. QED  BY <2>1, <2>2, <2>3, <2>4, <2>5 DEF Next, Work
<1>. QED  BY <1>1, MappedInit, Invariance, PTL DEF Spec, Promise!Safe
=============================================================================
