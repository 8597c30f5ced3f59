----------------------- MODULE PreemptablePool_proofs -----------------------
(* Theorems of PreemptablePool, for any jobs, priorities, deadlines, number *)
(* of slots and limit of preemptions.                                      *)
EXTENDS PreemptablePool, TLAPS, SequenceTheorems, FiniteSetTheorems

(***************************************************************************)
(* What an action does to the copies: it changes them one by one, or it    *)
(* pushes one more.                                                        *)
(***************************************************************************)
LEMMA CopiesFacts ==
    ASSUME NEW s \in Seq(Copy)
    PROVE  /\ Len(s) \in Nat /\ DOMAIN s = 1 .. Len(s)
           /\ \A i \in DOMAIN s : s[i] \in Copy
           /\ \A f \in [DOMAIN s -> Copy] : f \in Seq(Copy)
<1>1. Len(s) \in Nat /\ DOMAIN s = 1 .. Len(s) /\ \A i \in DOMAIN s : s[i] \in Copy
  OBVIOUS
<1>2. ASSUME NEW f \in [DOMAIN s -> Copy] PROVE f \in Seq(Copy)
  BY <1>1, SeqDef
<1>. QED  BY <1>1, <1>2

LEMMA PushFacts ==
    ASSUME NEW s \in Seq(Copy), NEW j \in Jobs, counter \in Nat, order \in [Jobs -> Nat], Push(j, s)
    PROVE  LET new == Len(s) + 1 IN
           /\ OrderFor(j) \in Nat
           /\ NewCopy(j, OrderFor(j)) \in Copy
           /\ copies' \in Seq(Copy)
           /\ DOMAIN copies' = DOMAIN s \union {new} /\ new \notin DOMAIN s
           /\ \A i \in DOMAIN s : copies'[i] = s[i]
           /\ copies'[new] = NewCopy(j, OrderFor(j))
           /\ counter' \in Nat /\ counter' > counter /\ counter' > OrderFor(j) - order[j]
           /\ order' \in [Jobs -> Nat]
<1>1. OrderFor(j) \in Nat
  BY DEF OrderFor
<1>2. NewCopy(j, OrderFor(j)) \in Copy
  BY <1>1 DEF NewCopy, Copy, Stages, Futures
<1>3. copies' = Append(s, NewCopy(j, OrderFor(j)))
  BY DEF Push
<1>4. /\ copies' \in Seq(Copy)
      /\ DOMAIN copies' = DOMAIN s \union {Len(s) + 1} /\ Len(s) + 1 \notin DOMAIN s
      /\ \A i \in DOMAIN s : copies'[i] = s[i]
      /\ copies'[Len(s) + 1] = NewCopy(j, OrderFor(j))
  BY <1>2, <1>3
<1>5. counter' \in Nat /\ counter' > counter /\ counter' > OrderFor(j) - order[j]
  BY DEF Push, OrderFor
<1>6. order' \in [Jobs -> Nat]
  BY <1>1 DEF Push
<1>. QED  BY <1>1, <1>2, <1>4, <1>5, <1>6

\* copies is s with one more entry, for job j.
Added(s, j, new) ==
    /\ DOMAIN copies' = DOMAIN s \union {new} /\ new \notin DOMAIN s
    /\ \A i \in DOMAIN s : copies'[i] = s[i]
    /\ copies'[new] = NewCopy(j, OrderFor(j))
    /\ copies'[new].job = j /\ copies'[new].order = OrderFor(j)

LEMMA PushAdds ==
    ASSUME NEW s \in Seq(Copy), NEW j \in Jobs, counter \in Nat, order \in [Jobs -> Nat], Push(j, s)
    PROVE  /\ \E new : Added(s, j, new)
           /\ order' \in [Jobs -> Nat]
<1>1. NewCopy(j, OrderFor(j)).job = j /\ NewCopy(j, OrderFor(j)).order = OrderFor(j)
  BY DEF NewCopy
<1>2. Added(s, j, Len(s) + 1)
  BY <1>1, PushFacts DEF Added
<1>. QED  BY <1>2, PushFacts

\* The actions that change copies one by one, and leave their jobs and orders alone.
OneByOne ==
    \/ Admit \/ Stop \/ UNCHANGED vars
    \/ \E i \in Ids : Start(i) \/ Finish(i) \/ Land(i) \/ Watch(i)

LEMMA NextCases ==
    ASSUME [Next]_vars
    PROVE  \/ OneByOne
           \/ \E j \in Jobs : Submit(j)
           \/ \E i \in Ids : Preempt(i)
BY DEF Next, OneByOne

\* Each of those actions moves a copy along: job and order stay, and so does an outcome.
Moves(c, d) ==
    /\ d \in Copy
    /\ d.job = c.job /\ d.order = c.order
    /\ c.fut = "none" \/ d.fut = c.fut

LEMMA StageMoves ==
    ASSUME NEW c \in Copy, NEW s \in Stages
    PROVE  Moves(c, [c EXCEPT !.stage = s])
BY DEF Moves, Copy

LEMMA CancelledMoves ==
    ASSUME NEW c \in Copy
    PROVE  Cancelled(c) \in Copy /\ Moves(c, Cancelled(c)) /\ Cancelled(c).fut = c.fut
           /\ Cancelled(c).watched = c.watched /\ Cancelled(c).mark = c.mark
<1>1. CASE c.stage = "waiting"
  BY <1>1 DEF Cancelled, Copy, Stages, Moves
<1>2. CASE c.stage = "running"
  BY <1>2 DEF Cancelled, Copy, Stages, Moves
<1>3. CASE c.stage \notin {"waiting", "running"}
  <2>1. Cancelled(c) = [c EXCEPT !.stage = c.stage]
    BY <1>3 DEF Cancelled
  <2>. QED  BY <2>1 DEF Copy, Moves
<1>. QED  BY <1>1, <1>2, <1>3

LEMMA ResolvedMoves ==
    ASSUME NEW c \in Copy, NEW outcome \in Futures
    PROVE  /\ Resolved(c, outcome) \in Copy /\ Moves(c, Resolved(c, outcome))
           /\ Resolved(c, outcome).fut = IF c.fut = "none" THEN outcome ELSE c.fut
           /\ Resolved(c, outcome).stage = "ended"
           /\ Resolved(c, outcome).watched = c.watched /\ Resolved(c, outcome).mark = c.mark
BY DEF Resolved, Copy, Stages, Moves

LEMMA OneByOneFacts ==
    ASSUME copies \in Seq(Copy), turn \in Nat, OneByOne
    PROVE  /\ copies' \in Seq(Copy) /\ DOMAIN copies' = DOMAIN copies
           /\ \A i \in Ids : Moves(copies[i], copies'[i])
           /\ UNCHANGED <<counter, order, token, preempted>>
<1>. /\ DOMAIN copies = Ids /\ \A k \in Ids : copies[k] \in Copy
     /\ \A f \in [Ids -> Copy] : f \in Seq(Copy)
  BY CopiesFacts DEF Ids
<1>0. ASSUME NEW i \in Ids, NEW c, Moves(copies[i], c), copies' = [copies EXCEPT ![i] = c]
      PROVE  /\ copies' \in Seq(Copy) /\ DOMAIN copies' = DOMAIN copies
             /\ \A k \in Ids : Moves(copies[k], copies'[k])
  BY <1>0 DEF Moves
<1>1. CASE UNCHANGED vars
  BY <1>1 DEF vars, Ids, Moves
<1>2. CASE Admit
  <2>. DEFINE f == [i \in Ids |->
                    IF copies[i].stage = "queued"
                    THEN [copies[i] EXCEPT !.stage = "waiting", !.turn = turn + 1, !.watched = TRUE]
                    ELSE copies[i]]
  <2>1. copies' = f /\ UNCHANGED <<counter, order, token, preempted>>
    BY <1>2 DEF Admit
  <2>2. \A i \in Ids : Moves(copies[i], f[i])
    <3>. TAKE i \in Ids
    <3>1. ASSUME NEW c \in Copy
          PROVE  Moves(c, [c EXCEPT !.stage = "waiting", !.turn = turn + 1, !.watched = TRUE])
      <4>1. turn + 1 \in Nat
        OBVIOUS
      <4>. QED  BY <4>1 DEF Moves, Copy, Stages
    <3>2. Moves(copies[i], copies[i])
      BY DEF Moves
    <3>. QED  BY <3>1, <3>2
  <2>. QED  BY <2>1, <2>2 DEF Moves
<1>3. CASE Stop
  <2>. DEFINE admitted == {i \in Ids : copies[i].stage # "queued"}
              f == [i \in Ids |->
                        IF i \notin admitted THEN copies[i]
                        ELSE [Cancelled(copies[i]) EXCEPT !.watched = FALSE,
                                  !.fut = IF @ = "none" THEN "cancelled" ELSE @]]
  <2>1. copies' = f /\ UNCHANGED <<counter, order, token, preempted>>
    BY <1>3 DEF Stop
  <2>2. \A i \in Ids : Moves(copies[i], f[i])
    <3>. TAKE i \in Ids
    <3>1. CASE i \notin admitted
      BY <3>1 DEF Moves
    <3>2. CASE i \in admitted
      <4>. DEFINE c == copies[i]
                  d == Cancelled(copies[i])
      <4>1. d \in Copy /\ Moves(c, d) /\ d.fut = c.fut
        BY CancelledMoves
      <4>2. f[i] = [d EXCEPT !.watched = FALSE, !.fut = IF d.fut = "none" THEN "cancelled" ELSE d.fut]
        BY <3>2
      <4>. HIDE DEF c, d, f
      <4>3. f[i] \in Copy
        BY <4>1, <4>2 DEF Copy, Futures
      <4>4. f[i].job = d.job /\ f[i].order = d.order /\ (d.fut = "none" \/ f[i].fut = d.fut)
        BY <4>1, <4>2 DEF Copy
      <4>. QED  BY <4>1, <4>3, <4>4 DEF Moves, c
    <3>. QED  BY <3>1, <3>2
  <2>. QED  BY <2>1, <2>2 DEF Moves
<1>4. ASSUME NEW i \in Ids, Start(i)
      PROVE  Moves(copies[i], [copies[i] EXCEPT !.stage = "running"])
  BY StageMoves DEF Stages
<1>5. ASSUME NEW i \in Ids, Start(i) PROVE UNCHANGED <<counter, order, token, preempted>>
                                     /\ copies' = [copies EXCEPT ![i] = [copies[i] EXCEPT !.stage = "running"]]
  BY <1>5 DEF Start
<1>6. ASSUME NEW i \in Ids, Finish(i)
      PROVE  /\ UNCHANGED <<counter, order, token, preempted>>
             /\ \E c : Moves(copies[i], c) /\ copies' = [copies EXCEPT ![i] = c]
  <2>1. PICK outcome \in {"result", "error"} : copies' = [copies EXCEPT ![i] = Resolved(copies[i], outcome)]
    BY <1>6 DEF Finish
  <2>2. Moves(copies[i], Resolved(copies[i], outcome))
    BY ResolvedMoves DEF Futures
  <2>. QED  BY <1>6, <2>1, <2>2 DEF Finish
<1>7. ASSUME NEW i \in Ids, Land(i)
      PROVE  /\ UNCHANGED <<counter, order, token, preempted>>
             /\ \E c : Moves(copies[i], c) /\ copies' = [copies EXCEPT ![i] = c]
  <2>. DEFINE c == IF copies[i].mark THEN [Resolved(copies[i], "preempted") EXCEPT !.mark = FALSE]
                                     ELSE Resolved(copies[i], "cancelled")
  <2>1. CASE \E outcome \in {"result", "error"} : copies' = [copies EXCEPT ![i] = Resolved(copies[i], outcome)]
    <3>1. PICK outcome \in {"result", "error"} : copies' = [copies EXCEPT ![i] = Resolved(copies[i], outcome)]
      BY <2>1
    <3>2. Moves(copies[i], Resolved(copies[i], outcome))
      BY ResolvedMoves DEF Futures
    <3>. QED  BY <1>7, <3>1, <3>2 DEF Land
  <2>2. Moves(copies[i], c)
    <3>1. CASE copies[i].mark
      <4>1. Resolved(copies[i], "preempted") \in Copy /\ Moves(copies[i], Resolved(copies[i], "preempted"))
        BY ResolvedMoves DEF Futures
      <4>. QED  BY <3>1, <4>1 DEF Moves, Copy
    <3>2. CASE ~copies[i].mark
      BY <3>2, ResolvedMoves DEF Futures
    <3>. QED  BY <3>1, <3>2
  <2>3. CASE copies' = [copies EXCEPT ![i] = c]
    BY <1>7, <2>2, <2>3 DEF Land
  <2>. QED  BY <1>7, <2>1, <2>3 DEF Land
<1>8. ASSUME NEW i \in Ids, Watch(i)
      PROVE  /\ UNCHANGED <<counter, order, token, preempted>>
             /\ \E c : Moves(copies[i], c) /\ copies' = [copies EXCEPT ![i] = c]
  <2>1. Moves(copies[i], [copies[i] EXCEPT !.watched = FALSE])
    BY DEF Moves, Copy
  <2>2. copies' = [copies EXCEPT ![i] = [copies[i] EXCEPT !.watched = FALSE]]
    BY <1>8 DEF Watch
  <2>. QED  BY <1>8, <2>1, <2>2 DEF Watch
<1>. QED  BY <1>0, <1>1, <1>2, <1>3, <1>4, <1>5, <1>6, <1>7, <1>8 DEF OneByOne

(***************************************************************************)
(* Types                                                                   *)
(***************************************************************************)
\* What a preemption needs and does, without its choice of a victim.
LEMMA PreemptFacts ==
    ASSUME TypeOK, NEW i \in Ids, Preempt(i)
    PROVE  LET j == copies[i].job
               s == [copies EXCEPT ![i] = [Cancelled(@) EXCEPT !.mark = TRUE]]
           IN /\ ~stopped /\ j \in Jobs
              /\ preempted[j] < MaxPreemptions
              /\ preempted' = [preempted EXCEPT ![j] = @ + 1]
              /\ s \in Seq(Copy) /\ DOMAIN s = Ids /\ Len(s) = Len(copies)
              /\ \A k \in Ids : Moves(copies[k], s[k])
              /\ Push(j, s)
              /\ UNCHANGED <<token, turn, results, errors, signalled, stopped>>
<1>. DEFINE j == copies[i].job
            c == copies[i]
            d == [Cancelled(c) EXCEPT !.mark = TRUE]
            s == [copies EXCEPT ![i] = d]
<1>. /\ DOMAIN copies = Ids /\ \A k \in Ids : copies[k] \in Copy
     /\ \A f \in [Ids -> Copy] : f \in Seq(Copy)
  BY CopiesFacts DEF Ids, TypeOK
<1>1. ~stopped /\ j \in Jobs
  BY DEF Preempt, Copy
<1>2. preempted[j] < MaxPreemptions
  BY DEF Preempt, Victim, Candidates
<1>3. Moves(c, d)
  <2>1. Cancelled(c) \in Copy /\ Moves(c, Cancelled(c))
    BY CancelledMoves
  <2>. QED  BY <2>1 DEF Moves, Copy
<1>4. s \in Seq(Copy) /\ DOMAIN s = Ids /\ \A k \in Ids : Moves(copies[k], s[k])
  BY <1>3 DEF Moves
<1>5. Len(s) = Len(copies)
  BY DEF TypeOK
<1>6. Push(j, s) /\ preempted' = [preempted EXCEPT ![j] = preempted[j] + 1]
  BY DEF Preempt
<1>7. UNCHANGED <<token, turn, results, errors, signalled, stopped>>
  BY DEF Preempt
<1>. QED  BY <1>1, <1>2, <1>4, <1>5, <1>6, <1>7

LEMMA TypeStep ==
    ASSUME TypeOK, [Next]_vars
    PROVE  TypeOK'
<1>. USE DEF TypeOK
<1>1. CASE OneByOne
  <2>1. copies' \in Seq(Copy) /\ UNCHANGED <<counter, order, token, preempted>>
    BY <1>1, OneByOneFacts
  <2>2. turn' \in Nat /\ stopped' \in BOOLEAN
    <3>1. CASE Admit
      <4>1. turn' = turn + 1 /\ UNCHANGED stopped
        BY <3>1 DEF Admit
      <4>. QED  BY <4>1
    <3>2. CASE Stop
      <4>1. stopped' = TRUE /\ UNCHANGED turn
        BY <3>2 DEF Stop
      <4>. QED  BY <4>1
    <3>3. ASSUME UNCHANGED vars \/ \E i \in Ids : Start(i) \/ Finish(i) \/ Land(i) \/ Watch(i)
          PROVE  UNCHANGED <<turn, stopped>>
      BY <3>3 DEF vars, Start, Finish, Land, Watch
    <3>. QED  BY <1>1, <3>1, <3>2, <3>3 DEF OneByOne
  <2>3. results' \subseteq Nat /\ errors' \subseteq Nat /\ signalled' \subseteq Nat
    <3>1. \A k \in Ids : copies[k].order \in Nat
      BY CopiesFacts DEF Ids, Copy
    <3>2. CASE \E i \in Ids : Watch(i)
      BY <3>1, <3>2 DEF Watch
    <3>3. CASE Stop
      BY <3>1, <3>3 DEF Stop
    <3>4. CASE Admit \/ UNCHANGED vars \/ \E i \in Ids : Start(i) \/ Finish(i) \/ Land(i)
      <4>1. UNCHANGED <<results, errors, signalled>>
        BY <3>4 DEF vars, Admit, Start, Finish, Land
      <4>. QED  BY <4>1
    <3>. QED  BY <1>1, <3>2, <3>3, <3>4 DEF OneByOne
  <2>. QED  BY <2>1, <2>2, <2>3
<1>2. ASSUME NEW j \in Jobs, Submit(j) PROVE TypeOK'
  <2>1. Push(j, copies) /\ token' = [token EXCEPT ![j] = order'[j]]
        /\ UNCHANGED <<preempted, turn, results, errors, signalled, stopped>>
    BY <1>2 DEF Submit
  <2>2. copies' \in Seq(Copy) /\ counter' \in Nat /\ order' \in [Jobs -> Nat]
    BY <2>1, PushFacts
  <2>3. token' \in [Jobs -> Nat \union {NoToken}]
    BY <2>1, <2>2
  <2>. QED  BY <2>1, <2>2, <2>3
<1>3. ASSUME NEW i \in Ids, Preempt(i) PROVE TypeOK'
  <2>. DEFINE j == copies[i].job
              s == [copies EXCEPT ![i] = [Cancelled(@) EXCEPT !.mark = TRUE]]
  <2>1. /\ j \in Jobs /\ preempted[j] < MaxPreemptions
        /\ preempted' = [preempted EXCEPT ![j] = @ + 1]
        /\ s \in Seq(Copy) /\ Push(j, s)
        /\ UNCHANGED <<token, turn, results, errors, signalled, stopped>>
    BY <1>3, PreemptFacts
  <2>. HIDE DEF s, j
  <2>2. copies' \in Seq(Copy) /\ counter' \in Nat /\ order' \in [Jobs -> Nat]
    BY <2>1, PushFacts
  <2>3. preempted' \in [Jobs -> 0 .. MaxPreemptions]
    BY <2>1, PoolAssumption
  <2>. QED  BY <2>1, <2>2, <2>3
<1>. QED  BY <1>1, <1>2, <1>3, NextCases

LEMMA TypeInit == ASSUME Init PROVE TypeOK
<1>1. counter \in Nat /\ order \in [Jobs -> Nat] /\ turn \in Nat
  BY DEF Init
<1>2. token \in [Jobs -> Nat \union {NoToken}]
  BY DEF Init
<1>3. preempted \in [Jobs -> 0 .. MaxPreemptions]
  BY PoolAssumption DEF Init
<1>4. copies \in Seq(Copy)
  BY DEF Init
<1>5. results \subseteq Nat /\ errors \subseteq Nat /\ signalled \subseteq Nat
  BY DEF Init
<1>6. stopped \in BOOLEAN
  BY DEF Init
<1>. QED  BY <1>1, <1>2, <1>3, <1>4, <1>5, <1>6 DEF TypeOK

\* Type correctness: in particular no preempted_count passes the limit, whatever is
\* preempted, finished and queued again in which order.
THEOREM TypeCorrect == Spec => []TypeOK
BY TypeInit, TypeStep, PTL DEF Spec

(***************************************************************************)
(* What a copy's stage says of its mark, its watcher and its outcome: the  *)
(* reason why a CancelledError that reaches a coroutine is a preemption,   *)
(* and reported to nobody, unless the pool was stopped.                    *)
(***************************************************************************)
Sound(c, st) ==
    /\ c.stage = "queued" => ~c.watched /\ ~c.mark /\ c.fut = "none"
    /\ c.stage \in {"dropped", "unwinding"} => c.mark \/ st
    /\ c.fut = "cancelled" => st

Shape == \A i \in Ids : Sound(copies[i], stopped)

LEMMA NewIsSound ==
    ASSUME NEW j \in Jobs, NEW o, NEW st
    PROVE  Sound(NewCopy(j, o), st)
BY DEF Sound, NewCopy

LEMMA PushIsSound ==
    ASSUME TypeOK, NEW s \in Seq(Copy), NEW j \in Jobs, Push(j, s), UNCHANGED stopped,
           \A k \in DOMAIN s : Sound(s[k], stopped)
    PROVE  Shape'
<1>1. counter \in Nat /\ order \in [Jobs -> Nat]
  BY DEF TypeOK
<1>2. PICK new : /\ DOMAIN copies' = DOMAIN s \union {new}
                 /\ \A k \in DOMAIN s : copies'[k] = s[k]
                 /\ copies'[new] = NewCopy(j, OrderFor(j))
  BY <1>1, PushFacts
<1>3. Sound(NewCopy(j, OrderFor(j)), stopped)
  BY NewIsSound
<1>4. \A k \in DOMAIN copies' : Sound(copies'[k], stopped)
  BY <1>2, <1>3
<1>. QED  BY <1>4 DEF Shape, Ids

LEMMA ShapeStep ==
    ASSUME TypeOK, Shape, [Next]_vars
    PROVE  Shape'
<1>. /\ DOMAIN copies = Ids /\ \A k \in Ids : copies[k] \in Copy
     /\ copies \in Seq(Copy)
  BY CopiesFacts DEF Ids, TypeOK
<1>0. ASSUME NEW i \in Ids, NEW c, Sound(copies[i], stopped) => Sound(c, stopped),
             copies' = [copies EXCEPT ![i] = c], UNCHANGED stopped
      PROVE  Shape'
  BY <1>0 DEF Shape, Ids
<1>1. CASE UNCHANGED vars
  BY <1>1 DEF vars, Shape, Ids
<1>2. CASE Admit
  <2>1. /\ DOMAIN copies' = Ids /\ UNCHANGED stopped
        /\ \A i \in Ids : copies'[i] = IF copies[i].stage = "queued"
              THEN [copies[i] EXCEPT !.stage = "waiting", !.turn = turn', !.watched = TRUE]
              ELSE copies[i]
    BY <1>2 DEF Admit
  <2>2. \A i \in Ids : Sound(copies[i], stopped) => Sound(copies'[i], stopped)
    BY <2>1, ZenonT(30) DEF Sound, Copy
  <2>. QED  BY <2>1, <2>2 DEF Shape, Ids
<1>3. CASE Stop
  <2>1. /\ DOMAIN copies' = Ids /\ stopped'
        /\ \A i \in Ids : \/ copies[i].stage = "queued" /\ copies'[i] = copies[i]
                          \/ copies[i].stage # "queued" /\
                             copies'[i] = [Cancelled(copies[i]) EXCEPT !.watched = FALSE,
                                              !.fut = IF @ = "none" THEN "cancelled" ELSE @]
    BY <1>3 DEF Stop
  <2>2. ASSUME NEW i \in Ids, copies[i].stage # "queued" PROVE copies'[i].stage # "queued"
    <3>1. Cancelled(copies[i]).stage # "queued" /\ Cancelled(copies[i]) \in Copy
      BY <2>2, CancelledMoves DEF Cancelled, Copy
    <3>. QED  BY <2>1, <2>2, <3>1 DEF Copy
  <2>3. \A i \in Ids : Sound(copies[i], stopped) => Sound(copies'[i], TRUE)
    BY <2>1, <2>2 DEF Sound
  <2>. QED  BY <2>1, <2>3 DEF Shape, Ids
<1>4. ASSUME NEW i \in Ids, Start(i) PROVE Shape'
  <2>1. Sound(copies[i], stopped) => Sound([copies[i] EXCEPT !.stage = "running"], stopped)
    BY DEF Sound, Copy
  <2>. QED  BY <1>0, <1>4, <2>1 DEF Start
<1>5. ASSUME NEW i \in Ids, Finish(i) PROVE Shape'
  <2>1. PICK outcome \in {"result", "error"} : copies' = [copies EXCEPT ![i] = Resolved(copies[i], outcome)]
    BY <1>5 DEF Finish
  <2>2. Sound(copies[i], stopped) => Sound(Resolved(copies[i], outcome), stopped)
    BY ResolvedMoves DEF Sound, Futures
  <2>. QED  BY <1>0, <1>5, <2>1, <2>2 DEF Finish
<1>6. ASSUME NEW i \in Ids, Land(i) PROVE Shape'
  <2>. DEFINE Ending(outcome) == copies' = [copies EXCEPT ![i] = Resolved(copies[i], outcome)]
              Marked == copies[i].mark
                        /\ copies' = [copies EXCEPT ![i] = [Resolved(copies[i], "preempted") EXCEPT !.mark = FALSE]]
  <2>1. copies[i].stage \in {"dropped", "unwinding"} /\ UNCHANGED stopped
    BY <1>6 DEF Land, At
  <2>2. CASE Marked
    <3>. DEFINE r == Resolved(copies[i], "preempted")
    <3>1. copies' = [copies EXCEPT ![i] = [r EXCEPT !.mark = FALSE]]
      BY <2>2
    <3>2. r \in Copy /\ r.stage = "ended" /\ (r.fut = "cancelled" => copies[i].fut = "cancelled")
      BY ResolvedMoves DEF Futures
    <3>. HIDE DEF r
    <3>3. Sound(copies[i], stopped) => Sound([r EXCEPT !.mark = FALSE], stopped)
      BY <3>2 DEF Sound, Copy
    <3>. QED  BY <1>0, <2>1, <3>1, <3>3
  <2>3. CASE ~copies[i].mark /\ Ending("cancelled")
    <3>1. Sound(copies[i], stopped) => Sound(Resolved(copies[i], "cancelled"), stopped)
      BY <2>1, <2>3, ResolvedMoves DEF Sound, Futures
    <3>. QED  BY <1>0, <2>1, <2>3, <3>1
  <2>4. CASE \E outcome \in {"result", "error"} : Ending(outcome)
    <3>1. PICK outcome \in {"result", "error"} : copies' = [copies EXCEPT ![i] = Resolved(copies[i], outcome)]
      BY <2>4
    <3>2. Sound(copies[i], stopped) => Sound(Resolved(copies[i], outcome), stopped)
      BY ResolvedMoves DEF Sound, Futures
    <3>. QED  BY <1>0, <2>1, <3>1, <3>2
  <2>. QED  BY <1>6, <2>2, <2>3, <2>4 DEF Land
<1>7. ASSUME NEW i \in Ids, Watch(i) PROVE Shape'
  <2>1. Sound(copies[i], stopped) => Sound([copies[i] EXCEPT !.watched = FALSE], stopped)
    BY DEF Sound, Copy
  <2>2. copies' = [copies EXCEPT ![i] = [copies[i] EXCEPT !.watched = FALSE]] /\ UNCHANGED stopped
    BY <1>7 DEF Watch
  <2>. QED  BY <1>0, <2>1, <2>2
<1>8. ASSUME NEW j \in Jobs, Submit(j) PROVE Shape'
  <2>1. Push(j, copies) /\ UNCHANGED stopped
    BY <1>8 DEF Submit
  <2>. QED  BY <2>1, PushIsSound DEF Shape
<1>9. ASSUME NEW i \in Ids, Preempt(i) PROVE Shape'
  <2>. DEFINE j == copies[i].job
              d == [Cancelled(copies[i]) EXCEPT !.mark = TRUE]
              s == [copies EXCEPT ![i] = d]
  <2>1. j \in Jobs /\ s \in Seq(Copy) /\ DOMAIN s = Ids /\ Push(j, s) /\ UNCHANGED stopped
    BY <1>9, PreemptFacts
  <2>2. Sound(d, stopped)
    <3>1. copies[i].stage # "queued"
      BY <1>9 DEF Preempt, Live, Occupied, At
    <3>2. Cancelled(copies[i]) \in Copy /\ Cancelled(copies[i]).fut = copies[i].fut
      BY CancelledMoves
    <3>3. Cancelled(copies[i]).stage # "queued"
      BY <3>1 DEF Cancelled, Copy
    <3>. QED  BY <3>2, <3>3 DEF Sound, Copy, Shape
  <2>3. \A k \in Ids : Sound(s[k], stopped)
    BY <2>2 DEF Shape
  <2>. HIDE DEF s, j
  <2>. QED  BY <2>1, <2>3, PushIsSound
<1>. QED  BY <1>1, <1>2, <1>3, <1>4, <1>5, <1>6, <1>7, <1>8, <1>9 DEF Next

(***************************************************************************)
(* Tokens.  Orders come from one counter, so a copy with the order of a    *)
(* job's token is a copy of that job, even though an order of 0 stands for *)
(* no order yet and the first job of all is given another when it returns. *)
(***************************************************************************)
TokensBelow ==
    /\ \A i \in Ids : copies[i].order < counter
    /\ \A j \in Jobs : token[j] < counter
    /\ \A j \in Jobs : order[j] = 0 \/ order[j] < counter

TokensApart ==
    /\ \A j, k \in Jobs : order[j] # 0 /\ order[j] = token[k] => j = k
    /\ \A i \in Ids : \A k \in Jobs : copies[i].order = token[k] => copies[i].job = k
    /\ \A j \in Jobs : ~Submitted(j) => order[j] = 0

TokenInv == TokensBelow /\ TokensApart

\* A push of job j, which may first be given its token, keeps all that.
LEMMA PushTokens ==
    ASSUME TypeOK, TokenInv, NEW j \in Jobs, NEW s \in Seq(Copy), Push(j, s),
           DOMAIN s = Ids, \A k \in Ids : Moves(copies[k], s[k]),
           \/ ~Submitted(j) /\ token' = [token EXCEPT ![j] = order'[j]]
           \/ Submitted(j) /\ UNCHANGED token
    PROVE  TokenInv'
<1>. DEFINE o == OrderFor(j)
<1>1. /\ counter \in Nat /\ order \in [Jobs -> Nat] /\ token \in [Jobs -> Nat \union {NoToken}]
      /\ \A k \in Ids : copies[k] \in Copy
  BY CopiesFacts DEF TypeOK, Ids
<1>2. PICK new : /\ DOMAIN copies' = Ids \union {new} /\ new \notin Ids
                 /\ \A k \in Ids : copies'[k] = s[k]
                 /\ copies'[new] = NewCopy(j, o)
                 /\ counter' \in Nat /\ counter' > counter
                 /\ order' \in [Jobs -> Nat] /\ o \in Nat
  BY <1>1, PushFacts
<1>3. copies'[new].job = j /\ copies'[new].order = o
  BY <1>2 DEF NewCopy
<1>4. \A k \in Ids : copies'[k].job = copies[k].job /\ copies'[k].order = copies[k].order
  BY <1>2 DEF Moves
<1>5. order' = [order EXCEPT ![j] = o]
  BY DEF Push
<1>6. o < counter' /\ (order[j] # 0 => o = order[j]) /\ (order[j] = 0 => o = counter)
  BY <1>1 DEF Push, OrderFor, TokenInv, TokensBelow
<1>7. token' = token \/ (~Submitted(j) /\ o = counter /\ token' = [token EXCEPT ![j] = o])
  BY <1>1, <1>5, <1>6 DEF TokenInv, TokensApart
<1>8. token' \in [Jobs -> Nat \union {NoToken}]
  BY <1>1, <1>2, <1>7
<1>. HIDE DEF o
<1>9. \A k \in Ids : copies[k].order \in Nat
  BY <1>1 DEF Copy
<1>10. Ids' = Ids \union {new}
  BY <1>2 DEF Ids
<1>11. TokensBelow'
  <2>1. \A i \in Ids' : copies'[i].order < counter'
    BY <1>1, <1>2, <1>3, <1>4, <1>6, <1>9, <1>10 DEF TokenInv, TokensBelow
  <2>2. \A k \in Jobs : token'[k] < counter'
    <3>1. \A k \in Jobs : token[k] < counter'
      BY <1>1, <1>2, SMTT(30) DEF TokenInv, TokensBelow, NoToken
    <3>. QED  BY <1>1, <1>6, <1>7, <3>1
  <2>3. \A k \in Jobs : order'[k] = 0 \/ order'[k] < counter'
    BY <1>1, <1>2, <1>5, <1>6 DEF TokenInv, TokensBelow
  <2>. QED  BY <2>1, <2>2, <2>3 DEF TokensBelow
<1>12. \A l, k \in Jobs : order'[l] # 0 /\ order'[l] = token'[k] => l = k
  BY <1>1, <1>2, <1>5, <1>6, <1>7 DEF TokenInv, TokensBelow, TokensApart, NoToken
<1>13. \A i \in Ids' : \A k \in Jobs : copies'[i].order = token'[k] => copies'[i].job = k
  <2>1. ASSUME NEW i \in Ids, NEW k \in Jobs, copies'[i].order = token'[k] PROVE copies'[i].job = k
    BY <2>1, <1>1, <1>4, <1>7, <1>9, SMTT(30) DEF TokenInv, TokensBelow, TokensApart
  <2>2. ASSUME NEW k \in Jobs, o = token'[k] PROVE j = k
    BY <2>2, <1>1, <1>6, <1>7 DEF TokenInv, TokensBelow, TokensApart, NoToken, Submitted
  <2>. QED  BY <2>1, <2>2, <1>3, <1>10
<1>14. \A k \in Jobs : ~Submitted(k)' => order'[k] = 0
  BY <1>1, <1>2, <1>5, <1>7 DEF TokenInv, TokensApart, Submitted, NoToken
<1>. QED  BY <1>11, <1>12, <1>13, <1>14 DEF TokenInv, TokensApart

\* A job's copies were pushed after it was submitted: a copy's job has its token.
CopiesSubmitted == \A i \in Ids : Submitted(copies[i].job)

LEMMA TokenStep ==
    ASSUME TypeOK, TokenInv, CopiesSubmitted, [Next]_vars
    PROVE  TokenInv' /\ CopiesSubmitted'
<1>0. /\ copies \in Seq(Copy) /\ turn \in Nat /\ counter \in Nat /\ order \in [Jobs -> Nat]
      /\ DOMAIN copies = Ids /\ \A k \in Ids : copies[k] \in Copy
      /\ token \in [Jobs -> Nat \union {NoToken}]
  BY CopiesFacts DEF TypeOK, Ids
<1>1. CASE OneByOne
  <2>1. /\ UNCHANGED <<counter, order, token>> /\ Ids' = Ids
        /\ \A i \in Ids : copies'[i].job = copies[i].job /\ copies'[i].order = copies[i].order
    BY <1>0, <1>1, OneByOneFacts DEF Moves, Ids
  <2>2. TokensBelow'
    BY <2>1 DEF TokenInv, TokensBelow
  <2>3. TokensApart' /\ CopiesSubmitted'
    BY <2>1 DEF TokenInv, TokensApart, CopiesSubmitted, Submitted
  <2>. QED  BY <2>2, <2>3 DEF TokenInv
<1>2. ASSUME NEW j \in Jobs, Submit(j) PROVE TokenInv' /\ CopiesSubmitted'
  <2>1. ~Submitted(j) /\ Push(j, copies) /\ token' = [token EXCEPT ![j] = order'[j]]
    BY <1>2 DEF Submit, Submitted
  <2>2. \A k \in Ids : Moves(copies[k], copies[k])
    BY <1>0 DEF Moves
  <2>3. TokenInv'
    BY <1>0, <2>1, <2>2, PushTokens
  <2>4. PICK new : Added(copies, j, new)
    BY <1>0, <2>1, PushAdds
  <2>5. Submitted(j)' /\ \A k \in Jobs : Submitted(k) => Submitted(k)'
    <3>1. order'[j] \in Nat
      BY <1>0, <2>1, PushAdds
    <3>. QED  BY <1>0, <2>1, <3>1 DEF Submitted, NoToken
  <2>6. CopiesSubmitted'
    BY <1>0, <2>4, <2>5 DEF CopiesSubmitted, Ids, Copy, Added
  <2>. QED  BY <2>3, <2>6
<1>3. ASSUME NEW i \in Ids, Preempt(i) PROVE TokenInv' /\ CopiesSubmitted'
  <2>. DEFINE j == copies[i].job
              s == [copies EXCEPT ![i] = [Cancelled(@) EXCEPT !.mark = TRUE]]
  <2>1. /\ j \in Jobs /\ s \in Seq(Copy) /\ DOMAIN s = Ids /\ Push(j, s) /\ UNCHANGED token
        /\ \A k \in Ids : Moves(copies[k], s[k])
    BY <1>3, PreemptFacts
  <2>2. Submitted(j)
    BY DEF CopiesSubmitted
  <2>. HIDE DEF s, j
  <2>3. TokenInv'
    BY <2>1, <2>2, PushTokens
  <2>4a. PICK new : Added(s, j, new)
    BY <1>0, <2>1, PushAdds
  <2>4. \A k \in Ids : copies'[k].job = copies[k].job
    BY <2>1, <2>4a DEF Moves, Added
  <2>5. CopiesSubmitted'
    BY <2>1, <2>2, <2>4, <2>4a DEF CopiesSubmitted, Ids, Submitted, Added
  <2>. QED  BY <2>3, <2>5
<1>. QED  BY <1>1, <1>2, <1>3, NextCases

(***************************************************************************)
(* No task vanishes                                                        *)
(***************************************************************************)
\* A copy that was to answer still is, or has answered.
LEMMA PromiseKept ==
    ASSUME TypeOK, Shape, OneByOne, NEW i \in Ids, Promising(copies[i]), copies[i].order \in Registered
    PROVE  Promising(copies'[i]) \/ copies[i].order \in signalled'
<1>. DEFINE c == copies[i]
<1>0. /\ copies \in Seq(Copy) /\ DOMAIN copies = Ids /\ c \in Copy /\ Sound(c, stopped)
  BY CopiesFacts DEF TypeOK, Ids, Shape
<1>1. CASE UNCHANGED vars
  BY <1>1 DEF vars
<1>2. CASE Admit
  <2>1. copies'[i] = IF c.stage = "queued"
              THEN [c EXCEPT !.stage = "waiting", !.turn = turn', !.watched = TRUE]
              ELSE c
    BY <1>2 DEF Admit
  <2>2. CASE c.stage = "queued"
    BY <1>0, <2>1, <2>2 DEF Promising, Sound, Copy
  <2>. QED  BY <2>1, <2>2
<1>3. CASE Stop
  <2>1. CASE c.stage = "queued"
    <3>1. copies'[i] = c
      BY <1>3, <2>1 DEF Stop
    <3>. QED  BY <3>1
  <2>2. CASE c.watched
    <3>. DEFINE watching == {copies[k].order : k \in {l \in Ids : copies[l].watched}}
    <3>1. signalled' = signalled \union (watching \intersect Registered)
      BY <1>3 DEF Stop
    <3>. QED  BY <2>2, <3>1
  <2>. QED  BY <2>1, <2>2 DEF Promising
<1>4. ASSUME NEW k \in Ids, Start(k) PROVE Promising(copies'[i])
  <2>1. copies' = [copies EXCEPT ![k] = [copies[k] EXCEPT !.stage = "running"]]
        /\ copies[k].stage = "waiting"
    BY <1>4 DEF Start, At
  <2>2. CASE k = i
    BY <1>0, <2>1, <2>2 DEF Promising, Copy
  <2>. QED  BY <1>0, <2>1, <2>2
<1>5. ASSUME NEW k \in Ids, Finish(k) PROVE Promising(copies'[i])
  <2>1. PICK outcome \in {"result", "error"} : copies' = [copies EXCEPT ![k] = Resolved(copies[k], outcome)]
    BY <1>5 DEF Finish
  <2>2. copies[k].stage = "running"
    BY <1>5 DEF Finish, At
  <2>3. CASE k = i
    <3>1. c.watched /\ c.fut # "preempted" /\ ~c.mark
      BY <2>2, <2>3 DEF Promising
    <3>2. /\ Resolved(c, outcome).fut = IF c.fut = "none" THEN outcome ELSE c.fut
          /\ Resolved(c, outcome).watched = c.watched /\ Resolved(c, outcome).mark = c.mark
      BY <1>0, ResolvedMoves DEF Futures
    <3>. QED  BY <1>0, <2>1, <2>3, <3>1, <3>2 DEF Promising
  <2>. QED  BY <1>0, <2>1, <2>3
<1>6. ASSUME NEW k \in Ids, Land(k) PROVE Promising(copies'[i])
  <2>1. copies[k].stage \in {"dropped", "unwinding"}
    BY <1>6 DEF Land, At
  <2>2. CASE k = i
    <3>1. c.watched /\ c.fut # "preempted" /\ ~c.mark
      BY <2>1, <2>2 DEF Promising
    <3>2. PICK outcome \in {"cancelled", "result", "error"} : copies' = [copies EXCEPT ![i] = Resolved(c, outcome)]
      BY <1>6, <2>2, <3>1 DEF Land
    <3>3. /\ Resolved(c, outcome).fut = IF c.fut = "none" THEN outcome ELSE c.fut
          /\ Resolved(c, outcome).watched = c.watched /\ Resolved(c, outcome).mark = c.mark
      BY <1>0, ResolvedMoves DEF Futures
    <3>. QED  BY <1>0, <3>1, <3>2, <3>3 DEF Promising
  <2>3. CASE k # i
    BY <1>0, <1>6, <2>3 DEF Land
  <2>. QED  BY <2>2, <2>3
<1>7. ASSUME NEW k \in Ids, Watch(k) PROVE Promising(copies'[i]) \/ c.order \in signalled'
  <2>1. CASE k # i
    <3>1. copies' = [copies EXCEPT ![k] = [copies[k] EXCEPT !.watched = FALSE]]
      BY <1>7 DEF Watch
    <3>. QED  BY <1>0, <2>1, <3>1
  <2>2. CASE k = i
    <3>1. c.watched
      BY <1>7, <2>2 DEF Watch
    <3>2. c.fut # "preempted"
      BY <1>0, <3>1 DEF Promising, Sound
    <3>3. signalled' = signalled \union ({c.order} \intersect Registered)
      BY <1>7, <2>2, <3>2 DEF Watch
    <3>. QED  BY <3>3
  <2>. QED  BY <2>1, <2>2
<1>. QED  BY <1>1, <1>2, <1>3, <1>4, <1>5, <1>6, <1>7 DEF OneByOne

LEMMA VanishesStep ==
    ASSUME TypeOK, Shape, TokenInv, CopiesSubmitted, NeverVanishes, [Next]_vars
    PROVE  NeverVanishes'
<1>0. /\ copies \in Seq(Copy) /\ turn \in Nat /\ counter \in Nat /\ order \in [Jobs -> Nat]
      /\ DOMAIN copies = Ids /\ \A k \in Ids : copies[k] \in Copy
      /\ token \in [Jobs -> Nat \union {NoToken}]
  BY CopiesFacts DEF TypeOK, Ids
<1>. SUFFICES ASSUME NEW l \in Jobs, Submitted(l)', KeepsToken(l)', ~Answered(l)'
              PROVE  \E i \in Ids' : copies'[i].order = token'[l] /\ Promising(copies'[i])
  BY DEF NeverVanishes
<1>1. CASE OneByOne
  <2>1. /\ UNCHANGED <<counter, order, token>> /\ Ids' = Ids
        /\ \A i \in Ids : copies'[i].order = copies[i].order
    BY <1>0, <1>1, OneByOneFacts DEF Moves, Ids
  <2>2. signalled \subseteq signalled'
    <3>1. CASE \E i \in Ids : Watch(i)
      BY <3>1 DEF Watch
    <3>2. CASE Stop
      BY <3>2 DEF Stop
    <3>3. CASE Admit \/ UNCHANGED vars \/ \E i \in Ids : Start(i) \/ Finish(i) \/ Land(i)
      BY <3>3 DEF vars, Admit, Start, Finish, Land
    <3>. QED  BY <1>1, <3>1, <3>2, <3>3 DEF OneByOne
  <2>3. Submitted(l) /\ KeepsToken(l) /\ ~Answered(l)
    BY <2>1, <2>2 DEF Submitted, KeepsToken, Answered
  <2>4. PICK i \in Ids : copies[i].order = token[l] /\ Promising(copies[i])
    BY <2>3 DEF NeverVanishes
  <2>5. copies[i].order \in Registered /\ copies[i].order \notin signalled'
    BY <2>1, <2>3, <2>4 DEF Registered, Submitted, Answered
  <2>6. Promising(copies'[i])
    BY <1>1, <2>4, <2>5, PromiseKept
  <2>. QED  BY <2>1, <2>4, <2>6
<1>2. ASSUME NEW j \in Jobs, Submit(j)
      PROVE  \E i \in Ids' : copies'[i].order = token'[l] /\ Promising(copies'[i])
  <2>1. /\ Push(j, copies) /\ token' = [token EXCEPT ![j] = order'[j]] /\ UNCHANGED signalled
        /\ order' = [order EXCEPT ![j] = OrderFor(j)]
    BY <1>2 DEF Submit, Push
  <2>2. PICK new : Added(copies, j, new)
    BY <1>0, <2>1, PushAdds
  <2>3. CASE l = j
    <3>1. copies'[new].order = token'[l]
      BY <1>0, <2>1, <2>2, <2>3 DEF Added
    <3>2. Promising(copies'[new])
      BY <2>2 DEF NewCopy, Promising, Added
    <3>. QED  BY <2>2, <3>1, <3>2 DEF Ids, Added
  <2>4. CASE l # j
    <3>1. token'[l] = token[l] /\ order'[l] = order[l]
      BY <1>0, <2>1, <2>4
    <3>2. Submitted(l) /\ KeepsToken(l) /\ ~Answered(l)
      BY <2>1, <3>1 DEF Submitted, KeepsToken, Answered
    <3>. QED  BY <2>2, <3>1, <3>2 DEF NeverVanishes, Ids, Added
  <2>. QED  BY <2>3, <2>4
<1>3. ASSUME NEW i \in Ids, Preempt(i)
      PROVE  \E k \in Ids' : copies'[k].order = token'[l] /\ Promising(copies'[k])
  <2>. DEFINE j == copies[i].job
              d == [Cancelled(copies[i]) EXCEPT !.mark = TRUE]
              s == [copies EXCEPT ![i] = d]
  <2>1. /\ j \in Jobs /\ s \in Seq(Copy) /\ DOMAIN s = Ids /\ Push(j, s)
        /\ UNCHANGED token /\ UNCHANGED signalled
    BY <1>3, PreemptFacts
  <2>2. order' = [order EXCEPT ![j] = OrderFor(j)]
    BY <2>1 DEF Push
  <2>3. \A k \in Ids \ {i} : s[k] = copies[k]
    BY <1>0
  <2>. HIDE DEF s
  <2>4. PICK new : Added(s, j, new)
    BY <1>0, <2>1, PushAdds
  <2>5. CASE l = j
    <3>1. copies'[new].order = token'[l]
      BY <1>0, <2>1, <2>2, <2>4, <2>5 DEF KeepsToken, Added
    <3>2. Promising(copies'[new])
      BY <2>4 DEF NewCopy, Promising, Added
    <3>. QED  BY <2>4, <3>1, <3>2 DEF Ids, Added
  <2>6. CASE l # j
    <3>1. order'[l] = order[l]
      BY <1>0, <2>1, <2>2, <2>6
    <3>2. Submitted(l) /\ KeepsToken(l) /\ ~Answered(l)
      BY <2>1, <3>1 DEF Submitted, KeepsToken, Answered
    <3>3. PICK k \in Ids : copies[k].order = token[l] /\ Promising(copies[k])
      BY <3>2 DEF NeverVanishes
    <3>4. copies[k].job = l
      BY <3>3 DEF TokenInv, TokensApart
    <3>5. copies'[k] = copies[k]
      BY <2>1, <2>3, <2>4, <2>6, <3>4 DEF Added
    <3>. QED  BY <2>1, <2>4, <3>3, <3>5 DEF Ids, Added
  <2>. QED  BY <2>5, <2>6
<1>. QED  BY <1>1, <1>2, <1>3, NextCases

(***************************************************************************)
(* Preemption is invisible                                                 *)
(***************************************************************************)
LEMMA InvisibleStep ==
    ASSUME TypeOK, Shape, PreemptionIsInvisible, [Next]_vars
    PROVE  PreemptionIsInvisible'
<1>0. /\ copies \in Seq(Copy) /\ turn \in Nat /\ counter \in Nat /\ order \in [Jobs -> Nat]
      /\ DOMAIN copies = Ids /\ \A k \in Ids : copies[k] \in Copy
  BY CopiesFacts DEF TypeOK, Ids
<1>. DEFINE Grew == /\ Ids \subseteq Ids'
                    /\ \A k \in Ids : Moves(copies[k], copies'[k])
                    /\ stopped => stopped'
<1>1. ASSUME Grew, NEW o, NEW f \in {"error", "result"}, \E i \in Ids : copies[i].order = o /\ copies[i].fut = f
      PROVE  \E i \in Ids' : copies'[i].order = o /\ copies'[i].fut = f
  BY <1>1 DEF Moves
<1>2. ASSUME Grew, UNCHANGED <<results, errors, signalled>> PROVE PreemptionIsInvisible'
  BY <1>1, <1>2 DEF PreemptionIsInvisible
<1>3. CASE OneByOne
  <2>1. Ids' = Ids /\ \A k \in Ids : Moves(copies[k], copies'[k])
    BY <1>0, <1>3, OneByOneFacts DEF Ids
  <2>2. CASE Stop
    <3>1. stopped' /\ \A o \in signalled' \ signalled : o \in errors'
      BY <2>2 DEF Stop
    <3>2. results' = results /\ errors \subseteq errors' /\ Grew
      BY <2>1, <2>2 DEF Stop
    <3>. HIDE DEF Grew
    <3>. QED  BY <1>1, <3>1, <3>2 DEF PreemptionIsInvisible
  <2>3. ASSUME NEW i \in Ids, Watch(i) PROVE PreemptionIsInvisible'
    <3>. DEFINE c == copies[i]
    <3>1. /\ c.fut # "none" /\ c.watched /\ UNCHANGED stopped
          /\ results' = IF c.fut = "result" THEN results \union {c.order} ELSE results
          /\ errors' = IF c.fut \in {"error", "cancelled"} THEN errors \union {c.order} ELSE errors
          /\ signalled' = IF c.fut = "preempted" THEN signalled
                          ELSE signalled \union ({c.order} \intersect Registered)
      BY <2>3 DEF Watch
    <3>2. Grew
      BY <2>1, <3>1
    <3>. HIDE DEF Grew
    <3>3. c.fut \in {"result", "error", "preempted", "cancelled"} /\ (c.fut = "cancelled" => stopped)
      BY <1>0, <3>1 DEF Copy, Futures, Shape, Sound
    <3>4. \A o \in errors' : stopped' \/ \E k \in Ids' : copies'[k].order = o /\ copies'[k].fut = "error"
      <4>. TAKE o \in errors'
      <4>1. CASE o \in errors
        BY <1>1, <3>1, <3>2, <4>1 DEF PreemptionIsInvisible
      <4>2. CASE o \notin errors
        <5>1. o = c.order /\ c.fut \in {"error", "cancelled"}
          BY <3>1, <4>2
        <5>2. CASE c.fut = "error"
          BY <1>1, <3>2, <5>1, <5>2
        <5>3. CASE c.fut = "cancelled"
          BY <3>1, <3>3, <5>3
        <5>. QED  BY <5>1, <5>2, <5>3
      <4>. QED  BY <4>1, <4>2
    <3>5. \A o \in results' : \E k \in Ids' : copies'[k].order = o /\ copies'[k].fut = "result"
      <4>. TAKE o \in results'
      <4>1. \E k \in Ids : copies[k].order = o /\ copies[k].fut = "result"
        BY <3>1 DEF PreemptionIsInvisible
      <4>. QED  BY <1>1, <3>2, <4>1
    <3>6. signalled' \subseteq results' \union errors'
      BY <3>1, <3>3 DEF PreemptionIsInvisible
    <3>. QED  BY <3>4, <3>5, <3>6 DEF PreemptionIsInvisible
  <2>4. CASE Admit \/ UNCHANGED vars \/ \E i \in Ids : Start(i) \/ Finish(i) \/ Land(i)
    <3>1. UNCHANGED <<results, errors, signalled, stopped>>
      BY <2>4 DEF vars, Admit, Start, Finish, Land
    <3>. QED  BY <1>2, <2>1, <3>1
  <2>. QED  BY <1>3, <2>2, <2>3, <2>4 DEF OneByOne
<1>4. ASSUME NEW j \in Jobs, Submit(j) PROVE PreemptionIsInvisible'
  <2>1. Push(j, copies) /\ UNCHANGED <<results, errors, signalled, stopped>>
    BY <1>4 DEF Submit
  <2>2. PICK new : Added(copies, j, new)
    BY <1>0, <2>1, PushAdds
  <2>3. Ids \subseteq Ids' /\ \A k \in Ids : copies'[k] = copies[k]
    BY <1>0, <2>2 DEF Added, Ids
  <2>4. Grew
    BY <1>0, <2>1, <2>3 DEF Moves
  <2>. QED  BY <1>2, <2>1, <2>4
<1>5. ASSUME NEW i \in Ids, Preempt(i) PROVE PreemptionIsInvisible'
  <2>. DEFINE j == copies[i].job
              s == [copies EXCEPT ![i] = [Cancelled(@) EXCEPT !.mark = TRUE]]
  <2>1. /\ j \in Jobs /\ s \in Seq(Copy) /\ DOMAIN s = Ids /\ Push(j, s)
        /\ \A k \in Ids : Moves(copies[k], s[k])
        /\ UNCHANGED <<results, errors, signalled, stopped>>
    BY <1>5, PreemptFacts
  <2>. HIDE DEF s, j
  <2>2. PICK new : Added(s, j, new)
    BY <1>0, <2>1, PushAdds
  <2>3. Ids \subseteq Ids' /\ \A k \in Ids : copies'[k] = s[k]
    BY <2>1, <2>2 DEF Added, Ids
  <2>4. Grew
    BY <2>1, <2>3
  <2>. QED  BY <1>2, <2>1, <2>4
<1>. QED  BY <1>3, <1>4, <1>5, NextCases

(***************************************************************************)
(* The thrash bound: a copy is pushed by submit() or by a preemption, and  *)
(* every preemption is counted.                                            *)
(***************************************************************************)
CopiesOf(j) == {i \in Ids : copies[i].job = j}
Pushes(j) == preempted[j] + IF Submitted(j) THEN 1 ELSE 0
Counted == \A j \in Jobs : IsFiniteSet(CopiesOf(j)) /\ Cardinality(CopiesOf(j)) = Pushes(j)

\* A push adds one copy to its job, and none to another.
LEMMA OneMore ==
    ASSUME TypeOK, Counted, NEW j \in Jobs, NEW s \in Seq(Copy), DOMAIN s = Ids, Push(j, s),
           \A k \in Ids : Moves(copies[k], s[k]), NEW l \in Jobs
    PROVE  /\ IsFiniteSet(CopiesOf(l)')
           /\ Cardinality(CopiesOf(l)') = IF l = j THEN Cardinality(CopiesOf(l)) + 1
                                                   ELSE Cardinality(CopiesOf(l))
<1>1. counter \in Nat /\ order \in [Jobs -> Nat]
  BY DEF TypeOK
<1>2. PICK new : Added(s, j, new)
  BY <1>1, PushAdds
<1>3. CopiesOf(l)' = CopiesOf(l) \union (IF l = j THEN {new} ELSE {})
  BY <1>2 DEF CopiesOf, Ids, Added, Moves
<1>4. new \notin CopiesOf(l) /\ IsFiniteSet(CopiesOf(l))
  BY <1>2 DEF CopiesOf, Ids, Added, Counted
<1>. QED  BY <1>3, <1>4, FS_AddElement

LEMMA CountedStep ==
    ASSUME TypeOK, Counted, CopiesSubmitted, [Next]_vars
    PROVE  Counted'
<1>0. /\ copies \in Seq(Copy) /\ turn \in Nat /\ counter \in Nat /\ order \in [Jobs -> Nat]
      /\ DOMAIN copies = Ids /\ \A k \in Ids : copies[k] \in Copy
      /\ token \in [Jobs -> Nat \union {NoToken}] /\ preempted \in [Jobs -> Nat]
  BY PoolAssumption, CopiesFacts DEF TypeOK, Ids
<1>1. CASE OneByOne
  <2>1. /\ UNCHANGED <<token, preempted>> /\ Ids' = Ids
        /\ \A k \in Ids : copies'[k].job = copies[k].job
    BY <1>0, <1>1, OneByOneFacts DEF Moves, Ids
  <2>2. \A j \in Jobs : CopiesOf(j)' = CopiesOf(j) /\ Pushes(j)' = Pushes(j)
    BY <2>1 DEF CopiesOf, Pushes, Submitted
  <2>. QED  BY <2>2 DEF Counted
<1>2. ASSUME NEW j \in Jobs, Submit(j) PROVE Counted'
  <2>1. /\ ~Submitted(j) /\ Push(j, copies) /\ token' = [token EXCEPT ![j] = order'[j]]
        /\ UNCHANGED preempted
    BY <1>2 DEF Submit, Submitted
  <2>2. order'[j] \in Nat
    BY <1>0, <2>1, PushAdds
  <2>3. \A k \in Ids : Moves(copies[k], copies[k])
    BY <1>0 DEF Moves
  <2>4. ASSUME NEW l \in Jobs
        PROVE  IsFiniteSet(CopiesOf(l)') /\ Cardinality(CopiesOf(l)') = Pushes(l)'
    <3>1. /\ IsFiniteSet(CopiesOf(l)')
          /\ Cardinality(CopiesOf(l)') = IF l = j THEN Cardinality(CopiesOf(l)) + 1
                                                  ELSE Cardinality(CopiesOf(l))
      BY <1>0, <2>1, <2>3, OneMore
    <3>2. CASE l = j
      <4>1. Submitted(l)' /\ ~Submitted(l)
        BY <1>0, <2>1, <2>2, <3>2 DEF Submitted, NoToken
      <4>2. Pushes(l)' = Pushes(l) + 1
        BY <1>0, <2>1, <4>1 DEF Pushes
      <4>. QED  BY <3>1, <3>2, <4>2 DEF Counted
    <3>3. CASE l # j
      <4>1. Pushes(l)' = Pushes(l)
        BY <1>0, <2>1, <3>3 DEF Pushes, Submitted
      <4>. QED  BY <3>1, <3>3, <4>1 DEF Counted
    <3>. QED  BY <3>2, <3>3
  <2>. QED  BY <2>4 DEF Counted
<1>3. ASSUME NEW i \in Ids, Preempt(i) PROVE Counted'
  <2>. DEFINE j == copies[i].job
              s == [copies EXCEPT ![i] = [Cancelled(@) EXCEPT !.mark = TRUE]]
  <2>1. /\ j \in Jobs /\ s \in Seq(Copy) /\ DOMAIN s = Ids /\ Push(j, s) /\ UNCHANGED token
        /\ \A k \in Ids : Moves(copies[k], s[k])
        /\ preempted' = [preempted EXCEPT ![j] = @ + 1]
    BY <1>3, PreemptFacts
  <2>. HIDE DEF s, j
  <2>2. ASSUME NEW l \in Jobs
        PROVE  IsFiniteSet(CopiesOf(l)') /\ Cardinality(CopiesOf(l)') = Pushes(l)'
    <3>1. /\ IsFiniteSet(CopiesOf(l)')
          /\ Cardinality(CopiesOf(l)') = IF l = j THEN Cardinality(CopiesOf(l)) + 1
                                                  ELSE Cardinality(CopiesOf(l))
      BY <2>1, OneMore
    <3>2. Pushes(l)' = IF l = j THEN Pushes(l) + 1 ELSE Pushes(l)
      BY <1>0, <2>1 DEF Pushes, Submitted
    <3>. QED  BY <3>1, <3>2 DEF Counted
  <2>. QED  BY <2>2 DEF Counted
<1>. QED  BY <1>1, <1>2, <1>3, NextCases

(***************************************************************************)
(* The invariant, and what it implies                                      *)
(***************************************************************************)
IInv ==
    /\ TypeOK
    /\ Shape
    /\ TokenInv
    /\ CopiesSubmitted
    /\ Counted
    /\ NeverVanishes
    /\ PreemptionIsInvisible

LEMMA Inductive == Spec => []IInv
<1>1. Init => IInv
  <2>. SUFFICES ASSUME Init PROVE IInv
    OBVIOUS
  <2>1. TypeOK
    BY TypeInit
  <2>2. Ids = {}
    BY DEF Init, Ids
  <2>3. \A j \in Jobs : order[j] = 0 /\ token[j] = -1 /\ preempted[j] = 0
    BY DEF Init, NoToken
  <2>4. Shape /\ CopiesSubmitted
    BY <2>2 DEF Shape, CopiesSubmitted
  <2>5. TokenInv
    BY <2>2, <2>3 DEF Init, TokenInv, TokensBelow, TokensApart, Submitted, NoToken
  <2>6. Counted
    <3>1. \A j \in Jobs : CopiesOf(j) = {} /\ Pushes(j) = 0
      BY <2>2, <2>3 DEF CopiesOf, Pushes, Submitted, NoToken
    <3>. QED  BY <3>1, FS_EmptySet DEF Counted
  <2>7. NeverVanishes
    BY <2>3 DEF NeverVanishes, Submitted, NoToken
  <2>8. PreemptionIsInvisible
    BY DEF Init, PreemptionIsInvisible
  <2>. QED  BY <2>1, <2>4, <2>5, <2>6, <2>7, <2>8 DEF IInv
<1>2. IInv /\ [Next]_vars => IInv'
  BY TypeStep, ShapeStep, TokenStep, CountedStep, VanishesStep, InvisibleStep DEF IInv
<1>. QED  BY <1>1, <1>2, PTL DEF Spec

\* "the task simply takes longer, never vanishes": as long as a task that kept its
\* token has no answer, one of its copies is on its way to give one.
THEOREM TasksNeverVanish == Spec => []NeverVanishes
<1>1. IInv => NeverVanishes
  BY DEF IInv
<1>. QED  BY <1>1, Inductive, PTL

\* A submitter sees an error only if its job raised or the pool was stopped.
THEOREM PreemptionUnseen == Spec => []PreemptionIsInvisible
<1>1. IInv => PreemptionIsInvisible
  BY DEF IInv
<1>. QED  BY <1>1, Inductive, PTL

\* However often a copy is cancelled, a job is executed at most max_preemptions
\* times more than once.
THEOREM ThrashIsBounded == Spec => []ThrashBound
<1>1. ASSUME IInv, NEW j \in Jobs
      PROVE  Cardinality(CopiesOf(j)) <= 1 + MaxPreemptions
  <2>1. preempted[j] \in 0 .. MaxPreemptions /\ MaxPreemptions \in Nat
    BY <1>1, PoolAssumption DEF IInv, TypeOK
  <2>2. Cardinality(CopiesOf(j)) = Pushes(j)
    BY <1>1 DEF IInv, Counted
  <2>. QED  BY <2>1, <2>2 DEF Pushes
<1>2. IInv => ThrashBound
  BY <1>1 DEF ThrashBound, CopiesOf
<1>. QED  BY <1>2, Inductive, PTL
=============================================================================
