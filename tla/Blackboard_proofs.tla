-------------------------- MODULE Blackboard_proofs --------------------------
(* Theorems of Blackboard, for any processes, entries, knowledge sources and  *)
(* numbers of starts and faults.                                              *)
EXTENDS Blackboard, SequenceTheorems, TLAPS

-----------------------------------------------------------------------------
(* Sequences and the sets of their elements *)

LEMMA Elements ==
    ASSUME NEW S, NEW s \in Seq(S)
    PROVE  /\ ToSet(s) \subseteq S
           /\ ToSet(s) = {} <=> s = <<>>
           /\ \A x : x \in ToSet(s) <=> \E i \in 1 .. Len(s) : s[i] = x
<1>1. DOMAIN s = 1 .. Len(s) /\ Len(s) \in Nat
  OBVIOUS
<1>2. s = <<>> <=> Len(s) = 0
  OBVIOUS
<1>3. \A x : x \in ToSet(s) <=> \E i \in 1 .. Len(s) : s[i] = x
  BY <1>1 DEF ToSet
<1>4. ToSet(s) \subseteq S
  BY <1>1, <1>3
<1>5. ToSet(s) = {} <=> s = <<>>
  <2>1. ASSUME s # <<>> PROVE s[1] \in ToSet(s)
    BY <1>1, <1>2, <1>3, <2>1
  <2>2. ASSUME s = <<>>, NEW x \in ToSet(s) PROVE FALSE
    BY <1>2, <1>3, <2>2
  <2>. QED  BY <2>1, <2>2
<1>. QED  BY <1>3, <1>4, <1>5

LEMMA EmptyElements == ToSet(<<>>) = {}
BY DEF ToSet

LEMMA AppendElements ==
    ASSUME NEW S, NEW s \in Seq(S), NEW x \in S
    PROVE  Append(s, x) \in Seq(S) /\ ToSet(Append(s, x)) = ToSet(s) \cup {x}
<1>1. /\ Append(s, x) \in Seq(S) /\ Len(Append(s, x)) = Len(s) + 1 /\ Len(s) \in Nat
      /\ \A i \in 1 .. Len(s) : Append(s, x)[i] = s[i]
      /\ Append(s, x)[Len(s) + 1] = x
  OBVIOUS
<1>2. \A y : y \in ToSet(Append(s, x)) <=> \E i \in 1 .. Len(s) + 1 : Append(s, x)[i] = y
  BY <1>1, Elements
<1>3. \A y : y \in ToSet(s) <=> \E i \in 1 .. Len(s) : s[i] = y
  BY Elements
<1>4. ASSUME NEW y PROVE y \in ToSet(Append(s, x)) <=> y \in ToSet(s) \cup {x}
  BY <1>1, <1>2, <1>3
<1>. QED  BY <1>1, <1>4

LEMMA TailElements ==
    ASSUME NEW S, NEW s \in Seq(S), s # <<>>
    PROVE  /\ Tail(s) \in Seq(S) /\ Head(s) \in S /\ Len(s) \in Nat \ {0}
           /\ Head(s) = s[1] /\ Len(Tail(s)) = Len(s) - 1
           /\ \A i \in 1 .. Len(Tail(s)) : Tail(s)[i] = s[i + 1]
           /\ ToSet(s) = {Head(s)} \cup ToSet(Tail(s))
<1>1. /\ Tail(s) \in Seq(S) /\ Len(Tail(s)) = Len(s) - 1 /\ Len(s) \in Nat \ {0}
      /\ \A i \in 1 .. Len(Tail(s)) : Tail(s)[i] = s[i + 1]
      /\ Head(s) = s[1] /\ Head(s) \in S
  OBVIOUS
<1>2. \A y : y \in ToSet(s) <=> \E i \in 1 .. Len(s) : s[i] = y
  BY Elements
<1>3. \A y : y \in ToSet(Tail(s)) <=> \E i \in 1 .. Len(s) - 1 : s[i + 1] = y
  <2>1. \A y : y \in ToSet(Tail(s)) <=> \E i \in 1 .. Len(Tail(s)) : Tail(s)[i] = y
    BY <1>1, Elements
  <2>. QED  BY <1>1, <2>1
<1>4. ASSUME NEW y, NEW i \in 1 .. Len(s), s[i] = y, i # 1 PROVE y \in ToSet(Tail(s))
  <2>1. i - 1 \in 1 .. Len(s) - 1 /\ s[(i - 1) + 1] = y
    BY <1>1, <1>4
  <2>. QED  BY <1>3, <2>1
<1>5. ASSUME NEW y PROVE y \in ToSet(s) <=> y \in {Head(s)} \cup ToSet(Tail(s))
  <2>1. y \in ToSet(s) => y \in {Head(s)} \cup ToSet(Tail(s))
    BY <1>1, <1>2, <1>4
  <2>2. y \in ToSet(Tail(s)) => y \in ToSet(s)
    <3>1. \A i \in 1 .. Len(s) - 1 : i + 1 \in 1 .. Len(s)
      BY <1>1
    <3>. QED  BY <1>2, <1>3, <3>1
  <2>3. Head(s) \in ToSet(s)
    BY <1>1, <1>2
  <2>. QED  BY <2>1, <2>2, <2>3
<1>. QED  BY <1>1, <1>5

LEMMA ConcatElements ==
    ASSUME NEW S, NEW s \in Seq(S), NEW t \in Seq(S)
    PROVE  /\ s \o t \in Seq(S) /\ Len(s \o t) = Len(s) + Len(t)
           /\ \A i \in 1 .. Len(s) + Len(t) : (s \o t)[i] = IF i <= Len(s) THEN s[i] ELSE t[i - Len(s)]
           /\ ToSet(s \o t) = ToSet(s) \cup ToSet(t)
<1>1. /\ s \o t \in Seq(S) /\ Len(s \o t) = Len(s) + Len(t)
      /\ Len(s) \in Nat /\ Len(t) \in Nat
      /\ \A i \in 1 .. Len(s) + Len(t) : (s \o t)[i] = IF i <= Len(s) THEN s[i] ELSE t[i - Len(s)]
  OBVIOUS
<1>2. \A y : /\ y \in ToSet(s) <=> \E i \in 1 .. Len(s) : s[i] = y
             /\ y \in ToSet(t) <=> \E i \in 1 .. Len(t) : t[i] = y
             /\ y \in ToSet(s \o t) <=> \E i \in 1 .. Len(s) + Len(t) : (s \o t)[i] = y
  BY <1>1, Elements
<1>3. ASSUME NEW y \in ToSet(s \o t) PROVE y \in ToSet(s) \cup ToSet(t)
  <2>1. PICK i \in 1 .. Len(s) + Len(t) : (s \o t)[i] = y
    BY <1>2
  <2>2. CASE i <= Len(s)
    BY <1>1, <1>2, <2>1, <2>2
  <2>3. CASE ~ i <= Len(s)
    <3>1. i - Len(s) \in 1 .. Len(t)
      BY <1>1, <2>3
    <3>. QED  BY <1>1, <1>2, <2>1, <2>3, <3>1
  <2>. QED  BY <2>2, <2>3
<1>4. ASSUME NEW y \in ToSet(s) PROVE y \in ToSet(s \o t)
  <2>1. PICK i \in 1 .. Len(s) : s[i] = y
    BY <1>2
  <2>2. i \in 1 .. Len(s) + Len(t) /\ i <= Len(s)
    BY <1>1
  <2>. QED  BY <1>1, <1>2, <2>1, <2>2
<1>5. ASSUME NEW y \in ToSet(t) PROVE y \in ToSet(s \o t)
  <2>1. PICK i \in 1 .. Len(t) : t[i] = y
    BY <1>2
  <2>2. i + Len(s) \in 1 .. Len(s) + Len(t) /\ ~ (i + Len(s) <= Len(s)) /\ (i + Len(s)) - Len(s) = i
    BY <1>1
  <2>. QED  BY <1>1, <1>2, <2>1, <2>2
<1>. QED  BY <1>1, <1>3, <1>4, <1>5

LEMMA Repeated ==
    ASSUME NEW S, NEW x \in S, NEW k \in Nat
    PROVE  /\ [i \in 1 .. k |-> x] \in Seq(S) /\ Len([i \in 1 .. k |-> x]) = k
           /\ ToSet([i \in 1 .. k |-> x]) = IF k > 0 THEN {x} ELSE {}
<1> DEFINE s == [i \in 1 .. k |-> x]
<1>1. s \in [1 .. k -> S]
  OBVIOUS
<1>2. s \in Seq(S) /\ Len(s) = k
  BY <1>1, SeqDef
<1>3. \A y : y \in ToSet(s) <=> \E i \in 1 .. k : s[i] = y
  BY <1>2, Elements
<1>4. ASSUME NEW y PROVE y \in ToSet(s) <=> y \in IF k > 0 THEN {x} ELSE {}
  <2>1. k > 0 => 1 \in 1 .. k
    OBVIOUS
  <2>. QED  BY <1>3, <2>1
<1>. QED  BY <1>2, <1>4

-----------------------------------------------------------------------------
(* Types *)

\* The variables of the four groups of TypeOK.
BoardType ==
    /\ held \in [Processes -> [Entries -> Nat]]
    /\ place \in [Entries -> {"new", "notify", "save", "written", "lost"}]
    /\ calls \in [Entries -> Nat]

RedisType ==
    /\ sync \in [Processes -> {"off", "joining", "listening"}]
    /\ hooks \in [Processes -> Nat]
    /\ inbox \in [Processes -> Seq(Entries)]
    /\ saving \in [Processes -> Entries \cup {NoEntry}]
    /\ snapshot \subseteq Entries

ControlType ==
    /\ subs \in [Processes -> Nat]
    /\ queue \in [Processes -> Seq(Entries)] /\ batch \in [Processes -> Seq(Entries)]
    /\ doing \in [Processes -> Entries \cup {NoEntry}]
    /\ steps \in [Processes -> Nat]

HistoryType ==
    /\ starts \in [Processes -> Nat] /\ faults \in Nat
    /\ solved \in [Entries -> Nat]
    /\ raised \subseteq Entries /\ dropped \subseteq Entries
    /\ missed \in [Processes -> SUBSET Entries] /\ again \subseteq Processes

LEMMA TypeParts == TypeOK <=> BoardType /\ RedisType /\ ControlType /\ HistoryType
BY DEF TypeOK, BoardType, RedisType, ControlType, HistoryType

LEMMA TypePartsNext == TypeOK' <=> BoardType' /\ RedisType' /\ ControlType' /\ HistoryType'
BY DEF TypeOK, BoardType, RedisType, ControlType, HistoryType

LEMMA TypeInit == Init => TypeOK
<1> SUFFICES ASSUME Init PROVE TypeOK
  OBVIOUS
<1>1. Nothing \in [Entries -> Nat] /\ <<>> \in Seq(Entries)
  BY DEF Nothing
<1>2. BoardType
  BY <1>1 DEF Init, BoardType
<1>3. RedisType
  BY <1>1 DEF Init, RedisType
<1>4. ControlType
  BY <1>1 DEF Init, ControlType
<1>5. HistoryType
  BY <1>1 DEF Init, HistoryType
<1>. QED  BY <1>2, <1>3, <1>4, <1>5, TypeParts

\* What the operations add to a blackboard or to a set of processes.
LEMMA AppendType ==
    ASSUME BoardType, RedisType, NEW n \in Processes, NEW e \in Entries, AppendEntry(n, e)
    PROVE  BoardType'
<1>1. held[n] \in [Entries -> Nat] /\ held[n][e] + 1 \in Nat /\ hooks[n] \in Nat
  BY DEF BoardType, RedisType
<1>2. held' = [held EXCEPT ![n][e] = held[n][e] + 1]
  BY DEF AppendEntry
<1>3. held' \in [Processes -> [Entries -> Nat]]
  BY <1>1, <1>2 DEF BoardType
<1>. QED  BY <1>1, <1>3 DEF AppendEntry, BoardType

LEMMA ElementsTyped ==
    ASSUME TypeOK, NEW n \in Processes
    PROVE  /\ ToSet(queue[n]) \subseteq Entries /\ ToSet(batch[n]) \subseteq Entries
           /\ ToSet(inbox[n]) \subseteq Entries
           /\ queue[n] \in Seq(Entries) /\ batch[n] \in Seq(Entries) /\ inbox[n] \in Seq(Entries)
<1>1. queue[n] \in Seq(Entries) /\ batch[n] \in Seq(Entries) /\ inbox[n] \in Seq(Entries)
  BY DEF TypeOK
<1>. QED  BY <1>1, Elements

LEMMA CalledType ==
    ASSUME BoardType, NEW e \in Entries, calls[e] > 0, Called(e)
    PROVE  BoardType'
<1>1. calls[e] - 1 \in Nat
  BY DEF BoardType
<1>. QED  BY <1>1 DEF Called, BoardType

LEMMA DisconnectType ==
    ASSUME RedisType, NEW n \in Processes, NEW to \in {"off", "joining"}, Disconnect(n, to),
           hooks' \in [Processes -> Nat], snapshot' = snapshot
    PROVE  RedisType'
<1>1. <<>> \in Seq(Entries)
  OBVIOUS
<1>. QED  BY <1>1 DEF Disconnect, RedisType

\* What an action that has begun needs to go on: a save follows a callback, and an
\* execution handles a trigger of the batch.
Underway ==
    /\ \A e \in Entries : place[e] = "save" => calls[e] > 0
    /\ \A n \in Processes : doing[n] # NoEntry => batch[n] # <<>>

TypeInv == TypeOK /\ Underway

LEMMA WriteType ==
    ASSUME TypeInv, NEW e \in Entries, Write(Home[e], e) \/ WriteStep(e)
    PROVE  TypeInv'
<1>1. Home[e] \in Processes /\ BoardType /\ RedisType /\ ControlType /\ HistoryType /\ Underway
  BY BlackboardAssumption, TypeParts DEF TypeInv
<1>2. CASE Write(Home[e], e)
  <2>1. BoardType'
    BY <1>1, <1>2, AppendType DEF Write
  <2>2. RedisType' /\ ControlType' /\ HistoryType'
    BY <1>1, <1>2 DEF Write, redis, control, history, RedisType, ControlType, HistoryType
  <2>3. Underway'
    BY <1>1, <1>2 DEF Write, AppendEntry, Underway, BoardType, control
  <2>. QED  BY <2>1, <2>2, <2>3, TypePartsNext DEF TypeInv
<1>3. CASE Publish(e)
  <2>1. BoardType' /\ ControlType'
    BY <1>1, <1>3 DEF Publish, BoardType, ControlType, control
  <2>2. inbox' \in [Processes -> Seq(Entries)]
    BY <1>1, <1>3 DEF Publish, Deliver, RedisType
  <2>3. RedisType'
    BY <1>1, <1>3, <2>2 DEF Publish, RedisType
  <2>4. HistoryType'
    BY <1>1, <1>3 DEF Publish, HistoryType
  <2>5. Underway'
    BY <1>1, <1>3 DEF Publish, Calling, Underway, BoardType, control
  <2>. QED  BY <2>1, <2>3, <2>4, <2>5, TypePartsNext DEF TypeInv
<1>4. CASE Save(e) \/ SkipCall(e) \/ CallFails(e)
  <2>1. Called(e) /\ calls[e] > 0
    BY <1>1, <1>4 DEF Save, SkipCall, CallFails, Calling, Underway
  <2>2. BoardType'
    BY <1>1, <2>1, CalledType
  <2>3. RedisType' /\ ControlType' /\ HistoryType'
    BY <1>1, <1>4, SMTT(30) DEF Save, SkipCall, CallFails, Fault, redis, control, history, RedisType,
                      ControlType, HistoryType
  <2>4. Underway'
    BY <1>1, <1>4, <2>1 DEF Save, SkipCall, CallFails, Called, Underway, BoardType, control
  <2>. QED  BY <2>2, <2>3, <2>4, TypePartsNext DEF TypeInv
<1>5. CASE Raise(e)
  <2>1. BoardType' /\ RedisType' /\ HistoryType'
    BY <1>1, <1>5 DEF Raise, redis, BoardType, RedisType, HistoryType
  <2>2. queue' \in [Processes -> Seq(Entries)]
    <3> DEFINE n == Home[e]
    <3>1. [i \in 1 .. subs[n] |-> e] \in Seq(Entries)
      BY <1>1, Repeated DEF ControlType
    <3>2. queue[n] \o [i \in 1 .. subs[n] |-> e] \in Seq(Entries)
      BY <1>1, <3>1, ConcatElements DEF ControlType
    <3>. QED  BY <1>1, <1>5, <3>2 DEF Raise, ControlType
  <2>3. ControlType'
    BY <1>1, <1>5, <2>2 DEF Raise, ControlType
  <2>4. Underway'
    BY <1>1, <1>5 DEF Raise, Underway, BoardType
  <2>. QED  BY <2>1, <2>3, <2>4, TypePartsNext DEF TypeInv
<1>. QED  BY <1>2, <1>3, <1>4, <1>5 DEF WriteStep

LEMMA SyncType ==
    ASSUME TypeInv, NEW n \in Processes, SyncStep(n)
    PROVE  TypeInv'
<1>1. BoardType /\ RedisType /\ ControlType /\ HistoryType /\ Underway
  BY TypeParts DEF TypeInv
<1>2. ControlType' /\ Underway'
  BY <1>1 DEF SyncStep, Start, StartBlind, Join, Listen, Merge, SaveMerged, ListenFails, Stop,
              Detach, control, boards, ControlType, Underway
<1>3. ASSUME NEW boot \in SUBSET Entries, Join(n, boot), faults' \in Nat PROVE TypeInv'
  <2>1. Plus(held[n], boot) \in [Entries -> Nat]
    BY <1>1 DEF Plus, BoardType
  <2>2. BoardType'
    BY <1>1, <1>3, <2>1 DEF Join, BoardType
  <2>3. RedisType'
    BY <1>1, <1>3 DEF Join, RedisType
  <2>4. Unsaved \cup (snapshot \ boot) \subseteq Entries
    BY <1>1 DEF Unsaved, RedisType
  <2>5. HistoryType'
    BY <1>1, <1>3, <2>4 DEF Join, HistoryType
  <2>. QED  BY <1>2, <2>2, <2>3, <2>5, TypePartsNext DEF TypeInv
<1>4. CASE Start(n) \/ StartBlind(n)
  <2>1. snapshot \in SUBSET Entries /\ {} \in SUBSET Entries /\ faults' \in Nat
    BY <1>1, <1>4 DEF Start, StartBlind, Fault, RedisType, HistoryType
  <2>. QED  BY <1>3, <1>4, <2>1 DEF Start, StartBlind
<1>5. CASE Listen(n)
  <2>1. BoardType' /\ RedisType' /\ HistoryType'
    BY <1>1, <1>5 DEF Listen, boards, history, BoardType, RedisType, HistoryType
  <2>. QED  BY <1>2, <2>1, TypePartsNext DEF TypeInv
<1>6. CASE Merge(n)
  <2>1. Tail(inbox[n]) \in Seq(Entries) /\ Head(inbox[n]) \in Entries
    BY <1>1, <1>6, TailElements DEF Merge, RedisType
  <2>2. held' = [held EXCEPT ![n][Head(inbox[n])] = held[n][Head(inbox[n])] + 1]
    BY <1>6 DEF Merge
  <2>3. BoardType'
    BY <1>1, <1>6, <2>1, <2>2, SMTT(30) DEF Merge, BoardType
  <2>4. RedisType' /\ HistoryType'
    BY <1>1, <1>6, <2>1 DEF Merge, history, RedisType, HistoryType
  <2>. QED  BY <1>2, <2>3, <2>4, TypePartsNext DEF TypeInv
<1>7. CASE SaveMerged(n)
  <2>1. BoardType' /\ RedisType' /\ HistoryType'
    BY <1>1, <1>7 DEF SaveMerged, boards, history, BoardType, RedisType, HistoryType
  <2>. QED  BY <1>2, <2>1, TypePartsNext DEF TypeInv
<1>8. CASE ListenFails(n)
  <2>1. RedisType'
    BY <1>1, <1>8, DisconnectType DEF ListenFails, RedisType
  <2>2. ToSet(inbox[n]) \subseteq Entries
    BY ElementsTyped DEF TypeInv
  <2>3. BoardType' /\ HistoryType'
    BY <1>1, <1>8, <2>2 DEF ListenFails, Fault, boards, BoardType, HistoryType
  <2>. QED  BY <1>2, <2>1, <2>3, TypePartsNext DEF TypeInv
<1>9. CASE Stop(n)
  <2>1. RedisType'
    BY <1>1, <1>9, DisconnectType DEF Stop, RedisType
  <2>2. BoardType' /\ HistoryType'
    BY <1>1, <1>9 DEF Stop, boards, history, BoardType, HistoryType
  <2>. QED  BY <1>2, <2>1, <2>2, TypePartsNext DEF TypeInv
<1>10. CASE Detach(n)
  <2>1. hooks' \in [Processes -> Nat] /\ Nothing \in [Entries -> Nat]
    BY <1>1, <1>10 DEF Detach, RedisType, Nothing
  <2>2. RedisType'
    BY <1>1, <1>10, <2>1, DisconnectType DEF Detach
  <2>3. BoardType' /\ HistoryType'
    BY <1>1, <1>10, <2>1 DEF Detach, history, BoardType, HistoryType
  <2>. QED  BY <1>2, <2>2, <2>3, TypePartsNext DEF TypeInv
<1>. QED  BY <1>4, <1>5, <1>6, <1>7, <1>8, <1>9, <1>10 DEF SyncStep

LEMMA ControlTypes ==
    ASSUME TypeInv, NEW n \in Processes, ControlNext(n) \/ Crash(n)
    PROVE  TypeInv'
<1>1. /\ BoardType /\ RedisType /\ ControlType /\ HistoryType /\ Underway
      /\ ToSet(queue[n]) \subseteq Entries /\ ToSet(batch[n]) \subseteq Entries
      /\ <<>> \in Seq(Entries)
  BY TypeParts, ElementsTyped DEF TypeInv
<1>2. CASE StartController(n)
  <2>1. BoardType' /\ RedisType' /\ ControlType' /\ HistoryType' /\ Underway'
    BY <1>1, <1>2, SMTT(30) DEF StartController, boards, redis, BoardType, RedisType, ControlType,
                      HistoryType, Underway
  <2>. QED  BY <2>1, TypePartsNext DEF TypeInv
<1>3. CASE ControlStep(n)
  <2>1. BoardType' /\ RedisType' /\ HistoryType'
    BY <1>1, <1>3 DEF ControlStep, boards, redis, history, BoardType, RedisType, HistoryType
  <2>2. ControlType'
    BY <1>1, <1>3 DEF ControlStep, ControlType
  <2>3. Underway'
    BY <1>1, <1>3 DEF ControlStep, Idle, boards, Underway, ControlType
  <2>. QED  BY <2>1, <2>2, <2>3, TypePartsNext DEF TypeInv
<1>4. ASSUME NextTrigger(n), batch[n] # <<>>
      PROVE  /\ batch' \in [Processes -> Seq(Entries)] /\ steps' \in [Processes -> Nat]
             /\ \A m \in Processes \ {n} : batch'[m] = batch[m]
  BY <1>1, <1>4, TailElements DEF NextTrigger, ControlType
<1>5. CASE Execute(n)
  <2> DEFINE e == Head(batch[n])
  <2>1. e \in Entries /\ batch[n] # <<>> /\ doing[n] = NoEntry
    BY <1>1, <1>5, TailElements DEF Execute, ControlType
  <2>2. RedisType' /\ HistoryType'
    BY <1>1, <1>5, <2>1 DEF Execute, redis, RedisType, HistoryType
  <2>3. CASE /\ Reply[e] # NoEntry /\ AppendEntry(n, Reply[e])
             /\ doing' = [doing EXCEPT ![n] = Reply[e]] /\ UNCHANGED <<batch, steps>>
    <3>1. Reply[e] \in Entries
      BY <2>1, <2>3, BlackboardAssumption
    <3>2. BoardType' /\ ControlType'
      BY <1>1, <1>5, <2>3, <3>1, AppendType DEF Execute, ControlType
    <3>3. Underway'
      BY <1>1, <2>1, <2>3, <3>1 DEF AppendEntry, Underway, BoardType, ControlType
    <3>. QED  BY <2>2, <3>2, <3>3, TypePartsNext DEF TypeInv
  <2>4. CASE NextTrigger(n) /\ UNCHANGED <<boards, doing>>
    <3>1. BoardType' /\ ControlType'
      BY <1>1, <1>4, <1>5, <2>1, <2>4 DEF Execute, boards, BoardType, ControlType
    <3>2. Underway'
      BY <1>1, <1>4, <2>1, <2>4 DEF boards, Underway
    <3>. QED  BY <2>2, <3>1, <3>2, TypePartsNext DEF TypeInv
  <2>. QED  BY <1>5, <2>3, <2>4 DEF Execute
<1>6. CASE Executed(n)
  <2>1. batch[n] # <<>> /\ NextTrigger(n)
    BY <1>1, <1>6 DEF Executed, Underway
  <2>2. BoardType' /\ RedisType' /\ HistoryType'
    BY <1>1, <1>6 DEF Executed, boards, redis, history, BoardType, RedisType, HistoryType
  <2>3. ControlType'
    BY <1>1, <1>4, <1>6, <2>1 DEF Executed, ControlType
  <2>4. Underway'
    BY <1>1, <1>4, <1>6, <2>1 DEF Executed, boards, Underway, ControlType
  <2>. QED  BY <2>2, <2>3, <2>4, TypePartsNext DEF TypeInv
<1>7. CASE CancelStep(n)
  <2>1. BoardType'
    BY <1>1, <1>7 DEF CancelStep, BoardType
  <2>2. RedisType' /\ ControlType' /\ HistoryType'
    BY <1>1, <1>7 DEF CancelStep, Fault, redis, RedisType, ControlType, HistoryType
  <2>3. Underway'
    BY <1>1, <1>7 DEF CancelStep, Underway, BoardType, ControlType
  <2>. QED  BY <2>1, <2>2, <2>3, TypePartsNext DEF TypeInv
<1>8. CASE Crash(n)
  <2>1. Nothing \in [Entries -> Nat] /\ hooks' \in [Processes -> Nat]
    BY <1>1, <1>8 DEF Crash, RedisType, Nothing
  <2>2. BoardType'
    BY <1>1, <1>8, <2>1 DEF Crash, BoardType
  <2>3. RedisType'
    BY <1>1, <1>8, <2>1, DisconnectType DEF Crash
  <2>4. ControlType' /\ HistoryType'
    BY <1>1, <1>8 DEF Crash, Fault, ControlType, HistoryType
  <2>5. Underway'
    BY <1>1, <1>8 DEF Crash, Underway, BoardType, ControlType
  <2>. QED  BY <2>2, <2>3, <2>4, <2>5, TypePartsNext DEF TypeInv
<1>. QED  BY <1>2, <1>3, <1>5, <1>6, <1>7, <1>8 DEF ControlNext

LEMMA TypeStep == TypeInv /\ [Next]_vars => TypeInv'
<1> SUFFICES ASSUME TypeInv, [Next]_vars PROVE TypeInv'
  OBVIOUS
<1>1. CASE UNCHANGED vars
  BY <1>1 DEF vars, boards, redis, control, history, TypeInv, TypeOK, Underway
<1>2. CASE \E e \in Entries : Write(Home[e], e) \/ WriteStep(e)
  BY <1>2, WriteType
<1>3. CASE \E n \in Processes : SyncStep(n) \/ ControlNext(n) \/ Crash(n)
  BY <1>3, SyncType, ControlTypes
<1>. QED  BY <1>1, <1>2, <1>3 DEF Next

LEMMA TypeInvariance == Spec => []TypeInv
<1>1. Init => TypeInv
  <2>1. ASSUME Init PROVE Underway
    BY <2>1 DEF Init, Underway
  <2>. QED  BY <2>1, TypeInit DEF TypeInv
<1>. QED  BY <1>1, TypeStep, PTL DEF Spec

\* Every state is well-typed: no callback is counted below zero, and no batch is
\* popped when it is empty.
THEOREM TypeCorrect == Spec => []TypeOK
BY TypeInvariance, PTL DEF TypeInv

-----------------------------------------------------------------------------
(* The triggers of a controller *)

Distinct(s) == \A i, j \in 1 .. Len(s) : s[i] = s[j] => i = j

LEMMA DistinctTail ==
    ASSUME NEW S, NEW s \in Seq(S), s # <<>>, Distinct(s)
    PROVE  Distinct(Tail(s)) /\ Head(s) \notin ToSet(Tail(s))
<1>1. /\ Tail(s) \in Seq(S) /\ Len(s) \in Nat \ {0} /\ Head(s) = s[1]
      /\ Len(Tail(s)) = Len(s) - 1
      /\ \A i \in 1 .. Len(Tail(s)) : Tail(s)[i] = s[i + 1]
  BY TailElements
<1>2. \A i \in 1 .. Len(Tail(s)) : i + 1 \in 1 .. Len(s) /\ i + 1 # 1
  BY <1>1
<1>3. Distinct(Tail(s))
  BY <1>1, <1>2 DEF Distinct
<1>4. \A x : x \in ToSet(Tail(s)) <=> \E i \in 1 .. Len(Tail(s)) : Tail(s)[i] = x
  BY <1>1, Elements
<1>5. 1 \in 1 .. Len(s)
  BY <1>1
<1>6. Head(s) \notin ToSet(Tail(s))
  BY <1>1, <1>2, <1>4, <1>5 DEF Distinct
<1>. QED  BY <1>3, <1>6

LEMMA DistinctConcat ==
    ASSUME NEW S, NEW s \in Seq(S), NEW x \in S \ ToSet(s), NEW k \in 0 .. 1, Distinct(s)
    PROVE  Distinct(s \o [i \in 1 .. k |-> x])
<1> DEFINE t == [i \in 1 .. k |-> x]
<1>1. t \in Seq(S) /\ Len(t) = k /\ \A i \in 1 .. k : t[i] = x
  BY Repeated
<1>2. /\ Len(s \o t) = Len(s) + k
      /\ \A i \in 1 .. Len(s) + k : (s \o t)[i] = IF i <= Len(s) THEN s[i] ELSE t[i - Len(s)]
  BY <1>1, ConcatElements
<1>3. \A i \in 1 .. Len(s) : s[i] # x
  BY Elements
<1> HIDE DEF t
<1>4. Len(s) \in Nat
  OBVIOUS
<1>5. \A i \in 1 .. Len(s) + k : IF i <= Len(s) THEN i \in 1 .. Len(s) /\ (s \o t)[i] = s[i]
                                 ELSE i = Len(s) + 1 /\ (s \o t)[i] = x
  <2> TAKE i \in 1 .. Len(s) + k
  <2>1. CASE i <= Len(s)
    BY <1>2, <1>4, <2>1
  <2>2. CASE ~ i <= Len(s)
    <3>1. i - Len(s) \in 1 .. k /\ i = Len(s) + 1
      BY <1>4, <2>2
    <3>. QED  BY <1>1, <1>2, <2>2, <3>1
  <2>. QED  BY <2>1, <2>2
<1>6. Distinct(s \o t)
  BY <1>2, <1>3, <1>5 DEF Distinct
<1>. QED  BY <1>6 DEF t

\* The triggers of n are written entries of n; while its knowledge source writes, the
\* trigger at hand counts as executed; and, unless its controller was started twice,
\* no trigger is there twice and the others have not been executed.
HomeAt(n) ==
    \A e \in ToSet(queue[n]) \cup ToSet(batch[n]) : Home[e] = n /\ place[e] = "written"

DoingAt(n) == doing[n] # NoEntry => solved[Head(batch[n])] > 0

OnceAt(n) ==
    n \notin again =>
        /\ subs[n] <= 1
        /\ Distinct(queue[n]) /\ Distinct(batch[n]) /\ ToSet(queue[n]) \cap ToSet(batch[n]) = {}
        /\ \A e \in ToSet(queue[n]) : solved[e] = 0
        /\ \A i \in 1 .. Len(batch[n]) : solved[batch[n][i]] > 0 => i = 1 /\ doing[n] # NoEntry
        /\ \A e \in Entries : Home[e] = n => solved[e] <= 1

KeptAt(n) ==
    \A e \in raised \cap Problems : Home[e] = n =>
        \/ e \in ToSet(queue[n]) \cup ToSet(batch[n])
        \/ solved[e] > 0
        \/ e \in dropped

TriggersAt(n) == HomeAt(n) /\ DoingAt(n) /\ OnceAt(n) /\ KeptAt(n)

SolvedWritten == \A e \in Entries : solved[e] > 0 => place[e] = "written"

ControlInv == SolvedWritten /\ \A n \in Processes : TriggersAt(n)

\* A written entry stays written.
WrittenStays == \A e \in Entries : place[e] = "written" => place'[e] = "written"

\* What is none of the controller of m leaves its triggers as they were.
LEMMA OthersTriggers ==
    ASSUME NEW m \in Processes, TypeInv, TriggersAt(m), WrittenStays,
           solved' \in [Entries -> Nat],
           queue'[m] = queue[m], batch'[m] = batch[m], doing'[m] = doing[m], subs'[m] = subs[m],
           again \subseteq again', dropped \subseteq dropped',
           \A e \in Entries : solved'[e] >= solved[e],
           \A e \in Entries : Home[e] = m => solved'[e] = solved[e],
           \A e \in Entries : Home[e] = m => (e \in raised' => e \in raised)
    PROVE  TriggersAt(m)'
<1>1. /\ ToSet(queue[m]) \subseteq Entries /\ ToSet(batch[m]) \subseteq Entries
      /\ batch[m] \in Seq(Entries)
  BY ElementsTyped DEF TypeInv
<1>2. \A e \in ToSet(queue[m]) \cup ToSet(batch[m]) : solved'[e] = solved[e]
  BY <1>1 DEF TriggersAt, HomeAt
<1>3. HomeAt(m)'
  BY <1>1 DEF TriggersAt, HomeAt, WrittenStays
<1>4. DoingAt(m)'
  <2>1. ASSUME doing[m] # NoEntry PROVE Head(batch[m]) \in ToSet(batch[m])
    <3>1. batch[m] # <<>>
      BY <2>1 DEF TypeInv, Underway
    <3>. QED  BY <1>1, <3>1, TailElements
  <2>. QED  BY <1>2, <2>1 DEF TriggersAt, DoingAt
<1>5. OnceAt(m)'
  <2>1. \A i \in 1 .. Len(batch[m]) : batch[m][i] \in ToSet(batch[m])
    BY <1>1, Elements
  <2>. QED  BY <1>2, <2>1 DEF TriggersAt, OnceAt
<1>6. KeptAt(m)'
  <2>1. raised \subseteq Entries /\ Problems \subseteq Entries /\ solved \in [Entries -> Nat]
    BY BlackboardAssumption DEF TypeInv, TypeOK
  <2>. QED  BY <1>1, <2>1 DEF TriggersAt, KeptAt
<1>. QED  BY <1>3, <1>4, <1>5, <1>6 DEF TriggersAt

\* Steps that do not touch the triggers at all.
LEMMA QuietSteps ==
    ASSUME TypeInv, ControlInv, WrittenStays,
           UNCHANGED <<subs, queue, batch, doing, solved, raised>>,
           again \subseteq again', dropped \subseteq dropped'
    PROVE  ControlInv'
<1>1. solved \in [Entries -> Nat]
  BY DEF TypeInv, TypeOK
<1>2. SolvedWritten'
  BY DEF ControlInv, SolvedWritten, WrittenStays
<1>3. ASSUME NEW m \in Processes PROVE TriggersAt(m)'
  <2>1. \A e \in Entries : solved'[e] >= solved[e] /\ solved'[e] = solved[e]
    BY <1>1
  <2>. QED  BY <1>1, <2>1, OthersTriggers DEF ControlInv
<1>. QED  BY <1>2, <1>3 DEF ControlInv

LEMMA WrittenStep ==
    ASSUME TypeInv, [Next]_vars
    PROVE  WrittenStays
<1>1. place \in [Entries -> {"new", "notify", "save", "written", "lost"}] /\ BlackboardAssumption
  BY BlackboardAssumption DEF TypeInv, TypeOK
<1>2. ASSUME NEW e \in Entries, Write(Home[e], e) \/ WriteStep(e) PROVE WrittenStays
  BY <1>1, <1>2 DEF WrittenStays, Write, AppendEntry, WriteStep, Publish, Save, SkipCall, CallFails,
                    Raise, Called, Calling
<1>3. ASSUME NEW n \in Processes, SyncStep(n) PROVE WrittenStays
  BY <1>1, <1>3 DEF WrittenStays, SyncStep, Start, StartBlind, Join, Listen, Merge, SaveMerged,
                    ListenFails, Stop, Detach, boards
<1>4. ASSUME NEW n \in Processes, ControlNext(n) \/ Crash(n) PROVE WrittenStays
  <2>1. CASE StartController(n) \/ ControlStep(n) \/ Executed(n)
    BY <2>1 DEF WrittenStays, StartController, ControlStep, Executed, boards
  <2>2. CASE Execute(n)
    BY <1>1, <2>2 DEF WrittenStays, Execute, AppendEntry, boards
  <2>3. CASE CancelStep(n)
    BY <1>1, <2>3 DEF WrittenStays, CancelStep, Writing
  <2>4. CASE Crash(n)
    BY <1>1, <2>4 DEF WrittenStays, Crash, Writing
  <2>. QED  BY <1>4, <2>1, <2>2, <2>3, <2>4 DEF ControlNext
<1>5. ASSUME UNCHANGED vars PROVE WrittenStays
  BY <1>5 DEF WrittenStays, vars, boards
<1>. QED  BY <1>2, <1>3, <1>4, <1>5 DEF Next

LEMMA RaiseTriggers ==
    ASSUME TypeInv, ControlInv, WrittenStays, NEW e \in Entries, Raise(e)
    PROVE  ControlInv'
<1> DEFINE n == Home[e]
           more == [i \in 1 .. subs[n] |-> e]
<1>1. /\ n \in Processes /\ place[e] = "notify" /\ solved[e] = 0 /\ subs[n] \in Nat
      /\ solved' = solved /\ batch' = batch /\ doing' = doing /\ subs' = subs
      /\ again' = again /\ dropped' = dropped /\ solved \in [Entries -> Nat]
      /\ queue[n] \in Seq(Entries) /\ queue \in [Processes -> Seq(Entries)]
      /\ raised' = IF subs[n] > 0 THEN raised \cup {e} ELSE raised
      /\ queue' = [queue EXCEPT ![n] = queue[n] \o more]
      /\ place' = [place EXCEPT ![e] = "written"]
      /\ place \in [Entries -> {"new", "notify", "save", "written", "lost"}]
  <2>1. /\ n \in Processes /\ subs[n] \in Nat /\ solved \in [Entries -> Nat]
        /\ queue[n] \in Seq(Entries) /\ queue \in [Processes -> Seq(Entries)]
        /\ place \in [Entries -> {"new", "notify", "save", "written", "lost"}]
    BY BlackboardAssumption DEF TypeInv, TypeOK
  <2>2. place[e] = "notify"
    BY DEF Raise
  <2>3. solved[e] = 0
    <3>1. ~ (solved[e] > 0)
      BY <2>2 DEF ControlInv, SolvedWritten
    <3>2. solved[e] \in Nat
      BY <2>1
    <3>. QED  BY <3>1, <3>2
  <2>. QED  BY <2>1, <2>2, <2>3 DEF Raise
<1>2. SolvedWritten'
  BY <1>1 DEF ControlInv, SolvedWritten, WrittenStays
<1>3. ASSUME NEW m \in Processes \ {n} PROVE TriggersAt(m)'
  <2>1. /\ queue'[m] = queue[m] /\ \A x \in Entries : solved'[x] >= solved[x] /\ solved'[x] = solved[x]
        /\ \A x \in Entries : Home[x] = m => (x \in raised' => x \in raised)
    BY <1>1, <1>3
  <2>. QED  BY <1>1, <2>1, OthersTriggers DEF ControlInv
<1>4. /\ more \in Seq(Entries) /\ ToSet(more) = IF subs[n] > 0 THEN {e} ELSE {}
      /\ queue'[n] = queue[n] \o more
      /\ ToSet(queue'[n]) = ToSet(queue[n]) \cup ToSet(more)
  <2>1. more \in Seq(Entries) /\ ToSet(more) = IF subs[n] > 0 THEN {e} ELSE {}
    BY <1>1, Repeated
  <2>2. queue'[n] = queue[n] \o more
    BY <1>1
  <2>3. ToSet(queue[n] \o more) = ToSet(queue[n]) \cup ToSet(more)
    BY <1>1, <2>1, ConcatElements
  <2>. QED  BY <2>1, <2>2, <2>3
<1>5. ToSet(queue[n]) \subseteq Entries /\ ToSet(batch[n]) \subseteq Entries
  BY <1>1, ElementsTyped DEF TypeInv
<1>6. TriggersAt(n) /\ e \notin ToSet(queue[n]) /\ e \notin ToSet(batch[n])
  BY <1>1 DEF ControlInv, TriggersAt, HomeAt
<1>7. ASSUME n \notin again PROVE Distinct(queue'[n])
  <2>1. subs[n] \in 0 .. 1 /\ Distinct(queue[n])
    BY <1>1, <1>6, <1>7 DEF TriggersAt, OnceAt
  <2>2. e \in Entries \ ToSet(queue[n]) /\ queue[n] \in Seq(Entries)
    BY <1>1, <1>6
  <2>3. \A s \in Seq(Entries), x \in Entries : \A k \in 0 .. 1 :
          x \notin ToSet(s) /\ Distinct(s) => Distinct(s \o [i \in 1 .. k |-> x])
    BY DistinctConcat
  <2>4. Distinct(queue[n] \o more)
    BY <2>1, <2>2, <2>3
  <2>. QED  BY <1>4, <2>4
<1> HIDE DEF more
<1>8. HomeAt(n)'
  BY <1>1, <1>4, <1>5, <1>6 DEF TriggersAt, HomeAt
<1>9. DoingAt(n)'
  BY <1>1, <1>6 DEF TriggersAt, DoingAt
<1>10. OnceAt(n)'
  BY <1>1, <1>4, <1>6, <1>7 DEF TriggersAt, OnceAt
<1>11. KeptAt(n)'
  BY <1>1, <1>4, <1>6 DEF TriggersAt, KeptAt
<1>12. TriggersAt(n)'
  BY <1>8, <1>9, <1>10, <1>11 DEF TriggersAt
<1>. QED  BY <1>2, <1>3, <1>12 DEF ControlInv

\* The batch loses the trigger at hand.
LEMMA NextTriggers ==
    ASSUME TypeInv, NEW n \in Processes, TriggersAt(n), batch[n] # <<>>, NextTrigger(n)
    PROVE  LET e == Head(batch[n]) IN
           /\ e \in Entries /\ Home[e] = n /\ place[e] = "written"
           /\ e \in ToSet(batch[n]) /\ ToSet(batch[n]) = {e} \cup ToSet(batch'[n])
           /\ ToSet(batch'[n]) \subseteq Entries
           /\ \A m \in Processes \ {n} : batch'[m] = batch[m]
           /\ n \notin again =>
                /\ Distinct(batch'[n]) /\ e \notin ToSet(batch'[n])
                /\ \A i \in 1 .. Len(batch'[n]) :
                      batch'[n][i] \in ToSet(batch'[n]) /\ solved[batch'[n][i]] = 0
<1> DEFINE e == Head(batch[n])
<1>1. /\ batch \in [Processes -> Seq(Entries)] /\ batch[n] \in Seq(Entries)
      /\ batch' = [batch EXCEPT ![n] = Tail(batch[n])] /\ solved \in [Entries -> Nat]
  BY DEF TypeInv, TypeOK, NextTrigger
<1>2. batch'[n] = Tail(batch[n]) /\ \A m \in Processes \ {n} : batch'[m] = batch[m]
  BY <1>1
<1>3. /\ Tail(batch[n]) \in Seq(Entries) /\ e \in Entries /\ Len(batch[n]) \in Nat \ {0}
      /\ e = batch[n][1] /\ Len(Tail(batch[n])) = Len(batch[n]) - 1
      /\ \A i \in 1 .. Len(Tail(batch[n])) : Tail(batch[n])[i] = batch[n][i + 1]
      /\ ToSet(batch[n]) = {e} \cup ToSet(Tail(batch[n]))
  BY <1>1, TailElements
<1>4. Home[e] = n /\ place[e] = "written"
  BY <1>3 DEF TriggersAt, HomeAt
<1>5. /\ ToSet(Tail(batch[n])) \subseteq Entries
      /\ \A i \in 1 .. Len(Tail(batch[n])) : Tail(batch[n])[i] \in ToSet(Tail(batch[n]))
  <2> DEFINE t == Tail(batch[n])
  <2>1. t \in Seq(Entries)
    BY <1>3
  <2> HIDE DEF t
  <2>2. ToSet(t) \subseteq Entries
    BY <2>1, Elements
  <2>3. \A i \in 1 .. Len(t) : t[i] \in ToSet(t)
    BY <2>1, Elements
  <2>. QED  BY <2>2, <2>3 DEF t
<1>6. ASSUME n \notin again
      PROVE  /\ Distinct(Tail(batch[n])) /\ e \notin ToSet(Tail(batch[n]))
             /\ \A i \in 1 .. Len(Tail(batch[n])) : solved[Tail(batch[n])[i]] = 0
  <2>1. Distinct(batch[n]) /\ \A i \in 1 .. Len(batch[n]) : solved[batch[n][i]] > 0 => i = 1
    BY <1>6 DEF TriggersAt, OnceAt
  <2>2. Distinct(Tail(batch[n])) /\ e \notin ToSet(Tail(batch[n]))
    BY <1>1, <2>1, DistinctTail
  <2>3. ASSUME NEW i \in 1 .. Len(Tail(batch[n])) PROVE solved[Tail(batch[n])[i]] = 0
    <3>1. i + 1 \in 1 .. Len(batch[n]) /\ i + 1 # 1 /\ Tail(batch[n])[i] = batch[n][i + 1]
      BY <1>3
    <3>2. ~ (solved[batch[n][i + 1]] > 0)
      BY <2>1, <3>1
    <3>3. Tail(batch[n])[i] \in Entries
      BY <1>5
    <3>. QED  BY <1>1, <3>1, <3>2, <3>3
  <2>. QED  BY <2>2, <2>3
<1>. QED  BY <1>2, <1>3, <1>4, <1>5, <1>6

LEMMA ExecuteTriggers ==
    ASSUME TypeInv, ControlInv, WrittenStays, NEW n \in Processes, Execute(n)
    PROVE  ControlInv'
<1> DEFINE e == Head(batch[n])
<1>1. /\ batch[n] # <<>> /\ doing[n] = NoEntry /\ TriggersAt(n) /\ solved \in [Entries -> Nat]
      /\ solved' = IF e \in Problems THEN [solved EXCEPT ![e] = solved[e] + 1] ELSE solved
      /\ subs' = subs /\ queue' = queue /\ raised' = raised /\ dropped' = dropped /\ again' = again
      /\ batch[n] \in Seq(Entries) /\ batch \in [Processes -> Seq(Entries)]
      /\ doing \in [Processes -> Entries \cup {NoEntry}]
  BY DEF Execute, TypeInv, TypeOK, ControlInv
<1>2. /\ e \in Entries /\ e = batch[n][1] /\ e \in ToSet(batch[n]) /\ Len(batch[n]) \in Nat \ {0}
      /\ Home[e] = n /\ place[e] = "written" /\ solved[e] \in Nat
  <2>1. /\ e \in Entries /\ e = batch[n][1] /\ e \in ToSet(batch[n])
        /\ Len(batch[n]) \in Nat \ {0}
    BY <1>1, TailElements
  <2>. QED  BY <1>1, <2>1 DEF TriggersAt, HomeAt
<1>3. /\ solved' \in [Entries -> Nat]
      /\ \A x \in Entries : solved'[x] >= solved[x] /\ (x # e => solved'[x] = solved[x])
  BY <1>1, <1>2
<1>4. SolvedWritten'
  BY <1>1, <1>2, <1>3 DEF ControlInv, SolvedWritten, WrittenStays
<1>5. /\ ToSet(queue[n]) \subseteq Entries /\ ToSet(batch[n]) \subseteq Entries
      /\ \A i \in 1 .. Len(batch[n]) : batch[n][i] \in ToSet(batch[n])
  BY <1>1, Elements, ElementsTyped DEF TypeInv
<1>6. ASSUME n \notin again
      PROVE  /\ solved[e] = 0 /\ e \notin ToSet(queue[n])
             /\ \A i \in 1 .. Len(batch[n]) : i # 1 => batch[n][i] # e
             /\ \A i \in 1 .. Len(batch[n]) : solved[batch[n][i]] = 0
  <2>1. /\ Distinct(batch[n]) /\ ToSet(queue[n]) \cap ToSet(batch[n]) = {}
        /\ \A i \in 1 .. Len(batch[n]) : ~ (solved[batch[n][i]] > 0)
    BY <1>1, <1>6 DEF TriggersAt, OnceAt
  <2>2. 1 \in 1 .. Len(batch[n])
    BY <1>2
  <2>3. \A i \in 1 .. Len(batch[n]) : solved[batch[n][i]] \in Nat
    BY <1>1, <1>5
  <2>. QED  BY <1>2, <2>1, <2>2, <2>3 DEF Distinct
<1>7. ASSUME NEW m \in Processes \ {n}, batch'[m] = batch[m], doing'[m] = doing[m]
      PROVE  TriggersAt(m)'
  <2>1. \A x \in Entries : Home[x] = m => solved'[x] = solved[x]
    BY <1>2, <1>3, <1>7
  <2>2. TriggersAt(m)
    BY DEF ControlInv
  <2>. QED  BY <1>1, <1>3, <1>7, <2>1, <2>2, OthersTriggers
<1>8. CASE /\ e \in Problems /\ Reply[e] # NoEntry
           /\ doing' = [doing EXCEPT ![n] = Reply[e]] /\ UNCHANGED <<batch, steps>>
  <2>1. /\ doing'[n] = Reply[e] /\ doing'[n] # NoEntry /\ batch' = batch
        /\ \A m \in Processes \ {n} : doing'[m] = doing[m]
        /\ solved'[e] = solved[e] + 1
    BY <1>1, <1>2, <1>8
  <2>2. HomeAt(n)'
    BY <1>1, <1>5, <2>1 DEF TriggersAt, HomeAt, WrittenStays
  <2>3. DoingAt(n)'
    BY <1>2, <2>1 DEF DoingAt
  <2>4. OnceAt(n)'
    BY <1>1, <1>2, <1>3, <1>5, <1>6, <2>1 DEF TriggersAt, OnceAt
  <2>5. KeptAt(n)'
    BY <1>1, <1>2, <1>3, <1>5, <2>1 DEF TriggersAt, KeptAt
  <2>6. TriggersAt(n)'
    BY <2>2, <2>3, <2>4, <2>5 DEF TriggersAt
  <2>. QED  BY <1>4, <1>7, <2>1, <2>6 DEF ControlInv
<1>9. CASE NextTrigger(n) /\ UNCHANGED <<boards, doing>>
  <2>1. /\ ToSet(batch[n]) = {e} \cup ToSet(batch'[n]) /\ ToSet(batch'[n]) \subseteq Entries
        /\ \A m \in Processes \ {n} : batch'[m] = batch[m]
        /\ n \notin again =>
              /\ Distinct(batch'[n]) /\ e \notin ToSet(batch'[n])
              /\ \A i \in 1 .. Len(batch'[n]) :
                    batch'[n][i] \in ToSet(batch'[n]) /\ solved[batch'[n][i]] = 0
    BY <1>1, <1>9, NextTriggers
  <2>2. doing' = doing /\ place' = place
    BY <1>9 DEF boards
  <2>3. HomeAt(n)'
    BY <1>1, <2>1, <2>2 DEF TriggersAt, HomeAt
  <2>4. DoingAt(n)'
    BY <1>1, <2>2 DEF DoingAt
  <2>5. OnceAt(n)'
    BY <1>1, <1>2, <1>3, <1>5, <1>6, <2>1, <2>2 DEF TriggersAt, OnceAt
  <2>6. KeptAt(n)'
    <3>1. e \in Problems => solved'[e] > 0
      BY <1>1, <1>2
    <3>. QED  BY <1>1, <1>2, <1>3, <1>5, <2>1, <3>1 DEF TriggersAt, KeptAt
  <2>7. TriggersAt(n)'
    BY <2>3, <2>4, <2>5, <2>6 DEF TriggersAt
  <2>. QED  BY <1>4, <1>7, <2>1, <2>2, <2>7 DEF ControlInv
<1>. QED  BY <1>8, <1>9 DEF Execute

LEMMA ExecutedTriggers ==
    ASSUME TypeInv, ControlInv, WrittenStays, NEW n \in Processes, Executed(n)
    PROVE  ControlInv'
<1> DEFINE e == Head(batch[n])
<1>1. /\ doing[n] # NoEntry /\ NextTrigger(n) /\ TriggersAt(n) /\ solved \in [Entries -> Nat]
      /\ solved' = solved /\ place' = place /\ subs' = subs /\ queue' = queue
      /\ raised' = raised /\ dropped' = dropped /\ again' = again
      /\ doing' = [doing EXCEPT ![n] = NoEntry]
      /\ doing \in [Processes -> Entries \cup {NoEntry}]
  BY DEF Executed, boards, history, TypeInv, TypeOK, ControlInv
<1>2. batch[n] # <<>>
  BY <1>1 DEF TypeInv, Underway
<1>3. /\ e \in Entries /\ ToSet(batch[n]) = {e} \cup ToSet(batch'[n])
      /\ ToSet(batch'[n]) \subseteq Entries
      /\ \A m \in Processes \ {n} : batch'[m] = batch[m]
      /\ n \notin again =>
            /\ Distinct(batch'[n]) /\ e \notin ToSet(batch'[n])
            /\ \A i \in 1 .. Len(batch'[n]) :
                  batch'[n][i] \in ToSet(batch'[n]) /\ solved[batch'[n][i]] = 0
  BY <1>1, <1>2, NextTriggers
<1>4. solved[e] > 0
  BY <1>1 DEF TriggersAt, DoingAt
<1>5. SolvedWritten'
  BY <1>1 DEF ControlInv, SolvedWritten
<1>6. ASSUME NEW m \in Processes \ {n} PROVE TriggersAt(m)'
  <2>1. doing'[m] = doing[m] /\ \A x \in Entries : solved'[x] >= solved[x] /\ solved'[x] = solved[x]
    BY <1>1
  <2>2. TriggersAt(m)
    BY DEF ControlInv
  <2>. QED  BY <1>1, <1>3, <2>1, <2>2, OthersTriggers
<1>7. HomeAt(n)'
  BY <1>1, <1>3 DEF TriggersAt, HomeAt
<1>8. DoingAt(n)'
  BY <1>1 DEF DoingAt
<1>9. OnceAt(n)'
  BY <1>1, <1>3 DEF TriggersAt, OnceAt
<1>10. KeptAt(n)'
  BY <1>1, <1>3, <1>4 DEF TriggersAt, KeptAt
<1>11. TriggersAt(n)'
  BY <1>7, <1>8, <1>9, <1>10 DEF TriggersAt
<1>. QED  BY <1>5, <1>6, <1>11 DEF ControlInv

\* start() of the controller, control_step, and the loss of what a step or a process had.
LEMMA ControllerTriggers ==
    ASSUME TypeInv, ControlInv, WrittenStays, NEW n \in Processes,
           StartController(n) \/ ControlStep(n) \/ CancelStep(n) \/ Crash(n)
    PROVE  ControlInv'
<1>1. /\ TriggersAt(n) /\ solved \in [Entries -> Nat] /\ solved' = solved /\ raised' = raised
      /\ again \subseteq again' /\ dropped \subseteq dropped'
      /\ queue \in [Processes -> Seq(Entries)] /\ batch \in [Processes -> Seq(Entries)]
      /\ doing \in [Processes -> Entries \cup {NoEntry}] /\ subs \in [Processes -> Nat]
      /\ subs[n] \in Nat /\ raised \subseteq Entries
  BY DEF StartController, ControlStep, CancelStep, Crash, history, TypeInv, TypeOK, ControlInv
<1>2. SolvedWritten'
  BY <1>1 DEF ControlInv, SolvedWritten, WrittenStays
<1>3. ASSUME NEW m \in Processes \ {n} PROVE TriggersAt(m)'
  <2>1. /\ queue'[m] = queue[m] /\ batch'[m] = batch[m] /\ doing'[m] = doing[m] /\ subs'[m] = subs[m]
    BY <1>1 DEF StartController, ControlStep, CancelStep, Crash
  <2>2. \A x \in Entries : solved'[x] >= solved[x] /\ solved'[x] = solved[x]
    BY <1>1
  <2>3. TriggersAt(m)
    BY DEF ControlInv
  <2>. QED  BY <1>1, <2>1, <2>2, <2>3, OthersTriggers
<1>4. /\ ToSet(queue[n]) \subseteq Entries /\ ToSet(batch[n]) \subseteq Entries /\ ToSet(<<>>) = {}
      /\ \A i \in 1 .. Len(queue[n]) : queue[n][i] \in ToSet(queue[n])
      /\ Distinct(<<>>) /\ \A i \in 1 .. Len(<<>>) : FALSE
  <2>1. queue[n] \in Seq(Entries) /\ 1 .. Len(<<>>) = {}
    BY <1>1
  <2>. QED  BY <2>1, Elements, ElementsTyped, EmptyElements DEF TypeInv, Distinct
<1>5. CASE StartController(n)
  <2>1. /\ queue'[n] = queue[n] /\ batch'[n] = batch[n] /\ doing'[n] = doing[n]
        /\ place' = place /\ dropped' = dropped /\ subs'[n] = subs[n] + 1
        /\ n \notin again' => subs[n] = 0
    BY <1>1, <1>5 DEF StartController, boards
  <2>2. HomeAt(n)' /\ DoingAt(n)' /\ KeptAt(n)'
    BY <1>1, <2>1 DEF TriggersAt, HomeAt, DoingAt, KeptAt
  <2>3. OnceAt(n)'
    BY <1>1, <2>1 DEF TriggersAt, OnceAt
  <2>. QED  BY <1>2, <1>3, <2>2, <2>3 DEF ControlInv, TriggersAt
<1>6. CASE ControlStep(n)
  <2>1. /\ queue'[n] = <<>> /\ batch'[n] = queue[n] /\ doing'[n] = NoEntry /\ batch[n] = <<>>
        /\ place' = place /\ dropped' = dropped /\ subs'[n] = subs[n] /\ again' = again
    BY <1>1, <1>6 DEF ControlStep, Idle, boards, history
  <2>2. HomeAt(n)'
    BY <1>1, <1>4, <2>1 DEF TriggersAt, HomeAt
  <2>3. DoingAt(n)' /\ KeptAt(n)'
    BY <1>1, <1>4, <2>1 DEF TriggersAt, DoingAt, KeptAt
  <2>4. OnceAt(n)'
    <3>1. \A i \in 1 .. Len(queue[n]) : queue[n][i] \in Entries
      BY <1>4
    <3>. QED  BY <1>1, <1>4, <2>1, <3>1 DEF TriggersAt, OnceAt
  <2>. QED  BY <1>2, <1>3, <2>2, <2>3, <2>4 DEF ControlInv, TriggersAt
<1>7. CASE CancelStep(n)
  <2>1. /\ queue'[n] = queue[n] /\ batch'[n] = <<>> /\ doing'[n] = NoEntry
        /\ dropped' = dropped \cup ToSet(batch[n]) /\ subs'[n] = subs[n] /\ again' = again
    BY <1>1, <1>7 DEF CancelStep
  <2>2. HomeAt(n)'
    BY <1>1, <1>4, <2>1 DEF TriggersAt, HomeAt, WrittenStays
  <2>3. DoingAt(n)' /\ KeptAt(n)'
    BY <1>1, <1>4, <2>1 DEF TriggersAt, DoingAt, KeptAt
  <2>4. OnceAt(n)'
    BY <1>1, <1>4, <2>1 DEF TriggersAt, OnceAt
  <2>. QED  BY <1>2, <1>3, <2>2, <2>3, <2>4 DEF ControlInv, TriggersAt
<1>8. CASE Crash(n)
  <2>1. /\ queue'[n] = <<>> /\ batch'[n] = <<>> /\ doing'[n] = NoEntry /\ subs'[n] = 0
        /\ dropped' = dropped \cup ToSet(queue[n]) \cup ToSet(batch[n]) /\ again' = again
    BY <1>1, <1>8 DEF Crash
  <2>2. HomeAt(n)'
    BY <1>4, <2>1 DEF HomeAt
  <2>3. DoingAt(n)' /\ KeptAt(n)'
    BY <1>1, <1>4, <2>1 DEF TriggersAt, DoingAt, KeptAt
  <2>4. OnceAt(n)'
    BY <1>1, <1>4, <2>1 DEF TriggersAt, OnceAt
  <2>. QED  BY <1>2, <1>3, <2>2, <2>3, <2>4 DEF ControlInv, TriggersAt
<1>. QED  BY <1>5, <1>6, <1>7, <1>8

LEMMA ControlStepInv == TypeInv /\ ControlInv /\ [Next]_vars => ControlInv'
<1> SUFFICES ASSUME TypeInv, ControlInv, [Next]_vars PROVE ControlInv'
  OBVIOUS
<1>1. WrittenStays
  BY WrittenStep
<1>2. CASE UNCHANGED vars
  BY <1>1, <1>2, QuietSteps DEF vars, control, history
<1>3. ASSUME NEW e \in Entries, Write(Home[e], e) \/ WriteStep(e) PROVE ControlInv'
  <2>1. CASE Raise(e)
    BY <1>1, <2>1, RaiseTriggers
  <2>2. CASE Write(Home[e], e) \/ Publish(e) \/ Save(e) \/ SkipCall(e) \/ CallFails(e)
    BY <1>1, <2>2, QuietSteps DEF Write, Publish, Save, SkipCall, CallFails, control, history
  <2>. QED  BY <1>3, <2>1, <2>2 DEF WriteStep
<1>4. ASSUME NEW n \in Processes, SyncStep(n) PROVE ControlInv'
  <2>1. /\ UNCHANGED <<subs, queue, batch, doing, solved, raised>>
        /\ again \subseteq again' /\ dropped \subseteq dropped'
    BY <1>4 DEF SyncStep, Start, StartBlind, Join, Listen, Merge, SaveMerged, ListenFails, Stop,
                Detach, control, history
  <2>. QED  BY <1>1, <2>1, QuietSteps
<1>5. ASSUME NEW n \in Processes, ControlNext(n) \/ Crash(n) PROVE ControlInv'
  BY <1>1, <1>5, ExecuteTriggers, ExecutedTriggers, ControllerTriggers DEF ControlNext
<1>. QED  BY <1>2, <1>3, <1>4, <1>5 DEF Next

LEMMA ControlInit == Init => ControlInv
<1> SUFFICES ASSUME Init PROVE ControlInv
  OBVIOUS
<1>1. /\ \A e \in Entries : solved[e] = 0
      /\ raised = {}
      /\ \A n \in Processes : subs[n] = 0 /\ queue[n] = <<>> /\ batch[n] = <<>> /\ doing[n] = NoEntry
  BY DEF Init, Nothing
<1>2. 1 .. Len(<<>>) = {} /\ ToSet(<<>>) = {}
  BY EmptyElements
<1>3. SolvedWritten
  BY <1>1 DEF SolvedWritten
<1>4. ASSUME NEW n \in Processes PROVE TriggersAt(n)
  BY <1>1, <1>2 DEF TriggersAt, HomeAt, DoingAt, OnceAt, KeptAt, Distinct
<1>. QED  BY <1>3, <1>4 DEF ControlInv

LEMMA ControlInvariance == Spec => []ControlInv
BY TypeInvariance, ControlInit, ControlStepInv, PTL DEF Spec

\* One execution for an entry, whatever the processes, crashes, restarts of the sync layer
\* and copies: control_step takes each trigger once, and only a write of the process itself
\* raises one.
THEOREM OneSolver == Spec => []SolvedOnce
<1>1. TypeInv /\ ControlInv => SolvedOnce
  <2> SUFFICES ASSUME TypeInv, ControlInv, NEW e \in Problems, solved[e] > 1, Home[e] \notin again
               PROVE  FALSE
    BY DEF SolvedOnce
  <2>1. e \in Entries /\ Home[e] \in Processes /\ solved[e] \in Nat
    BY BlackboardAssumption DEF TypeInv, TypeOK
  <2>2. solved[e] <= 1
    BY <2>1 DEF ControlInv, TriggersAt, OnceAt
  <2>. QED  BY <2>1, <2>2
<1>. QED  BY <1>1, TypeInvariance, ControlInvariance, PTL

\* A trigger that came in while control_step was executing others is still there when it ends.
THEOREM NoTriggerIsLost == Spec => []TriggersKept
<1>1. ControlInv => TriggersKept
  <2> SUFFICES ASSUME ControlInv, NEW e \in raised \cap Problems
               PROVE  \/ e \in ToSet(queue[Home[e]]) \cup ToSet(batch[Home[e]])
                      \/ solved[e] > 0
                      \/ e \in dropped
    BY DEF TriggersKept
  <2>1. Home[e] \in Processes
    BY BlackboardAssumption
  <2>. QED  BY <2>1 DEF ControlInv, TriggersAt, KeptAt
<1>. QED  BY <1>1, ControlInvariance, PTL

-----------------------------------------------------------------------------
(* The copies of an entry *)

\* e is in Redis, or in a process that will put it there.
Public(e) == e \in snapshot \/ \E m \in Processes : e \in ToSet(inbox[m]) \cup {saving[m]}
Published(e) == place[e] = "save" \/ Public(e)
Unpublished(e) == place[e] = "new" \/ (place[e] = "notify" /\ calls[e] > 0)

\* While it is written an entry is on the blackboard of its process; a callback to come
\* means a subscription; and until the one callback has published it (there is one, unless
\* the sync layer was started twice) nobody else has it.
OwnAt(e) ==
    /\ place[e] \in {"notify", "save"} =>
          held[Home[e]][e] > 0 /\ (calls[e] > 0 => hooks[Home[e]] > 0)
    /\ place[e] = "new" => ~Public(e) /\ \A n \in Processes : held[n][e] = 0
    /\ Home[e] \notin again => calls[e] <= 1
    /\ Home[e] \notin again /\ Unpublished(e) =>
          ~Public(e) /\ \A n \in Processes \ {Home[e]} : held[n][e] = 0

\* A connection that is not subscribed holds nothing; one that was made left its subscription
\* to local writes.
ConnAt(n) ==
    /\ sync[n] # "listening" => inbox[n] = <<>> /\ saving[n] = NoEntry
    /\ sync[n] # "off" => hooks[n] > 0
    /\ n \notin again => hooks[n] <= 1
    /\ \A e \in ToSet(inbox[n]) : Home[e] # n

Single(s, e) == \A i, j \in 1 .. Len(s) : s[i] = e /\ s[j] = e => i = j

\* A copy, or an own entry that was published, is on a blackboard whose sync layer was
\* started: starting it again is what `again' records.  Otherwise a message announces an
\* entry the process does not have, and no second message does.
CopyAt(n, e) ==
    /\ held[n][e] > 0 /\ (n # Home[e] \/ Public(e)) => hooks[n] > 0
    /\ n \notin again /\ Home[e] \notin again =>
        /\ held[n][e] <= 1
        /\ e \in ToSet(inbox[n]) => held[n][e] = 0
        /\ Single(inbox[n], e)

\* What was published reached every process with a connection, but for what `missed' has.
HeardAt(n, e) ==
    sync[n] # "off" /\ Published(e) => held[n][e] > 0 \/ e \in ToSet(inbox[n]) \cup missed[n]

BoardInv ==
    /\ \A e \in Entries : OwnAt(e)
    /\ \A n \in Processes : ConnAt(n)
    /\ \A n \in Processes, e \in Entries : CopyAt(n, e) /\ HeardAt(n, e)

\* The variables of BoardInv, typed.
LEMMA BoardTypes ==
    ASSUME TypeInv
    PROVE  /\ held \in [Processes -> [Entries -> Nat]] /\ calls \in [Entries -> Nat]
           /\ \A n \in Processes, e \in Entries : held[n][e] \in Nat
           /\ \A e \in Entries : calls[e] \in Nat /\ Home[e] \in Processes
           /\ place \in [Entries -> {"new", "notify", "save", "written", "lost"}]
           /\ sync \in [Processes -> {"off", "joining", "listening"}]
           /\ hooks \in [Processes -> Nat] /\ \A n \in Processes : hooks[n] \in Nat
           /\ inbox \in [Processes -> Seq(Entries)]
           /\ \A n \in Processes : inbox[n] \in Seq(Entries) /\ ToSet(inbox[n]) \subseteq Entries
           /\ saving \in [Processes -> Entries \cup {NoEntry}]
           /\ snapshot \subseteq Entries /\ missed \in [Processes -> SUBSET Entries]
           /\ NoEntry \notin Entries
<1>1. \A n \in Processes : inbox[n] \in Seq(Entries) /\ ToSet(inbox[n]) \subseteq Entries
  BY ElementsTyped DEF TypeInv
<1>. QED  BY <1>1, BlackboardAssumption DEF TypeInv, TypeOK

LEMMA NoElements == ASSUME NEW e PROVE Single(<<>>, e) /\ ToSet(<<>>) = {}
<1>1. 1 .. Len(<<>>) = {}
  OBVIOUS
<1>. QED  BY <1>1, EmptyElements DEF Single

LEMMA BoardInit == Init => BoardInv
<1> SUFFICES ASSUME Init PROVE BoardInv
  OBVIOUS
<1>1. /\ \A n \in Processes : /\ \A e \in Entries : held[n][e] = 0
                              /\ sync[n] = "off" /\ hooks[n] = 0 /\ inbox[n] = <<>> /\ saving[n] = NoEntry
      /\ \A e \in Entries : place[e] = "new" /\ calls[e] = 0
      /\ snapshot = {} /\ NoEntry \notin Entries
  BY BlackboardAssumption DEF Init, Nothing
<1>2. ASSUME NEW e \in Entries PROVE ~Public(e) /\ ~Published(e)
  BY <1>1, EmptyElements DEF Public, Published
<1>3. ASSUME NEW e \in Entries PROVE OwnAt(e)
  BY <1>1, <1>2 DEF OwnAt
<1>4. ASSUME NEW n \in Processes PROVE ConnAt(n)
  BY <1>1, EmptyElements DEF ConnAt
<1>5. ASSUME NEW n \in Processes, NEW e \in Entries PROVE CopyAt(n, e) /\ HeardAt(n, e)
  <2>1. Single(<<>>, e)
    BY NoElements
  <2>. QED  BY <1>1, <1>2, <2>1, EmptyElements DEF CopyAt, HeardAt
<1>. QED  BY <1>3, <1>4, <1>5 DEF BoardInv

\* Steps that change no board and no connection, but may end the write of an entry.
LEMMA FadingBoards ==
    ASSUME TypeInv, BoardInv, UNCHANGED <<held, calls, redis, missed>>, again \subseteq again',
           \A e \in Entries : place'[e] = place[e] \/ place'[e] \in {"written", "lost"}
    PROVE  BoardInv'
<1>1. \A e \in Entries : /\ Public(e)' <=> Public(e)
                         /\ Published(e)' => Published(e)
                         /\ Unpublished(e)' => Unpublished(e)
  BY DEF redis, Public, Published, Unpublished
<1>2. ASSUME NEW e \in Entries PROVE OwnAt(e)'
  <2>1. OwnAt(e) /\ (place'[e] = place[e] \/ place'[e] \in {"written", "lost"})
    BY DEF BoardInv
  <2>. QED  BY <1>1, <2>1 DEF OwnAt, redis
<1>3. ASSUME NEW n \in Processes PROVE ConnAt(n)'
  BY <1>3 DEF BoardInv, ConnAt, redis
<1>4. ASSUME NEW n \in Processes, NEW e \in Entries PROVE CopyAt(n, e)' /\ HeardAt(n, e)'
  <2>1. CopyAt(n, e) /\ HeardAt(n, e)
    BY DEF BoardInv
  <2>. QED  BY <1>1, <2>1 DEF CopyAt, HeardAt, redis
<1>. QED  BY <1>2, <1>3, <1>4 DEF BoardInv

LEMMA AppendBoards ==
    ASSUME TypeInv, BoardInv, NEW n \in Processes, NEW e \in Entries, Home[e] = n,
           AppendEntry(n, e), UNCHANGED <<redis, missed, again>>
    PROVE  BoardInv'
<1>1. /\ place[e] = "new" /\ place' = [place EXCEPT ![e] = "notify"]
      /\ calls' = [calls EXCEPT ![e] = hooks[n]]
      /\ held' = [held EXCEPT ![n][e] = held[n][e] + 1]
  BY DEF AppendEntry
<1>2. ~Public(e) /\ \A m \in Processes : held[m][e] = 0
  BY <1>1 DEF BoardInv, OwnAt
<1>3. /\ held'[n][e] = 1 /\ \A m \in Processes, x \in Entries : (m # n \/ x # e) => held'[m][x] = held[m][x]
      /\ place'[e] = "notify" /\ calls'[e] = hooks[n]
      /\ \A x \in Entries \ {e} : place'[x] = place[x] /\ calls'[x] = calls[x]
  BY <1>1, <1>2, BoardTypes
<1>4. \A x \in Entries : /\ Public(x)' <=> Public(x)
                         /\ Published(x)' <=> Published(x)
                         /\ x # e => (Unpublished(x)' <=> Unpublished(x))
  BY <1>1, <1>3 DEF redis, Public, Published, Unpublished
<1>5. ASSUME NEW x \in Entries PROVE OwnAt(x)'
  <2>1. CASE x # e
    BY <1>3, <1>4, <2>1, BoardTypes, SMTT(30) DEF BoardInv, OwnAt, redis
  <2>2. CASE x = e
    BY <1>2, <1>3, <1>4, <2>2 DEF BoardInv, OwnAt, ConnAt, redis
  <2>. QED  BY <2>1, <2>2
<1>6. ASSUME NEW m \in Processes PROVE ConnAt(m)'
  BY <1>6 DEF BoardInv, ConnAt, redis
<1>7. ASSUME NEW m \in Processes, NEW x \in Entries PROVE CopyAt(m, x)' /\ HeardAt(m, x)'
  <2>1. CopyAt(m, x) /\ HeardAt(m, x)
    BY DEF BoardInv
  <2>2. CASE m = n /\ x = e
    <3>1. e \notin ToSet(inbox[n]) /\ ~Published(e)
      BY <1>1, <1>2 DEF Public, Published
    <3>. QED  BY <1>2, <1>3, <1>4, <2>1, <2>2, <3>1 DEF CopyAt, HeardAt, redis
  <2>3. CASE ~(m = n /\ x = e)
    BY <1>3, <1>4, <2>1, <2>3 DEF CopyAt, HeardAt, redis
  <2>. QED  BY <2>2, <2>3
<1>. QED  BY <1>5, <1>6, <1>7 DEF BoardInv

\* A message added to a connection.
LEMMA SingleAppend ==
    ASSUME NEW S, NEW s \in Seq(S), NEW x \in S, NEW y \in S, Single(s, y), x = y => y \notin ToSet(s)
    PROVE  Single(Append(s, x), y)
<1>1. /\ Len(Append(s, x)) = Len(s) + 1 /\ Len(s) \in Nat
      /\ \A i \in 1 .. Len(s) : Append(s, x)[i] = s[i]
      /\ Append(s, x)[Len(s) + 1] = x
  OBVIOUS
<1>2. \A z : z \in ToSet(s) <=> \E i \in 1 .. Len(s) : s[i] = z
  BY Elements
<1>3. \A i \in 1 .. Len(s) + 1 : i \in 1 .. Len(s) \/ i = Len(s) + 1
  BY <1>1
<1>4. ASSUME NEW i \in 1 .. Len(s) + 1, NEW j \in 1 .. Len(s) + 1,
             Append(s, x)[i] = y, Append(s, x)[j] = y
      PROVE  i = j
  BY <1>1, <1>2, <1>3, <1>4 DEF Single
<1>. QED  BY <1>1, <1>4 DEF Single

LEMMA PublishBoards ==
    ASSUME TypeInv, BoardInv, NEW e \in Entries, Publish(e)
    PROVE  BoardInv'
<1> DEFINE h == Home[e]
<1>1. /\ place[e] = "notify" /\ calls[e] > 0 /\ sync[h] # "off" /\ h \in Processes
      /\ place' = [place EXCEPT ![e] = "save"]
      /\ inbox' = [n \in Processes |-> IF n \in Hearing(e) THEN Append(inbox[n], e) ELSE inbox[n]]
      /\ missed' = [n \in Processes |-> IF sync[n] = "joining" /\ n # h
                                        THEN missed[n] \cup {e} ELSE missed[n]]
      /\ UNCHANGED <<held, calls, sync, hooks, saving, snapshot, again>>
  BY BlackboardAssumption DEF Publish, Calling, Deliver
<1>2. /\ place'[e] = "save" /\ Unpublished(e)
      /\ \A x \in Entries \ {e} : place'[x] = place[x]
  BY <1>1, BoardTypes DEF Unpublished
<1>3. ASSUME NEW n \in Processes
      PROVE  /\ n \in Hearing(e) => /\ sync[n] = "listening" /\ n # h
                                    /\ inbox'[n] = Append(inbox[n], e)
                                    /\ ToSet(inbox'[n]) = ToSet(inbox[n]) \cup {e}
             /\ n \notin Hearing(e) => inbox'[n] = inbox[n]
             /\ sync[n] = "listening" /\ n # h => n \in Hearing(e)
             /\ missed[n] \subseteq missed'[n]
             /\ sync[n] = "joining" /\ n # h => e \in missed'[n]
  <2>1. inbox[n] \in Seq(Entries)
    BY BoardTypes
  <2>. QED  BY <1>1, <2>1, AppendElements DEF Hearing
<1>4. \A n \in Processes, x \in Entries \ {e} : x \in ToSet(inbox'[n]) <=> x \in ToSet(inbox[n])
  BY <1>3
<1>5. \A x \in Entries \ {e} : /\ Public(x)' <=> Public(x)
                               /\ Published(x)' <=> Published(x)
                               /\ Unpublished(x)' <=> Unpublished(x)
  BY <1>1, <1>2, <1>4 DEF Public, Published, Unpublished
<1>6. ASSUME NEW x \in Entries PROVE OwnAt(x)'
  <2>1. CASE x # e
    BY <1>1, <1>2, <1>5, <2>1 DEF BoardInv, OwnAt
  <2>2. CASE x = e
    <3>1. OwnAt(e) /\ ~ Unpublished(e)'
      BY <1>2 DEF BoardInv, Unpublished
    <3>. QED  BY <1>1, <1>2, <2>2, <3>1 DEF OwnAt
  <2>. QED  BY <2>1, <2>2
<1>7. ASSUME NEW n \in Processes PROVE ConnAt(n)'
  <2>1. ConnAt(n)
    BY DEF BoardInv
  <2>2. \A x \in ToSet(inbox'[n]) : Home[x] # n
    BY <1>3, <2>1 DEF ConnAt
  <2>. QED  BY <1>1, <1>3, <2>1, <2>2 DEF ConnAt
<1>8. ASSUME NEW n \in Processes, NEW x \in Entries PROVE HeardAt(n, x)'
  <2>1. HeardAt(n, x) /\ sync[n] \in {"off", "joining", "listening"} /\ OwnAt(e)
    BY BoardTypes DEF BoardInv
  <2>2. CASE x # e
    BY <1>1, <1>3, <1>4, <1>5, <2>1, <2>2 DEF HeardAt
  <2>3. CASE x = e /\ n # h
    BY <1>1, <1>3, <2>1, <2>3, ZenonT(30) DEF HeardAt
  <2>4. CASE x = e /\ n = h
    BY <1>1, <2>1, <2>4 DEF HeardAt, OwnAt
  <2>. QED  BY <2>2, <2>3, <2>4
<1>9. ASSUME NEW n \in Processes, NEW x \in Entries PROVE CopyAt(n, x)'
  <2>1. CopyAt(n, x) /\ ConnAt(h) /\ OwnAt(e) /\ inbox[n] \in Seq(Entries)
    BY <1>1, BoardTypes DEF BoardInv
  <2>2. held'[n][x] > 0 /\ (n # Home[x] \/ Public(x)') => hooks'[n] > 0
    <3>1. CASE x # e \/ n # h
      BY <1>1, <1>5, <2>1, <3>1 DEF CopyAt
    <3>2. CASE x = e /\ n = h
      BY <1>1, <2>1, <3>2 DEF ConnAt
    <3>. QED  BY <3>1, <3>2
  <2>3. ASSUME n \notin again', Home[x] \notin again'
        PROVE  /\ held'[n][x] <= 1
               /\ x \in ToSet(inbox'[n]) => held'[n][x] = 0
               /\ Single(inbox'[n], x)
    <3>1. n \notin again /\ Home[x] \notin again
      BY <1>1, <2>3
    <3>2. x = e => ~Public(e) /\ (n # h => held[n][e] = 0)
      BY <1>2, <2>1, <3>1 DEF OwnAt
    <3>3. Single(inbox[n], x) /\ (x = e => x \notin ToSet(inbox[n]))
      BY <2>1, <3>1, <3>2 DEF CopyAt, Public
    <3>4. Single(inbox'[n], x)
      <4>1. Single(Append(inbox[n], e), x)
        BY <2>1, <3>3, SingleAppend
      <4>. QED  BY <1>3, <3>3, <4>1
    <3>5. x \in ToSet(inbox'[n]) => held[n][x] = 0
      BY <1>3, <2>1, <3>1, <3>2, <3>3 DEF CopyAt
    <3>. QED  BY <1>1, <2>1, <3>1, <3>4, <3>5 DEF CopyAt
  <2>. QED  BY <2>2, <2>3 DEF CopyAt
<1>. QED  BY <1>6, <1>7, <1>8, <1>9 DEF BoardInv

\* A sync callback of e has returned; it may have saved e.
LEMMA CalledBoards ==
    ASSUME TypeInv, BoardInv, NEW e \in Entries, Called(e), place[e] \in {"notify", "save"}, calls[e] > 0,
           UNCHANGED <<sync, hooks, inbox, saving, missed, again>>,
           snapshot' = snapshot \/ (snapshot' = snapshot \cup {e} /\ place[e] = "save")
    PROVE  BoardInv'
<1>1. /\ held' = held /\ place' = [place EXCEPT ![e] = "notify"]
      /\ calls' = [calls EXCEPT ![e] = calls[e] - 1]
  BY DEF Called
<1>2. /\ place'[e] = "notify" /\ calls'[e] = calls[e] - 1 /\ calls[e] \in Nat
      /\ \A x \in Entries \ {e} : place'[x] = place[x] /\ calls'[x] = calls[x]
  BY <1>1, BoardTypes
<1>3. \A x \in Entries : /\ x # e => (Public(x)' <=> Public(x))
                         /\ Published(x)' => Published(x)
                         /\ Unpublished(x)' /\ x # e => Unpublished(x)
  BY <1>1, <1>2 DEF Public, Published, Unpublished
<1>4. hooks[Home[e]] > 0 /\ held[Home[e]][e] > 0 /\ (Home[e] \notin again => calls[e] = 1)
  BY <1>2 DEF BoardInv, OwnAt
<1>5. ASSUME NEW x \in Entries PROVE OwnAt(x)'
  <2>1. CASE x # e
    BY <1>1, <1>2, <1>3, <2>1 DEF BoardInv, OwnAt
  <2>2. CASE x = e
    <3>1. Home[e] \notin again => ~ Unpublished(e)'
      BY <1>2, <1>4 DEF Unpublished
    <3>. QED  BY <1>1, <1>2, <1>4, <2>2, <3>1 DEF OwnAt
  <2>. QED  BY <2>1, <2>2
<1>6. ASSUME NEW n \in Processes PROVE ConnAt(n)'
  BY <1>6 DEF BoardInv, ConnAt
<1>7. ASSUME NEW n \in Processes, NEW x \in Entries PROVE CopyAt(n, x)' /\ HeardAt(n, x)'
  <2>1. CopyAt(n, x) /\ HeardAt(n, x)
    BY DEF BoardInv
  <2>2. HeardAt(n, x)'
    BY <1>1, <1>3, <2>1 DEF HeardAt
  <2>3. CopyAt(n, x)'
    BY <1>1, <1>3, <1>4, <2>1 DEF CopyAt
  <2>. QED  BY <2>2, <2>3
<1>. QED  BY <1>5, <1>6, <1>7 DEF BoardInv

LEMMA WriteBoards ==
    ASSUME TypeInv, BoardInv, NEW e \in Entries, Write(Home[e], e) \/ WriteStep(e)
    PROVE  BoardInv'
<1>1. CASE Write(Home[e], e)
  BY <1>1, BlackboardAssumption, AppendBoards DEF Write, history
<1>2. CASE Publish(e)
  BY <1>2, PublishBoards
<1>3. CASE Save(e) \/ SkipCall(e) \/ CallFails(e)
  <2>1. /\ Called(e) /\ place[e] \in {"notify", "save"} /\ calls[e] > 0
        /\ UNCHANGED <<sync, hooks, inbox, saving, missed, again>>
        /\ snapshot' = snapshot \/ (snapshot' = snapshot \cup {e} /\ place[e] = "save")
    BY <1>3 DEF Save, SkipCall, CallFails, Calling, TypeInv, Underway, redis, history
  <2>. QED  BY <2>1, CalledBoards
<1>4. CASE Raise(e)
  <2>1. \A x \in Entries : place'[x] = place[x] \/ place'[x] \in {"written", "lost"}
    BY <1>4, BoardTypes DEF Raise
  <2>. QED  BY <1>4, <2>1, FadingBoards DEF Raise
<1>. QED  BY <1>1, <1>2, <1>3, <1>4 DEF WriteStep

\* start() of the sync layer.
LEMMA JoinBoards ==
    ASSUME TypeInv, BoardInv, NEW n \in Processes, NEW boot \in SUBSET snapshot, Join(n, boot)
    PROVE  BoardInv'
<1>1. /\ sync[n] = "off" /\ inbox[n] = <<>> /\ saving[n] = NoEntry
      /\ sync' = [sync EXCEPT ![n] = "joining"]
      /\ held' = [held EXCEPT ![n] = Plus(held[n], boot)]
      /\ hooks' = [hooks EXCEPT ![n] = hooks[n] + 1]
      /\ missed' = [missed EXCEPT ![n] = Unsaved \cup (snapshot \ boot)]
      /\ again' = IF hooks[n] > 0 THEN again \cup {n} ELSE again
      /\ UNCHANGED <<place, calls, inbox, saving, snapshot>>
      /\ boot \subseteq Entries
  BY BoardTypes DEF Join, BoardInv, ConnAt
<1>2. /\ sync'[n] = "joining" /\ hooks'[n] = hooks[n] + 1 /\ hooks[n] \in Nat
      /\ \A m \in Processes \ {n} : /\ sync'[m] = sync[m] /\ hooks'[m] = hooks[m]
                                    /\ held'[m] = held[m] /\ missed'[m] = missed[m]
      /\ again \subseteq again' /\ \A m \in Processes \ {n} : m \notin again => m \notin again'
      /\ n \notin again' => hooks[n] = 0
      /\ missed'[n] = Unsaved \cup (snapshot \ boot)
  BY <1>1, BoardTypes
<1>3. \A x \in Entries : held'[n][x] = held[n][x] + (IF x \in boot THEN 1 ELSE 0)
  <2>1. held'[n] = Plus(held[n], boot)
    BY <1>1, BoardTypes
  <2>. QED  BY <2>1 DEF Plus
<1>4. \A x \in Entries : /\ Public(x)' <=> Public(x)
                         /\ Published(x)' <=> Published(x)
                         /\ Unpublished(x)' <=> Unpublished(x)
                         /\ x \in boot => Public(x)
  BY <1>1 DEF Public, Published, Unpublished
<1>5. ASSUME NEW x \in Entries PROVE OwnAt(x)'
  <2>1. OwnAt(x) /\ Home[x] \in Processes /\ \A m \in Processes : held[m][x] \in Nat
    BY BoardTypes DEF BoardInv
  <2>2. ASSUME NEW m \in Processes
        PROVE  /\ held[m][x] > 0 => held'[m][x] > 0
               /\ hooks[m] > 0 => hooks'[m] > 0
               /\ ~Public(x) => held'[m][x] = held[m][x]
    <3>1. CASE m = n
      BY <1>2, <1>3, <1>4, <2>1, <3>1
    <3>2. CASE m # n
      BY <1>2, <3>2
    <3>. QED  BY <3>1, <3>2
  <2>. QED  BY <1>1, <1>2, <1>4, <2>1, <2>2 DEF OwnAt
<1>6. ASSUME NEW m \in Processes PROVE ConnAt(m)'
  <2>1. ConnAt(m)
    BY DEF BoardInv
  <2>. QED  BY <1>1, <1>2, <2>1 DEF ConnAt
<1>7. ASSUME NEW m \in Processes, NEW x \in Entries PROVE CopyAt(m, x)' /\ HeardAt(m, x)'
  <2>1. CopyAt(m, x) /\ HeardAt(m, x) /\ held[m][x] \in Nat
    BY BoardTypes DEF BoardInv
  <2>2. CASE m # n
    BY <1>1, <1>2, <1>4, <2>1, <2>2 DEF CopyAt, HeardAt
  <2>3. CASE m = n
    <3>1. HeardAt(n, x)'
      <4>1. Published(x) /\ x \notin boot => x \in Unsaved \cup (snapshot \ boot)
        BY DEF Published, Public, Unsaved
      <4>2. x \in boot => held'[n][x] > 0
        BY <1>3, <2>1, <2>3
      <4>. QED  BY <1>2, <1>4, <4>1, <4>2 DEF HeardAt
    <3>2. CopyAt(n, x)'
      <4>1. x \notin ToSet(inbox'[n]) /\ Single(inbox'[n], x)
        BY <1>1, NoElements
      <4>2. ASSUME n \notin again', Home[x] \notin again' PROVE held'[n][x] <= 1
        <5>1. n \notin again /\ Home[x] \notin again /\ hooks[n] = 0
          BY <1>2, <4>2
        <5>2. x \in boot => held[n][x] = 0
          BY <1>4, <2>1, <2>3, <5>1 DEF CopyAt
        <5>3. held[n][x] <= 1
          BY <2>1, <2>3, <5>1 DEF CopyAt
        <5>. QED  BY <1>3, <2>1, <2>3, <5>2, <5>3
      <4>. QED  BY <1>2, <4>1, <4>2 DEF CopyAt
    <3>. QED  BY <2>3, <3>1, <3>2
  <2>. QED  BY <2>2, <2>3
<1>. QED  BY <1>5, <1>6, <1>7 DEF BoardInv

\* The listener appends what it received.
LEMMA MergeBoards ==
    ASSUME TypeInv, BoardInv, NEW n \in Processes, Merge(n)
    PROVE  BoardInv'
<1> DEFINE h == Head(inbox[n])
<1>1. /\ inbox[n] # <<>> /\ saving[n] = NoEntry /\ inbox[n] \in Seq(Entries)
      /\ held' = [held EXCEPT ![n][h] = held[n][h] + 1]
      /\ saving' = [saving EXCEPT ![n] = h]
      /\ inbox' = [inbox EXCEPT ![n] = Tail(inbox[n])]
      /\ UNCHANGED <<place, calls, sync, hooks, snapshot, missed, again>>
  BY BoardTypes DEF Merge, history
<1>2. /\ h \in Entries /\ ToSet(inbox[n]) = {h} \cup ToSet(Tail(inbox[n]))
      /\ h = inbox[n][1] /\ Len(inbox[n]) \in Nat \ {0}
      /\ Len(Tail(inbox[n])) = Len(inbox[n]) - 1
      /\ \A i \in 1 .. Len(Tail(inbox[n])) : Tail(inbox[n])[i] = inbox[n][i + 1]
      /\ Tail(inbox[n]) \in Seq(Entries)
  BY <1>1, TailElements
<1>3. /\ inbox'[n] = Tail(inbox[n]) /\ saving'[n] = h /\ held'[n][h] = held[n][h] + 1
      /\ \A m \in Processes \ {n} : inbox'[m] = inbox[m] /\ saving'[m] = saving[m]
      /\ \A m \in Processes, x \in Entries : (m # n \/ x # h) => held'[m][x] = held[m][x]
  BY <1>1, <1>2, BoardTypes
<1>4. Public(h) /\ sync[n] = "listening" /\ hooks[n] > 0
  BY <1>1, <1>2 DEF Public, BoardInv, ConnAt
<1>5. \A x \in Entries : /\ Public(x)' <=> Public(x)
                         /\ Published(x)' <=> Published(x)
                         /\ Unpublished(x)' <=> Unpublished(x)
  <2>1. ASSUME NEW x \in Entries
        PROVE  (\E m \in Processes : x \in ToSet(inbox'[m]) \cup {saving'[m]})
               <=> (\E m \in Processes : x \in ToSet(inbox[m]) \cup {saving[m]})
    <3>1. x \in ToSet(inbox'[n]) \cup {saving'[n]} <=> x \in ToSet(inbox[n]) \cup {saving[n]}
      BY <1>1, <1>2, <1>3, BoardTypes
    <3>. QED  BY <1>3, <3>1
  <2>. QED  BY <1>1, <2>1 DEF Public, Published, Unpublished
<1>6. ASSUME NEW x \in Entries PROVE OwnAt(x)'
  <2>1. OwnAt(x) /\ Home[x] \in Processes /\ held[n][h] \in Nat
    BY <1>2, BoardTypes DEF BoardInv
  <2>2. CASE x # h
    BY <1>1, <1>3, <1>5, <2>1, <2>2 DEF OwnAt
  <2>3. CASE x = h
    <3>1. held[Home[h]][h] > 0 => held'[Home[h]][h] > 0
      BY <1>3, <2>1, <2>3
    <3>. QED  BY <1>1, <1>4, <1>5, <2>1, <2>3, <3>1 DEF OwnAt
  <2>. QED  BY <2>2, <2>3
<1>7. ASSUME NEW m \in Processes PROVE ConnAt(m)'
  <2>1. ConnAt(m)
    BY DEF BoardInv
  <2>2. \A x \in ToSet(inbox'[m]) : Home[x] # m
    BY <1>2, <1>3, <2>1 DEF ConnAt
  <2>. QED  BY <1>1, <1>3, <1>4, <2>1, <2>2 DEF ConnAt
<1>8. ASSUME NEW m \in Processes, NEW x \in Entries PROVE CopyAt(m, x)' /\ HeardAt(m, x)'
  <2>1. CopyAt(m, x) /\ HeardAt(m, x) /\ held[m][x] \in Nat
    BY BoardTypes DEF BoardInv
  <2>2. CASE m # n
    BY <1>1, <1>3, <1>5, <2>1, <2>2 DEF CopyAt, HeardAt
  <2>3. CASE m = n
    <3>1. x # h => (x \in ToSet(inbox'[n]) <=> x \in ToSet(inbox[n]))
      BY <1>2, <1>3
    <3>2. HeardAt(n, x)'
      BY <1>1, <1>3, <1>5, <2>1, <2>3, <3>1 DEF HeardAt
    <3>3. ASSUME n \notin again, Home[x] \notin again
          PROVE  /\ held'[n][x] <= 1
                 /\ x \in ToSet(inbox'[n]) => held'[n][x] = 0
                 /\ Single(inbox'[n], x)
      <4>1. /\ Single(inbox[n], x) /\ held[n][x] <= 1
            /\ x \in ToSet(inbox[n]) => held[n][x] = 0
        BY <2>1, <2>3, <3>3 DEF CopyAt
      <4>2. \A i \in 1 .. Len(Tail(inbox[n])) : i + 1 \in 1 .. Len(inbox[n]) /\ i + 1 # 1
        BY <1>2
      <4>3. Single(Tail(inbox[n]), x)
        BY <1>2, <4>1, <4>2 DEF Single
      <4>4. x = h => x \notin ToSet(Tail(inbox[n]))
        <5>1. \A y : y \in ToSet(Tail(inbox[n]))
                     <=> \E i \in 1 .. Len(Tail(inbox[n])) : Tail(inbox[n])[i] = y
          BY <1>2, Elements
        <5>2. 1 \in 1 .. Len(inbox[n])
          BY <1>2
        <5>. QED  BY <1>2, <4>1, <4>2, <5>1, <5>2 DEF Single
      <4>. QED  BY <1>2, <1>3, <2>1, <2>3, <3>1, <4>1, <4>3, <4>4
    <3>4. CopyAt(n, x)'
      BY <1>1, <1>4, <3>3 DEF CopyAt
    <3>. QED  BY <2>3, <3>2, <3>4
  <2>. QED  BY <2>2, <2>3
<1>. QED  BY <1>6, <1>7, <1>8 DEF BoardInv

\* The listener subscribes, or saves what it appended.
LEMMA ListenerBoards ==
    ASSUME TypeInv, BoardInv, NEW n \in Processes, Listen(n) \/ SaveMerged(n)
    PROVE  BoardInv'
<1>1. /\ UNCHANGED <<held, place, calls, hooks, inbox, missed, again>>
      /\ \A m \in Processes : sync'[m] # "off" <=> sync[m] # "off"
      /\ \A m \in Processes : sync'[m] # "listening" => sync[m] # "listening"
      /\ \A m \in Processes : saving'[m] = saving[m] \/ saving'[m] = NoEntry
  BY BoardTypes DEF Listen, SaveMerged, boards, history
<1>2. \A x \in Entries : Public(x)' <=> Public(x)
  <2>1. CASE Listen(n)
    BY <2>1 DEF Listen, Public
  <2>2. CASE SaveMerged(n)
    <3>1. /\ snapshot' = snapshot \cup {saving[n]} /\ inbox' = inbox
          /\ saving' = [saving EXCEPT ![n] = NoEntry]
      BY <2>2 DEF SaveMerged
    <3>2. saving'[n] = NoEntry /\ \A m \in Processes \ {n} : saving'[m] = saving[m]
      BY <3>1, BoardTypes
    <3>. QED  BY <3>1, <3>2, BoardTypes DEF Public
  <2>. QED  BY <2>1, <2>2
<1>3. \A x \in Entries : (Published(x)' <=> Published(x)) /\ (Unpublished(x)' <=> Unpublished(x))
  BY <1>1, <1>2 DEF Published, Unpublished
<1>4. ASSUME NEW x \in Entries PROVE OwnAt(x)'
  BY <1>1, <1>2, <1>3 DEF BoardInv, OwnAt
<1>5. ASSUME NEW m \in Processes PROVE ConnAt(m)'
  <2>1. ConnAt(m)
    BY DEF BoardInv
  <2>. QED  BY <1>1, <2>1 DEF ConnAt
<1>6. ASSUME NEW m \in Processes, NEW x \in Entries PROVE CopyAt(m, x)' /\ HeardAt(m, x)'
  <2>1. CopyAt(m, x) /\ HeardAt(m, x)
    BY DEF BoardInv
  <2>. QED  BY <1>1, <1>2, <1>3, <2>1 DEF CopyAt, HeardAt
<1>. QED  BY <1>4, <1>5, <1>6 DEF BoardInv

\* A connection is closed, by the listener or by stop().
LEMMA DisconnectBoards ==
    ASSUME TypeInv, BoardInv, NEW n \in Processes, ListenFails(n) \/ Stop(n)
    PROVE  BoardInv'
<1>1. /\ UNCHANGED <<held, place, calls, hooks, snapshot, again>>
      /\ sync[n] # "off" /\ sync'[n] \in {"off", "joining"} /\ inbox'[n] = <<>> /\ saving'[n] = NoEntry
      /\ \A m \in Processes \ {n} : /\ sync'[m] = sync[m] /\ inbox'[m] = inbox[m]
                                    /\ saving'[m] = saving[m]
      /\ \A m \in Processes : missed[m] \subseteq missed'[m]
      /\ sync'[n] = "joining" => ToSet(inbox[n]) \subseteq missed'[n]
  <2>1. CASE Stop(n)
    BY <2>1, BoardTypes DEF Stop, Disconnect, boards, history
  <2>2. CASE ListenFails(n)
    <3>1. /\ missed' = [missed EXCEPT ![n] = missed[n] \cup ToSet(inbox[n])]
          /\ Disconnect(n, "joining") /\ sync[n] = "listening"
          /\ UNCHANGED <<held, place, calls, hooks, snapshot, again>>
      BY <2>2 DEF ListenFails, boards
    <3>2. /\ missed'[n] = missed[n] \cup ToSet(inbox[n])
          /\ \A m \in Processes \ {n} : missed'[m] = missed[m]
      BY <3>1, BoardTypes
    <3>. QED  BY <3>1, <3>2, BoardTypes DEF Disconnect
  <2>. QED  BY <2>1, <2>2
<1>2. \A x \in Entries : /\ Public(x)' => Public(x)
                         /\ Published(x)' => Published(x)
                         /\ Unpublished(x)' <=> Unpublished(x)
  <2>1. \A m \in Processes, x \in Entries :
           x \in ToSet(inbox'[m]) \cup {saving'[m]} => x \in ToSet(inbox[m]) \cup {saving[m]}
    BY <1>1, EmptyElements, BoardTypes
  <2>. QED  BY <1>1, <2>1 DEF Public, Published, Unpublished
<1>3. ASSUME NEW x \in Entries PROVE OwnAt(x)'
  <2>1. OwnAt(x)
    BY DEF BoardInv
  <2>. QED  BY <1>1, <1>2, <2>1 DEF OwnAt
<1>4. ASSUME NEW m \in Processes PROVE ConnAt(m)'
  <2>1. ConnAt(m)
    BY DEF BoardInv
  <2>. QED  BY <1>1, <2>1, EmptyElements DEF ConnAt
<1>5. ASSUME NEW m \in Processes, NEW x \in Entries PROVE CopyAt(m, x)' /\ HeardAt(m, x)'
  <2>1. CopyAt(m, x) /\ HeardAt(m, x)
    BY DEF BoardInv
  <2>2. CASE m # n
    BY <1>1, <1>2, <2>1, <2>2 DEF CopyAt, HeardAt
  <2>3. CASE m = n
    <3>1. x \notin ToSet(inbox'[n]) /\ Single(inbox'[n], x)
      BY <1>1, NoElements
    <3>. QED  BY <1>1, <1>2, <2>1, <2>3, <3>1 DEF CopyAt, HeardAt
  <2>. QED  BY <2>2, <2>3
<1>. QED  BY <1>3, <1>4, <1>5 DEF BoardInv

\* A blackboard goes, and its connection with it: detach, or the end of the process.
LEMMA EraseBoards ==
    ASSUME TypeInv, BoardInv, NEW n \in Processes, Detach(n) \/ Crash(n)
    PROVE  BoardInv'
<1>1. /\ UNCHANGED <<calls, snapshot, again, missed>>
      /\ sync'[n] = "off" /\ inbox'[n] = <<>> /\ saving'[n] = NoEntry /\ hooks'[n] = 0
      /\ \A x \in Entries : held'[n][x] = 0
      /\ \A m \in Processes \ {n} : /\ sync'[m] = sync[m] /\ inbox'[m] = inbox[m]
                                    /\ saving'[m] = saving[m] /\ hooks'[m] = hooks[m]
                                    /\ held'[m] = held[m]
  BY BoardTypes DEF Detach, Crash, Disconnect, Nothing, history
<1>2. ASSUME NEW x \in Entries
      PROVE  /\ place'[x] = place[x] \/ place'[x] = "lost"
             /\ Home[x] = n => place'[x] \notin {"notify", "save"}
  <2>1. CASE Detach(n)
    BY <2>1 DEF Detach, Writing
  <2>2. CASE Crash(n)
    BY <2>2 DEF Crash, Writing
  <2>. QED  BY <2>1, <2>2
<1>3. \A x \in Entries : /\ Public(x)' => Public(x)
                         /\ Published(x)' => Published(x)
                         /\ Unpublished(x)' => Unpublished(x)
  <2>1. \A m \in Processes, x \in Entries :
           x \in ToSet(inbox'[m]) \cup {saving'[m]} => x \in ToSet(inbox[m]) \cup {saving[m]}
    BY <1>1, EmptyElements, BoardTypes
  <2>. QED  BY <1>1, <1>2, <2>1 DEF Public, Published, Unpublished
<1>4. ASSUME NEW x \in Entries PROVE OwnAt(x)'
  <2>1. OwnAt(x) /\ Home[x] \in Processes
    BY BoardTypes DEF BoardInv
  <2>2. \A m \in Processes : held[m][x] = 0 => held'[m][x] = 0
    BY <1>1
  <2>. QED  BY <1>1, <1>2, <1>3, <2>1, <2>2 DEF OwnAt
<1>5. ASSUME NEW m \in Processes PROVE ConnAt(m)'
  <2>1. ConnAt(m)
    BY DEF BoardInv
  <2>. QED  BY <1>1, <2>1, EmptyElements DEF ConnAt
<1>6. ASSUME NEW m \in Processes, NEW x \in Entries PROVE CopyAt(m, x)' /\ HeardAt(m, x)'
  <2>1. CopyAt(m, x) /\ HeardAt(m, x)
    BY DEF BoardInv
  <2>2. CASE m # n
    BY <1>1, <1>3, <2>1, <2>2 DEF CopyAt, HeardAt
  <2>3. CASE m = n
    <3>1. x \notin ToSet(inbox'[n]) /\ Single(inbox'[n], x)
      BY <1>1, NoElements
    <3>. QED  BY <1>1, <2>3, <3>1 DEF CopyAt, HeardAt
  <2>. QED  BY <2>2, <2>3
<1>. QED  BY <1>4, <1>5, <1>6 DEF BoardInv

LEMMA BoardStep == TypeInv /\ ControlInv /\ BoardInv /\ [Next]_vars => BoardInv'
<1> SUFFICES ASSUME TypeInv, ControlInv, BoardInv, [Next]_vars PROVE BoardInv'
  OBVIOUS
<1>1. CASE UNCHANGED vars
  <2>1. /\ UNCHANGED <<held, calls, redis, missed>> /\ again \subseteq again' /\ place' = place
    BY <1>1 DEF vars, boards, redis, history
  <2>. QED  BY <2>1, FadingBoards
<1>2. ASSUME NEW e \in Entries, Write(Home[e], e) \/ WriteStep(e) PROVE BoardInv'
  BY <1>2, WriteBoards
<1>3. ASSUME NEW n \in Processes, SyncStep(n) PROVE BoardInv'
  BY <1>3, JoinBoards, MergeBoards, ListenerBoards, DisconnectBoards, EraseBoards
     DEF SyncStep, Start, StartBlind
<1>4. ASSUME NEW n \in Processes, ControlNext(n) \/ Crash(n) PROVE BoardInv'
  <2>1. CASE StartController(n) \/ ControlStep(n) \/ Executed(n)
    BY <2>1, FadingBoards DEF StartController, ControlStep, Executed, boards, history
  <2>2. CASE CancelStep(n)
    <3>1. \A x \in Entries : place'[x] = place[x] \/ place'[x] \in {"written", "lost"}
      BY <2>2, BoardTypes DEF CancelStep, Writing
    <3>. QED  BY <2>2, <3>1, FadingBoards DEF CancelStep
  <2>3. CASE Execute(n)
    <3> DEFINE e == Head(batch[n])
    <3>1. CASE e \in Problems /\ Reply[e] # NoEntry /\ AppendEntry(n, Reply[e])
      <4>1. batch[n] \in Seq(Entries) /\ batch[n] # <<>>
        BY <2>3, ElementsTyped DEF Execute, TypeInv
      <4>2. e \in ToSet(batch[n])
        BY <4>1, TailElements
      <4>3. Home[e] = n
        BY <4>2 DEF ControlInv, TriggersAt, HomeAt
      <4>4. Reply[e] \in Entries /\ Home[Reply[e]] = n
        BY <3>1, <4>3, BlackboardAssumption
      <4>. QED  BY <2>3, <3>1, <4>4, AppendBoards DEF Execute
    <3>2. CASE UNCHANGED boards
      BY <2>3, <3>2, FadingBoards DEF Execute, boards
    <3>. QED  BY <2>3, <3>1, <3>2 DEF Execute
  <2>4. CASE Crash(n)
    BY <2>4, EraseBoards
  <2>. QED  BY <1>4, <2>1, <2>2, <2>3, <2>4 DEF ControlNext
<1>. QED  BY <1>1, <1>2, <1>3, <1>4 DEF Next

LEMMA BoardInvariance == Spec => []BoardInv
BY TypeInvariance, ControlInvariance, BoardInit, BoardStep, PTL DEF Spec

\* No blackboard gets an entry twice, neither by the snapshot and a message nor by two
\* messages, in any order of publishing, saving, subscribing, restarting and failing.
THEOREM NoSecondCopy == Spec => []OneCopy
<1>1. TypeInv /\ BoardInv => OneCopy
  <2> SUFFICES ASSUME TypeInv, BoardInv, NEW n \in Processes, NEW e \in Entries,
                      held[n][e] > 1, {n, Home[e]} \cap again = {}
               PROVE  FALSE
    BY DEF OneCopy
  <2>1. held[n][e] <= 1 /\ held[n][e] \in Nat
    BY BoardTypes DEF BoardInv, CopyAt
  <2>. QED  BY <2>1
<1>. QED  BY <1>1, TypeInvariance, BoardInvariance, PTL

\* What a listening process lacks of the snapshot it is about to merge, or it was published
\* while its connection was not subscribed.
THEOREM ListenersHaveTheSnapshot == Spec => []NothingMissed
<1>1. TypeInv /\ BoardInv => NothingMissed
  <2> SUFFICES ASSUME TypeInv, BoardInv, NEW n \in Processes, sync[n] = "listening",
                      NEW e \in snapshot
               PROVE  held[n][e] > 0 \/ e \in ToSet(inbox[n]) \cup missed[n]
    BY DEF NothingMissed
  <2>1. e \in Entries /\ Published(e)
    BY BoardTypes DEF Published, Public
  <2>. QED  BY <2>1 DEF BoardInv, HeardAt
<1>. QED  BY <1>1, TypeInvariance, BoardInvariance, PTL
=============================================================================
