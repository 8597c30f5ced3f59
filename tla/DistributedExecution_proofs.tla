----------------------- MODULE DistributedExecution_proofs -----------------------
(* Theorems about DistributedExecution: for every acyclic graph, whatever its     *)
(* nodes spawn, any number of runs and workers, and any faults.  The last section *)
(* is about KahnLayers, the layering of a submitted graph, for every graph.       *)
EXTENDS DistributedExecution, KahnLayers, SequenceTheorems, FiniteSetTheorems, TLAPS

-----------------------------------------------------------------------------
(* Types *)

\* The fields of a run.
LEMMA RunFields ==
    ASSUME TypeOK, NEW r \in Runs
    PROVE  /\ run[r] \in Run
           /\ run[r].phase \in {"idle", "collect", "layer", "over", "raised"}
           /\ run[r].gen \in Nat /\ run[r].cursor \in Nat /\ run[r].opened \in Nat
           /\ run[r].out \in [Nodes -> Outcome]
           /\ run[r].known \subseteq Nodes /\ run[r].pending \subseteq Nodes
           /\ run[r].added \subseteq Nodes
           /\ run[r].retries \in [Nodes -> Nat] /\ run[r].again \in [Nodes -> Nat]
           /\ run[r].todo \in Seq(Nodes) /\ run[r].extra \in Seq(SUBSET Nodes)
BY DEF TypeOK, SchedTypeOK, Run

\* The entries of a results stream.
LEMMA AnswerFields ==
    ASSUME TypeOK, NEW r \in Runs
    PROVE  /\ answers[r] \in Seq(Answer) /\ Len(answers[r]) \in Nat
           /\ \A i \in 1 .. Len(answers[r]) :
                /\ answers[r][i] \in Answer
                /\ answers[r][i].gen \in Nat /\ answers[r][i].node \in Nodes
                /\ answers[r][i].status \in Answered /\ answers[r][i].worker \in Workers
                /\ answers[r][i].spawns \in Seq(Nodes)
<1>1. answers[r] \in Seq(Answer)
  BY DEF TypeOK, SchedTypeOK
<1>2. Len(answers[r]) \in Nat /\ \A i \in 1 .. Len(answers[r]) : answers[r][i] \in Answer
  BY <1>1, LenProperties, ElementOfSeq
<1>. QED  BY <1>1, <1>2 DEF Answer

\* A set of numbers that is bounded by one of them or another number has a last one.
LEMMA LastOne ==
    ASSUME NEW k \in Nat, NEW S \in SUBSET (1 .. k), S # {}
    PROVE  \E i \in S : \A j \in S : j <= i
<1>. DEFINE T == {k - i : i \in S}
<1>0. \A i \in S : i \in Nat /\ k - i \in Nat /\ k - i \in T
  OBVIOUS
<1>1. T \subseteq Nat /\ T # {}
  <2>1. \A x \in T : \E i \in S : x = k - i
    OBVIOUS
  <2>. QED  BY <1>0, <2>1
<1>2. PICK x \in T : \A y \in T : <<y, x>> \notin OpToRel(<, Nat)
  BY <1>1, WFMin, NatLessThanWellFounded, Zenon
<1>3. \A y \in T : x <= y
  <2>1. ASSUME NEW y \in T PROVE ~ (y < x)
    BY <1>1, <1>2 DEF OpToRel
  <2>. QED  BY <1>1, <2>1
<1>4. PICK i \in S : x = k - i
  OBVIOUS
<1>5. \A j \in S : j <= i
  <2>1. ASSUME NEW j \in S PROVE j <= i
    <3>1. x <= k - j
      BY <1>0, <1>3
    <3>. HIDE DEF T
    <3>. QED  BY <3>1, <1>0, <1>4
  <2>. QED  BY <2>1
<1>. QED  BY <1>5

\* What the run takes for the answer of a node is an entry for it.
LEMMA LatestFacts ==
    ASSUME TypeOK, NEW r \in Runs, NEW n \in Told(r)
    PROVE  Latest(r, n) \in Expected(r) /\ answers[r][Latest(r, n)].node = n
<1>. DEFINE S == {i \in Expected(r) : answers[r][i].node = n}
<1>1. Len(answers[r]) \in Nat /\ run[r].cursor \in Nat
  BY RunFields, AnswerFields
<1>2. S \in SUBSET (1 .. Len(answers[r])) /\ S # {}
  BY <1>1 DEF Told, Expected, Unread
<1>3. PICK i \in S : \A j \in S : j <= i
  BY <1>1, <1>2, LastOne
<1>4. \E k : /\ k \in Expected(r) /\ answers[r][k].node = n
             /\ \A j \in Expected(r) : answers[r][j].node = n => j <= k
  BY <1>3
<1>5. \E k \in Expected(r) : /\ answers[r][k].node = n
                             /\ \A j \in Expected(r) : answers[r][j].node = n => j <= k
  BY <1>4
<1>. QED  BY <1>5 DEF Latest

LEMMA ExpectedFacts ==
    ASSUME TypeOK, NEW r \in Runs
    PROVE  /\ Expected(r) \subseteq 1 .. Len(answers[r])
           /\ Told(r) \subseteq run[r].pending
           /\ \A n \in Told(r) : answers[r][Latest(r, n)].status \in Answered
<1>1. Len(answers[r]) \in Nat /\ run[r].cursor \in Nat
  BY RunFields, AnswerFields
<1>2. Expected(r) \subseteq 1 .. Len(answers[r])
  BY <1>1 DEF Expected, Unread
<1>3. Told(r) \subseteq run[r].pending
  BY DEF Told, Expected
<1>4. \A n \in Told(r) : answers[r][Latest(r, n)].status \in Answered
  BY <1>2, LatestFacts, AnswerFields
<1>. QED  BY <1>2, <1>3, <1>4

\* The sequences of layers that NextLayer takes the next one from.
LEMMA LayerFacts ==
    ASSUME TypeOK, NEW r \in Runs
    PROVE  /\ Appended(r) \in Seq(SUBSET Nodes)
           /\ Appended(r) # <<>> => /\ Head(Appended(r)) \subseteq Nodes
                                    /\ Tail(Appended(r)) \in Seq(SUBSET Nodes)
           /\ NextNodes(r) \subseteq Nodes
<1>1. Appended(r) \in Seq(SUBSET Nodes)
  BY RunFields, AppendProperties DEF Appended
<1>2. Appended(r) # <<>> => /\ Head(Appended(r)) \subseteq Nodes
                            /\ Tail(Appended(r)) \in Seq(SUBSET Nodes)
  BY <1>1, HeadTailProperties
<1>3. NextNodes(r) \subseteq Nodes
  BY <1>2, GraphAssumption DEF NextNodes, StaticReady
<1>. QED  BY <1>1, <1>2, <1>3

SelectedType == selected \in [Runs -> [Nodes -> Workers \union {NoWorker}]]

LEMMA DispatchTypes ==
    ASSUME TypeOK, NEW r \in Runs, NEW layer \in SUBSET Nodes, NEW nth \in [Nodes -> Nat],
           Dispatch(r, layer, nth)
    PROVE  PoolTypeOK' /\ tasks' \subseteq Message /\ SelectedType'
<1>1. run[r].gen \in Nat
  BY RunFields
<1>2. tasks' \subseteq Message
  BY <1>1 DEF Dispatch, Copy, Message, TypeOK, SchedTypeOK
<1>3. PICK chosen \in [layer -> Workers \union {NoWorker}] :
         /\ AssignTasks(layer, chosen)
         /\ selected' = [selected EXCEPT ![r] =
                            [n \in Nodes |-> IF n \in layer THEN chosen[n] ELSE selected[r][n]]]
  BY DEF Dispatch
<1>5. SelectedType'
  <2>. DEFINE mine == [n \in Nodes |-> IF n \in layer THEN chosen[n] ELSE selected[r][n]]
  <2>1. mine \in [Nodes -> Workers \union {NoWorker}]
    BY DEF TypeOK, SchedTypeOK
  <2>. HIDE DEF mine
  <2>. QED  BY <1>3, <2>1 DEF SelectedType, TypeOK, SchedTypeOK
<1>4. inflight' \in [Workers -> SUBSET Nodes]
  BY <1>3 DEF AssignTasks, TypeOK, SchedTypeOK, PoolTypeOK
<1>. QED  BY <1>2, <1>4, <1>5 DEF Dispatch, TypeOK, SchedTypeOK, PoolTypeOK

\* A step of run r leaves the other runs alone.
LEMMA PutRun ==
    ASSUME TypeOK, NEW r \in Runs, NEW R, run' = [run EXCEPT ![r] = R]
    PROVE  /\ run'[r] = R
           /\ \A q \in Runs \ {r} : run'[q] = run[q]
           /\ R \in Run => run' \in [Runs -> Run]
BY DEF TypeOK, SchedTypeOK

WorkerTypes ==
    /\ mode \in [Workers -> {"new", "up", "stopping", "gone"}]
    /\ fresh \in [Workers -> SUBSET Message]
    /\ held \in [Workers -> SUBSET Message]
    /\ busy \in [Workers -> SUBSET Message]
    /\ faults \in 0 .. MaxFaults
    /\ ran \subseteq Message
    /\ won \subseteq Message
    /\ pruned \subseteq Workers
    /\ robbed \subseteq Runs \X Nodes
    /\ lost \subseteq Message

LEMMA TypeParts == TypeOK <=> SchedTypeOK /\ WorkerTypes
BY DEF TypeOK, WorkerTypes

LEMMA TypeInit == Init => TypeOK
<1> SUFFICES ASSUME Init PROVE TypeOK
  OBVIOUS
<1>1. PoolTypeOK
  BY DEF Init, SchedInit, PoolInit, PoolTypeOK
<1>2. run \in [Runs -> Run]
  BY DEF Init, SchedInit, Run, None0, Outcome, Answered
<1>3. WorkerTypes
  <2>1. MaxFaults \in Nat
    BY WorkerAssumption
  <2>. QED  BY <2>1 DEF Init, WorkerTypes
<1>4. SchedTypeOK
  <2>1. answers \in [Runs -> Seq(Answer)]
    BY EmptySeq DEF Init, SchedInit
  <2>. QED  BY <1>1, <1>2, <2>1 DEF Init, SchedInit, SchedTypeOK
<1>. QED  BY <1>3, <1>4, TypeParts

\* A step that only replaces the locals of a run.
LEMMA RunTypes ==
    ASSUME TypeOK, NEW r \in Runs, NEW R \in Run, run' = [run EXCEPT ![r] = R],
           answers' \in [Runs -> Seq(Answer)], tasks' \subseteq Message, PoolTypeOK',
           SelectedType'
    PROVE  SchedTypeOK'
BY DEF TypeOK, SchedTypeOK, SelectedType

LEMMA EndTypes ==
    ASSUME TypeOK, NEW r \in Runs, NEW how \in {"over", "raised"},
           NEW final \in [Nodes -> Outcome], End(r, how, final)
    PROVE  SchedTypeOK'
<1>1. run[r] \in Run /\ None0 \in [Nodes -> Nat]
  BY RunFields DEF None0
<1>. DEFINE R == [run[r] EXCEPT !.phase = how, !.out = final, !.pending = {},
                     !.retries = None0, !.again = None0, !.cursor = 0, !.opened = 0,
                     !.todo = <<>>, !.added = {}, !.extra = <<>>]
<1>2. R \in Run
  <2>1. /\ {} \in SUBSET Nodes /\ <<>> \in Seq(Nodes) /\ <<>> \in Seq(SUBSET Nodes)
        /\ how \in {"idle", "collect", "layer", "over", "raised"}
    BY EmptySeq
  <2>. QED  BY <1>1, <2>1 DEF Run
<1>3. answers' \in [Runs -> Seq(Answer)] /\ run' = [run EXCEPT ![r] = R]
  BY EmptySeq DEF End, TypeOK, SchedTypeOK
<1>. HIDE DEF R
<1>. QED  BY <1>2, <1>3, RunTypes DEF End, TypeOK, SchedTypeOK, PoolTypeOK, SelectedType, poolVars

\* The collect loop never thinks it has read further than the stream goes.
ReadSoFar == \A r \in Runs : run[r].cursor <= Len(answers[r])

LEMMA SchedulerTypes ==
    ASSUME TypeOK, ReadSoFar, NEW r \in Runs, Submit(r) \/ SchedulerStep(r) \/ GiveUp(r) \/ DetectFailures(r)
    PROVE  SchedTypeOK'
<1>0. /\ run[r] \in Run /\ run[r].gen \in Nat /\ run[r].out \in [Nodes -> Outcome]
      /\ run[r].known \subseteq Nodes /\ run[r].pending \subseteq Nodes
      /\ run[r].retries \in [Nodes -> Nat] /\ run[r].again \in [Nodes -> Nat]
      /\ None0 \in [Nodes -> Nat] /\ Static \subseteq Nodes
  BY RunFields, GraphAssumption DEF None0
<1>a. /\ answers \in [Runs -> Seq(Answer)] /\ tasks \subseteq Message /\ PoolTypeOK
      /\ UNCHANGED poolVars => PoolTypeOK'
      /\ UNCHANGED selected => SelectedType'
  BY DEF TypeOK, SchedTypeOK, PoolTypeOK, SelectedType, poolVars
<1>1. CASE Submit(r)
  <2>. DEFINE out == [n \in Nodes |-> IF n \in Static THEN "pending" ELSE "absent"]
              R == [run[r] EXCEPT !.phase = "layer", !.gen = run[r].gen + 1,
                                  !.known = Static, !.out = out]
  <2>1. out \in [Nodes -> Outcome]
    BY DEF Outcome
  <2>2. run' = [run EXCEPT ![r] = R] /\ UNCHANGED <<tasks, answers, selected, poolVars>>
    BY <1>1 DEF Submit
  <2>3. R \in Run
    <3>1. run[r].gen + 1 \in Nat /\ Static \in SUBSET Nodes
      BY <1>0
    <3>. HIDE DEF out
    <3>. QED  BY <1>0, <2>1, <3>1 DEF Run
  <2>. HIDE DEF R
  <2>. QED  BY <1>a, <2>2, <2>3, RunTypes
<1>2. CASE DropStale(r)
  <2>1. [run[r] EXCEPT !.again = [n \in Nodes |-> IF n \in NoPending(r) THEN 0 ELSE @[n]]] \in Run
    BY <1>0 DEF Run
  <2>. QED  BY <1>a, <1>2, <2>1, RunTypes DEF DropStale
<1>3. ASSUME NEW n \in Nodes, Reschedule(r, n) PROVE SchedTypeOK'
  <2>3. [run[r].again EXCEPT ![n] = run[r].again[n] - 1] \in [Nodes -> Nat]
    BY <1>0, <1>3 DEF Reschedule
  <2>4. [run[r].retries EXCEPT ![n] = run[r].retries[n] + 1] \in [Nodes -> Nat]
    BY <1>0
  <2>1. CASE /\ Dispatch(r, {n}, [run[r].retries EXCEPT ![n] = @ + 1])
             /\ run' = [run EXCEPT ![r] = [@ EXCEPT !.again[n] = run[r].again[n] - 1,
                                                    !.retries[n] = run[r].retries[n] + 1]]
    <3>. DEFINE R == [run[r] EXCEPT !.again[n] = run[r].again[n] - 1,
                                    !.retries[n] = run[r].retries[n] + 1]
    <3>1. R \in Run
      BY <1>0, <2>3, <2>4 DEF Run
    <3>2. PoolTypeOK' /\ tasks' \subseteq Message /\ SelectedType'
      BY <1>0, <2>1, <2>4, DispatchTypes
    <3>3. run' = [run EXCEPT ![r] = R] /\ UNCHANGED answers
      BY <1>3, <2>1 DEF Reschedule
    <3>. HIDE DEF R
    <3>. QED  BY <1>a, <3>1, <3>2, <3>3, RunTypes
  <2>2. CASE /\ run' = [run EXCEPT ![r] = [@ EXCEPT !.again[n] = run[r].again[n] - 1,
                                                    !.out[n] = "failed",
                                                    !.pending = run[r].pending \ {n}]]
             /\ UNCHANGED <<tasks, selected, poolVars>>
    <3>. DEFINE R == [run[r] EXCEPT !.again[n] = run[r].again[n] - 1,
                                    !.out[n] = "failed", !.pending = run[r].pending \ {n}]
    <3>1. [run[r].out EXCEPT ![n] = "failed"] \in [Nodes -> Outcome]
      BY <1>0 DEF Outcome, Answered
    <3>2. R \in Run
      BY <1>0, <2>3, <3>1 DEF Run
    <3>3. run' = [run EXCEPT ![r] = R] /\ UNCHANGED answers
      BY <1>3, <2>2 DEF Reschedule
    <3>. HIDE DEF R
    <3>. QED  BY <1>a, <2>2, <3>2, <3>3, RunTypes
  <2>. QED  BY <1>3, <2>1, <2>2 DEF Reschedule
<1>4. CASE ReadResults(r)
  <2>1. [n \in Nodes |-> IF n \in Told(r) THEN answers[r][Latest(r, n)].status ELSE run[r].out[n]]
            \in [Nodes -> Outcome]
    BY <1>0, ExpectedFacts DEF Outcome
  <2>2. Len(answers[r]) \in Nat
    BY AnswerFields
  <2>. DEFINE R == [run[r] EXCEPT !.out = [n \in Nodes |-> IF n \in Told(r)
                                                THEN answers[r][Latest(r, n)].status
                                                ELSE run[r].out[n]],
                       !.pending = run[r].pending \ Told(r),
                       !.cursor = Len(answers[r]),
                       !.phase = IF run[r].pending \subseteq Told(r) THEN "layer" ELSE "collect"]
  <2>3. R \in Run
    BY <1>0, <2>1, <2>2 DEF Run
  <2>4. PoolTypeOK'
    BY <1>a, <1>4 DEF ReadResults, CompleteTasks, PoolTypeOK
  <2>5. run' = [run EXCEPT ![r] = R] /\ UNCHANGED <<tasks, answers, selected>>
    BY <1>4 DEF ReadResults
  <2>. HIDE DEF R
  <2>. QED  BY <1>a, <2>3, <2>4, <2>5, RunTypes
<1>5. CASE OpenSpawns(r)
  <2>1. PICK i \in Offers(r) : run' = [run EXCEPT ![r] = [@ EXCEPT !.opened = i, !.todo = answers[r][i].spawns]]
    BY <1>5 DEF OpenSpawns
  <2>2. i \in Nat /\ i \in 1 .. Len(answers[r])
    BY RunFields, AnswerFields DEF Offers, ReadSoFar
  <2>3. answers[r][i].spawns \in Seq(Nodes)
    BY <2>2, AnswerFields
  <2>4. [run[r] EXCEPT !.opened = i, !.todo = answers[r][i].spawns] \in Run
    BY <1>0, <2>2, <2>3 DEF Run
  <2>. QED  BY <1>a, <1>5, <2>1, <2>4, RunTypes DEF OpenSpawns
<1>6. CASE MergeSpawn(r)
  <2>1. run[r].todo \in Seq(Nodes) /\ run[r].todo # <<>>
    BY <1>6, RunFields DEF MergeSpawn
  <2>2. Head(run[r].todo) \in Nodes /\ Tail(run[r].todo) \in Seq(Nodes)
    BY <2>1, HeadTailProperties
  <2>3. PICK new \in SUBSET Nodes :
          run' = [run EXCEPT ![r] = [@ EXCEPT !.todo = Tail(run[r].todo),
                                              !.known = run[r].known \union new,
                                              !.added = run[r].added \union new]]
    BY <1>6, <2>2 DEF MergeSpawn
  <2>. DEFINE R == [run[r] EXCEPT !.todo = Tail(run[r].todo),
                                  !.known = run[r].known \union new,
                                  !.added = run[r].added \union new]
  <2>4. R \in Run
    BY <1>0, <2>2 DEF Run
  <2>5. run' = [run EXCEPT ![r] = R] /\ UNCHANGED <<tasks, answers, selected, poolVars>>
    BY <1>6, <2>3 DEF MergeSpawn
  <2>. HIDE DEF R
  <2>. QED  BY <1>a, <2>4, <2>5, RunTypes
<1>7. CASE NextLayer(r)
  <2>1. /\ NextNodes(r) \subseteq Nodes
        /\ (IF StaticReady(r) # {} THEN Appended(r) ELSE Tail(Appended(r))) \in Seq(SUBSET Nodes)
    BY <1>7, LayerFacts DEF NextLayer, NextNodes
  <2>2. [run[r] EXCEPT !.phase = "collect", !.pending = NextNodes(r), !.retries = None0,
                       !.cursor = 0, !.opened = 0, !.added = {},
                       !.extra = IF StaticReady(r) # {} THEN Appended(r) ELSE Tail(Appended(r))] \in Run
    BY <1>0, <2>1 DEF Run
  <2>3. PoolTypeOK' /\ tasks' \subseteq Message /\ SelectedType'
    BY <1>0, <1>7, <2>1, DispatchTypes DEF NextLayer
  <2>. QED  BY <1>a, <1>7, <2>2, <2>3, RunTypes DEF NextLayer
<1>8. CASE Complete(r)
  BY <1>0, <1>8, EndTypes DEF Complete
<1>9. CASE Abort(r)
  <2>1. [n \in Nodes |-> IF run[r].out[n] = "pending" THEN "skipped" ELSE run[r].out[n]]
            \in [Nodes -> Outcome]
    BY <1>0 DEF Outcome
  <2>. QED  BY <1>0, <1>9, <2>1, EndTypes DEF Abort
<1>10. CASE GiveUp(r)
  BY <1>0, <1>10, EndTypes DEF GiveUp
<1>11. CASE DetectFailures(r)
  <2>1. \A n \in Nodes : Orphans[n] \in Nat
    <3>1. \A n \in Nodes : IsFiniteSet({w \in Dead : n \in inflight[w]})
      BY <1>a, GraphAssumption, FS_Subset DEF Dead, PoolTypeOK
    <3>. QED  BY <3>1, FS_CardinalityType DEF Orphans
  <2>4. [n \in Nodes |-> run[r].again[n] + Orphans[n]] \in [Nodes -> Nat]
    BY <1>0, <2>1
  <2>2. [run[r] EXCEPT !.again = [n \in Nodes |-> @[n] + Orphans[n]]] \in Run
    BY <1>0, <2>4 DEF Run
  <2>3. PoolTypeOK'
    BY <1>a, <1>11 DEF DetectFailures, Prune, PoolTypeOK
  <2>. QED  BY <1>a, <1>11, <2>2, <2>3, RunTypes DEF DetectFailures
<1>. QED
  BY <1>1, <1>2, <1>3, <1>4, <1>5, <1>6, <1>7, <1>8, <1>9, <1>10, <1>11 DEF SchedulerStep

LEMMA WorkerTypesStep ==
    ASSUME TypeOK, WorkerNext
    PROVE  TypeOK'
<1>. USE DEF TypeOK, SchedTypeOK, PoolTypeOK
<1>0. PICK w \in Workers :
        \/ Join(w) \/ Read(w) \/ StartHandlers(w)
        \/ \E m \in held[w] : Begin(w, m) \/ Finish(w, m) \/ LosePost(w, m) \/ CancelTask(w, m)
        \/ Stop(w) \/ Leave(w) \/ Exit(w) \/ Crash(w) \/ Beat(w) \/ Lapse(w)
  BY DEF WorkerNext
<1>a. UNCHANGED poolVars => PoolTypeOK'
  BY DEF poolVars
<1>b. UNCHANGED schedVars => UNCHANGED <<tasks, answers, run, selected>>
  BY DEF schedVars
<1>c. UNCHANGED history => UNCHANGED <<ran, won, pruned, robbed, lost>>
  BY DEF history
<1>d. ASSUME NEW kind, Fault(kind) PROVE faults' \in 0 .. MaxFaults
  <2>1. faults \in 0 .. MaxFaults /\ MaxFaults \in Nat
    BY WorkerAssumption
  <2>2. faults' = faults + 1 /\ faults < MaxFaults
    BY <1>d DEF Fault
  <2>. QED  BY <2>1, <2>2
<1>e. ASSUME NEW m \in held[w], NEW status \in Answered, NEW spawns \in Seq(Nodes),
             Post(w, m, status, spawns)
      PROVE  /\ answers' \in [Runs -> Seq(Answer)]
             /\ held' \in [Workers -> SUBSET Message] /\ busy' \in [Workers -> SUBSET Message]
  <2>1. m \in Message
    OBVIOUS
  <2>2. [gen |-> m.gen, node |-> m.node, status |-> status, worker |-> w, spawns |-> spawns] \in Answer
    BY <2>1 DEF Message, Answer
  <2>3. m.run \in Runs /\ answers[m.run] \in Seq(Answer)
    BY <2>1 DEF Message
  <2>4. Append(answers[m.run], [gen |-> m.gen, node |-> m.node, status |-> status, worker |-> w,
                                spawns |-> spawns]) \in Seq(Answer)
    BY <2>2, <2>3, AppendProperties
  <2>. QED  BY <1>e, <2>3, <2>4 DEF Post
<1>1. CASE Join(w)
  BY <1>1, <1>b, <1>c DEF Join, Register
<1>2. CASE Read(w)
  <2>1. PICK m \in tasks : tasks' = tasks \ {m} /\ fresh' = [fresh EXCEPT ![w] = @ \union {m}]
    BY <1>2 DEF Read
  <2>2. m \in Message
    OBVIOUS
  <2>. QED  BY <1>2, <1>a, <1>c, <2>1, <2>2 DEF Read
<1>3. CASE StartHandlers(w)
  BY <1>3, <1>a, <1>b, <1>c DEF StartHandlers
<1>4. ASSUME NEW m \in held[w], Begin(w, m) PROVE TypeOK'
  BY <1>4, <1>a, <1>b DEF Begin
<1>5. ASSUME NEW m \in held[w], Finish(w, m) PROVE TypeOK'
  <2>1. PICK status \in {"success", "failed"}, spawns \in {<<>>, Offered[m.node]} :
          /\ Post(w, m, status, spawns)
          /\ won' = IF status = "success" THEN won \union {m} ELSE won
    BY <1>5 DEF Finish
  <2>2. status \in Answered /\ spawns \in Seq(Nodes)
    <3>1. m \in Message
      OBVIOUS
    <3>2. m.node \in Nodes
      BY <3>1 DEF Message
    <3>3. <<>> \in Seq(Nodes) /\ Offered[m.node] \in Seq(Nodes)
      BY <3>2, WorkerAssumption, EmptySeq
    <3>. QED  BY <3>3 DEF Answered
  <2>3. /\ answers' \in [Runs -> Seq(Answer)]
        /\ held' \in [Workers -> SUBSET Message] /\ busy' \in [Workers -> SUBSET Message]
    BY <1>e, <2>1, <2>2
  <2>. QED  BY <1>5, <1>a, <2>1, <2>3 DEF Finish
<1>6. ASSUME NEW m \in held[w], LosePost(w, m) PROVE TypeOK'
  BY <1>6, <1>a, <1>b, <1>c, <1>d DEF LosePost
<1>7. ASSUME NEW m \in held[w], CancelTask(w, m) PROVE TypeOK'
  <2>1. "cancelled" \in Answered /\ <<>> \in Seq(Nodes)
    BY EmptySeq DEF Answered
  <2>2. /\ answers' \in [Runs -> Seq(Answer)]
        /\ held' \in [Workers -> SUBSET Message] /\ busy' \in [Workers -> SUBSET Message]
    BY <1>7, <1>e, <2>1 DEF CancelTask
  <2>. QED  BY <1>7, <1>a, <1>c, <2>2 DEF CancelTask
<1>8. CASE Stop(w)
  BY <1>8, <1>a, <1>b, <1>c, <1>d DEF Stop
<1>9. CASE Leave(w)
  BY <1>9, <1>b, <1>c DEF Leave, Unregister
<1>10. CASE Exit(w)
  BY <1>10, <1>a, <1>b, <1>c DEF Exit
<1>11. CASE Crash(w)
  BY <1>11, <1>a, <1>b, <1>c, <1>d DEF Crash
<1>12. CASE Beat(w)
  BY <1>12, <1>b, <1>c DEF Beat, Heartbeat, workerVars
<1>13. CASE Lapse(w)
  BY <1>13, <1>b, <1>c, <1>d DEF Lapse, HeartbeatLapses, workerVars
<1>. QED
  BY <1>0, <1>1, <1>2, <1>3, <1>4, <1>5, <1>6, <1>7, <1>8, <1>9, <1>10, <1>11, <1>12, <1>13

\* A step that does nothing.
LEMMA StutterFacts ==
    ASSUME UNCHANGED vars
    PROVE  /\ UNCHANGED <<registered, beating, inflight, tasks, answers, run, selected>>
           /\ UNCHANGED <<mode, fresh, held, busy, faults, ran, won, pruned, robbed, lost>>
BY DEF vars, poolVars, schedVars, workerVars, history

\* The steps of the system.
LEMMA NextCases ==
    ASSUME [Next]_vars
    PROVE  \/ \E r \in Runs : /\ Submit(r) \/ SchedulerStep(r) \/ GiveUp(r)
                              /\ UNCHANGED <<mode, fresh, held, busy, faults, ran, won, pruned, lost>>
           \/ \E r \in Runs : /\ DetectFailures(r) /\ pruned' = pruned \union Dead
                              /\ UNCHANGED <<mode, fresh, held, busy, faults, ran, won, lost>>
           \/ WorkerNext
           \/ UNCHANGED vars
BY DEF Next, SchedulerNext, workerVars, history

-----------------------------------------------------------------------------
(* What the steps do to what the properties look at *)

\* The messages there are or were, and those that have not been answered.
Messages == tasks \union ran \union UNION {fresh[w] \union held[w] \union busy[w] : w \in Workers}
InTransit == tasks \union lost \union UNION {fresh[w] \union held[w] : w \in Workers}

Posted(m, e) ==
    /\ answers' = [answers EXCEPT ![m.run] = Append(@, e)]
    /\ e.node = m.node /\ e.gen = m.gen
    /\ e.status = "success" => m \in won'

\* Only a worker that joins becomes registered, and a worker joins once.
LEMMA WorkerMembership ==
    ASSUME TypeOK, WorkerNext
    PROVE  /\ \A v \in registered' : v \in registered \/ (mode[v] = "new" /\ mode'[v] # "new")
           /\ \A v \in Workers : mode[v] # "new" => mode'[v] # "new"
<1>0. PICK w \in Workers :
        \/ Join(w) \/ Read(w) \/ StartHandlers(w)
        \/ \E m \in held[w] : Begin(w, m) \/ Finish(w, m) \/ LosePost(w, m) \/ CancelTask(w, m)
        \/ Stop(w) \/ Leave(w) \/ Exit(w) \/ Crash(w) \/ Beat(w) \/ Lapse(w)
  BY DEF WorkerNext
<1>1. registered \subseteq Workers /\ mode \in [Workers -> {"new", "up", "stopping", "gone"}]
  BY DEF TypeOK, SchedTypeOK, PoolTypeOK
<1>2. CASE Join(w)
  BY <1>1, <1>2 DEF Join, Register
<1>3. CASE UNCHANGED <<registered, mode>>
  BY <1>1, <1>3
<1>4. CASE registered' \subseteq registered /\ \E x : mode' = [mode EXCEPT ![w] = x] /\ x # "new"
  BY <1>1, <1>4
<1>5. CASE Stop(w) \/ Leave(w) \/ Exit(w) \/ Crash(w)
  <2>1. CASE Stop(w) \/ Exit(w) \/ Crash(w)
    BY <2>1, <1>4 DEF Stop, Exit, Crash, poolVars
  <2>2. CASE Leave(w)
    BY <2>2, <1>4 DEF Leave, Unregister
  <2>. QED  BY <1>5, <2>1, <2>2
<1>6. CASE Read(w) \/ StartHandlers(w) \/ \E m \in held[w] : Begin(w, m) \/ Finish(w, m)
  BY <1>3, <1>6 DEF Read, StartHandlers, Begin, Finish, poolVars
<1>7. CASE \E m \in held[w] : LosePost(w, m) \/ CancelTask(w, m)
  BY <1>3, <1>7 DEF LosePost, CancelTask, poolVars
<1>8. CASE Beat(w) \/ Lapse(w)
  BY <1>3, <1>8 DEF Beat, Lapse, Heartbeat, HeartbeatLapses, workerVars
<1>. QED  BY <1>0, <1>2, <1>5, <1>6, <1>7, <1>8

\* A worker makes no messages and loses none, unless its answer is lost; it answers the
\* messages it holds, and says success of those alone that were executed.
LEMMA WorkerFacts ==
    ASSUME TypeOK, WorkerNext
    PROVE  /\ UNCHANGED <<run, pruned, inflight>>
           /\ Messages' \subseteq Messages
           /\ won \subseteq won'
           /\ \/ /\ UNCHANGED answers
                 /\ InTransit \subseteq InTransit'
              \/ \E m \in Messages, e \in Answer :
                    Posted(m, e) /\ InTransit \subseteq InTransit' \union {m}
<1>. USE DEF TypeOK, SchedTypeOK, PoolTypeOK
<1>0. PICK w \in Workers :
        \/ Join(w) \/ Read(w) \/ StartHandlers(w)
        \/ \E m \in held[w] : Begin(w, m) \/ Finish(w, m) \/ LosePost(w, m) \/ CancelTask(w, m)
        \/ Stop(w) \/ Leave(w) \/ Exit(w) \/ Crash(w) \/ Beat(w) \/ Lapse(w)
  BY DEF WorkerNext
<1>. DEFINE Goal ==
    /\ UNCHANGED <<run, pruned, inflight>>
    /\ Messages' \subseteq Messages
    /\ won \subseteq won'
    /\ \/ /\ UNCHANGED answers
          /\ InTransit \subseteq InTransit'
       \/ \E m \in Messages, e \in Answer :
             Posted(m, e) /\ InTransit \subseteq InTransit' \union {m}
<1>b. UNCHANGED schedVars => UNCHANGED <<tasks, answers, run, selected>>
  BY DEF schedVars
<1>c. UNCHANGED history => UNCHANGED <<ran, won, pruned, robbed, lost>>
  BY DEF history
<1>d. UNCHANGED poolVars => UNCHANGED <<registered, beating, inflight>>
  BY DEF poolVars
<1>e. ASSUME UNCHANGED <<tasks, ran, fresh, held, busy, lost>>
      PROVE  Messages' = Messages /\ InTransit' = InTransit
  BY <1>e DEF Messages, InTransit
<1>g. ASSUME NEW m, held' = [held EXCEPT ![w] = @ \ {m}], busy' = [busy EXCEPT ![w] = @ \ {m}],
             UNCHANGED <<tasks, ran, fresh>>, lost \subseteq lost'
      PROVE  Messages' \subseteq Messages /\ InTransit \subseteq InTransit' \union {m}
  <2>1. \A v \in Workers : /\ held'[v] \subseteq held[v] /\ held[v] \subseteq held'[v] \union {m}
                           /\ busy'[v] \subseteq busy[v] /\ fresh'[v] = fresh[v]
    BY <1>g
  <2>2. UNION {fresh'[v] \union held'[v] \union busy'[v] : v \in Workers}
          \subseteq UNION {fresh[v] \union held[v] \union busy[v] : v \in Workers}
    BY <2>1
  <2>3. UNION {fresh[v] \union held[v] : v \in Workers}
          \subseteq (UNION {fresh'[v] \union held'[v] : v \in Workers}) \union {m}
    BY <2>1
  <2>. QED  BY <1>g, <2>2, <2>3 DEF Messages, InTransit
<1>f. ASSUME NEW m \in held[w], NEW status \in Answered, NEW spawns \in Seq(Nodes),
             Post(w, m, status, spawns), status = "success" => m \in won',
             UNCHANGED <<tasks, ran, fresh, lost>>
      PROVE  /\ \E l \in Messages, e \in Answer :
                    Posted(l, e) /\ InTransit \subseteq InTransit' \union {l}
             /\ Messages' \subseteq Messages
  <2>. DEFINE e == [gen |-> m.gen, node |-> m.node, status |-> status, worker |-> w, spawns |-> spawns]
  <2>1. m \in Message /\ m \in Messages
    BY DEF Messages
  <2>2. e \in Answer
    BY <2>1 DEF Message, Answer
  <2>3. Posted(m, e)
    BY <1>f DEF Posted, Post
  <2>4. /\ held' = [held EXCEPT ![w] = @ \ {m}] /\ busy' = [busy EXCEPT ![w] = @ \ {m}]
    BY <1>f DEF Post
  <2>5. Messages' \subseteq Messages /\ InTransit \subseteq InTransit' \union {m}
    BY <1>f, <1>g, <2>4
  <2>. HIDE DEF e
  <2>. QED  BY <2>1, <2>2, <2>3, <2>5
<1>1. CASE Join(w)
  BY <1>1, <1>b, <1>c, <1>e DEF Join, Register
<1>2. CASE Read(w)
  <2>1. PICK m \in tasks : tasks' = tasks \ {m} /\ fresh' = [fresh EXCEPT ![w] = @ \union {m}]
    BY <1>2 DEF Read
  <2>2. UNCHANGED <<registered, inflight, answers, run, mode, held, busy, ran, won, pruned, lost>>
    BY <1>2, <1>c, <1>d DEF Read
  <2>3. \A v \in Workers : fresh[v] \subseteq fresh'[v] /\ fresh'[v] \subseteq fresh[v] \union {m}
    BY <2>1
  <2>4. Messages' \subseteq Messages
    BY <2>1, <2>2, <2>3 DEF Messages
  <2>5. InTransit \subseteq InTransit'
    <3>1. m \in fresh'[w]
      BY <2>1
    <3>. QED  BY <2>1, <2>2, <2>3, <3>1 DEF InTransit
  <2>. QED  BY <2>2, <2>4, <2>5
<1>3. CASE StartHandlers(w)
  <2>1. /\ held' = [held EXCEPT ![w] = @ \union fresh[w]] /\ fresh' = [fresh EXCEPT ![w] = {}]
        /\ UNCHANGED <<registered, inflight, tasks, answers, run, mode, busy, ran, won, pruned, lost>>
    BY <1>3, <1>b, <1>c, <1>d DEF StartHandlers
  <2>2. \A v \in Workers : fresh'[v] \union held'[v] = fresh[v] \union held[v]
    BY <2>1
  <2>3. Messages' \subseteq Messages /\ InTransit \subseteq InTransit'
    BY <2>1, <2>2 DEF Messages, InTransit
  <2>. QED  BY <2>1, <2>3
<1>4. ASSUME NEW m \in held[w], Begin(w, m) PROVE Goal
  <2>1. /\ busy' = [busy EXCEPT ![w] = @ \union {m}] /\ ran' = ran \union {m}
        /\ UNCHANGED <<registered, inflight, tasks, answers, run, mode, fresh, held, won, pruned, lost>>
    BY <1>4, <1>b, <1>d DEF Begin
  <2>2. Messages' \subseteq Messages /\ InTransit \subseteq InTransit'
    BY <2>1 DEF Messages, InTransit
  <2>. QED  BY <2>1, <2>2
<1>5. ASSUME NEW m \in held[w], Finish(w, m) PROVE Goal
  <2>1. PICK status \in {"success", "failed"}, spawns \in {<<>>, Offered[m.node]} :
          /\ Post(w, m, status, spawns)
          /\ won' = IF status = "success" THEN won \union {m} ELSE won
    BY <1>5 DEF Finish
  <2>2. UNCHANGED <<registered, inflight, tasks, run, mode, fresh, ran, pruned, lost>>
    BY <1>5, <1>d DEF Finish
  <2>3. status \in Answered /\ spawns \in Seq(Nodes)
    <3>1. m \in Message
      OBVIOUS
    <3>2. m.node \in Nodes
      BY <3>1 DEF Message
    <3>3. <<>> \in Seq(Nodes) /\ Offered[m.node] \in Seq(Nodes)
      BY <3>2, WorkerAssumption, EmptySeq
    <3>. QED  BY <3>3 DEF Answered
  <2>4. won \subseteq won' /\ (status = "success" => m \in won')
    BY <2>1
  <2>. QED  BY <1>f, <2>1, <2>2, <2>3, <2>4
<1>6. ASSUME NEW m \in held[w], LosePost(w, m) PROVE Goal
  <2>1. /\ held' = [held EXCEPT ![w] = @ \ {m}] /\ busy' = [busy EXCEPT ![w] = @ \ {m}]
        /\ UNCHANGED <<registered, inflight, tasks, answers, run, mode, fresh, ran, won, pruned>>
        /\ lost' = lost \union {m}
    BY <1>6, <1>b, <1>d DEF LosePost
  <2>2. Messages' \subseteq Messages /\ InTransit \subseteq InTransit' \union {m}
    BY <1>g, <2>1
  <2>3. m \in InTransit'
    BY <2>1 DEF InTransit
  <2>. QED  BY <2>1, <2>2, <2>3
<1>7. ASSUME NEW m \in held[w], CancelTask(w, m) PROVE Goal
  <2>1. "cancelled" \in Answered /\ <<>> \in Seq(Nodes)
    BY EmptySeq DEF Answered
  <2>2. UNCHANGED <<registered, inflight, tasks, run, mode, fresh, ran, won, pruned, lost>>
    BY <1>7, <1>c, <1>d DEF CancelTask
  <2>3. Post(w, m, "cancelled", <<>>)
    BY <1>7 DEF CancelTask
  <2>. QED  BY <1>f, <2>1, <2>2, <2>3
<1>8. CASE Stop(w)
  BY <1>8, <1>b, <1>c, <1>d, <1>e DEF Stop
<1>9. CASE Leave(w)
  BY <1>9, <1>b, <1>c, <1>e DEF Leave, Unregister
<1>10. CASE Exit(w)
  BY <1>10, <1>b, <1>c, <1>d, <1>e DEF Exit
<1>11. CASE Crash(w)
  BY <1>11, <1>b, <1>c, <1>d, <1>e DEF Crash, Alive
<1>12. CASE Beat(w)
  BY <1>12, <1>b, <1>c, <1>e DEF Beat, Heartbeat, workerVars
<1>13. CASE Lapse(w)
  BY <1>13, <1>b, <1>c, <1>e DEF Lapse, HeartbeatLapses, workerVars
<1>. QED
  BY <1>0, <1>1, <1>2, <1>3, <1>4, <1>5, <1>6, <1>7, <1>8, <1>9, <1>10, <1>11, <1>12, <1>13

\* A step of run r leaves the locals and the results stream of the others alone, and
\* keeps its own place in its own stream.
LEMMA OwnRun ==
    ASSUME TypeOK, NEW r \in Runs, Submit(r) \/ SchedulerStep(r) \/ GiveUp(r) \/ DetectFailures(r)
    PROVE  /\ \A q \in Runs \ {r} : run'[q] = run[q] /\ answers'[q] = answers[q]
           /\ \/ answers'[r] = answers[r] /\ run'[r].cursor \in {run[r].cursor, 0, Len(answers[r])}
              \/ answers'[r] = <<>> /\ run'[r].cursor = 0
<1>0. run[r] \in Run /\ run \in [Runs -> Run] /\ answers \in [Runs -> Seq(Answer)]
  BY DEF TypeOK, SchedTypeOK
<1>a. ASSUME NEW how, NEW final, End(r, how, final)
      PROVE  /\ \A q \in Runs \ {r} : run'[q] = run[q] /\ answers'[q] = answers[q]
             /\ answers'[r] = <<>> /\ run'[r].cursor = 0
  BY <1>0, <1>a DEF End, Run
<1>1. CASE Submit(r)
  BY <1>0, <1>1 DEF Submit, Run
<1>2. CASE DropStale(r)
  BY <1>0, <1>2 DEF DropStale, Run
<1>3. ASSUME NEW n \in Nodes, Reschedule(r, n)
      PROVE  /\ \A q \in Runs \ {r} : run'[q] = run[q] /\ answers'[q] = answers[q]
             /\ answers'[r] = answers[r] /\ run'[r].cursor = run[r].cursor
  BY <1>0, <1>3, ZenonT(60) DEF Reschedule, Run
<1>4. CASE ReadResults(r)
  BY <1>0, <1>4 DEF ReadResults, Run
<1>5. CASE OpenSpawns(r)
  BY <1>0, <1>5 DEF OpenSpawns, Run
<1>6. CASE MergeSpawn(r)
  BY <1>0, <1>6 DEF MergeSpawn, Run
<1>7. CASE NextLayer(r)
  BY <1>0, <1>7 DEF NextLayer, Run
<1>8. CASE Complete(r) \/ Abort(r) \/ GiveUp(r)
  BY <1>a, <1>8 DEF Complete, Abort, GiveUp
<1>9. CASE DetectFailures(r)
  BY <1>0, <1>9 DEF DetectFailures, Run
<1>. QED
  BY <1>1, <1>2, <1>3, <1>4, <1>5, <1>6, <1>7, <1>8, <1>9 DEF SchedulerStep

\* A stream that a worker posts to grows at its end.
LEMMA StreamsGrow ==
    ASSUME TypeOK, WorkerNext, NEW r \in Runs
    PROVE  /\ Len(answers[r]) <= Len(answers'[r])
           /\ \A i \in 1 .. Len(answers[r]) : answers'[r][i] = answers[r][i]
<1>1. CASE UNCHANGED answers
  BY <1>1, AnswerFields
<1>2. ASSUME NEW m \in Messages, NEW e \in Answer, Posted(m, e)
      PROVE  /\ Len(answers[r]) <= Len(answers'[r])
             /\ \A i \in 1 .. Len(answers[r]) : answers'[r][i] = answers[r][i]
  <2>1. answers[r] \in Seq(Answer) /\ answers \in [Runs -> Seq(Answer)]
    BY DEF TypeOK, SchedTypeOK
  <2>2. answers'[r] = answers[r] \/ answers'[r] = Append(answers[r], e)
    BY <1>2, <2>1 DEF Posted
  <2>. QED  BY <2>1, <2>2, AppendProperties, LenProperties
<1>. QED  BY <1>1, <1>2, WorkerFacts

LEMMA CursorStep ==
    ASSUME TypeOK, ReadSoFar, [Next]_vars
    PROVE  ReadSoFar'
<1>. SUFFICES ASSUME NEW q \in Runs PROVE run'[q].cursor <= Len(answers'[q])
  BY DEF ReadSoFar
<1>0. /\ run[q].cursor \in Nat /\ Len(answers[q]) \in Nat /\ run[q].cursor <= Len(answers[q])
      /\ Len(<<>>) = 0
  BY RunFields, AnswerFields DEF ReadSoFar
<1>1. ASSUME NEW r \in Runs, Submit(r) \/ SchedulerStep(r) \/ GiveUp(r) \/ DetectFailures(r)
      PROVE  run'[q].cursor <= Len(answers'[q])
  <2>1. CASE q # r
    BY <1>0, <1>1, <2>1, OwnRun
  <2>2. CASE q = r
    <3>1. \/ answers'[q] = answers[q] /\ run'[q].cursor \in {run[q].cursor, 0, Len(answers[q])}
          \/ answers'[q] = <<>> /\ run'[q].cursor = 0
      BY <1>1, <2>2, OwnRun
    <3>. QED  BY <1>0, <3>1
  <2>. QED  BY <2>1, <2>2
<1>2. CASE WorkerNext
  <2>1. UNCHANGED run /\ Len(answers[q]) <= Len(answers'[q])
    BY <1>2, WorkerFacts, StreamsGrow
  <2>2. Len(answers'[q]) \in Nat
    BY <1>2, WorkerTypesStep DEF TypeOK, SchedTypeOK
  <2>. QED  BY <1>0, <2>1, <2>2
<1>3. CASE UNCHANGED vars
  BY <1>0, <1>3, StutterFacts
<1>. QED  BY <1>1, <1>2, <1>3, NextCases

LEMMA RobbedType ==
    ASSUME TypeOK, [Next]_vars
    PROVE  robbed' \subseteq Runs \X Nodes
<1>1. robbed \subseteq Runs \X Nodes
  BY DEF TypeOK
<1>2. ASSUME NEW r \in Runs, Robs(r) PROVE robbed' \subseteq Runs \X Nodes
  BY <1>1, <1>2 DEF Robs
<1>3. CASE WorkerNext
  BY <1>3, WorkerTypesStep DEF TypeOK
<1>4. CASE UNCHANGED vars
  BY <1>1, <1>4, StutterFacts
<1>. QED  BY <1>2, <1>3, <1>4 DEF Next, SchedulerNext

LEMMA TypeStep ==
    ASSUME TypeOK, ReadSoFar, [Next]_vars
    PROVE  TypeOK'
<1>1. ASSUME NEW r \in Runs, Submit(r) \/ SchedulerStep(r) \/ GiveUp(r),
             UNCHANGED <<mode, fresh, held, busy, faults, ran, won, pruned, lost>>
      PROVE  TypeOK'
  <2>1. SchedTypeOK'
    BY <1>1, SchedulerTypes
  <2>2. WorkerTypes'
    BY <1>1, TypeParts, RobbedType DEF WorkerTypes
  <2>. QED  BY <2>1, <2>2 DEF TypeOK, WorkerTypes
<1>2. ASSUME NEW r \in Runs, DetectFailures(r), pruned' = pruned \union Dead,
             UNCHANGED <<mode, fresh, held, busy, faults, ran, won, lost>>
      PROVE  TypeOK'
  <2>1. SchedTypeOK'
    BY <1>2, SchedulerTypes
  <2>2. Dead \subseteq Workers
    BY DEF Dead, TypeOK, SchedTypeOK, PoolTypeOK
  <2>3. WorkerTypes'
    BY <1>2, <2>2, TypeParts, RobbedType DEF WorkerTypes
  <2>. QED  BY <2>1, <2>3 DEF TypeOK, WorkerTypes
<1>3. CASE UNCHANGED vars
  BY <1>3, StutterFacts DEF TypeOK, SchedTypeOK, PoolTypeOK
<1>. QED  BY <1>1, <1>2, <1>3, NextCases, WorkerTypesStep

TypeInv == TypeOK /\ ReadSoFar

LEMMA TypeInvariant == Spec => []TypeInv
<1>1. Init => TypeInv
  <2>1. ASSUME Init PROVE ReadSoFar
    BY <2>1 DEF Init, SchedInit, ReadSoFar
  <2>. QED  BY <2>1, TypeInit DEF TypeInv
<1>2. TypeInv /\ [Next]_vars => TypeInv'
  BY TypeStep, CursorStep DEF TypeInv
<1>. QED  BY <1>1, <1>2, PTL DEF Spec

\* Every value the scheduler and the workers keep, and every message and result in
\* Redis, has its type in every reachable state; the collect loop and the spawn merge
\* never index a results stream past its end.
THEOREM TypeCorrect == Spec => []TypeOK
BY TypeInvariant, PTL DEF TypeInv

-----------------------------------------------------------------------------
(* The graph of a run: where each of its nodes is *)

\* The nodes of R, the locals of a run, that are settled, that are static and not, and
\* the layers still to come.
Done(R) == {n \in Nodes : R.out[n] \notin {"absent", "pending"}}
Waiting(R) == {n \in Static : R.out[n] = "pending"}
Later(R) == {R.extra[i] : i \in DOMAIN R.extra} \union {R.added}
Cleared(R, n) == \A d \in Deps[n] \intersect Static : R.out[d] \in {"success", "cancelled"}
Current(R) == R.phase \in {"collect", "layer"}

Outcomes(R) ==
    /\ Static \subseteq R.known
    /\ \A n \in Static : R.out[n] # "absent"
    /\ \A n \in Nodes : /\ R.out[n] # "skipped"
                        /\ R.out[n] # "absent" => n \in R.known
                        /\ R.out[n] = "pending" => n \in Static

\* The layers of S come later: they share no node, and none of their nodes has started.
Ahead(S, R) ==
    /\ \A i \in DOMAIN S :
        /\ S[i] # {} /\ S[i] \subseteq R.known
        /\ \A n \in S[i] : R.out[n] = "absent" /\ n \notin R.pending
    /\ \A i, j \in DOMAIN S : i # j => S[i] \intersect S[j] = {}

Layers(R) ==
    /\ Ahead(R.extra, R)
    /\ R.added \subseteq R.known
    /\ \A n \in R.added : R.out[n] = "absent" /\ n \notin R.pending
    /\ \A i \in DOMAIN R.extra : R.extra[i] \intersect R.added = {}
    /\ \A n \in R.known :
        \/ n \in Done(R) \union Waiting(R) \union R.pending \union R.added
        \/ \E i \in DOMAIN R.extra : n \in R.extra[i]

PendingOK(R) ==
    /\ R.pending \subseteq R.known \ Done(R)
    /\ R.phase = "layer" => R.pending = {}
    /\ R.phase = "collect" => R.added = {}
    /\ \A n \in R.pending : Cleared(R, n)

RunOK(R) ==
    /\ Current(R) => Outcomes(R) /\ Layers(R) /\ PendingOK(R)
    /\ ~ Current(R) => R.pending = {} /\ R.added = {} /\ R.extra = <<>>
    /\ R.phase = "over" => R.known \subseteq Done(R)

\* Nothing but the fields below matters to RunOK.
LEMMA SameGraph ==
    ASSUME NEW R, NEW Q, RunOK(R), Q.phase = R.phase, Q.out = R.out, Q.known = R.known,
           Q.pending = R.pending, Q.added = R.added, Q.extra = R.extra
    PROVE  RunOK(Q)
<1>1. /\ Done(Q) = Done(R) /\ Waiting(Q) = Waiting(R) /\ Current(Q) = Current(R)
      /\ \A n : Cleared(Q, n) = Cleared(R, n)
  BY DEF Done, Waiting, Current, Cleared
<1>2. Outcomes(R) => Outcomes(Q)
  BY DEF Outcomes
<1>3. Layers(R) => Layers(Q)
  BY <1>1 DEF Layers, Ahead
<1>4. PendingOK(R) => PendingOK(Q)
  BY <1>1 DEF PendingOK
<1>. QED  BY <1>1, <1>2, <1>3, <1>4 DEF RunOK

\* Pending nodes get results.
LEMMA NodesSettle ==
    ASSUME NEW R \in Run, NEW Q \in Run, RunOK(R), R.phase = "collect",
           NEW T \in SUBSET R.pending,
           Q.known = R.known, Q.pending = R.pending \ T, Q.added = R.added, Q.extra = R.extra,
           \A n \in Nodes \ T : Q.out[n] = R.out[n],
           \A n \in T : Q.out[n] \in Answered,
           Q.phase = "collect" \/ (Q.phase = "layer" /\ Q.pending = {})
    PROVE  RunOK(Q)
<1>1. Outcomes(R) /\ Layers(R) /\ PendingOK(R)
  BY DEF RunOK, Current
<1>2. T \subseteq R.known /\ R.pending \subseteq Nodes /\ Static \subseteq Nodes
  BY <1>1, GraphAssumption DEF PendingOK, Run
<1>3. Outcomes(Q)
  BY <1>1, <1>2 DEF Outcomes, Answered
<1>4. Done(Q) = Done(R) \union T /\ Waiting(R) \subseteq Waiting(Q) \union T
  BY <1>2 DEF Done, Waiting, Answered
<1>5. Layers(Q)
  <2>0. R.known \subseteq Nodes
    BY DEF Run
  <2>1. Ahead(Q.extra, Q)
    BY <1>1, <1>2, <2>0 DEF Ahead, Layers
  <2>2. \A n \in Q.known :
          \/ n \in Done(Q) \union Waiting(Q) \union Q.pending \union Q.added
          \/ \E i \in DOMAIN Q.extra : n \in Q.extra[i]
    BY <1>1, <1>4 DEF Layers
  <2>3. /\ Q.added \subseteq Q.known
        /\ \A n \in Q.added : Q.out[n] = "absent" /\ n \notin Q.pending
        /\ \A i \in DOMAIN Q.extra : Q.extra[i] \intersect Q.added = {}
    BY <1>1, <2>0 DEF Layers
  <2>. QED  BY <2>1, <2>2, <2>3 DEF Layers
<1>6. PendingOK(Q)
  <2>1. \A d \in Static : R.out[d] \in {"success", "cancelled"} => Q.out[d] = R.out[d]
    BY <1>1, <1>2 DEF PendingOK, Done
  <2>2. \A n \in Q.pending : Cleared(Q, n)
    BY <1>1, <2>1 DEF PendingOK, Cleared
  <2>3. Q.pending \subseteq Q.known \ Done(Q)
    BY <1>1, <1>4 DEF PendingOK
  <2>4. Q.phase = "collect" => Q.added = {}
    BY <1>1 DEF PendingOK
  <2>. QED  BY <2>2, <2>3, <2>4 DEF PendingOK
<1>. QED  BY <1>3, <1>5, <1>6 DEF RunOK, Current

\* When no static node is ready, all are settled: the graph has no cycle.
LEMMA StaticDone ==
    ASSUME TypeOK, NEW r \in Runs, \A n \in Static : run[r].out[n] # "absent", StaticReady(r) = {}
    PROVE  Static \subseteq Settled(r)
<1>. DEFINE S == {n \in Static : run[r].out[n] = "pending"}
<1>1. Static \subseteq Nodes /\ \A n \in Static : Deps[n] \subseteq Static
  BY GraphAssumption, AcyclicAssumption
<1>2. ASSUME S # {} PROVE FALSE
  <2>1. PICK n \in S : Deps[n] \intersect S = {}
    BY <1>2, AcyclicAssumption
  <2>2. Deps[n] \subseteq Settled(r)
    BY <1>1, <2>1 DEF Settled
  <2>. QED  BY <2>1, <2>2 DEF StaticReady
<1>. QED  BY <1>1, <1>2 DEF Settled

\* The layers that spawns added come later.
LEMMA AppendedAhead ==
    ASSUME TypeOK, NEW r \in Runs, Layers(run[r])
    PROVE  /\ Ahead(Appended(r), run[r])
           /\ \A i \in DOMAIN run[r].extra :
                i \in DOMAIN Appended(r) /\ Appended(r)[i] = run[r].extra[i]
           /\ run[r].added # {} => \E i \in DOMAIN Appended(r) : Appended(r)[i] = run[r].added
<1>0. run[r].extra \in Seq(SUBSET Nodes) /\ run[r].added \in SUBSET Nodes
  BY RunFields
<1>1. CASE run[r].added = {}
  BY <1>1 DEF Layers, Appended
<1>2. CASE run[r].added # {}
  <2>. DEFINE E == run[r].extra
              A == Append(E, run[r].added)
  <2>1. /\ Len(E) \in Nat /\ DOMAIN E = 1 .. Len(E) /\ DOMAIN A = 1 .. (Len(E) + 1)
        /\ \A i \in 1 .. Len(E) : A[i] = E[i]
        /\ A[Len(E) + 1] = run[r].added
    BY <1>0, AppendProperties, LenProperties
  <2>2. \A i \in DOMAIN A : i \in DOMAIN E \/ i = Len(E) + 1
    BY <2>1
  <2>3. Ahead(E, run[r])
    BY DEF Layers
  <2>. HIDE DEF A, E
  <2>4. \A i \in DOMAIN A :
          /\ A[i] # {} /\ A[i] \subseteq run[r].known
          /\ \A n \in A[i] : run[r].out[n] = "absent" /\ n \notin run[r].pending
    <3>. SUFFICES ASSUME NEW i \in DOMAIN A
                  PROVE  /\ A[i] # {} /\ A[i] \subseteq run[r].known
                         /\ \A n \in A[i] : run[r].out[n] = "absent" /\ n \notin run[r].pending
      OBVIOUS
    <3>1. CASE i \in DOMAIN E
      BY <2>1, <2>3, <3>1 DEF Ahead
    <3>2. CASE i = Len(E) + 1
      BY <1>2, <2>1, <3>2 DEF Layers
    <3>. QED  BY <2>2, <3>1, <3>2
  <2>5. \A i, j \in DOMAIN A : i # j => A[i] \intersect A[j] = {}
    <3>1. \A i \in DOMAIN E : E[i] \intersect run[r].added = {}
      BY DEF Layers, E
    <3>. QED  BY <2>1, <2>2, <2>3, <3>1 DEF Ahead
  <2>6. Appended(r) = A
    BY <1>2 DEF Appended, A, E
  <2>. QED  BY <2>1, <2>4, <2>5, <2>6 DEF Ahead, E
<1>. QED  BY <1>1, <1>2

\* The layer that is dispatched next: nodes that wait for nothing that is not there.
LEMMA NextNodesCleared ==
    ASSUME TypeOK, NEW r \in Runs, RunOK(run[r]), run[r].phase = "layer", Failed(r) = {}
    PROVE  /\ NextNodes(r) \subseteq run[r].known \ Settled(r)
           /\ \A n \in NextNodes(r) : Cleared(run[r], n)
           /\ NextNodes(r) = {} => run[r].known \subseteq Settled(r)
<1>. DEFINE R == run[r]
<1>0. R \in Run /\ Outcomes(R) /\ Layers(R) /\ PendingOK(R)
  BY RunFields DEF RunOK, Current
<1>1. /\ R.out \in [Nodes -> Outcome] /\ Static \subseteq Nodes
      /\ \A n \in Static : Deps[n] \subseteq Static
  BY RunFields, GraphAssumption, AcyclicAssumption
<1>2. \A n \in Settled(r) : R.out[n] \in {"success", "cancelled"}
  BY <1>0, <1>1 DEF Settled, Failed, Outcomes, Outcome, Answered
<1>3. CASE StaticReady(r) # {}
  <2>1. StaticReady(r) \subseteq R.known \ Settled(r)
    BY <1>0, <1>1 DEF StaticReady, Outcomes, Settled
  <2>2. \A n \in StaticReady(r) : Cleared(R, n)
    BY <1>2 DEF StaticReady, Cleared
  <2>. QED  BY <1>3, <2>1, <2>2 DEF NextNodes
<1>4. CASE StaticReady(r) = {}
  <2>1. Static \subseteq Settled(r)
    BY <1>0, <1>4, StaticDone DEF Outcomes
  <2>2. \A n : Cleared(R, n)
    BY <1>2, <2>1 DEF Cleared
  <2>3. /\ Ahead(Appended(r), R)
        /\ \A i \in DOMAIN R.extra : i \in DOMAIN Appended(r)
        /\ R.added # {} => \E i \in DOMAIN Appended(r) : TRUE
    BY <1>0, AppendedAhead
  <2>4. CASE Appended(r) # <<>>
    <3>1. Head(Appended(r)) = Appended(r)[1] /\ 1 \in DOMAIN Appended(r)
      BY <2>4, LayerFacts, HeadTailProperties, LenProperties, EmptySeq
    <3>2. /\ Appended(r)[1] # {} /\ Appended(r)[1] \subseteq R.known
          /\ \A n \in Appended(r)[1] : R.out[n] = "absent"
      BY <2>3, <3>1 DEF Ahead
    <3>. QED  BY <1>4, <2>2, <2>4, <3>1, <3>2 DEF NextNodes, Settled
  <2>5. CASE Appended(r) = <<>>
    <3>1. DOMAIN R.extra = {} /\ R.added = {}
      BY <2>3, <2>5
    <3>2. R.known \subseteq Done(R)
      BY <1>0, <1>1, <2>1, <3>1 DEF Layers, PendingOK, Waiting, Settled
    <3>3. NextNodes(r) = {}
      BY <1>4, <2>5 DEF NextNodes
    <3>. QED  BY <3>2, <3>3 DEF Done, Settled
  <2>. QED  BY <2>4, <2>5
<1>. QED  BY <1>3, <1>4

LEMMA GraphNextLayer ==
    ASSUME TypeOK, TypeOK', NEW r \in Runs, RunOK(run[r]), NextLayer(r)
    PROVE  RunOK(run'[r])
<1>. DEFINE R == run[r]
            Q == run'[r]
            A == Appended(r)
<1>0. R \in Run /\ Q \in Run /\ run \in [Runs -> Run]
  BY DEF TypeOK, SchedTypeOK
<1>1. /\ Q.phase = "collect" /\ Q.pending = NextNodes(r) /\ Q.added = {}
      /\ Q.out = R.out /\ Q.known = R.known
      /\ Q.extra = IF StaticReady(r) # {} THEN A ELSE Tail(A)
  BY <1>0, ZenonT(30) DEF NextLayer, Run
<1>2. R.phase = "layer" /\ Failed(r) = {} /\ NextNodes(r) # {}
  BY DEF NextLayer
<1>3. Outcomes(R) /\ Layers(R) /\ PendingOK(R)
  BY <1>2 DEF RunOK, Current
<1>4. Outcomes(Q)
  BY <1>1, <1>3 DEF Outcomes
<1>5. Done(Q) = Done(R) /\ Waiting(Q) = Waiting(R) /\ Settled(r) = Done(R)
  BY <1>1 DEF Done, Waiting, Settled
<1>6. PendingOK(Q)
  <2>1. \A n : Cleared(Q, n) = Cleared(R, n)
    BY <1>1 DEF Cleared
  <2>. QED  BY <1>1, <1>2, <1>5, <2>1, NextNodesCleared DEF PendingOK
<1>a. /\ A \in Seq(SUBSET Nodes) /\ Len(A) \in Nat /\ DOMAIN A = 1 .. Len(A)
      /\ \A i \in DOMAIN A : A[i] \subseteq Nodes
  BY LayerFacts, LenProperties, ElementOfSeq
<1>b. Ahead(A, R)
  BY <1>3, AppendedAhead
<1>c. R.pending = {}
  BY <1>2, <1>3 DEF PendingOK
<1>d. \A n \in R.known :
        \/ n \in Done(R) \union Waiting(R)
        \/ \E i \in DOMAIN A : n \in A[i]
  <2>1. /\ \A i \in DOMAIN R.extra : i \in DOMAIN A /\ A[i] = R.extra[i]
        /\ R.added # {} => \E i \in DOMAIN A : A[i] = R.added
    BY <1>3, AppendedAhead
  <2>. HIDE DEF A
  <2>. QED  BY <1>3, <1>c, <2>1 DEF Layers
<1>e. \A n \in StaticReady(r) : R.out[n] = "pending"
  BY DEF StaticReady
<1>f. StaticReady(r) = {} => A # <<>> /\ Q.pending = Head(A)
  BY <1>1, <1>2 DEF NextNodes
<1>g. StaticReady(r) # {} => Q.pending = StaticReady(r)
  BY <1>1 DEF NextNodes
<1>. HIDE DEF A, Q, R
<1>7. CASE StaticReady(r) # {}
  <2>1. Q.extra = A /\ Q.pending = StaticReady(r)
    BY <1>1, <1>7, <1>g
  <2>2. \A n \in Q.pending : Q.out[n] = "pending"
    BY <1>1, <1>e, <2>1
  <2>3. Ahead(Q.extra, Q)
    <3>1. ASSUME NEW i \in DOMAIN A, NEW n \in A[i]
          PROVE  Q.out[n] = "absent" /\ n \notin Q.pending
      <4>1. R.out[n] = "absent"
        BY <1>b DEF Ahead
      <4>. QED  BY <1>1, <2>2, <4>1
    <3>2. \A i \in DOMAIN A : A[i] # {} /\ A[i] \subseteq Q.known
      BY <1>1, <1>b DEF Ahead
    <3>3. \A i, j \in DOMAIN A : i # j => A[i] \intersect A[j] = {}
      BY <1>b DEF Ahead
    <3>. QED  BY <2>1, <3>1, <3>2, <3>3 DEF Ahead
  <2>4. Layers(Q)
    BY <1>1, <1>5, <1>d, <2>1, <2>3 DEF Layers
  <2>. QED  BY <1>1, <1>4, <1>6, <2>4 DEF RunOK, Current, Q
<1>8. CASE StaticReady(r) = {}
  <2>1. A # <<>> /\ Q.extra = Tail(A) /\ Q.pending = Head(A)
    BY <1>1, <1>8, <1>f
  <2>2. /\ Head(A) = A[1] /\ 1 \in DOMAIN A /\ Len(Tail(A)) = Len(A) - 1 /\ Tail(A) \in Seq(SUBSET Nodes)
        /\ \A i \in 1 .. Len(Tail(A)) : Tail(A)[i] = A[i + 1]
    BY <1>a, <2>1, HeadTailProperties, LenProperties, EmptySeq
  <2>3. /\ DOMAIN Q.extra = 1 .. (Len(A) - 1)
        /\ \A i \in DOMAIN Q.extra : Q.extra[i] = A[i + 1] /\ i + 1 \in DOMAIN A /\ i + 1 # 1
    BY <1>a, <2>1, <2>2, LenProperties
  <2>4. \A i \in DOMAIN A : i = 1 \/ (i - 1 \in DOMAIN Q.extra /\ A[i] = Q.extra[i - 1])
    BY <1>a, <2>3
  <2>5. Ahead(Q.extra, Q)
    <3>1. ASSUME NEW i \in DOMAIN Q.extra
          PROVE  /\ Q.extra[i] # {} /\ Q.extra[i] \subseteq Q.known
                 /\ \A n \in Q.extra[i] : Q.out[n] = "absent" /\ n \notin Q.pending
      <4>1. Q.extra[i] = A[i + 1] /\ i + 1 \in DOMAIN A /\ A[i + 1] \intersect A[1] = {}
        BY <1>b, <2>2, <2>3 DEF Ahead
      <4>. QED  BY <1>1, <1>b, <2>1, <2>2, <4>1 DEF Ahead
    <3>2. ASSUME NEW i \in DOMAIN Q.extra, NEW j \in DOMAIN Q.extra, i # j
          PROVE  Q.extra[i] \intersect Q.extra[j] = {}
      <4>1. i + 1 # j + 1
        BY <1>a, <2>3, <3>2
      <4>. QED  BY <1>b, <2>3, <4>1 DEF Ahead
    <3>. QED  BY <3>1, <3>2 DEF Ahead
  <2>6. \A n \in Q.known :
          \/ n \in Done(Q) \union Waiting(Q) \union Q.pending
          \/ \E i \in DOMAIN Q.extra : n \in Q.extra[i]
    <3>1. ASSUME NEW n \in Q.known, NEW i \in DOMAIN A, n \in A[i]
          PROVE  n \in Q.pending \/ \E j \in DOMAIN Q.extra : n \in Q.extra[j]
      BY <2>1, <2>2, <2>4, <3>1
    <3>. QED  BY <1>1, <1>5, <1>d, <3>1
  <2>7. Layers(Q)
    BY <1>1, <2>5, <2>6 DEF Layers
  <2>. QED  BY <1>1, <1>4, <1>6, <2>7 DEF RunOK, Current, Q
<1>. QED  BY <1>7, <1>8

LEMMA GraphMerge ==
    ASSUME TypeOK, TypeOK', NEW r \in Runs, RunOK(run[r]), MergeSpawn(r)
    PROVE  RunOK(run'[r])
<1>. DEFINE R == run[r]
            Q == run'[r]
            s == Head(R.todo)
            taken == s \notin R.known /\ Deps[s] \subseteq R.known
            new == IF taken THEN {s} ELSE {}
<1>0. R \in Run /\ Q \in Run /\ run \in [Runs -> Run]
  BY DEF TypeOK, SchedTypeOK
<1>1. /\ Q.phase = "layer" /\ R.phase = "layer" /\ Q.pending = R.pending /\ Q.out = R.out
      /\ Q.extra = R.extra /\ Q.known = R.known \union new /\ Q.added = R.added \union new
  BY <1>0, ZenonT(30) DEF MergeSpawn, Run
<1>2. Outcomes(R) /\ Layers(R) /\ PendingOK(R)
  BY <1>1 DEF RunOK, Current
<1>3. R.pending = {} /\ R.known \subseteq Nodes /\ Q.known \subseteq Nodes
  BY <1>0, <1>1, <1>2 DEF PendingOK, Run
<1>4. \A n \in new : n \notin R.known /\ n \in Nodes
  BY <1>1, <1>3
<1>. HIDE DEF s, taken, new, Q
<1>5. \A n \in new : R.out[n] = "absent"
  BY <1>2, <1>4 DEF Outcomes
<1>6. Outcomes(Q)
  BY <1>1, <1>2 DEF Outcomes
<1>7. PendingOK(Q)
  BY <1>1, <1>3 DEF PendingOK
<1>8. Done(Q) = Done(R) /\ Waiting(Q) = Waiting(R)
  BY <1>1 DEF Done, Waiting
<1>9. Layers(Q)
  <2>1. Ahead(Q.extra, Q)
    BY <1>1, <1>2 DEF Ahead, Layers
  <2>2. \A n \in Q.added : Q.out[n] = "absent" /\ n \notin Q.pending
    BY <1>1, <1>2, <1>3, <1>5 DEF Layers
  <2>3. \A i \in DOMAIN Q.extra : Q.extra[i] \intersect Q.added = {}
    <3>1. \A i \in DOMAIN R.extra : R.extra[i] \subseteq R.known
      BY <1>2 DEF Layers, Ahead
    <3>. QED  BY <1>1, <1>2, <1>4, <3>1 DEF Layers
  <2>. QED  BY <1>1, <1>2, <1>8, <2>1, <2>2, <2>3 DEF Layers
<1>. QED  BY <1>1, <1>6, <1>7, <1>9 DEF RunOK, Current, Q

\* What a step of an active run does: it goes on in the same submission, its graph grows,
\* and a result is set once, for a node that was pending, or for the nodes that are
\* skipped when the run ends.  What it dispatches waits for nothing.
StepEffect(r) ==
    /\ Current(run[r])
    /\ run'[r].gen = run[r].gen
    /\ run[r].known \subseteq run'[r].known
    /\ \A n \in Nodes :
        \/ run'[r].out[n] = run[r].out[n]
        \/ n \in run[r].pending /\ run'[r].out[n] \in Answered
        \/ /\ run[r].out[n] = "pending" /\ run'[r].out[n] = "skipped"
           /\ ~ Current(run'[r])
    /\ \A m \in tasks' \ tasks :
        /\ m.run = r /\ m.gen = run[r].gen
        /\ Cleared(run[r], m.node) /\ run'[r].out = run[r].out
    /\ run'[r].phase # "idle"

LEMMA EndEffect ==
    ASSUME TypeOK, TypeOK', NEW r \in Runs, RunOK(run[r]), Complete(r) \/ Abort(r) \/ GiveUp(r)
    PROVE  RunOK(run'[r]) /\ StepEffect(r)
<1>. DEFINE R == run[r]
            Q == run'[r]
<1>0. R \in Run /\ Q \in Run /\ run \in [Runs -> Run] /\ R.out \in [Nodes -> Outcome]
      /\ R.known \subseteq Nodes
  BY RunFields DEF TypeOK, SchedTypeOK
<1>1. Current(R)
  BY DEF Complete, Abort, GiveUp, Current
<1>2. Outcomes(R) /\ Layers(R) /\ PendingOK(R)
  BY <1>1 DEF RunOK
<1>a. ASSUME NEW how \in {"over", "raised"}, NEW final, End(r, how, final)
      PROVE  /\ Q.phase = how /\ Q.out = final /\ Q.pending = {} /\ Q.added = {} /\ Q.extra = <<>>
             /\ Q.gen = R.gen /\ Q.known = R.known /\ tasks' = tasks
  BY <1>0, <1>a, ZenonT(30) DEF End, Run
<1>b. ASSUME NEW how \in {"over", "raised"}, NEW final \in [Nodes -> Outcome], End(r, how, final),
             how = "over" => \A n \in R.known : final[n] \notin {"absent", "pending"},
             \A n \in Nodes : \/ final[n] = R.out[n]
                              \/ R.out[n] = "pending" /\ final[n] = "skipped"
      PROVE  RunOK(Q) /\ StepEffect(r)
  <2>1. /\ Q.phase = how /\ Q.out = final /\ Q.pending = {} /\ Q.added = {} /\ Q.extra = <<>>
        /\ Q.gen = R.gen /\ Q.known = R.known /\ tasks' = tasks
    BY <1>a, <1>b
  <2>2. RunOK(Q)
    BY <1>0, <1>b, <2>1 DEF RunOK, Current, Done
  <2>3. StepEffect(r)
    BY <1>1, <1>b, <2>1 DEF StepEffect, Current
  <2>. QED  BY <2>2, <2>3
<1>3. CASE Complete(r)
  <2>1. R.known \subseteq Settled(r)
    BY <1>3, NextNodesCleared DEF Complete
  <2>. QED  BY <1>0, <1>3, <1>b, <2>1 DEF Complete, Settled
<1>4. CASE Abort(r)
  <2>. DEFINE skip == [n \in Nodes |-> IF R.out[n] = "pending" THEN "skipped" ELSE R.out[n]]
  <2>1. skip \in [Nodes -> Outcome]
    BY <1>0 DEF Outcome
  <2>2. CASE \E n \in R.known : R.out[n] = "absent"
    BY <1>0, <1>4, <1>b, <2>2 DEF Abort
  <2>3. CASE ~ \E n \in R.known : R.out[n] = "absent"
    <3>1. End(r, "over", skip)
      BY <1>4, <2>3 DEF Abort
    <3>2. \A n \in R.known : skip[n] \notin {"absent", "pending"}
      BY <1>0, <2>3
    <3>3. \A n \in Nodes : skip[n] = R.out[n] \/ (R.out[n] = "pending" /\ skip[n] = "skipped")
      OBVIOUS
    <3>. HIDE DEF skip
    <3>. QED  BY <1>b, <2>1, <3>1, <3>2, <3>3
  <2>. QED  BY <2>2, <2>3
<1>5. CASE GiveUp(r)
  BY <1>0, <1>5, <1>b DEF GiveUp
<1>. QED  BY <1>3, <1>4, <1>5

LEMMA DispatchEffect ==
    ASSUME TypeOK, NEW r \in Runs, NEW layer \in SUBSET Nodes, NEW nth, Dispatch(r, layer, nth)
    PROVE  \A m \in tasks' \ tasks : /\ m.run = r /\ m.gen = run[r].gen
                                     /\ m.node \in layer /\ m.nth = nth[m.node]
BY DEF Dispatch, Copy

LEMMA GraphStep ==
    ASSUME TypeInv, TypeOK', NEW r \in Runs, RunOK(run[r]),
           SchedulerStep(r) \/ GiveUp(r) \/ DetectFailures(r)
    PROVE  RunOK(run'[r]) /\ StepEffect(r)
<1>. DEFINE R == run[r]
            Q == run'[r]
<1>0. R \in Run /\ Q \in Run /\ run \in [Runs -> Run] /\ TypeOK
  BY DEF TypeInv, TypeOK, SchedTypeOK
<1>a. ASSUME Current(R), Q.phase = R.phase, Q.out = R.out, Q.known = R.known,
             Q.pending = R.pending, Q.added = R.added, Q.extra = R.extra, Q.gen = R.gen,
             \A m \in tasks' \ tasks : m.run = r /\ m.gen = R.gen /\ m.node \in R.pending
      PROVE  RunOK(Q) /\ StepEffect(r)
  <2>1. RunOK(Q)
    BY <1>a, SameGraph
  <2>2. \A n \in R.pending : Cleared(R, n)
    BY <1>a DEF RunOK, PendingOK
  <2>. QED  BY <1>a, <2>1, <2>2 DEF StepEffect, Current
<1>1. CASE DropStale(r)
  BY <1>0, <1>1, <1>a DEF DropStale, Run, Current
<1>2. CASE OpenSpawns(r)
  <2>1. PICK i : run' = [run EXCEPT ![r] = [@ EXCEPT !.opened = i, !.todo = answers[r][i].spawns]]
    BY <1>2 DEF OpenSpawns
  <2>. QED  BY <1>0, <1>2, <1>a, <2>1 DEF OpenSpawns, Run, Current
<1>3. CASE DetectFailures(r)
  BY <1>0, <1>3, <1>a DEF DetectFailures, Run, Current, Active
<1>b. ASSUME R.phase = "collect", NEW T \in SUBSET R.pending,
             Q.known = R.known, Q.pending = R.pending \ T, Q.added = R.added, Q.extra = R.extra,
             Q.gen = R.gen, tasks' = tasks,
             \A n \in Nodes \ T : Q.out[n] = R.out[n],
             \A n \in T : Q.out[n] \in Answered,
             Q.phase = "collect" \/ (Q.phase = "layer" /\ Q.pending = {})
      PROVE  RunOK(Q) /\ StepEffect(r)
  <2>1. RunOK(Q)
    BY <1>0, <1>b, NodesSettle
  <2>2. StepEffect(r)
    BY <1>b DEF StepEffect, Current
  <2>. QED  BY <2>1, <2>2
<1>4. ASSUME NEW n \in Nodes, Reschedule(r, n) PROVE RunOK(Q) /\ StepEffect(r)
  <2>0. R.phase = "collect" /\ n \in R.pending
    BY <1>4 DEF Reschedule
  <2>1. CASE /\ Dispatch(r, {n}, [R.retries EXCEPT ![n] = @ + 1])
             /\ run' = [run EXCEPT ![r] = [@ EXCEPT !.again[n] = R.again[n] - 1,
                                                    !.retries[n] = R.retries[n] + 1]]
    <3>1. \A m \in tasks' \ tasks : m.run = r /\ m.gen = R.gen /\ m.node \in R.pending
      BY <2>0, <2>1 DEF Dispatch, Copy
    <3>2. /\ Q.phase = R.phase /\ Q.out = R.out /\ Q.known = R.known /\ Q.pending = R.pending
          /\ Q.added = R.added /\ Q.extra = R.extra /\ Q.gen = R.gen
      BY <1>0, <2>1 DEF Run
    <3>. QED  BY <1>a, <2>0, <3>1, <3>2 DEF Current
  <2>2. CASE /\ run' = [run EXCEPT ![r] = [@ EXCEPT !.again[n] = R.again[n] - 1,
                                                    !.out[n] = "failed",
                                                    !.pending = R.pending \ {n}]]
             /\ UNCHANGED <<tasks, selected, poolVars>>
    <3>1. /\ Q.phase = R.phase /\ Q.out = [R.out EXCEPT ![n] = "failed"]
          /\ Q.known = R.known /\ Q.pending = R.pending \ {n}
          /\ Q.added = R.added /\ Q.extra = R.extra /\ Q.gen = R.gen /\ tasks' = tasks
      BY <1>0, <2>2 DEF Run
    <3>2. /\ \A l \in Nodes \ {n} : Q.out[l] = R.out[l]
          /\ \A l \in {n} : Q.out[l] \in Answered
      BY <1>0, <3>1 DEF Run, Answered
    <3>. QED  BY <1>b, <2>0, <3>1, <3>2
  <2>. QED  BY <1>4, <2>1, <2>2 DEF Reschedule
<1>5. CASE ReadResults(r)
  <2>1. /\ R.phase = "collect" /\ tasks' = tasks
        /\ Q.known = R.known /\ Q.pending = R.pending \ Told(r) /\ Q.added = R.added
        /\ Q.extra = R.extra /\ Q.gen = R.gen
        /\ Q.out = [n \in Nodes |-> IF n \in Told(r) THEN answers[r][Latest(r, n)].status ELSE R.out[n]]
        /\ Q.phase = IF R.pending \subseteq Told(r) THEN "layer" ELSE "collect"
    BY <1>0, <1>5, ZenonT(30) DEF ReadResults, Run
  <2>2. Told(r) \subseteq R.pending /\ \A n \in Told(r) : answers[r][Latest(r, n)].status \in Answered
    BY <1>0, ExpectedFacts
  <2>3. Told(r) \subseteq Nodes
    BY <1>0, <2>2, RunFields
  <2>. QED  BY <1>b, <2>1, <2>2, <2>3
<1>6. CASE MergeSpawn(r)
  <2>1. RunOK(Q)
    BY <1>0, <1>6, GraphMerge
  <2>2. /\ R.phase = "layer" /\ Q.phase = "layer" /\ Q.gen = R.gen /\ Q.out = R.out
        /\ R.known \subseteq Q.known /\ tasks' = tasks
    BY <1>0, <1>6 DEF MergeSpawn, Run
  <2>. QED  BY <2>1, <2>2 DEF StepEffect, Current
<1>7. CASE NextLayer(r)
  <2>1. RunOK(Q)
    BY <1>0, <1>7, GraphNextLayer
  <2>2. /\ R.phase = "layer" /\ Q.phase = "collect" /\ Q.gen = R.gen /\ Q.out = R.out
        /\ R.known \subseteq Q.known /\ Failed(r) = {} /\ Dispatch(r, NextNodes(r), None0)
    BY <1>0, <1>7, ZenonT(30) DEF NextLayer, Run
  <2>3. \A m \in tasks' \ tasks : m.run = r /\ m.gen = R.gen /\ m.node \in NextNodes(r)
    BY <1>0, <2>2, DispatchEffect, LayerFacts, ZenonT(60)
  <2>4. \A m \in tasks' \ tasks : Cleared(R, m.node)
    BY <1>0, <2>2, <2>3, NextNodesCleared
  <2>. QED  BY <2>1, <2>2, <2>3, <2>4 DEF StepEffect, Current
<1>8. CASE Complete(r) \/ Abort(r) \/ GiveUp(r)
  BY <1>0, <1>8, EndEffect
<1>. QED  BY <1>1, <1>2, <1>3, <1>4, <1>5, <1>6, <1>7, <1>8 DEF SchedulerStep

LEMMA GraphSubmit ==
    ASSUME TypeOK, NEW r \in Runs, RunOK(run[r]), Submit(r)
    PROVE  /\ RunOK(run'[r]) /\ ~ Current(run[r]) /\ tasks' = tasks
           /\ run'[r].phase = "layer" /\ run'[r].gen = run[r].gen + 1 /\ run'[r].known = Static
           /\ run'[r].out = [n \in Nodes |-> IF n \in Static THEN "pending" ELSE "absent"]
<1>. DEFINE R == run[r]
            Q == run'[r]
<1>0. R \in Run /\ run \in [Runs -> Run] /\ Static \subseteq Nodes
  BY GraphAssumption DEF TypeOK, SchedTypeOK
<1>1. ~ Current(R) /\ R.pending = {} /\ R.added = {} /\ R.extra = <<>>
  BY DEF Submit, RunOK, Current
<1>2. /\ Q.phase = "layer" /\ Q.gen = R.gen + 1 /\ Q.known = Static
      /\ Q.out = [n \in Nodes |-> IF n \in Static THEN "pending" ELSE "absent"]
      /\ Q.pending = {} /\ Q.added = {} /\ Q.extra = <<>> /\ tasks' = tasks
  BY <1>0, <1>1 DEF Submit, Run
<1>. HIDE DEF Q
<1>3. Outcomes(Q)
  BY <1>0, <1>2 DEF Outcomes
<1>4. Layers(Q)
  BY <1>0, <1>2 DEF Layers, Ahead, Waiting
<1>5. PendingOK(Q)
  BY <1>2 DEF PendingOK
<1>. QED  BY <1>1, <1>2, <1>3, <1>4, <1>5 DEF RunOK, Current, Q

\* A message belongs to a submission of its run that was made, and while that one is
\* active, what the node waits for is there.
Prepared(m) ==
    /\ m.gen <= run[m.run].gen
    /\ (Current(run[m.run]) /\ m.gen = run[m.run].gen) => Cleared(run[m.run], m.node)

GraphInv ==
    /\ TypeInv
    /\ \A r \in Runs : RunOK(run[r])
    /\ \A m \in Messages : Prepared(m)

LEMMA MessagesTyped == ASSUME TypeOK PROVE Messages \subseteq Message
BY DEF TypeOK, SchedTypeOK, Messages

\* A step of run r keeps what other runs' messages rely on.
LEMMA PreparedStep ==
    ASSUME GraphInv, TypeOK', NEW r \in Runs, UNCHANGED <<fresh, held, busy, ran>>,
           \/ Submit(r)
           \/ SchedulerStep(r) \/ GiveUp(r) \/ DetectFailures(r)
    PROVE  \A m \in Messages' : Prepared(m)'
<1>0. /\ TypeOK /\ RunOK(run[r]) /\ \A m \in Messages : Prepared(m) /\ m \in Message
      /\ run[r].gen \in Nat /\ run'[r] \in Run
      /\ Messages' \subseteq Messages \union (tasks' \ tasks)
      /\ \A q \in Runs \ {r} : run'[q] = run[q]
  <2>1. Messages' \subseteq Messages \union (tasks' \ tasks)
    BY DEF Messages
  <2>2. \A q \in Runs \ {r} : run'[q] = run[q]
    BY OwnRun DEF GraphInv, TypeInv
  <2>3. run'[r] \in Run
    BY DEF TypeOK, SchedTypeOK
  <2>. QED  BY <2>1, <2>2, <2>3, RunFields, MessagesTyped DEF GraphInv, TypeInv
<1>a. \A m \in Messages : m.run \in Runs /\ m.gen \in Nat
  BY <1>0 DEF Message
<1>1. CASE Submit(r)
  <2>1. tasks' = tasks /\ run'[r].gen = run[r].gen + 1
    BY <1>0, <1>1, GraphSubmit
  <2>2. ASSUME NEW m \in Messages' PROVE Prepared(m)'
    <3>1. m \in Messages /\ m.gen <= run[m.run].gen /\ m.run \in Runs /\ m.gen \in Nat
      BY <1>0, <1>a, <2>1 DEF Prepared
    <3>2. CASE m.run = r
      BY <1>0, <2>1, <3>1, <3>2 DEF Prepared
    <3>3. CASE m.run # r
      BY <1>0, <3>1, <3>3 DEF Prepared
    <3>. QED  BY <3>2, <3>3
  <2>. QED  BY <2>2
<1>2. CASE SchedulerStep(r) \/ GiveUp(r) \/ DetectFailures(r)
  <2>1. StepEffect(r) /\ Current(run[r]) /\ run'[r].gen = run[r].gen
    BY <1>0, <1>2, GraphStep DEF StepEffect, GraphInv
  <2>2. ASSUME NEW n, Cleared(run[r], n), Current(run'[r]) PROVE Cleared(run'[r], n)
    <3>1. \A d \in Static : run[r].out[d] \in {"success", "cancelled"} => run'[r].out[d] = run[r].out[d]
      <4>1. Static \subseteq Nodes /\ run[r].pending \intersect Done(run[r]) = {}
        BY <1>0, <2>1, GraphAssumption DEF RunOK, PendingOK
      <4>. QED  BY <2>1, <2>2, <4>1 DEF StepEffect, Done
    <3>. QED  BY <2>2, <3>1 DEF Cleared
  <2>3. ASSUME NEW m \in Messages' PROVE Prepared(m)'
    <3>1. CASE m \in Messages
      <4>1. Prepared(m) /\ m.run \in Runs
        BY <1>0, <1>a, <3>1
      <4>2. CASE m.run = r
        BY <2>1, <2>2, <4>1, <4>2 DEF Prepared
      <4>3. CASE m.run # r
        BY <1>0, <4>1, <4>3 DEF Prepared
      <4>. QED  BY <4>2, <4>3
    <3>2. CASE m \in tasks' \ tasks
      <4>1. /\ m.run = r /\ m.gen = run'[r].gen /\ Cleared(run[r], m.node)
        BY <2>1, <3>2 DEF StepEffect
      <4>2. Current(run'[r]) => Cleared(run'[r], m.node)
        BY <2>2, <4>1
      <4>. QED  BY <1>0, <2>1, <4>1, <4>2 DEF Prepared
    <3>. QED  BY <1>0, <3>1, <3>2
  <2>. QED  BY <2>3
<1>. QED  BY <1>1, <1>2

LEMMA GraphInvStep ==
    ASSUME GraphInv, [Next]_vars
    PROVE  GraphInv'
<1>0. TypeInv /\ TypeInv' /\ TypeOK /\ TypeOK' /\ \A r \in Runs : RunOK(run[r])
  BY TypeStep, CursorStep DEF TypeInv, GraphInv
<1>1. ASSUME NEW r \in Runs, Submit(r) \/ SchedulerStep(r) \/ GiveUp(r) \/ DetectFailures(r),
             UNCHANGED <<fresh, held, busy, ran>>
      PROVE  GraphInv'
  <2>1. \A q \in Runs \ {r} : run'[q] = run[q]
    BY <1>0, <1>1, OwnRun
  <2>2. RunOK(run'[r])
    BY <1>0, <1>1, GraphSubmit, GraphStep
  <2>3. \A q \in Runs : RunOK(run'[q])
    BY <1>0, <2>1, <2>2
  <2>. QED  BY <1>0, <1>1, <2>3, PreparedStep DEF GraphInv
<1>2. CASE WorkerNext
  <2>1. UNCHANGED run /\ Messages' \subseteq Messages
    BY <1>0, <1>2, WorkerFacts
  <2>. QED  BY <1>0, <2>1 DEF GraphInv, Prepared
<1>3. CASE UNCHANGED vars
  <2>1. UNCHANGED <<run, Messages>>
    BY <1>3, StutterFacts DEF Messages
  <2>. QED  BY <1>0, <2>1 DEF GraphInv, Prepared
<1>. QED  BY <1>1, <1>2, <1>3, NextCases

LEMMA GraphInvInit == Init => GraphInv
<1>. SUFFICES ASSUME Init PROVE GraphInv
  OBVIOUS
<1>1. TypeInv
  BY TypeInit DEF Init, SchedInit, ReadSoFar, TypeInv
<1>2. \A r \in Runs : RunOK(run[r])
  BY DEF Init, SchedInit, RunOK, Current
<1>3. Messages = {}
  BY DEF Init, SchedInit, Messages
<1>. QED  BY <1>1, <1>2, <1>3 DEF GraphInv

LEMMA GraphInvariant == Spec => []GraphInv
<1>1. GraphInv /\ [Next]_vars => GraphInv'
  BY GraphInvStep
<1>. QED  BY <1>1, GraphInvInit, PTL DEF Spec

\* A worker starts a node of an active run only after every static node it depends on was
\* collected, successful or cancelled: for every acyclic graph, whatever is spawned, and
\* whatever happens to workers, heartbeats, answers and deadlines.
THEOREM DependenciesFirst == Spec => []DepsFirst
<1>1. GraphInv => DepsFirst
  <2>1. tasks \union ran \subseteq Messages /\ \A r : Active(r) = Current(run[r])
    BY DEF Messages, Active, Current
  <2>. QED  BY <2>1 DEF GraphInv, DepsFirst, Prepared, Cleared
<1>. QED  BY <1>1, GraphInvariant, PTL

\* The loop over layers loses and repeats no node: while a layer is collected each node
\* of node_map is settled, waiting, pending, or in exactly one layer to come, and a run
\* that returns has a result for every node.
THEOREM EveryNodeAccounted == Spec => []NodesAccounted
<1>1. GraphInv => NodesAccounted
  <2>. SUFFICES ASSUME GraphInv, NEW r \in Runs
                PROVE  LET R == run[r]
                           later == {R.extra[i] : i \in DOMAIN R.extra} \union {R.added}
                           static == {n \in Static : R.out[n] = "pending"}
                       IN /\ R.phase = "collect" =>
                                /\ R.known = Settled(r) \union static \union R.pending \union UNION later
                                /\ \A L \in later : L \intersect (Settled(r) \union static \union R.pending) = {}
                                /\ \A i, j \in DOMAIN R.extra : i # j => R.extra[i] \intersect R.extra[j] = {}
                                /\ R.pending \intersect Settled(r) = {}
                          /\ R.phase = "over" => R.known \subseteq Settled(r)
    BY DEF NodesAccounted
  <2>. DEFINE R == run[r]
  <2>0. RunOK(R) /\ Static \subseteq Nodes /\ R.known \subseteq Nodes /\ Settled(r) = Done(R)
    BY RunFields, GraphAssumption DEF GraphInv, TypeInv, Settled, Done
  <2>1. ASSUME R.phase = "collect"
        PROVE  /\ R.known = Settled(r) \union Waiting(R) \union R.pending \union UNION Later(R)
               /\ \A L \in Later(R) : L \intersect (Settled(r) \union Waiting(R) \union R.pending) = {}
               /\ \A i, j \in DOMAIN R.extra : i # j => R.extra[i] \intersect R.extra[j] = {}
               /\ R.pending \intersect Settled(r) = {}
    <3>1. Outcomes(R) /\ Layers(R) /\ PendingOK(R)
      BY <2>0, <2>1 DEF RunOK, Current
    <3>2. R.pending \intersect Settled(r) = {}
      BY <2>0, <3>1 DEF PendingOK
    <3>3. \A i, j \in DOMAIN R.extra : i # j => R.extra[i] \intersect R.extra[j] = {}
      BY <3>1 DEF Layers, Ahead
    <3>4. \A L \in Later(R) : L \subseteq R.known /\ \A n \in L : R.out[n] = "absent" /\ n \notin R.pending
      BY <3>1 DEF Layers, Ahead, Later
    <3>5. \A L \in Later(R) : L \intersect (Settled(r) \union Waiting(R) \union R.pending) = {}
      BY <3>4 DEF Settled, Waiting
    <3>6. R.known \subseteq Settled(r) \union Waiting(R) \union R.pending \union UNION Later(R)
      <4>1. \A i \in DOMAIN R.extra : R.extra[i] \subseteq UNION Later(R)
        BY DEF Later
      <4>2. R.added \subseteq UNION Later(R)
        BY DEF Later
      <4>. QED  BY <2>0, <3>1, <4>1, <4>2 DEF Layers
    <3>7. Settled(r) \union Waiting(R) \union R.pending \union UNION Later(R) \subseteq R.known
      BY <2>0, <3>1, <3>4 DEF Outcomes, PendingOK, Settled, Waiting
    <3>. QED  BY <3>2, <3>3, <3>5, <3>6, <3>7
  <2>2. R.phase = "over" => R.known \subseteq Settled(r)
    BY <2>0 DEF RunOK
  <2>. QED  BY <2>1, <2>2 DEF Later, Waiting
<1>. QED  BY <1>1, GraphInvariant, PTL

-----------------------------------------------------------------------------
(* The refinement of GraphRun *)

\* What GraphRun sees of a run whose locals are R.
PhaseOf(R) == CASE R.phase = "idle" -> "new"
                [] R.phase \in {"collect", "layer"} -> "active"
                [] OTHER -> R.phase
ResultOf(R, n) == CASE R.out[n] \in {"absent", "pending"} -> "none"
                    [] R.out[n] = "cancelled" -> "failed"
                    [] OTHER -> R.out[n]

mphase == [r \in Runs |-> PhaseOf(run[r])]
mknown == [r \in Runs |-> run[r].known]
mdeps == [r \in Runs |-> [n \in Nodes |-> Deps[n] \intersect Static]]
mout == [r \in Runs |-> [n \in Nodes |-> ResultOf(run[r], n)]]

MSettled(r) == {n \in Nodes : mout[r][n] # "none"}
MOthers(r) == \A q \in Runs \ {r} : /\ mphase'[q] = mphase[q] /\ mknown'[q] = mknown[q]
                                    /\ mdeps'[q] = mdeps[q] /\ mout'[q] = mout[q]
MSubmit(r) ==
    /\ mphase[r] # "active"
    /\ mphase' = [mphase EXCEPT ![r] = "active"]
    /\ mknown'[r] \subseteq Nodes
    /\ mout' = [mout EXCEPT ![r] = [n \in Nodes |-> "none"]]
    /\ MOthers(r)
MProgress(r) ==
    /\ mphase[r] = "active"
    /\ mphase' \in {[mphase EXCEPT ![r] = p] : p \in {"active", "over", "raised"}}
    /\ mknown[r] \subseteq mknown'[r] /\ mknown'[r] \subseteq Nodes
    /\ \A n \in mknown[r] : mdeps'[r][n] = mdeps[r][n]
    /\ \A n \in Nodes :
        \/ mout'[r][n] = mout[r][n]
        \/ /\ mout[r][n] = "none" /\ n \in mknown[r] /\ mout'[r][n] \in {"success", "failed", "skipped"}
           /\ mout'[r][n] # "skipped" => mdeps[r][n] \subseteq MSettled(r)
    /\ mphase'[r] = "over" => \A n \in mknown'[r] : mout'[r][n] # "none"
    /\ MOthers(r)

LEMMA MappedVars ==
    /\ Promise!vars = <<mphase, mknown, mdeps, mout>>
    /\ \A r \in Runs : Promise!Submit(r) <=> MSubmit(r)
    /\ \A r \in Runs : Promise!Progress(r) <=> MProgress(r)
<1>1. Promise!vars = <<mphase, mknown, mdeps, mout>>
  BY DEF Promise!vars, mphase, mknown, mdeps, mout, PhaseOf, ResultOf, Active
<1>2. \A r \in Runs : Promise!Submit(r) <=> MSubmit(r)
  BY DEF Promise!Submit, Promise!Others, MSubmit, MOthers, mphase, mknown, mdeps, mout, PhaseOf, ResultOf, Active
<1>3. \A r \in Runs : Promise!Progress(r) <=> MProgress(r)
  BY DEF Promise!Progress, Promise!Grows, Promise!Settles, Promise!Others, Promise!Result, Promise!Settled,
         MProgress, MOthers, MSettled, mphase, mknown, mdeps, mout, PhaseOf, ResultOf, Active
<1>. QED  BY <1>1, <1>2, <1>3

LEMMA MappedOthers ==
    ASSUME NEW r \in Runs, \A q \in Runs \ {r} : run'[q] = run[q]
    PROVE  /\ MOthers(r)
           /\ mphase' = [mphase EXCEPT ![r] = PhaseOf(run'[r])]
           /\ mknown'[r] = run'[r].known
           /\ mout' = [mout EXCEPT ![r] = [n \in Nodes |-> ResultOf(run'[r], n)]]
<1>1. \A q \in Runs \ {r} : PhaseOf(run'[q]) = PhaseOf(run[q])
                            /\ [n \in Nodes |-> ResultOf(run'[q], n)] = [n \in Nodes |-> ResultOf(run[q], n)]
  BY DEF PhaseOf, ResultOf
<1>2. mphase' = [q \in Runs |-> PhaseOf(run'[q])] /\ mphase = [q \in Runs |-> PhaseOf(run[q])]
  BY DEF mphase, PhaseOf
<1>3. /\ mout' = [q \in Runs |-> [n \in Nodes |-> ResultOf(run'[q], n)]]
      /\ mout = [q \in Runs |-> [n \in Nodes |-> ResultOf(run[q], n)]]
  BY DEF mout, ResultOf
<1>4. mphase' = [mphase EXCEPT ![r] = PhaseOf(run'[r])]
  BY <1>1, <1>2
<1>5. mout' = [mout EXCEPT ![r] = [n \in Nodes |-> ResultOf(run'[r], n)]]
  BY <1>1, <1>3
<1>6. mknown'[r] = run'[r].known /\ \A q \in Runs \ {r} : mknown'[q] = mknown[q] /\ mdeps'[q] = mdeps[q]
  BY DEF mknown, mdeps
<1>7. MOthers(r)
  BY <1>1, <1>2, <1>3, <1>6 DEF MOthers
<1>. QED  BY <1>4, <1>5, <1>6, <1>7

LEMMA MappedSubmit ==
    ASSUME GraphInv, NEW r \in Runs, Submit(r)
    PROVE  MSubmit(r)
<1>0. TypeOK /\ RunOK(run[r]) /\ \A q \in Runs \ {r} : run'[q] = run[q]
  BY OwnRun DEF GraphInv, TypeInv
<1>1. /\ ~ Current(run[r]) /\ run'[r].phase = "layer" /\ run'[r].known = Static
      /\ run'[r].out = [n \in Nodes |-> IF n \in Static THEN "pending" ELSE "absent"]
  BY <1>0, GraphSubmit
<1>2. mphase[r] # "active"
  <2>1. run[r].phase \in {"idle", "over", "raised"}
    BY DEF Submit
  <2>. QED  BY <2>1 DEF mphase, PhaseOf
<1>3. PhaseOf(run'[r]) = "active" /\ [n \in Nodes |-> ResultOf(run'[r], n)] = [n \in Nodes |-> "none"]
  BY <1>1 DEF PhaseOf, ResultOf
<1>. QED  BY <1>0, <1>1, <1>2, <1>3, MappedOthers, GraphAssumption DEF MSubmit

LEMMA MappedProgress ==
    ASSUME GraphInv, TypeOK', NEW r \in Runs, SchedulerStep(r) \/ GiveUp(r) \/ DetectFailures(r)
    PROVE  MProgress(r)
<1>. DEFINE R == run[r]
            Q == run'[r]
<1>0. /\ TypeOK /\ RunOK(R) /\ RunOK(Q) /\ StepEffect(r) /\ Q \in Run /\ R \in Run
      /\ \A q \in Runs \ {r} : run'[q] = run[q]
  BY OwnRun, GraphStep DEF GraphInv, TypeInv, TypeOK, SchedTypeOK
<1>1. Outcomes(R) /\ PendingOK(R) /\ Current(R)
  BY <1>0 DEF StepEffect, RunOK
<1>2. mphase[r] = "active" /\ mknown[r] = R.known
  BY <1>1 DEF mphase, PhaseOf, Current, mknown
<1>3. PhaseOf(Q) \in {"active", "over", "raised"} /\ (PhaseOf(Q) = "over" => Q.phase = "over")
  BY <1>0 DEF PhaseOf, StepEffect, Run
<1>4. /\ MOthers(r) /\ mphase' = [mphase EXCEPT ![r] = PhaseOf(Q)] /\ mknown'[r] = Q.known
      /\ mphase'[r] = PhaseOf(Q)
      /\ \A n \in Nodes : mout'[r][n] = ResultOf(Q, n) /\ mout[r][n] = ResultOf(R, n)
      /\ \A n \in Nodes : mdeps'[r][n] = mdeps[r][n] /\ mdeps[r][n] = Deps[n] \intersect Static
  BY <1>0, MappedOthers DEF mphase, mout, mdeps
<1>5. R.known \subseteq Q.known /\ Q.known \subseteq Nodes /\ R.known \subseteq Nodes /\ Static \subseteq Nodes
  BY <1>0, GraphAssumption DEF StepEffect, Run
<1>6. ASSUME NEW n \in Nodes
      PROVE  \/ mout'[r][n] = mout[r][n]
             \/ /\ mout[r][n] = "none" /\ n \in mknown[r] /\ mout'[r][n] \in {"success", "failed", "skipped"}
                /\ mout'[r][n] # "skipped" => mdeps[r][n] \subseteq MSettled(r)
  <2>1. CASE Q.out[n] = R.out[n]
    BY <1>4, <2>1 DEF ResultOf
  <2>2. CASE n \in R.pending /\ Q.out[n] \in Answered
    <3>1. ResultOf(R, n) = "none" /\ n \in R.known /\ Cleared(R, n)
      BY <1>1, <2>2 DEF PendingOK, Done, ResultOf
    <3>2. ResultOf(Q, n) \in {"success", "failed"}
      BY <2>2 DEF ResultOf, Answered
    <3>3. mdeps[r][n] \subseteq MSettled(r)
      <4>1. ASSUME NEW d \in Deps[n] \intersect Static PROVE d \in MSettled(r)
        <5>1. R.out[d] \in {"success", "cancelled"} /\ d \in Nodes
          BY <1>5, <3>1 DEF Cleared
        <5>2. mout[r][d] = ResultOf(R, d)
          BY <1>4, <5>1
        <5>3. ResultOf(R, d) # "none"
          BY <5>1 DEF ResultOf
        <5>. QED  BY <5>1, <5>2, <5>3 DEF MSettled
      <4>. QED  BY <1>4, <4>1
    <3>. QED  BY <1>2, <1>4, <3>1, <3>2, <3>3
  <2>3. CASE R.out[n] = "pending" /\ Q.out[n] = "skipped"
    <3>1. ResultOf(R, n) = "none" /\ ResultOf(Q, n) = "skipped" /\ n \in R.known
      BY <1>1, <2>3 DEF ResultOf, Outcomes
    <3>. QED  BY <1>2, <1>4, <3>1
  <2>. QED  BY <1>0, <2>1, <2>2, <2>3 DEF StepEffect
<1>7. mphase'[r] = "over" => \A n \in mknown'[r] : mout'[r][n] # "none"
  <2>1. ASSUME Q.phase = "over", NEW n \in Q.known PROVE mout'[r][n] # "none"
    <3>1. n \in Nodes /\ Q.out[n] \notin {"absent", "pending"} /\ Q.out[n] \in Outcome
      BY <1>0, <1>5, <2>1 DEF RunOK, Done, Run
    <3>2. ResultOf(Q, n) # "none"
      BY <3>1 DEF ResultOf, Outcome, Answered
    <3>. QED  BY <1>4, <3>1, <3>2
  <2>. QED  BY <1>3, <1>4, <2>1
<1>8. \A n \in mknown[r] : mdeps'[r][n] = mdeps[r][n]
  BY <1>2, <1>4, <1>5
<1>9. mphase' \in {[mphase EXCEPT ![r] = p] : p \in {"active", "over", "raised"}}
  BY <1>3, <1>4
<1>. HIDE DEF R, Q
<1>. QED  BY <1>2, <1>4, <1>5, <1>6, <1>7, <1>8, <1>9 DEF MProgress

LEMMA MappedInit == Init => Promise!Init
<1>. SUFFICES ASSUME Init PROVE Promise!Init
  OBVIOUS
<1>1. run = [r \in Runs |->
                [phase |-> "idle", gen |-> 0, out |-> [n \in Nodes |-> "absent"],
                 known |-> {}, pending |-> {}, retries |-> None0, again |-> None0,
                 cursor |-> 0, opened |-> 0, todo |-> <<>>, added |-> {},
                 extra |-> <<>>]]
  BY DEF Init, SchedInit
<1>2. mphase = [r \in Runs |-> "new"] /\ mknown = [r \in Runs |-> {}]
  BY <1>1 DEF mphase, mknown, PhaseOf
<1>3. mout = [r \in Runs |-> [n \in Nodes |-> "none"]]
  <2>1. \A r \in Runs, n \in Nodes : ResultOf(run[r], n) = "none"
    BY <1>1 DEF ResultOf
  <2>. QED  BY <2>1 DEF mout
<1>. QED  BY <1>2, <1>3 DEF Promise!Init, mphase, mknown, mout, PhaseOf, ResultOf, Active

\* A distributed run is a run of GraphRun, the promise every task backend makes: results
\* come in dependency order and are final, the graph only grows, and a run that returns
\* has a result for each node, for every acyclic graph, any spawns, workers and faults.
THEOREM KeepsTheBackendPromise == Spec => ImplementsGraphRun
<1>1. GraphInv /\ [Next]_vars => [Promise!Next]_(Promise!vars)
  <2>. SUFFICES ASSUME GraphInv, [Next]_vars PROVE Promise!Next \/ UNCHANGED Promise!vars
    OBVIOUS
  <2>0. TypeOK /\ TypeOK'
    BY TypeStep DEF GraphInv, TypeInv
  <2>1. ASSUME NEW r \in Runs, Submit(r) PROVE Promise!Next
    BY <2>1, MappedSubmit, MappedVars DEF Promise!Next
  <2>2. ASSUME NEW r \in Runs, SchedulerStep(r) \/ GiveUp(r) \/ DetectFailures(r) PROVE Promise!Next
    BY <2>0, <2>2, MappedProgress, MappedVars DEF Promise!Next
  <2>3. ASSUME UNCHANGED run PROVE UNCHANGED Promise!vars
    BY <2>3 DEF Promise!vars, Active
  <2>4. WorkerNext \/ UNCHANGED vars => UNCHANGED run
    BY <2>0, WorkerFacts, StutterFacts
  <2>. QED  BY <2>1, <2>2, <2>3, <2>4, NextCases
<1>. QED  BY <1>1, MappedInit, GraphInvariant, PTL DEF Spec, ImplementsGraphRun, Promise!Safe

-----------------------------------------------------------------------------
(* No task is lost *)

\* The scheduler takes no message back.
LEMMA TasksGrow ==
    ASSUME NEW r \in Runs, Submit(r) \/ SchedulerStep(r) \/ GiveUp(r) \/ DetectFailures(r)
    PROVE  tasks \subseteq tasks'
<1>1. CASE Submit(r) \/ DropStale(r) \/ ReadResults(r) \/ OpenSpawns(r) \/ MergeSpawn(r) \/ DetectFailures(r)
  BY <1>1 DEF Submit, DropStale, ReadResults, OpenSpawns, MergeSpawn, DetectFailures
<1>2. CASE Complete(r) \/ Abort(r) \/ GiveUp(r)
  BY <1>2 DEF Complete, Abort, GiveUp, End
<1>3. CASE NextLayer(r) \/ \E n \in Nodes : Reschedule(r, n)
  BY <1>3 DEF NextLayer, Reschedule, Dispatch
<1>. QED  BY <1>1, <1>2, <1>3 DEF SchedulerStep

\* Where the answer of pending node n of run r is to be found.
Traced(r, n) ==
    \/ run[r].again[n] > 0
    \/ \E i \in Unread(r) : answers[r][i].node = n
    \/ \E m \in InTransit : CopyOf(m, r, n)

\* A worker's step moves a message or turns it into an entry that is not read yet.
LEMMA TracedByWorkers ==
    ASSUME TypeInv, WorkerNext, NEW r \in Runs, NEW n \in Nodes, Traced(r, n)
    PROVE  Traced(r, n)'
<1>0. TypeOK /\ ReadSoFar /\ TypeOK' /\ UNCHANGED run
  BY WorkerFacts, WorkerTypesStep DEF TypeInv
<1>1. /\ run[r].cursor \in Nat /\ Len(answers[r]) \in Nat /\ run[r].cursor <= Len(answers[r])
      /\ Len(answers'[r]) \in Nat /\ Len(answers[r]) <= Len(answers'[r])
      /\ \A i \in 1 .. Len(answers[r]) : answers'[r][i] = answers[r][i]
  <2>1. Len(answers'[r]) \in Nat
    <3>1. answers'[r] \in Seq(Answer)
      BY <1>0 DEF TypeOK, SchedTypeOK
    <3>. QED  BY <3>1, LenProperties
  <2>. QED  BY <1>0, <2>1, RunFields, AnswerFields, StreamsGrow DEF ReadSoFar
<1>2. CASE run[r].again[n] > 0
  BY <1>0, <1>2 DEF Traced
<1>3. ASSUME NEW i \in Unread(r), answers[r][i].node = n
      PROVE  Traced(r, n)'
  <2>1. i \in 1 .. Len(answers[r])
    BY <1>1 DEF Unread
  <2>2. i \in (run'[r].cursor + 1) .. Len(answers'[r])
    BY <1>0, <1>1 DEF Unread
  <2>. QED  BY <1>1, <1>3, <2>1, <2>2 DEF Traced, Unread
<1>4. ASSUME NEW m \in InTransit, CopyOf(m, r, n)
      PROVE  Traced(r, n)'
  <2>1. CASE InTransit \subseteq InTransit'
    BY <1>0, <1>4, <2>1 DEF Traced, CopyOf
  <2>2. ASSUME NEW l \in Messages, NEW e \in Answer, Posted(l, e), InTransit \subseteq InTransit' \union {l}
        PROVE  Traced(r, n)'
    <3>1. CASE m # l
      BY <1>0, <1>4, <2>2, <3>1 DEF Traced, CopyOf
    <3>2. CASE m = l
      <4>1. answers'[r] = Append(answers[r], e) /\ e.node = n
        BY <1>0, <1>4, <2>2, <3>2 DEF Posted, CopyOf, TypeOK, SchedTypeOK
      <4>2. /\ Len(answers'[r]) = Len(answers[r]) + 1
            /\ answers'[r][Len(answers[r]) + 1] = e
        <5>1. answers[r] \in Seq(Answer)
          BY <1>0, AnswerFields
        <5>. QED  BY <4>1, <5>1, AppendProperties
      <4>3. Len(answers[r]) + 1 \in (run'[r].cursor + 1) .. Len(answers'[r])
        BY <1>0, <1>1, <4>2
      <4>. QED  BY <4>1, <4>2, <4>3 DEF Traced, Unread
    <3>. QED  BY <3>1, <3>2
  <2>. QED  BY <1>0, <2>1, <2>2, WorkerFacts
<1>. QED  BY <1>2, <1>3, <1>4 DEF Traced

\* A step of another run of the process changes nothing for this one.
LEMMA TracedByOthers ==
    ASSUME TypeOK, NEW r \in Runs, NEW q \in Runs \ {r}, NEW n \in Nodes, Traced(q, n),
           Submit(r) \/ SchedulerStep(r) \/ GiveUp(r) \/ DetectFailures(r),
           UNCHANGED <<fresh, held, lost>>
    PROVE  Traced(q, n)'
<1>1. run'[q] = run[q] /\ answers'[q] = answers[q]
  BY OwnRun
<1>2. InTransit \subseteq InTransit'
  BY TasksGrow DEF InTransit
<1>. QED  BY <1>1, <1>2 DEF Traced, CopyOf, Unread

\* A step of the run itself: what it reads is no longer pending, what it takes from its
\* queue it dispatches, and a layer it starts is in the stream.
LEMMA TracedByOwn ==
    ASSUME TypeInv, TypeOK', NEW r \in Runs, RunOK(run[r]),
           \A n \in run[r].pending : run[r].phase = "collect" => Traced(r, n),
           SchedulerStep(r) \/ GiveUp(r) \/ DetectFailures(r), UNCHANGED <<fresh, held, lost>>,
           NEW n \in run'[r].pending, run'[r].phase = "collect"
    PROVE  Traced(r, n)'
<1>. DEFINE R == run[r]
            Q == run'[r]
<1>0. /\ TypeOK /\ R \in Run /\ Q \in Run /\ run \in [Runs -> Run] /\ InTransit \subseteq InTransit'
      /\ n \in Nodes /\ R.again \in [Nodes -> Nat] /\ R.pending \subseteq Nodes
      /\ R.retries \in [Nodes -> Nat]
  <2>1. InTransit \subseteq InTransit'
    BY TasksGrow DEF InTransit
  <2>. QED  BY <2>1 DEF TypeInv, TypeOK, SchedTypeOK, Run
<1>a. ASSUME Q.gen = R.gen, Q.cursor = R.cursor, answers' = answers, Q.again[n] >= R.again[n],
             Traced(r, n), Q.again \in [Nodes -> Nat]
      PROVE  Traced(r, n)'
  <2>1. CASE R.again[n] > 0
    <3>1. Q.again[n] > 0
      BY <1>0, <1>a, <2>1
    <3>. QED  BY <3>1 DEF Traced
  <2>2. ASSUME NEW i \in Unread(r), answers[r][i].node = n PROVE Traced(r, n)'
    BY <1>a, <2>2 DEF Traced, Unread
  <2>3. ASSUME NEW m \in InTransit, CopyOf(m, r, n) PROVE Traced(r, n)'
    BY <1>0, <1>a, <2>3 DEF Traced, CopyOf
  <2>. QED  BY <1>a, <2>1, <2>2, <2>3 DEF Traced
<1>b. ASSUME NEW m \in tasks', CopyOf(m, r, n), Q.gen = R.gen PROVE Traced(r, n)'
  BY <1>b DEF Traced, CopyOf, InTransit
<1>1. CASE DropStale(r)
  <2>1. /\ Q.gen = R.gen /\ Q.cursor = R.cursor /\ answers' = answers /\ Q.pending = R.pending
        /\ Q.again = [l \in Nodes |-> IF l \in NoPending(r) THEN 0 ELSE R.again[l]]
        /\ R.phase = "collect"
    BY <1>0, <1>1 DEF DropStale, Run
  <2>2. Q.again[n] = R.again[n] /\ Q.again \in [Nodes -> Nat]
    BY <1>0, <2>1 DEF NoPending
  <2>. QED  BY <1>0, <1>a, <2>1, <2>2
<1>2. ASSUME NEW l \in Nodes, Reschedule(r, l) PROVE Traced(r, n)'
  <2>0. R.phase = "collect" /\ answers' = answers /\ l \in R.pending
    BY <1>2 DEF Reschedule
  <2>1. CASE /\ Dispatch(r, {l}, [R.retries EXCEPT ![l] = @ + 1])
             /\ run' = [run EXCEPT ![r] = [@ EXCEPT !.again[l] = R.again[l] - 1,
                                                    !.retries[l] = R.retries[l] + 1]]
    <3>1. /\ Q.gen = R.gen /\ Q.cursor = R.cursor /\ Q.pending = R.pending
          /\ Q.again = [R.again EXCEPT ![l] = R.again[l] - 1]
      BY <1>0, <2>1 DEF Run
    <3>2. CASE n = l
      <4>1. PICK m \in tasks' : CopyOf(m, r, n)
        <5>1. \E k : Copy(r, n, k) \in tasks'
          BY <2>1, <3>2 DEF Dispatch
        <5>. QED  BY <5>1 DEF Copy, CopyOf
      <4>. QED  BY <1>b, <3>1, <4>1
    <3>3. CASE n # l
      <4>1. Q.again[n] = R.again[n] /\ Q.again \in [Nodes -> Nat]
        BY <1>0, <3>1, <3>3 DEF Run
      <4>. QED  BY <1>0, <1>a, <2>0, <3>1, <4>1
    <3>. QED  BY <3>2, <3>3
  <2>2. CASE /\ run' = [run EXCEPT ![r] = [@ EXCEPT !.again[l] = R.again[l] - 1,
                                                    !.out[l] = "failed",
                                                    !.pending = R.pending \ {l}]]
             /\ UNCHANGED <<tasks, selected, poolVars>>
    <3>1. /\ Q.gen = R.gen /\ Q.cursor = R.cursor /\ Q.pending = R.pending \ {l}
          /\ Q.again = [R.again EXCEPT ![l] = R.again[l] - 1]
      BY <1>0, <2>2 DEF Run
    <3>2. Q.again[n] = R.again[n] /\ n \in R.pending /\ Q.again \in [Nodes -> Nat]
      BY <1>0, <3>1 DEF Run
    <3>. QED  BY <1>0, <1>a, <2>0, <3>1, <3>2
  <2>. QED  BY <1>2, <2>1, <2>2 DEF Reschedule
<1>3. CASE ReadResults(r)
  <2>1. /\ R.phase = "collect" /\ Q.pending = R.pending \ Told(r) /\ Q.gen = R.gen
        /\ \A l \in Nodes : R.again[l] = 0
    BY <1>0, <1>3 DEF ReadResults, Run
  <2>2. Traced(r, n) /\ n \in R.pending /\ n \notin Told(r)
    BY <2>1
  <2>3. ~ \E i \in Unread(r) : answers[r][i].node = n
    BY <2>2 DEF Told, Expected
  <2>4. PICK m \in InTransit : CopyOf(m, r, n)
    BY <1>0, <2>1, <2>2, <2>3 DEF Traced
  <2>. QED  BY <1>0, <2>1, <2>4 DEF Traced, CopyOf
<1>4. CASE NextLayer(r)
  <2>1. /\ Q.pending = NextNodes(r) /\ Q.gen = R.gen /\ Dispatch(r, NextNodes(r), None0)
    BY <1>0, <1>4 DEF NextLayer, Run
  <2>2. PICK m \in tasks' : CopyOf(m, r, n)
    <3>1. Copy(r, n, None0[n]) \in tasks'
      BY <2>1 DEF Dispatch
    <3>. QED  BY <3>1 DEF Copy, CopyOf
  <2>. QED  BY <1>b, <2>1, <2>2
<1>5. CASE DetectFailures(r)
  <2>1. /\ Q.gen = R.gen /\ Q.cursor = R.cursor /\ Q.pending = R.pending /\ answers' = answers
        /\ Q.phase = R.phase /\ Q.again = [l \in Nodes |-> R.again[l] + Orphans[l]]
    BY <1>0, <1>5 DEF DetectFailures, Run
  <2>2. Orphans[n] \in Nat
    <3>1. IsFiniteSet({w \in Dead : n \in inflight[w]})
      BY <1>0, GraphAssumption, FS_Subset DEF Dead, TypeOK, SchedTypeOK, PoolTypeOK
    <3>. QED  BY <1>0, <3>1, FS_CardinalityType DEF Orphans
  <2>3. Q.again[n] >= R.again[n] /\ Q.again \in [Nodes -> Nat]
    BY <1>0, <2>1, <2>2, SMTT(30) DEF Run
  <2>. QED  BY <1>a, <2>1, <2>3
<1>6. ~ OpenSpawns(r) /\ ~ MergeSpawn(r)
  <2>1. OpenSpawns(r) => Q.phase = "layer"
    BY <1>0 DEF OpenSpawns, Run
  <2>2. ASSUME MergeSpawn(r) PROVE Q.phase = "layer"
    BY <1>0, <2>2 DEF MergeSpawn, Run
  <2>. QED  BY <2>1, <2>2
<1>7. ~ Complete(r) /\ ~ Abort(r) /\ ~ GiveUp(r)
  <2>1. ASSUME NEW how \in {"over", "raised"}, NEW final, End(r, how, final) PROVE FALSE
    BY <1>0, <2>1 DEF End, Run
  <2>. QED  BY <2>1 DEF Complete, Abort, GiveUp
<1>. QED  BY <1>1, <1>2, <1>3, <1>4, <1>5, <1>6, <1>7 DEF SchedulerStep

TraceInv == GraphInv /\ Traceable

LEMMA TraceInit == Init => TraceInv
<1>1. Init => \A r \in Runs : run[r].phase = "idle"
  BY DEF Init, SchedInit
<1>. QED  BY <1>1, GraphInvInit DEF TraceInv, Traceable

LEMMA TraceStep ==
    ASSUME TraceInv, [Next]_vars
    PROVE  TraceInv'
<1>0. /\ GraphInv /\ GraphInv' /\ TypeInv /\ TypeOK /\ TypeOK'
      /\ \A r \in Runs : \A n \in run[r].pending : run[r].phase = "collect" => Traced(r, n)
  <2>1. \A r \in Runs : \A n \in run[r].pending : run[r].phase = "collect" => Traced(r, n)
    BY DEF TraceInv, Traceable, Traced, InTransit
  <2>. QED  BY <2>1, GraphInvStep DEF TraceInv, GraphInv, TypeInv
<1>1. ASSUME NEW q \in Runs, NEW n \in run'[q].pending, run'[q].phase = "collect"
      PROVE  Traced(q, n)'
  <2>0. n \in Nodes
    BY <1>0, <1>1 DEF TypeOK, SchedTypeOK, Run
  <2>1. ASSUME NEW r \in Runs, Submit(r) \/ SchedulerStep(r) \/ GiveUp(r) \/ DetectFailures(r),
               UNCHANGED <<fresh, held, lost>>
        PROVE  Traced(q, n)'
    <3>1. CASE q # r
      <4>1. run'[q] = run[q]
        BY <1>0, <2>1, <3>1, OwnRun
      <4>. QED  BY <1>0, <1>1, <2>0, <2>1, <3>1, <4>1, TracedByOthers
    <3>2. CASE q = r /\ Submit(r)
      <4>1. run'[r].phase = "layer"
        BY <1>0, <3>2, GraphSubmit DEF GraphInv
      <4>. QED  BY <1>1, <3>2, <4>1
    <3>3. CASE q = r /\ ~ Submit(r)
      <4>1. RunOK(run[r])
        BY <1>0 DEF GraphInv
      <4>. QED  BY <1>0, <1>1, <2>1, <3>3, <4>1, TracedByOwn
    <3>. QED  BY <3>1, <3>2, <3>3
  <2>2. CASE WorkerNext
    <3>1. UNCHANGED run
      BY <1>0, <2>2, WorkerFacts
    <3>. QED  BY <1>0, <1>1, <2>0, <2>2, <3>1, TracedByWorkers
  <2>3. CASE UNCHANGED vars
    <3>1. UNCHANGED <<run, answers, tasks, fresh, held, lost>>
      BY <2>3, StutterFacts
    <3>2. Traced(q, n)
      BY <1>0, <1>1, <3>1
    <3>. QED  BY <3>1, <3>2 DEF Traced, InTransit, CopyOf, Unread
  <2>. QED  BY <2>1, <2>2, <2>3, NextCases
<1>2. Traceable'
  BY <1>1 DEF Traceable, Traced, InTransit
<1>. QED  BY <1>0, <1>2 DEF TraceInv

\* A node a run waits for is in the stream, with a worker, in an unread entry, in the
\* queue, or Redis refused a worker's answer to it: for any number of runs in the process,
\* and whatever crashes, stalls or stops.
THEOREM NothingIsLost == Spec => []Traceable
<1>1. Init => TraceInv
  BY TraceInit
<1>2. TraceInv /\ [Next]_vars => TraceInv'
  BY TraceStep
<1>. QED  BY <1>1, <1>2, PTL DEF Spec, TraceInv

-----------------------------------------------------------------------------
(* A node is executed again only for a worker that was pruned *)

Budget(r, n) == run[r].retries[n] + run[r].again[n]

\* But for the failure detector, no step of the scheduler adds to what a run may
\* dispatch again.
LEMMA BudgetStep ==
    ASSUME TypeOK, TypeOK', NEW r \in Runs, Submit(r) \/ SchedulerStep(r) \/ GiveUp(r)
    PROVE  /\ registered' = registered
           /\ \A n \in Nodes : Budget(r, n)' <= Budget(r, n)
           /\ \A m \in tasks' \ tasks : m.node \in Nodes /\ m.nth <= Budget(r, m.node)
<1>. DEFINE R == run[r]
            Q == run'[r]
            Goal == /\ registered' = registered
                    /\ \A n \in Nodes : Q.retries[n] + Q.again[n] <= R.retries[n] + R.again[n]
                    /\ \A m \in tasks' \ tasks :
                        m.node \in Nodes /\ m.nth <= R.retries[m.node] + R.again[m.node]
<1>0. /\ R \in Run /\ run \in [Runs -> Run]
      /\ R.again \in [Nodes -> Nat] /\ R.retries \in [Nodes -> Nat]
      /\ \A n \in Nodes : R.again[n] \in Nat /\ R.retries[n] \in Nat /\ None0[n] = 0
  BY RunFields DEF TypeOK, SchedTypeOK, None0
<1>1. CASE UNCHANGED <<tasks, registered>> /\ Q.retries = R.retries /\ Q.again = R.again
  BY <1>0, <1>1 DEF Budget
<1>2. CASE Submit(r)
  <2>1. UNCHANGED <<tasks, registered>> /\ Q.retries = R.retries /\ Q.again = R.again
    BY <1>0, <1>2 DEF Submit, Run, poolVars
  <2>. QED  BY <1>1, <2>1
<1>3. CASE OpenSpawns(r)
  <2>1. PICK i : run' = [run EXCEPT ![r] = [@ EXCEPT !.opened = i, !.todo = answers[r][i].spawns]]
    BY <1>3 DEF OpenSpawns
  <2>2. UNCHANGED <<tasks, registered>> /\ Q.retries = R.retries /\ Q.again = R.again
    BY <1>0, <1>3, <2>1 DEF OpenSpawns, Run, poolVars
  <2>. QED  BY <1>1, <2>2
<1>4. CASE MergeSpawn(r)
  <2>1. UNCHANGED <<tasks, registered>> /\ Q.retries = R.retries /\ Q.again = R.again
    BY <1>0, <1>4 DEF MergeSpawn, Run, poolVars
  <2>. QED  BY <1>1, <2>1
<1>5. CASE ReadResults(r)
  <2>1. UNCHANGED <<tasks, registered>> /\ Q.retries = R.retries /\ Q.again = R.again
    BY <1>0, <1>5 DEF ReadResults, Run
  <2>. QED  BY <1>1, <2>1
<1>6. CASE DropStale(r)
  <2>1. /\ UNCHANGED <<tasks, registered>> /\ Q.retries = R.retries
        /\ Q.again = [l \in Nodes |-> IF l \in NoPending(r) THEN 0 ELSE R.again[l]]
    BY <1>0, <1>6 DEF DropStale, Run, poolVars
  <2>. QED  BY <1>0, <2>1 DEF Budget
<1>7. ASSUME NEW l \in Nodes, Reschedule(r, l) PROVE Goal
  <2>0. R.again[l] > 0
    BY <1>7 DEF Reschedule
  <2>1. CASE /\ Dispatch(r, {l}, [R.retries EXCEPT ![l] = @ + 1])
             /\ run' = [run EXCEPT ![r] = [@ EXCEPT !.again[l] = R.again[l] - 1,
                                                    !.retries[l] = R.retries[l] + 1]]
    <3>1. /\ Q.again = [R.again EXCEPT ![l] = R.again[l] - 1]
          /\ Q.retries = [R.retries EXCEPT ![l] = R.retries[l] + 1]
      BY <1>0, <2>1 DEF Run
    <3>2. \A n \in Nodes : Q.retries[n] + Q.again[n] <= R.retries[n] + R.again[n]
      BY <1>0, <2>0, <3>1
    <3>3. \A m \in tasks' \ tasks : m.node = l /\ m.nth = R.retries[l] + 1
      BY <1>0, <2>1 DEF Dispatch, Copy
    <3>4. R.retries[l] + 1 <= R.retries[l] + R.again[l]
      BY <1>0, <2>0
    <3>5. registered' = registered
      BY <2>1 DEF Dispatch
    <3>. QED  BY <3>2, <3>3, <3>4, <3>5
  <2>2. CASE /\ run' = [run EXCEPT ![r] = [@ EXCEPT !.again[l] = R.again[l] - 1,
                                                    !.out[l] = "failed",
                                                    !.pending = R.pending \ {l}]]
             /\ UNCHANGED <<tasks, selected, poolVars>>
    <3>1. Q.again = [R.again EXCEPT ![l] = R.again[l] - 1] /\ Q.retries = R.retries
      BY <1>0, <2>2 DEF Run
    <3>2. \A n \in Nodes : Q.retries[n] + Q.again[n] <= R.retries[n] + R.again[n]
      BY <1>0, <2>0, <3>1
    <3>. QED  BY <2>2, <3>2 DEF poolVars
  <2>. QED  BY <1>7, <2>1, <2>2 DEF Reschedule
<1>8. CASE NextLayer(r)
  <2>1. Q.retries = None0 /\ Q.again = R.again /\ Dispatch(r, NextNodes(r), None0)
    BY <1>0, <1>8 DEF NextLayer, Run
  <2>2. \A m \in tasks' \ tasks : m.node \in Nodes /\ m.nth = None0[m.node]
    BY <2>1, DispatchEffect, LayerFacts
  <2>3. registered' = registered
    BY <2>1 DEF Dispatch
  <2>4. \A n \in Nodes : Q.retries[n] + Q.again[n] <= R.retries[n] + R.again[n]
    BY <1>0, <2>1
  <2>5. \A m \in tasks' \ tasks : m.nth <= R.retries[m.node] + R.again[m.node]
    BY <1>0, <2>2
  <2>. QED  BY <2>2, <2>3, <2>4, <2>5 DEF Budget
<1>9. CASE Complete(r) \/ Abort(r) \/ GiveUp(r)
  <2>1. ASSUME NEW how, NEW final, End(r, how, final)
        PROVE  UNCHANGED <<tasks, registered>> /\ Q.retries = None0 /\ Q.again = None0
    BY <1>0, <2>1 DEF End, Run, poolVars
  <2>2. UNCHANGED <<tasks, registered>> /\ Q.retries = None0 /\ Q.again = None0
    BY <1>9, <2>1 DEF Complete, Abort, GiveUp
  <2>3. \A n \in Nodes : Q.retries[n] + Q.again[n] <= R.retries[n] + R.again[n]
    BY <1>0, <2>2
  <2>. QED  BY <2>2, <2>3 DEF Budget
<1>. QED
  BY <1>2, <1>3, <1>4, <1>5, <1>6, <1>7, <1>8, <1>9 DEF SchedulerStep, Budget

\* A worker is pruned once, as one joins once; every copy of a task but the first, sent or
\* still to be sent, is paid for by a worker that was pruned.
CountInv ==
    /\ TypeInv
    /\ registered \intersect pruned = {}
    /\ \A w \in registered \union pruned : mode[w] # "new"
    /\ \A m \in Messages : m.nth <= Cardinality(pruned)
    /\ \A r \in Runs, n \in Nodes : Budget(r, n) <= Cardinality(pruned)

LEMMA CountTypes ==
    ASSUME TypeInv
    PROVE  /\ Dead \subseteq registered /\ registered \subseteq Workers /\ pruned \subseteq Workers
           /\ IsFiniteSet(pruned) /\ Cardinality(pruned) \in Nat
           /\ IsFiniteSet(Dead) /\ Cardinality(Dead) \in Nat
           /\ \A n \in Nodes : Orphans[n] \in Nat /\ Orphans[n] <= Cardinality(Dead)
           /\ \A m \in Messages : m.nth \in Nat
           /\ \A r \in Runs, n \in Nodes : Budget(r, n) \in Nat
<1>1. /\ Dead \subseteq registered /\ registered \subseteq Workers /\ pruned \subseteq Workers
      /\ IsFiniteSet(Workers)
  BY GraphAssumption DEF TypeInv, TypeOK, SchedTypeOK, PoolTypeOK, Dead
<1>2. /\ IsFiniteSet(pruned) /\ Cardinality(pruned) \in Nat
      /\ IsFiniteSet(Dead) /\ Cardinality(Dead) \in Nat
  BY <1>1, FS_Subset, FS_CardinalityType
<1>3. \A n \in Nodes : Orphans[n] \in Nat /\ Orphans[n] <= Cardinality(Dead)
  <2>. SUFFICES ASSUME NEW n \in Nodes PROVE Orphans[n] \in Nat /\ Orphans[n] <= Cardinality(Dead)
    OBVIOUS
  <2>. DEFINE T == {w \in Dead : n \in inflight[w]}
  <2>1. T \in SUBSET Dead
    OBVIOUS
  <2>2. IsFiniteSet(T) /\ Cardinality(T) <= Cardinality(Dead) /\ Cardinality(T) \in Nat
    BY <1>2, <2>1, FS_Subset, FS_CardinalityType
  <2>. QED  BY <2>2 DEF Orphans
<1>4. \A m \in Messages : m.nth \in Nat
  BY MessagesTyped DEF TypeInv, Message
<1>5. \A r \in Runs, n \in Nodes : Budget(r, n) \in Nat
  BY RunFields DEF TypeInv, Budget
<1>. QED  BY <1>1, <1>2, <1>3, <1>4, <1>5

LEMMA CountStep ==
    ASSUME CountInv, [Next]_vars
    PROVE  CountInv'
<1>0. TypeInv /\ TypeInv' /\ TypeOK /\ TypeOK' /\ Cardinality(pruned) \in Nat
  BY TypeStep, CursorStep, CountTypes DEF CountInv, TypeInv
<1>1. ASSUME NEW r \in Runs, Submit(r) \/ SchedulerStep(r) \/ GiveUp(r),
             UNCHANGED <<mode, fresh, held, busy, faults, ran, won, pruned, lost>>
      PROVE  CountInv'
  <2>1. /\ registered' = registered
        /\ \A n \in Nodes : Budget(r, n)' <= Budget(r, n)
        /\ \A m \in tasks' \ tasks : m.node \in Nodes /\ m.nth <= Budget(r, m.node)
        /\ Messages' \subseteq Messages \union (tasks' \ tasks)
        /\ \A q \in Runs \ {r} : run'[q] = run[q]
    <3>1. Messages' \subseteq Messages \union (tasks' \ tasks)
      BY <1>1 DEF Messages
    <3>2. \A q \in Runs \ {r} : run'[q] = run[q]
      BY <1>0, <1>1, OwnRun
    <3>. QED  BY <1>0, <1>1, <3>1, <3>2, BudgetStep
  <2>2. ASSUME NEW m \in Messages' PROVE m.nth <= Cardinality(pruned)
    <3>1. CASE m \in Messages
      BY <3>1 DEF CountInv
    <3>2. CASE m \in tasks' \ tasks
      <4>1. m.nth <= Budget(r, m.node) /\ Budget(r, m.node) <= Cardinality(pruned)
        BY <2>1, <3>2 DEF CountInv
      <4>2. m.nth \in Nat /\ Budget(r, m.node) \in Nat
        <5>1. m \in Message
          BY <1>0, <3>2 DEF TypeOK, SchedTypeOK
        <5>. QED  BY <1>0, <2>1, <3>2, <5>1, CountTypes DEF Message
      <4>. QED  BY <1>0, <4>1, <4>2
    <3>. QED  BY <2>1, <3>1, <3>2
  <2>3. ASSUME NEW q \in Runs, NEW n \in Nodes PROVE Budget(q, n)' <= Cardinality(pruned)
    <3>1. Budget(q, n) \in Nat /\ Budget(q, n) <= Cardinality(pruned)
      BY <1>0, CountTypes DEF CountInv
    <3>2. Budget(q, n)' \in Nat
      <4>1. run'[q] \in Run
        BY <1>0 DEF TypeOK, SchedTypeOK
      <4>. QED  BY <4>1 DEF Budget, Run
    <3>3. CASE q # r
      BY <2>1, <3>1, <3>3 DEF Budget
    <3>4. CASE q = r
      <4>1. Budget(q, n)' <= Budget(q, n)
        BY <2>1, <3>4
      <4>. QED  BY <1>0, <3>1, <3>2, <4>1
    <3>. QED  BY <3>3, <3>4
  <2>. QED  BY <1>0, <1>1, <2>1, <2>2, <2>3 DEF CountInv
<1>2. ASSUME NEW r \in Runs, DetectFailures(r), pruned' = pruned \union Dead,
             UNCHANGED <<mode, fresh, held, busy, faults, ran, won, lost>>
      PROVE  CountInv'
  <2>1. /\ registered' = registered \ Dead /\ tasks' = tasks /\ Messages' = Messages
        /\ run' = [run EXCEPT ![r].again = [n \in Nodes |-> @[n] + Orphans[n]]]
    BY <1>2 DEF DetectFailures, Prune, Messages
  <2>2. pruned \intersect Dead = {} /\ Dead \subseteq registered
    BY <1>0, CountTypes DEF CountInv
  <2>3. Cardinality(pruned') = Cardinality(pruned) + Cardinality(Dead) /\ Cardinality(Dead) \in Nat
    <3>1. Cardinality(pruned \union Dead)
            = Cardinality(pruned) + Cardinality(Dead) - Cardinality(pruned \intersect Dead)
      BY <1>0, CountTypes, FS_Union
    <3>2. Cardinality(pruned \intersect Dead) = 0
      BY <2>2, FS_EmptySet
    <3>. QED  BY <1>0, <1>2, <3>1, <3>2, CountTypes
  <2>4. ASSUME NEW m \in Messages PROVE m.nth <= Cardinality(pruned')
    BY <1>0, <2>3, CountTypes DEF CountInv
  <2>5. ASSUME NEW q \in Runs, NEW n \in Nodes PROVE Budget(q, n)' <= Cardinality(pruned')
    <3>1. Budget(q, n) \in Nat /\ Budget(q, n) <= Cardinality(pruned)
      BY <1>0, CountTypes DEF CountInv
    <3>2. CASE q # r
      <4>1. Budget(q, n)' = Budget(q, n)
        BY <1>0, <1>2, <3>2, OwnRun DEF Budget
      <4>. QED  BY <1>0, <2>3, <3>1, <4>1
    <3>3. CASE q = r
      <4>1. /\ run[r] \in Run /\ run \in [Runs -> Run]
            /\ run[r].retries[n] \in Nat /\ run[r].again[n] \in Nat
        BY <1>0, RunFields DEF TypeOK, SchedTypeOK
      <4>2. run'[r].retries = run[r].retries /\ run'[r].again[n] = run[r].again[n] + Orphans[n]
        BY <2>1, <4>1 DEF Run
      <4>3. Orphans[n] \in Nat /\ Orphans[n] <= Cardinality(Dead)
        BY <1>0, CountTypes
      <4>. QED  BY <1>0, <2>3, <3>1, <3>3, <4>1, <4>2, <4>3 DEF Budget
    <3>. QED  BY <3>2, <3>3
  <2>6. \A w \in registered' \union pruned' : mode'[w] # "new"
    BY <1>2, <2>1, <2>2 DEF CountInv
  <2>7. registered' \intersect pruned' = {}
    BY <1>2, <2>1 DEF CountInv
  <2>. QED  BY <1>0, <2>1, <2>4, <2>5, <2>6, <2>7 DEF CountInv
<1>3. CASE WorkerNext
  <2>1. UNCHANGED <<run, pruned>> /\ Messages' \subseteq Messages
    BY <1>0, <1>3, WorkerFacts
  <2>2. /\ \A v \in registered' : v \in registered \/ (mode[v] = "new" /\ mode'[v] # "new")
        /\ \A v \in Workers : mode[v] # "new" => mode'[v] # "new"
        /\ registered \subseteq Workers /\ pruned \subseteq Workers
    BY <1>0, <1>3, WorkerMembership, CountTypes
  <2>3. registered' \intersect pruned' = {} /\ \A w \in registered' \union pruned' : mode'[w] # "new"
    BY <2>1, <2>2 DEF CountInv
  <2>. QED  BY <1>0, <2>1, <2>3 DEF CountInv, Budget
<1>4. CASE UNCHANGED vars
  <2>1. UNCHANGED <<run, pruned, registered, mode, Messages>>
    BY <1>4, StutterFacts DEF Messages
  <2>. QED  BY <1>0, <2>1 DEF CountInv, Budget
<1>. QED  BY <1>1, <1>2, <1>3, <1>4, NextCases

LEMMA CountInit == Init => CountInv
<1>. SUFFICES ASSUME Init PROVE CountInv
  OBVIOUS
<1>1. TypeInv
  BY TypeInit DEF Init, SchedInit, ReadSoFar, TypeInv
<1>2. Messages = {} /\ registered = {} /\ pruned = {}
  BY DEF Init, SchedInit, PoolInit, Messages
<1>3. \A r \in Runs, n \in Nodes : Budget(r, n) = 0
  BY DEF Init, SchedInit, Budget, None0
<1>4. Cardinality(pruned) = 0
  BY <1>2, FS_EmptySet
<1>. QED  BY <1>1, <1>2, <1>3, <1>4 DEF CountInv

\* A node is executed at most once per submission, and once more for each worker that was
\* pruned, by whatever run of the process: stalls, crashes and late answers of any number
\* of workers never make the scheduler dispatch a node without a prune to pay for it.
THEOREM ExecutedOncePerPrune == Spec => []OneExecution
<1>1. CountInv => OneExecution
  <2>. SUFFICES ASSUME CountInv, NEW r \in Runs, NEW n \in Nodes
                PROVE  Cardinality({m \in ran : CopyOf(m, r, n)}) <= 1 + Cardinality(pruned)
    BY DEF OneExecution
  <2>. DEFINE S == {m \in ran : CopyOf(m, r, n)}
              T == 0 .. Cardinality(pruned)
              nth == [m \in S |-> m.nth]
  <2>1. Cardinality(pruned) \in Nat /\ IsFiniteSet(T) /\ Cardinality(T) = Cardinality(pruned) + 1
    BY CountTypes, FS_Interval DEF CountInv
  <2>2. \A m \in S : m \in Message /\ m.nth \in T
    <3>1. ran \subseteq Messages /\ ran \subseteq Message
      BY DEF Messages, CountInv, TypeInv, TypeOK
    <3>. QED  BY <2>1, <3>1, CountTypes DEF CountInv
  <2>3. nth \in Injection(S, T)
    <3>1. \A k, l \in S : k.nth = l.nth => k = l
      BY <2>2 DEF CopyOf, Message
    <3>. HIDE DEF S, T
    <3>. QED  BY <2>2, <3>1 DEF Injection, IsInjective
  <2>4. IsFiniteSet(S) /\ Cardinality(S) <= Cardinality(T)
    <3>. HIDE DEF S, T, nth
    <3>. QED  BY <2>1, <2>3, FS_Injection
  <2>. QED  BY <2>1, <2>4
<1>2. CountInv /\ [Next]_vars => CountInv'
  BY CountStep
<1>. QED  BY <1>1, <1>2, CountInit, PTL DEF Spec

-----------------------------------------------------------------------------
(* A success is earned *)

\* Among the messages of W, executed with success, is one of node n for submission g of r.
WonBy(W, r, g, n) == \E m \in W : m.run = r /\ m.gen = g /\ m.node = n

\* Entry e of the stream of r, which was submitted last times, belongs to one of these
\* submissions and says success only when there is such a message.
Honest(W, r, last, e) ==
    /\ 1 <= e.gen /\ e.gen <= last
    /\ e.status = "success" => WonBy(W, r, e.gen, e.node)

EarnInv ==
    /\ GraphInv
    /\ \A r \in Runs : /\ run[r].gen <= MaxSubmits
                       /\ Current(run[r]) => 1 <= run[r].gen
    /\ \A m \in Messages : 1 <= m.gen
    /\ \A r \in Runs : \A i \in 1 .. Len(answers[r]) : Honest(won, r, run[r].gen, answers[r][i])
    /\ \A r \in Runs, n \in Nodes : run[r].out[n] = "success" => WonBy(won, r, run[r].gen, n)

\* A success among the results of a run is read from its stream.
LEMMA SuccessSource ==
    ASSUME TypeInv, NEW r \in Runs, SchedulerStep(r) \/ GiveUp(r) \/ DetectFailures(r),
           NEW n \in Nodes, run'[r].out[n] = "success"
    PROVE  \/ run[r].out[n] = "success"
           \/ \E i \in 1 .. Len(answers[r]) : answers[r][i].node = n /\ answers[r][i].status = "success"
<1>. DEFINE R == run[r]
            Q == run'[r]
<1>0. R \in Run /\ run \in [Runs -> Run] /\ R.out \in [Nodes -> Outcome] /\ TypeOK
  BY RunFields DEF TypeInv, TypeOK, SchedTypeOK
<1>1. CASE Q.out = R.out
  BY <1>1
<1>2. ASSUME NEW l \in Nodes, Reschedule(r, l) PROVE R.out[n] = "success"
  <2>1. CASE run' = [run EXCEPT ![r] = [@ EXCEPT !.again[l] = R.again[l] - 1,
                                                 !.retries[l] = R.retries[l] + 1]]
    <3>1. Q.out = R.out
      BY <1>0, <2>1 DEF Run
    <3>. QED  BY <3>1
  <2>2. CASE run' = [run EXCEPT ![r] = [@ EXCEPT !.again[l] = R.again[l] - 1,
                                                 !.out[l] = "failed",
                                                 !.pending = R.pending \ {l}]]
    <3>1. Q.out = [R.out EXCEPT ![l] = "failed"]
      BY <1>0, <2>2 DEF Run
    <3>. QED  BY <1>0, <3>1
  <2>. QED  BY <1>2, <2>1, <2>2 DEF Reschedule
<1>3. CASE ReadResults(r)
  <2>1. Q.out[n] = IF n \in Told(r) THEN answers[r][Latest(r, n)].status ELSE R.out[n]
    BY <1>0, <1>3 DEF ReadResults, Run
  <2>2. CASE n \in Told(r)
    <3>1. Latest(r, n) \in Expected(r) /\ answers[r][Latest(r, n)].node = n
      BY <1>0, <2>2, LatestFacts
    <3>2. Latest(r, n) \in 1 .. Len(answers[r])
      BY <1>0, <3>1, ExpectedFacts
    <3>. QED  BY <2>1, <2>2, <3>1, <3>2
  <2>. QED  BY <2>1, <2>2
<1>4. CASE DropStale(r) \/ DetectFailures(r)
  BY <1>0, <1>1, <1>4 DEF DropStale, DetectFailures, Run
<1>5. CASE OpenSpawns(r)
  <2>1. PICK i : run' = [run EXCEPT ![r] = [@ EXCEPT !.opened = i, !.todo = answers[r][i].spawns]]
    BY <1>5 DEF OpenSpawns
  <2>2. Q.out = R.out
    BY <1>0, <2>1 DEF Run
  <2>. QED  BY <1>1, <2>2
<1>6. CASE MergeSpawn(r)
  <2>1. Q.out = R.out
    BY <1>0, <1>6 DEF MergeSpawn, Run
  <2>. QED  BY <1>1, <2>1
<1>7. CASE NextLayer(r)
  <2>1. Q.out = R.out
    BY <1>0, <1>7 DEF NextLayer, Run
  <2>. QED  BY <1>1, <2>1
<1>8. CASE Complete(r) \/ Abort(r) \/ GiveUp(r)
  <2>1. ASSUME NEW how, NEW final, End(r, how, final) PROVE Q.out = final
    BY <1>0, <2>1 DEF End, Run
  <2>2. \/ Q.out = R.out
        \/ Q.out = [l \in Nodes |-> IF R.out[l] = "pending" THEN "skipped" ELSE R.out[l]]
    BY <1>8, <2>1 DEF Complete, Abort, GiveUp
  <2>. QED  BY <1>1, <2>2
<1>. QED
  BY <1>2, <1>3, <1>4, <1>5, <1>6, <1>7, <1>8 DEF SchedulerStep

LEMMA EarnScheduler ==
    ASSUME EarnInv, GraphInv', MaxSubmits <= 1, NEW r \in Runs,
           Submit(r) \/ SchedulerStep(r) \/ GiveUp(r) \/ DetectFailures(r),
           UNCHANGED <<fresh, held, busy, ran, won>>
    PROVE  EarnInv'
<1>0. /\ GraphInv /\ TypeInv /\ TypeOK /\ TypeOK' /\ RunOK(run[r])
      /\ run[r].gen \in Nat /\ MaxSubmits \in Nat
      /\ \A q \in Runs \ {r} : run'[q] = run[q] /\ answers'[q] = answers[q]
      /\ answers'[r] = answers[r] \/ answers'[r] = <<>>
      /\ Messages' \subseteq Messages \union (tasks' \ tasks)
  <2>1. Messages' \subseteq Messages \union (tasks' \ tasks)
    BY DEF Messages
  <2>2. GraphInv /\ TypeInv /\ TypeOK /\ TypeOK' /\ RunOK(run[r])
    BY DEF EarnInv, GraphInv, TypeInv
  <2>. QED  BY <2>1, <2>2, OwnRun, RunFields, GraphAssumption
<1>1. /\ run'[r].gen <= MaxSubmits
      /\ run[r].gen <= run'[r].gen
      /\ Current(run'[r]) => 1 <= run'[r].gen
      /\ \A m \in tasks' \ tasks : 1 <= m.gen
  <2>1. CASE Submit(r)
    <3>1. run'[r].gen = run[r].gen + 1 /\ tasks' = tasks /\ run[r].gen < MaxSubmits
      BY <1>0, <2>1, GraphSubmit DEF Submit
    <3>. QED  BY <1>0, <3>1
  <2>2. CASE ~ Submit(r)
    <3>1. /\ Current(run[r]) /\ run'[r].gen = run[r].gen
          /\ \A m \in tasks' \ tasks : m.gen = run[r].gen
      BY <1>0, <2>2, GraphStep DEF StepEffect
    <3>2. 1 <= run[r].gen /\ run[r].gen <= MaxSubmits
      BY <3>1 DEF EarnInv
    <3>. QED  BY <1>0, <3>1, <3>2
  <2>. QED  BY <2>1, <2>2
<1>2. won' = won
  OBVIOUS
<1>3. ASSUME NEW q \in Runs, NEW i \in 1 .. Len(answers'[q])
      PROVE  Honest(won', q, run'[q].gen, answers'[q][i])
  <2>1. CASE q # r
    <3>1. Honest(won, q, run[q].gen, answers[q][i])
      BY <1>0, <1>3, <2>1 DEF EarnInv
    <3>. QED  BY <1>0, <2>1, <3>1 DEF Honest, WonBy
  <2>2. CASE q = r
    <3>1. answers'[r] = answers[r]
      <4>1. Len(<<>>) = 0
        OBVIOUS
      <4>. QED  BY <1>0, <1>3, <2>2, <4>1
    <3>2. Honest(won, r, run[r].gen, answers[r][i]) /\ answers[r][i].gen \in Nat
      BY <1>0, <1>3, <2>2, <3>1, AnswerFields DEF EarnInv
    <3>3. answers'[r][i].gen <= run'[r].gen
      <4>1. run'[r].gen \in Nat
        BY <1>0 DEF TypeOK, SchedTypeOK, Run
      <4>. QED  BY <1>0, <1>1, <3>1, <3>2, <4>1 DEF Honest
    <3>. QED  BY <2>2, <3>1, <3>2, <3>3 DEF Honest, WonBy
  <2>. QED  BY <2>1, <2>2
<1>4. ASSUME NEW q \in Runs, NEW n \in Nodes, run'[q].out[n] = "success"
      PROVE  WonBy(won, q, run'[q].gen, n)
  <2>1. CASE q # r
    BY <1>0, <1>4, <2>1 DEF EarnInv
  <2>2. CASE q = r /\ Submit(r)
    <3>1. run'[r].out[n] \in {"pending", "absent"}
      BY <1>0, <2>2, GraphSubmit, ZenonT(60)
    <3>. QED  BY <1>4, <2>2, <3>1
  <2>3. CASE q = r /\ ~ Submit(r)
    <3>1. run'[r].gen = run[r].gen
      BY <1>0, <2>3, GraphStep DEF StepEffect
    <3>2. CASE run[r].out[n] = "success"
      BY <2>3, <3>1, <3>2 DEF EarnInv
    <3>3. ASSUME NEW i \in 1 .. Len(answers[r]), answers[r][i].node = n, answers[r][i].status = "success"
          PROVE  WonBy(won, q, run'[q].gen, n)
      <4>1. Honest(won, r, run[r].gen, answers[r][i]) /\ answers[r][i].gen \in Nat
        BY <1>0, <3>3, AnswerFields DEF EarnInv
      <4>2. answers[r][i].gen = run[r].gen
        <5>1. 1 <= answers[r][i].gen /\ answers[r][i].gen <= run[r].gen /\ run[r].gen <= MaxSubmits
          BY <4>1 DEF Honest, EarnInv
        <5>. QED  BY <1>0, <4>1, <5>1
      <4>. QED  BY <2>3, <3>1, <3>3, <4>1, <4>2 DEF Honest
    <3>. QED  BY <1>0, <1>4, <2>3, <3>2, <3>3, SuccessSource
  <2>. QED  BY <2>1, <2>2, <2>3
<1>5. \A q \in Runs, n \in Nodes : run'[q].out[n] = "success" => WonBy(won', q, run'[q].gen, n)
  BY <1>2, <1>4
<1>6. \A m \in Messages' : 1 <= m.gen
  BY <1>0, <1>1 DEF EarnInv
<1>7. \A q \in Runs : run'[q].gen <= MaxSubmits /\ (Current(run'[q]) => 1 <= run'[q].gen)
  BY <1>0, <1>1 DEF EarnInv
<1>. QED  BY <1>0, <1>3, <1>5, <1>6, <1>7 DEF EarnInv

LEMMA EarnWorker ==
    ASSUME EarnInv, GraphInv', WorkerNext
    PROVE  EarnInv'
<1>0. /\ GraphInv /\ TypeOK /\ UNCHANGED run /\ Messages' \subseteq Messages /\ won \subseteq won'
  BY WorkerFacts DEF EarnInv, GraphInv, TypeInv
<1>1. \A r, g, n : WonBy(won, r, g, n) => WonBy(won', r, g, n)
  BY <1>0 DEF WonBy
<1>3. ASSUME NEW r \in Runs, NEW i \in 1 .. Len(answers'[r]) PROVE Honest(won', r, run'[r].gen, answers'[r][i])
  <2>1. CASE UNCHANGED answers
    <3>1. Honest(won, r, run[r].gen, answers[r][i])
      BY <1>3, <2>1 DEF EarnInv
    <3>. QED  BY <1>0, <1>1, <2>1, <3>1 DEF Honest
  <2>2. ASSUME NEW m \in Messages, NEW e \in Answer, Posted(m, e) PROVE Honest(won', r, run'[r].gen, answers'[r][i])
    <3>1. m \in Message /\ Prepared(m) /\ 1 <= m.gen
      BY <1>0, MessagesTyped DEF EarnInv, GraphInv
    <3>2. answers \in [Runs -> Seq(Answer)] /\ answers[r] \in Seq(Answer) /\ Len(answers[r]) \in Nat
      BY <1>0, AnswerFields DEF TypeOK, SchedTypeOK
    <3>3. CASE m.run # r
      <4>1. answers'[r] = answers[r]
        BY <2>2, <3>2, <3>3 DEF Posted
      <4>2. Honest(won, r, run[r].gen, answers[r][i])
        BY <1>3, <4>1 DEF EarnInv
      <4>. QED  BY <1>0, <1>1, <4>1, <4>2 DEF Honest
    <3>4. CASE m.run = r
      <4>1. answers'[r] = Append(answers[r], e)
        BY <2>2, <3>2, <3>4 DEF Posted
      <4>2. /\ Len(answers'[r]) = Len(answers[r]) + 1
            /\ \A j \in 1 .. Len(answers[r]) : answers'[r][j] = answers[r][j]
            /\ answers'[r][Len(answers[r]) + 1] = e
        BY <3>2, <4>1, AppendProperties
      <4>3. CASE i \in 1 .. Len(answers[r])
        <5>1. Honest(won, r, run[r].gen, answers[r][i]) /\ answers'[r][i] = answers[r][i]
          BY <4>2, <4>3 DEF EarnInv
        <5>. QED  BY <1>0, <1>1, <5>1 DEF Honest
      <4>4. CASE i = Len(answers[r]) + 1
        <5>1. /\ answers'[r][i] = e /\ e.node = m.node /\ e.gen = m.gen
              /\ e.status = "success" => m \in won'
          BY <2>2, <4>2, <4>4 DEF Posted
        <5>2. 1 <= e.gen /\ e.gen <= run'[r].gen
          BY <1>0, <3>1, <3>4, <5>1 DEF Prepared
        <5>3. e.status = "success" => WonBy(won', r, e.gen, e.node)
          BY <3>4, <5>1 DEF WonBy
        <5>. QED  BY <5>1, <5>2, <5>3 DEF Honest
      <4>. QED  BY <1>3, <3>2, <4>2, <4>3, <4>4
    <3>. QED  BY <3>3, <3>4
  <2>. QED  BY <1>0, <2>1, <2>2, WorkerFacts
<1>4. \A r \in Runs, n \in Nodes : run'[r].out[n] = "success" => WonBy(won', r, run'[r].gen, n)
  BY <1>0, <1>1 DEF EarnInv
<1>. QED  BY <1>0, <1>3, <1>4 DEF EarnInv

LEMMA EarnStep ==
    ASSUME EarnInv, MaxSubmits <= 1, [Next]_vars
    PROVE  EarnInv'
<1>0. GraphInv'
  BY GraphInvStep DEF EarnInv
<1>1. CASE UNCHANGED vars
  <2>1. UNCHANGED <<run, answers, won, Messages>>
    BY <1>1, StutterFacts DEF Messages
  <2>. QED  BY <1>0, <2>1 DEF EarnInv, Honest, WonBy
<1>. QED  BY <1>0, <1>1, NextCases, EarnScheduler, EarnWorker

LEMMA EarnInit == Init => EarnInv
<1>. SUFFICES ASSUME Init PROVE EarnInv
  OBVIOUS
<1>1. Messages = {} /\ \A r \in Runs : /\ answers[r] = <<>> /\ run[r].gen = 0 /\ run[r].phase = "idle"
                                       /\ \A n \in Nodes : run[r].out[n] = "absent"
  BY DEF Init, SchedInit, Messages
<1>2. MaxSubmits \in Nat
  BY GraphAssumption
<1>. QED  BY <1>1, <1>2, GraphInvInit DEF EarnInv, Current

\* When a run id is submitted once, a node that is reported as successful was executed
\* successfully for that run: no late, duplicate, failed or cancelled answer of any
\* worker, nor another run's, is taken for it.
THEOREM SuccessOnlyIfEarned ==
    ASSUME MaxSubmits <= 1
    PROVE  Spec => []SuccessIsEarned
<1>1. EarnInv => SuccessIsEarned
  BY DEF EarnInv, SuccessIsEarned, WonBy, CopyOf
<1>2. EarnInv /\ [Next]_vars => EarnInv'
  BY EarnStep
<1>. QED  BY <1>1, <1>2, EarnInit, PTL DEF Spec

-----------------------------------------------------------------------------
(* The layering of a submitted graph: KahnLayers                              *)

KahnTypeOK ==
    /\ times \in [Ids -> [Ids \union {Unknown} -> 0..MaxTimes]]
    /\ in_degree \in [Ids -> Int]
    /\ ready \subseteq Ids /\ next_ready \subseteq Ids /\ visited \subseteq Ids
    /\ layers \in Seq(SUBSET Ids)
    /\ outcome \in {"counting", "layering", "layers", "unknown", "cycle"}

\* Every dependency names a node.
Named == \A n \in Ids : Unknown \notin DepsOf(n)

\* The nodes whose dependents have been released, and the nodes outside the layers
\* that wait for nothing else.
Released == visited \ ready
FreeAfter(S) == {n \in Ids \ visited : DepsOf(n) \subseteq S}

\* A node's degree is the number of its entries that are not released yet; the next
\* layer holds what the released nodes free, and a layer that is not recorded yet is
\* what all the visited ones free.
DegreesCount ==
    /\ \A n \in Ids : in_degree[n] = Cardinality(Listed(n, Ids \ Released))
    /\ ready \subseteq visited => next_ready = FreeAfter(Released)
    /\ ~ ready \subseteq visited => next_ready = {} /\ ready = FreeAfter(visited)

\* The visited nodes are those of the layers, they need only each other, and there is
\* no cycle among them.
VisitedClosed ==
    /\ visited = UNION {layers[i] : i \in 1 .. Len(layers)}
    /\ \A n \in visited : DepsOf(n) \subseteq visited
    /\ \A S \in SUBSET visited : S # {} => \E n \in S : DepsOf(n) \intersect S = {}

EndsRight ==
    /\ outcome \in {"layers", "cycle"} => ready = {} /\ next_ready = {}
    /\ outcome = "layers" => visited = Ids
    /\ outcome = "cycle" => visited # Ids

KahnInv ==
    /\ KahnTypeOK
    /\ outcome = "counting" =>
            ready = {} /\ next_ready = {} /\ visited = {} /\ layers = <<>>
    /\ outcome = "unknown" => layers = <<>> /\ \E n \in Ids : Unknown \in DepsOf(n)
    /\ outcome \in {"layering", "layers", "cycle"} =>
            Named /\ DegreesCount /\ VisitedClosed /\ EndsRight /\ LayersAreReadySets

\* The entries of a node are finitely many.
LEMMA ListedFinite ==
    ASSUME NEW n \in Ids, NEW S \in SUBSET Ids
    PROVE  IsFiniteSet(Listed(n, S)) /\ Cardinality(Listed(n, S)) \in Nat
<1>1. IsFiniteSet(S)
  BY KahnAssumption, FS_Subset
<1>2. IsFiniteSet(1 .. MaxTimes)
  BY KahnAssumption, FS_Interval
<1>3. IsFiniteSet(S \X (1 .. MaxTimes))
  BY <1>1, <1>2, FS_Product
<1>4. Listed(n, S) \in SUBSET (S \X (1 .. MaxTimes))
  BY DEF Listed
<1>5. IsFiniteSet(Listed(n, S))
  BY <1>3, <1>4, FS_Subset
<1>. QED  BY <1>5, FS_CardinalityType

\* A node has no entry left in S when it depends on nothing in S.
LEMMA NoneListed ==
    ASSUME KahnTypeOK, NEW n \in Ids, NEW S \in SUBSET Ids
    PROVE  Cardinality(Listed(n, S)) = 0 <=> DepsOf(n) \intersect S = {}
<1>1. Cardinality(Listed(n, S)) = 0 <=> Listed(n, S) = {}
  BY ListedFinite, FS_EmptySet
<1>2. ASSUME Listed(n, S) = {}, NEW d \in DepsOf(n) \intersect S  PROVE FALSE
  <2>1. d \in S /\ times[n][d] > 0 /\ times[n][d] \in 0 .. MaxTimes
    BY <1>2 DEF DepsOf, KahnTypeOK
  <2>2. <<d, 1>> \in S \X (1 .. MaxTimes) /\ 1 <= times[n][d]
    BY <2>1, KahnAssumption
  <2>3. <<d, 1>> \in Listed(n, S)
    BY <2>2 DEF Listed
  <2>. QED  BY <2>3, <1>2
<1>3. ASSUME DepsOf(n) \intersect S = {}, NEW e \in Listed(n, S)  PROVE FALSE
  <2>1. e[1] \in S /\ e[2] \in 1 .. MaxTimes /\ e[2] <= times[n][e[1]]
    BY DEF Listed
  <2>2. times[n][e[1]] \in 0 .. MaxTimes
    BY <2>1 DEF KahnTypeOK
  <2>3. times[n][e[1]] > 0
    BY <2>1, <2>2, KahnAssumption
  <2>4. e[1] \in DepsOf(n)
    BY <2>1, <2>3 DEF DepsOf
  <2>. QED  BY <2>1, <2>4, <1>3
<1>. QED  BY <1>1, <1>2, <1>3

\* The entries that name one node are as many as the times it is listed.
LEMMA EntriesOfOne ==
    ASSUME KahnTypeOK, NEW n \in Ids, NEW m \in Ids
    PROVE  Cardinality(Listed(n, {m})) = times[n][m]
<1>. DEFINE t == times[n][m]
            f == [k \in 1 .. t |-> <<m, k>>]
<1>1. t \in 0 .. MaxTimes
  BY DEF KahnTypeOK
<1>2. t \in Nat /\ t <= MaxTimes /\ MaxTimes \in Nat
  BY <1>1, KahnAssumption
<1>3. \A k \in 1 .. t : f[k] \in Listed(n, {m})
  BY <1>2 DEF Listed
<1>4. \A e \in Listed(n, {m}) : \E k \in 1 .. t : f[k] = e
  <2>1. TAKE e \in Listed(n, {m})
  <2>2. e[1] = m /\ e[2] \in 1 .. t /\ e = <<m, e[2]>>
    BY <1>2 DEF Listed
  <2>. QED  BY <2>2
<1>5. \A j, k \in 1 .. t : f[j] = f[k] => j = k
  OBVIOUS
<1>6. f \in [1 .. t -> Listed(n, {m})]
  BY <1>3
<1>7. f \in Bijection(1 .. t, Listed(n, {m}))
  BY <1>4, <1>5, <1>6 DEF Bijection, Injection, Surjection, IsInjective
<1>8. ExistsBijection(1 .. t, Listed(n, {m}))
  BY <1>7 DEF ExistsBijection
<1>9. IsFiniteSet(1 .. t) /\ Cardinality(1 .. t) = t
  <2>. HIDE DEF t
  <2>1. IsFiniteSet(1 .. t) /\ Cardinality(1 .. t) = IF 1 > t THEN 0 ELSE t - 1 + 1
    BY <1>2, FS_Interval
  <2>. QED  BY <1>2, <2>1
<1>. QED  BY <1>8, <1>9, FS_Bijection

\* Releasing a node takes its entries off the count.
LEMMA ReleaseCounts ==
    ASSUME KahnTypeOK, NEW n \in Ids, NEW S \in SUBSET Ids, NEW m \in S
    PROVE  Cardinality(Listed(n, S \ {m})) = Cardinality(Listed(n, S)) - times[n][m]
<1>1. IsFiniteSet(Listed(n, S))
  BY ListedFinite
<1>2. Listed(n, S \ {m}) = Listed(n, S) \ Listed(n, {m})
  BY DEF Listed
<1>3. Listed(n, S) \intersect Listed(n, {m}) = Listed(n, {m})
  BY DEF Listed
<1>4. Cardinality(Listed(n, S) \ Listed(n, {m}))
        = Cardinality(Listed(n, S)) - Cardinality(Listed(n, {m}))
  BY <1>1, <1>3, FS_Difference
<1>5. m \in Ids
  OBVIOUS
<1>. QED  BY <1>2, <1>4, <1>5, EntriesOfOne

LEMMA KahnStarts == KahnInit => KahnInv
<1>. SUFFICES ASSUME KahnInit PROVE KahnInv
  OBVIOUS
<1>1. layers \in Seq(SUBSET Ids)
  BY DEF KahnInit
<1>2. in_degree \in [Ids -> Int]
  BY DEF KahnInit
<1>. QED  BY <1>1, <1>2 DEF KahnInit, KahnInv, KahnTypeOK

LEMMA KahnCount == ASSUME KahnInv, Count PROVE KahnInv'
<1>. USE DEF Count
<1>1. KahnTypeOK /\ outcome = "counting" /\ ready = {} /\ next_ready = {} /\ visited = {}
        /\ layers = <<>>
  BY DEF KahnInv
<1>2. \A n \in Ids : DepsOf(n)' = DepsOf(n)
  BY DEF DepsOf
<1>3. CASE \E n \in Ids : times[n][Unknown] > 0
  <2>1. outcome' = "unknown" /\ in_degree' = in_degree /\ ready' = ready
    BY <1>3
  <2>2. KahnTypeOK'
    BY <1>1, <2>1 DEF KahnTypeOK
  <2>3. \E n \in Ids : Unknown \in DepsOf(n)
    BY <1>3 DEF DepsOf
  <2>4. \E n \in Ids : Unknown \in DepsOf(n)'
    BY <2>3, <1>2
  <2>. QED  BY <1>1, <2>1, <2>2, <2>4 DEF KahnInv
<1>4. CASE ~ \E n \in Ids : times[n][Unknown] > 0
  <2>1. outcome' = "layering" /\ in_degree' = [n \in Ids |-> Entries(n)]
          /\ ready' = {n \in Ids : Entries(n) = 0} /\ next_ready' = {} /\ visited' = {}
          /\ layers' = <<>> /\ times' = times
    BY <1>1, <1>4
  <2>2. \A n \in Ids : Entries(n) \in Nat /\ (Entries(n) = 0 <=> DepsOf(n) \intersect Ids = {})
    BY <1>1, ListedFinite, NoneListed DEF Entries
  <2>3. KahnTypeOK'
    <3>1. in_degree' \in [Ids -> Int]
      BY <2>1, <2>2
    <3>. QED  BY <1>1, <2>1, <3>1 DEF KahnTypeOK
  <2>4. \A n \in Ids : Unknown \notin DepsOf(n) /\ DepsOf(n) \subseteq Ids
    BY <1>4 DEF DepsOf
  <2>5. Named'
    BY <1>2, <2>4 DEF Named
  <2>6. \A n \in Ids : n \in ready' <=> DepsOf(n)' \subseteq {}
    BY <1>2, <2>1, <2>2, <2>4
  <2>7. Released' = {}
    BY <2>1 DEF Released
  <2>8. FreeAfter({})' = ready'
    BY <2>1, <2>6 DEF FreeAfter
  <2>9. \A n \in Ids : in_degree'[n] = Cardinality(Listed(n, Ids \ Released)')
    BY <2>1, <2>7 DEF Entries, Listed
  <2>10. DegreesCount'
    <3>1. FreeAfter(Released)' = ready' /\ FreeAfter(visited)' = ready'
      BY <2>1, <2>7, <2>8 DEF FreeAfter
    <3>2. ready' \subseteq visited' => ready' = {}
      BY <2>1
    <3>. QED  BY <2>1, <2>9, <3>1, <3>2 DEF DegreesCount
  <2>11. VisitedClosed' /\ LayersAreReadySets'
    BY <2>1 DEF VisitedClosed, LayersAreReadySets
  <2>12. EndsRight'
    BY <2>1 DEF EndsRight
  <2>. QED  BY <2>1, <2>3, <2>5, <2>10, <2>11, <2>12 DEF KahnInv
<1>. QED  BY <1>3, <1>4

LEMMA KahnTake == ASSUME KahnInv, TakeLayer PROVE KahnInv'
<1>. USE DEF TakeLayer
<1>1. outcome = "layering" /\ outcome' = "layering" /\ KahnTypeOK /\ Named /\ DegreesCount
        /\ VisitedClosed /\ LayersAreReadySets
  BY DEF KahnInv
<1>2. \A n \in Ids : DepsOf(n)' = DepsOf(n)
  BY DEF DepsOf
<1>3. next_ready = {} /\ ready = FreeAfter(visited)
  BY <1>1 DEF DegreesCount
<1>4. ready \subseteq Ids /\ ready \intersect visited = {}
        /\ \A n \in ready : DepsOf(n) \subseteq visited
  BY <1>3 DEF FreeAfter
<1>5. visited' = visited \union ready /\ ready' = ready /\ next_ready' = {}
        /\ in_degree' = in_degree /\ times' = times /\ visited \subseteq Ids
  BY <1>1, <1>3 DEF KahnTypeOK
<1>6. layers \in Seq(SUBSET Ids) /\ Len(layers) \in Nat /\ layers' \in Seq(SUBSET Ids)
        /\ Len(layers') = Len(layers) + 1 /\ layers'[Len(layers) + 1] = ready
        /\ \A k \in 1 .. Len(layers) : layers'[k] = layers[k]
  BY <1>1, <1>4, LenProperties, AppendProperties DEF KahnTypeOK
<1>7. KahnTypeOK'
  BY <1>1, <1>4, <1>5, <1>6 DEF KahnTypeOK
<1>8. Named'
  BY <1>1, <1>2 DEF Named
<1>9. Released = visited /\ Released' = visited
  BY <1>4, <1>5 DEF Released
<1>10. DegreesCount'
  <2>1. \A n \in Ids : Listed(n, Ids \ Released)' = Listed(n, Ids \ Released)
    BY <1>5, <1>9 DEF Listed
  <2>2. \A n \in Ids : in_degree'[n] = Cardinality(Listed(n, Ids \ Released)')
    BY <1>1, <1>5, <2>1 DEF DegreesCount
  <2>3. FreeAfter(Released)' = {}
    <3>1. ASSUME NEW n \in FreeAfter(Released)' PROVE FALSE
      <4>1. n \in Ids /\ n \notin visited /\ n \notin ready /\ DepsOf(n) \subseteq visited
        BY <1>2, <1>5, <1>9 DEF FreeAfter
      <4>2. n \in FreeAfter(visited)
        BY <4>1 DEF FreeAfter
      <4>. QED  BY <4>1, <4>2, <1>3
    <3>. QED  BY <3>1
  <2>. QED  BY <1>5, <2>2, <2>3 DEF DegreesCount
<1>11. UNION {layers'[i] : i \in 1 .. Len(layers')} = visited'
  <2>1. 1 .. Len(layers') = (1 .. Len(layers)) \union {Len(layers) + 1}
    BY <1>6
  <2>2. visited = UNION {layers[i] : i \in 1 .. Len(layers)}
    BY <1>1 DEF VisitedClosed
  <2>3. \A n : n \in visited <=> \E i \in 1 .. Len(layers) : n \in layers'[i]
    BY <1>6, <2>2
  <2>4. \A n : n \in visited' <=> \E i \in 1 .. Len(layers') : n \in layers'[i]
    BY <1>5, <1>6, <2>1, <2>3
  <2>. QED  BY <2>4
<1>12. VisitedClosed'
  <2>1. \A n \in visited' : DepsOf(n)' \subseteq visited'
    BY <1>1, <1>2, <1>4, <1>5 DEF VisitedClosed
  <2>2. \A S \in SUBSET visited' : S # {} => \E n \in S : DepsOf(n)' \intersect S = {}
    <3>1. SUFFICES ASSUME NEW S \in SUBSET visited', S # {}
                   PROVE  \E n \in S : DepsOf(n)' \intersect S = {}
      OBVIOUS
    <3>2. CASE S \intersect visited = {}
      <4>1. PICK n \in S : TRUE
        BY <3>1
      <4>2. n \in ready
        BY <1>5, <3>2
      <4>3. DepsOf(n)' = DepsOf(n) /\ DepsOf(n) \subseteq visited
        BY <1>2, <1>4, <4>2
      <4>. QED  BY <3>2, <4>3
    <3>3. CASE S \intersect visited # {}
      <4>1. S \intersect visited \in SUBSET visited
        OBVIOUS
      <4>2. PICK n \in S \intersect visited : DepsOf(n) \intersect (S \intersect visited) = {}
        BY <1>1, <3>3, <4>1 DEF VisitedClosed
      <4>3. DepsOf(n)' = DepsOf(n) /\ DepsOf(n) \subseteq visited
        BY <1>1, <1>2, <1>5, <4>2 DEF VisitedClosed
      <4>. QED  BY <4>2, <4>3
    <3>. QED  BY <3>2, <3>3
  <2>. QED  BY <1>11, <2>1, <2>2 DEF VisitedClosed
<1>13. LayersAreReadySets'
  <2>1. DOMAIN layers = 1 .. Len(layers) /\ DOMAIN layers' = 1 .. Len(layers')
    BY <1>6, LenProperties
  <2>2. SUFFICES ASSUME NEW k \in 1 .. Len(layers')
                 PROVE  layers'[k] = {n \in Ids \ Earlier(k)' : DepsOf(n)' \subseteq Earlier(k)'}
    BY <2>1 DEF LayersAreReadySets
  <2>3. Earlier(k)' = Earlier(k)
    <3>1. \A i \in 1 .. (k - 1) : layers'[i] = layers[i]
      BY <1>6
    <3>. QED  BY <3>1 DEF Earlier
  <2>4. CASE k \in 1 .. Len(layers)
    <3>1. layers[k] = {n \in Ids \ Earlier(k) : DepsOf(n) \subseteq Earlier(k)}
      BY <1>1, <2>1, <2>4 DEF LayersAreReadySets
    <3>. QED  BY <1>2, <1>6, <2>3, <2>4, <3>1
  <2>5. CASE k = Len(layers) + 1
    <3>1. k - 1 = Len(layers)
      BY <1>6, <2>5
    <3>2. Earlier(k) = visited
      BY <1>1, <3>1 DEF Earlier, VisitedClosed
    <3>3. layers'[k] = {n \in Ids \ visited : DepsOf(n) \subseteq visited}
      BY <1>3, <1>6, <2>5 DEF FreeAfter
    <3>. QED  BY <1>2, <2>3, <3>2, <3>3
  <2>. QED  BY <1>6, <2>4, <2>5
<1>14. EndsRight'
  BY <1>1 DEF EndsRight
<1>. QED  BY <1>1, <1>7, <1>8, <1>10, <1>12, <1>13, <1>14 DEF KahnInv

\* What concerns the layers alone is kept by the steps that record none.
LEMMA KahnKept ==
    ASSUME VisitedClosed, LayersAreReadySets, Named, UNCHANGED <<times, visited, layers>>
    PROVE  VisitedClosed' /\ LayersAreReadySets' /\ Named'
           /\ \A n \in Ids : DepsOf(n)' = DepsOf(n)
<1>1. \A n : DepsOf(n)' = DepsOf(n)
  BY DEF DepsOf
<1>2. \A k : Earlier(k)' = Earlier(k)
  BY DEF Earlier
<1>3. LayersAreReadySets'
  BY <1>1, <1>2 DEF LayersAreReadySets
<1>4. \A n \in visited : DepsOf(n)' \subseteq visited
  BY <1>1 DEF VisitedClosed
<1>5. \A S \in SUBSET visited : S # {} => \E n \in S : DepsOf(n)' \intersect S = {}
  <2>1. \A S \in SUBSET visited : S # {} => \E n \in S : DepsOf(n) \intersect S = {}
    BY DEF VisitedClosed
  <2>. QED  BY <1>1, <2>1, Zenon
<1>6. VisitedClosed'
  BY <1>4, <1>5, SMTT(30) DEF VisitedClosed
<1>7. Named'
  BY <1>1 DEF Named
<1>. QED  BY <1>1, <1>3, <1>6, <1>7

LEMMA KahnRelease == ASSUME KahnInv, NEW m \in Ids, Release(m) PROVE KahnInv'
<1>. USE DEF Release
<1>1. outcome = "layering" /\ outcome' = "layering" /\ KahnTypeOK /\ Named /\ DegreesCount
        /\ VisitedClosed /\ LayersAreReadySets
  BY DEF KahnInv
<1>2. VisitedClosed' /\ LayersAreReadySets' /\ Named' /\ \A n \in Ids : DepsOf(n)' = DepsOf(n)
  BY <1>1, KahnKept
<1>3. times' = times /\ visited' = visited /\ layers' = layers /\ ready' = ready \ {m}
        /\ m \in ready /\ ready \subseteq visited /\ visited \subseteq Ids
        /\ in_degree' = [c \in Ids |-> in_degree[c] - times[c][m]]
        /\ next_ready' = next_ready \union
              {c \in Ids \ visited : times[c][m] > 0 /\ in_degree[c] = times[c][m]}
  BY <1>1 DEF KahnTypeOK
<1>4. Released \in SUBSET Ids /\ m \notin Released /\ Released' = Released \union {m}
  BY <1>3 DEF Released
<1>5. \A c \in Ids : in_degree[c] \in Int /\ times[c][m] \in 0 .. MaxTimes /\ times[c][m] \in Int
  BY <1>1, KahnAssumption DEF KahnTypeOK
<1>6. KahnTypeOK'
  <2>1. in_degree' \in [Ids -> Int]
    BY <1>3, <1>5
  <2>. QED  BY <1>1, <1>3, <2>1 DEF KahnTypeOK
<1>7. \A c \in Ids : in_degree'[c] = Cardinality(Listed(c, Ids \ Released'))
  <2>1. TAKE c \in Ids
  <2>2. Ids \ Released \in SUBSET Ids /\ m \in Ids \ Released
    BY <1>4
  <2>3. Cardinality(Listed(c, (Ids \ Released) \ {m}))
          = Cardinality(Listed(c, Ids \ Released)) - times[c][m]
    BY <1>1, <2>2, ReleaseCounts
  <2>4. (Ids \ Released) \ {m} = Ids \ Released'
    BY <1>4
  <2>5. in_degree'[c] = in_degree[c] - times[c][m]
    BY <1>3
  <2>6. in_degree[c] = Cardinality(Listed(c, Ids \ Released))
    BY <1>1 DEF DegreesCount
  <2>. QED  BY <2>3, <2>4, <2>5, <2>6
<1>8. \A c \in Ids : in_degree'[c] = 0 <=> DepsOf(c) \subseteq Released'
  <2>1. TAKE c \in Ids
  <2>2. Ids \ Released' \in SUBSET Ids
    OBVIOUS
  <2>3. Cardinality(Listed(c, Ids \ Released')) = 0 <=> DepsOf(c) \intersect (Ids \ Released') = {}
    BY <1>1, <2>2, NoneListed
  <2>4. DepsOf(c) \subseteq Ids
    BY <1>1 DEF Named, DepsOf
  <2>. QED  BY <1>7, <2>3, <2>4
<1>9. FreeAfter(Released)' = next_ready'
  <2>1. FreeAfter(Released)' = {c \in Ids \ visited : DepsOf(c) \subseteq Released'}
    BY <1>2, <1>3 DEF FreeAfter
  <2>2. next_ready = {c \in Ids \ visited : DepsOf(c) \subseteq Released}
    BY <1>1, <1>3 DEF DegreesCount, FreeAfter
  <2>3. ASSUME NEW c \in Ids \ visited
        PROVE  DepsOf(c) \subseteq Released'
                 <=> \/ DepsOf(c) \subseteq Released
                     \/ times[c][m] > 0 /\ in_degree[c] = times[c][m]
    <3>1. m \in DepsOf(c) <=> times[c][m] > 0
      BY DEF DepsOf
    <3>2. in_degree'[c] = in_degree[c] - times[c][m]
      BY <1>3
    <3>3. in_degree'[c] = 0 <=> in_degree[c] = times[c][m]
      BY <1>5, <3>2
    <3>4. DepsOf(c) \subseteq Released' <=> in_degree[c] = times[c][m]
      BY <1>8, <3>3
    <3>5. DepsOf(c) \subseteq Released => DepsOf(c) \subseteq Released'
      BY <1>4
    <3>6. DepsOf(c) \subseteq Released' /\ m \notin DepsOf(c) => DepsOf(c) \subseteq Released
      BY <1>4
    <3>. QED  BY <3>1, <3>4, <3>5, <3>6
  <2>. QED  BY <1>3, <2>1, <2>2, <2>3
<1>10. DegreesCount'
  <2>1. \A c \in Ids : Listed(c, Ids \ Released)' = Listed(c, Ids \ Released')
    BY <1>3 DEF Listed
  <2>2. \A c \in Ids : in_degree'[c] = Cardinality(Listed(c, Ids \ Released)')
    BY <1>7, <2>1
  <2>. QED  BY <1>3, <1>9, <2>2 DEF DegreesCount
<1>11. EndsRight'
  BY <1>1 DEF EndsRight
<1>. QED  BY <1>1, <1>2, <1>6, <1>10, <1>11 DEF KahnInv

LEMMA KahnRound == ASSUME KahnInv, NextRound PROVE KahnInv'
<1>. USE DEF NextRound
<1>1. outcome = "layering" /\ outcome' = "layering" /\ KahnTypeOK /\ Named /\ DegreesCount
        /\ VisitedClosed /\ LayersAreReadySets
  BY DEF KahnInv
<1>2. VisitedClosed' /\ LayersAreReadySets' /\ Named' /\ \A n \in Ids : DepsOf(n)' = DepsOf(n)
  BY <1>1, KahnKept
<1>3. times' = times /\ visited' = visited /\ in_degree' = in_degree /\ ready = {}
        /\ next_ready # {} /\ ready' = next_ready /\ next_ready' = {}
  OBVIOUS
<1>4. Released = visited
  BY <1>3 DEF Released
<1>5. next_ready = FreeAfter(visited)
  BY <1>1, <1>3, <1>4 DEF DegreesCount
<1>6. ~ ready' \subseteq visited /\ ready' \intersect visited = {}
  BY <1>3, <1>5 DEF FreeAfter
<1>7. Released' = visited
  BY <1>3, <1>6 DEF Released
<1>8. KahnTypeOK'
  BY <1>1, <1>3 DEF KahnTypeOK
<1>9. FreeAfter(visited)' = ready'
  BY <1>2, <1>3, <1>5 DEF FreeAfter
<1>10. DegreesCount'
  <2>1. \A c \in Ids : Listed(c, Ids \ Released)' = Listed(c, Ids \ Released)
    BY <1>3, <1>4, <1>7 DEF Listed
  <2>2. \A c \in Ids : in_degree'[c] = Cardinality(Listed(c, Ids \ Released)')
    BY <1>1, <1>3, <2>1 DEF DegreesCount
  <2>. QED  BY <1>3, <1>6, <1>9, <2>2 DEF DegreesCount
<1>11. EndsRight'
  BY <1>1 DEF EndsRight
<1>. QED  BY <1>1, <1>2, <1>8, <1>10, <1>11 DEF KahnInv

LEMMA KahnFinish == ASSUME KahnInv, FinishLayers PROVE KahnInv'
<1>. USE DEF FinishLayers
<1>1. outcome = "layering" /\ KahnTypeOK /\ Named /\ DegreesCount
        /\ VisitedClosed /\ LayersAreReadySets
  BY DEF KahnInv
<1>2. VisitedClosed' /\ LayersAreReadySets' /\ Named' /\ \A n \in Ids : DepsOf(n)' = DepsOf(n)
  BY <1>1, KahnKept
<1>3. times' = times /\ visited' = visited /\ in_degree' = in_degree /\ ready' = ready
        /\ next_ready' = next_ready /\ ready = {} /\ next_ready = {}
  OBVIOUS
<1>4. DegreesCount'
  BY <1>1, <1>2, <1>3 DEF DegreesCount, Released, FreeAfter, Listed
<1>5. outcome' \in {"layers", "cycle"} /\ KahnTypeOK'
  BY <1>1 DEF KahnTypeOK
<1>6. Cardinality(visited) = Cardinality(Ids) <=> visited = Ids
  BY <1>1, KahnAssumption, FS_Subset DEF KahnTypeOK
<1>7. EndsRight'
  BY <1>3, <1>6 DEF EndsRight
<1>. QED  BY <1>2, <1>4, <1>5, <1>7 DEF KahnInv

LEMMA KahnInvariance == KahnSpec => []KahnInv
<1>1. KahnInv /\ [KahnNext]_kahnVars => KahnInv'
  <2>. SUFFICES ASSUME KahnInv, [KahnNext]_kahnVars PROVE KahnInv'
    OBVIOUS
  <2>1. CASE Count
    BY <2>1, KahnCount
  <2>2. CASE TakeLayer
    BY <2>2, KahnTake
  <2>3. CASE \E n \in Ids : Release(n)
    BY <2>3, KahnRelease
  <2>4. CASE NextRound
    BY <2>4, KahnRound
  <2>5. CASE FinishLayers
    BY <2>5, KahnFinish
  <2>6. CASE UNCHANGED kahnVars
    <3>1. UNCHANGED <<times, in_degree, ready, next_ready, visited, layers, outcome>>
      BY <2>6 DEF kahnVars
    <3>2. KahnTypeOK'
      BY <3>1 DEF KahnInv, KahnTypeOK
    <3>3. (\E n \in Ids : Unknown \in DepsOf(n)) <=> \E n \in Ids : Unknown \in DepsOf(n)'
      BY <3>1 DEF DepsOf
    <3>4. ASSUME outcome \in {"layering", "layers", "cycle"}
          PROVE  Named' /\ DegreesCount' /\ VisitedClosed' /\ EndsRight' /\ LayersAreReadySets'
      <4>1. Named /\ DegreesCount /\ VisitedClosed /\ EndsRight /\ LayersAreReadySets
        BY <3>4 DEF KahnInv
      <4>2. VisitedClosed' /\ LayersAreReadySets' /\ Named'
              /\ \A n \in Ids : DepsOf(n)' = DepsOf(n)
        BY <3>1, <4>1, KahnKept
      <4>3. DegreesCount'
        BY <3>1, <4>1, <4>2 DEF DegreesCount, Released, FreeAfter, Listed
      <4>4. EndsRight'
        BY <3>1, <4>1 DEF EndsRight
      <4>. QED  BY <4>2, <4>3, <4>4
    <3>. QED  BY <3>1, <3>2, <3>3, <3>4 DEF KahnInv
  <2>. QED  BY <2>1, <2>2, <2>3, <2>4, <2>5, <2>6 DEF KahnNext
<1>. QED  BY <1>1, KahnStarts, PTL DEF KahnSpec

\* _compute_layers refuses a graph for the right reason, whatever the graph: a node in
\* no layer when the rounds end waits for another such node, so these form a cycle.
THEOREM GraphsAreRefusedExactly == KahnSpec => []RefusesExactly
<1>1. KahnInv => RefusesExactly
  <2>1. SUFFICES ASSUME KahnInv PROVE RefusesExactly
    OBVIOUS
  <2>2. outcome = "unknown" => \E n \in Ids : Unknown \in DepsOf(n)
    BY <2>1 DEF KahnInv
  <2>3. ASSUME outcome = "cycle" PROVE ~ Acyclic
    <3>1. Named /\ DegreesCount /\ ready = {} /\ next_ready = {} /\ visited # Ids
            /\ visited \subseteq Ids
      BY <2>1, <2>3 DEF KahnInv, EndsRight, KahnTypeOK
    <3>2. FreeAfter(visited) = {}
      BY <3>1 DEF DegreesCount, Released
    <3>3. \A n \in Ids \ visited : DepsOf(n) \intersect (Ids \ visited) # {}
      <4>1. TAKE n \in Ids \ visited
      <4>2. ~ DepsOf(n) \subseteq visited
        BY <3>2 DEF FreeAfter
      <4>3. DepsOf(n) \subseteq Ids
        BY <3>1 DEF Named, DepsOf
      <4>. QED  BY <4>2, <4>3
    <3>4. Ids \ visited # {} /\ Ids \ visited \in SUBSET Ids
      BY <3>1
    <3>. QED  BY <3>3, <3>4 DEF Acyclic
  <2>4. ASSUME outcome = "layers"
        PROVE  /\ Acyclic
               /\ \A n \in Ids : Unknown \notin DepsOf(n)
               /\ UNION {layers[i] : i \in DOMAIN layers} = Ids
    <3>1. Named /\ VisitedClosed /\ visited = Ids /\ layers \in Seq(SUBSET Ids)
      BY <2>1, <2>4 DEF KahnInv, EndsRight, KahnTypeOK
    <3>2. DOMAIN layers = 1 .. Len(layers)
      BY <3>1, LenProperties
    <3>. QED  BY <3>1, <3>2 DEF VisitedClosed, Named, Acyclic
  <2>. QED  BY <2>2, <2>3, <2>4 DEF RefusesExactly
<1>. QED  BY <1>1, KahnInvariance, PTL

\* Every layer _compute_layers returns is what its nodes' dependencies allow and no
\* less, for every graph: nothing runs before a dependency or later than it could.
THEOREM LayersAreReady == KahnSpec => []LayersAreReadySets
<1>1. KahnInv => LayersAreReadySets
  <2>1. SUFFICES ASSUME KahnInv PROVE LayersAreReadySets
    OBVIOUS
  <2>2. CASE outcome \in {"layering", "layers", "cycle"}
    BY <2>1, <2>2 DEF KahnInv
  <2>3. CASE outcome \in {"counting", "unknown"}
    <3>1. layers = <<>>
      BY <2>1, <2>3 DEF KahnInv
    <3>2. DOMAIN layers = {}
      BY <3>1
    <3>. QED  BY <3>2 DEF LayersAreReadySets
  <2>. QED  BY <2>1, <2>2, <2>3 DEF KahnInv, KahnTypeOK
<1>. QED  BY <1>1, KahnInvariance, PTL

=============================================================================
