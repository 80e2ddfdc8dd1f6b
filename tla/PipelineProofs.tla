--------------------------- MODULE PipelineProofs ---------------------------
(***************************************************************************)
(* Theorems about Pipeline, for every topology, every number of tasks and  *)
(* every bound on the frames.                                              *)
(***************************************************************************)
EXTENDS MCPipeline, SequenceTheorems, TLAPS

\* Only a task of the right class is ever at the places of that class's code.
PlaceOK ==
  \A t \in Task :
    /\ pc[t] = "inlet" => Kind[t] # "producer"
    /\ pc[t] = "get" => Reads(t)
    /\ pc[t] = "proc" => Kind[t] \notin {"tee", "join"}
    /\ pc[t] = "gather" => Kind[t] = "join"
    /\ pc[t] \in {"outlet", "put"} => Writes(t)
    /\ pc[t] = "discard" => Kind[t] = "capture"

-----------------------------------------------------------------------------
(* The places of the pads *)

\* The pad a reader waits on is a pad, and so is the one a writer puts on.
LEMMA WrapAround ==
  ASSUME NEW n \in Nat, n > 0
  PROVE  n % n = 0
OBVIOUS

LEMMA QueueLists ==
  ASSUME NEW t \in Task
  PROVE  /\ InQ[t] \in Seq(Pad) /\ Len(InQ[t]) \in Nat
         /\ OutQ[t] \in Seq(Pad) /\ Len(OutQ[t]) \in Nat
         /\ Reads(t) => Len(InQ[t]) > 0
         /\ Writes(t) => Len(OutQ[t]) > 0
         /\ Kind[t] \in Kinds
<1>1. InQ[t] \in Seq(Pad) /\ OutQ[t] \in Seq(Pad) /\ Kind[t] \in Kinds
  BY Topology DEF Topology
<1>2. Reads(t) => InQ[t] # << >>
  BY Topology DEF Topology
<1>3. Writes(t) => OutQ[t] # << >>
  BY Topology DEF Topology
<1>4. ASSUME NEW q \in Seq(Pad)  PROVE Len(q) \in Nat /\ (q # << >> => Len(q) > 0)
  OBVIOUS
<1> QED
  BY <1>1, <1>2, <1>3, <1>4

\* The pad a reader waits on is a pad, and so is the one a writer puts on.
LEMMA InIsPad ==
  ASSUME NEW t \in Task, NEW i \in Nat, i < Len(InQ[t])
  PROVE  InQ[t][i + 1] \in Pad
BY QueueLists

LEMMA OutIsPad ==
  ASSUME NEW t \in Task, NEW i \in Nat, i < Len(OutQ[t])
  PROVE  OutQ[t][i + 1] \in Pad
BY QueueLists

\* The next position of a round over a queue list is a position of it.
LEMMA NextPosition ==
  ASSUME NEW i \in Nat, NEW n \in Nat, n > 0
  PROVE  (i + 1) % n \in Nat /\ (i + 1) % n < n /\ (i + 1 < n => (i + 1) % n = i + 1)
OBVIOUS

LEMMA SequenceFacts ==
  ASSUME NEW S, NEW s \in Seq(S), NEW e \in S
  PROVE  /\ Append(s, e) \in Seq(S)
         /\ s # << >> => Head(s) \in S /\ Tail(s) \in Seq(S)
OBVIOUS

-----------------------------------------------------------------------------
(* Type correctness *)

LEMMA RegistrationFacts ==
  /\ Len(Order) \in Nat /\ Len(Order) > 0
  /\ DOMAIN Order = 1 .. Len(Order)
  /\ \A i \in DOMAIN Order : Order[i] \in Task
<1>1. Order \in Seq(Task) /\ Order # << >>
  BY Registration DEF Registration
<1> QED
  BY <1>1

\* Initially every variable has its type and every task is at its first place.
LEMMA TypeInit == Init => TypeOK /\ PlaceOK
<1> SUFFICES ASSUME Init  PROVE TypeOK /\ PlaceOK
  OBVIOUS
<1>1. \A t \in Task : (Reads(t) => 0 < Len(InQ[t])) /\ (Writes(t) => 0 < Len(OutQ[t]))
  BY QueueLists
<1>2. 1 \in DOMAIN Order
  BY RegistrationFacts
<1>3. \A S : << >> \in Seq(S)
  OBVIOUS
<1>4. TypeOK
  BY <1>1, <1>2, <1>3, Zenon DEF Init, TypeOK, TaskPc, Item
<1>5. PlaceOK
  BY DEF Init, PlaceOK
<1> QED
  BY <1>4, <1>5

\* A turn of one of Application.run's loops keeps the index within the tasks.
LEMMA StepType ==
  ASSUME TypeOK, NEW here, NEW then \in {"sleep", "join", "returned"}, Step(here, then)
  PROVE  /\ appRunning' \in BOOLEAN
         /\ appPc' \in {"start", "sleep", "stop", "join", "returned"}
         /\ appNext' \in DOMAIN Order
         /\ Order[appNext] \in Task
BY RegistrationFacts DEF Step, TypeOK

\* A step that only moves a task to another place of its own class's code.
LEMMA GotoType ==
  ASSUME TypeOK, PlaceOK, NEW t \in Task, NEW from, NEW to \in TaskPc, Goto(t, from, to),
         to = "inlet" => Kind[t] # "producer",
         to = "get" => Reads(t),
         to = "proc" => Kind[t] \notin {"tee", "join"},
         to = "gather" => Kind[t] = "join",
         to \in {"outlet", "put"} => Writes(t),
         to = "discard" => Kind[t] = "capture"
  PROVE  pc' \in [Task -> TaskPc] /\ PlaceOK'
BY DEF TypeOK, PlaceOK, Goto, Reads, Writes

LEMMA TypeStep == TypeOK /\ PlaceOK /\ [Next]_vars => TypeOK' /\ PlaceOK'
<1> SUFFICES ASSUME TypeOK, PlaceOK, [Next]_vars  PROVE TypeOK' /\ PlaceOK'
  OBVIOUS
<1>1. CASE AppStartTask
  <2>1. LoopHead(Order[appNext]) \in {"proc", "inlet"}
    BY DEF LoopHead
  <2>2. pc' \in [Task -> TaskPc] /\ PlaceOK'
    BY <1>1, <2>1, StepType DEF AppStartTask, TypeOK, PlaceOK, TaskPc, LoopHead
  <2> QED
    BY <1>1, <2>2, StepType DEF AppStartTask, TypeOK, history
<1>2. CASE AppWake
  BY <1>2 DEF AppWake, TypeOK, PlaceOK, history
<1>3. CASE AppKeyboardInterrupt
  BY <1>3 DEF AppKeyboardInterrupt, TypeOK, PlaceOK, history
<1>4. CASE AppStopTask
  <2>1. running' \in [Task -> BOOLEAN]
    BY <1>4 DEF AppStopTask, TypeOK
  <2> QED
    BY <1>4, <2>1, StepType DEF AppStopTask, TypeOK, PlaceOK, history
<1>5. CASE AppJoinTask
  BY <1>5, StepType DEF AppJoinTask, TypeOK, PlaceOK, history
<1>6. CASE Stop
  BY <1>6 DEF Stop, TypeOK, PlaceOK, history
<1>7. ASSUME NEW t \in Task, TaskStep(t)
      PROVE  TypeOK' /\ PlaceOK'
  <2> USE QueueLists, <1>7
  <2>1. CASE CheckInlet(t)
    <3>1. pc' \in [Task -> TaskPc] /\ PlaceOK'
      BY <2>1, GotoType DEF CheckInlet, Goto, PlaceOK, TaskPc, Leave, Reads, Kinds
    <3>2. hand' \in [Task -> Item] /\ inId' \in [Task -> Nat]
      BY <2>1 DEF CheckInlet, TypeOK, Item
    <3>3. \A u \in Task : Reads(u) => inId'[u] < Len(InQ[u])
      BY <2>1 DEF CheckInlet, TypeOK
    <3> QED
      BY <2>1, <3>1, <3>2, <3>3 DEF CheckInlet, TypeOK, app, history
  <2>2. CASE CheckGather(t)
    <3>1. pc' \in [Task -> TaskPc] /\ PlaceOK'
      BY <2>2, GotoType DEF CheckGather, Move, Goto, PlaceOK, TaskPc, Reads
    <3> QED
      BY <2>2, <3>1 DEF CheckGather, Move, TypeOK, app, history
  <2>3. CASE GetEmpty(t)
    <3>1. pc' \in [Task -> TaskPc] /\ PlaceOK'
      BY <2>3, GotoType DEF GetEmpty, Move, Goto, PlaceOK, TaskPc, Reads
    <3> QED
      BY <2>3, <3>1 DEF GetEmpty, Move, TypeOK, app, history
  <2>4. CASE GetItem(t)
    <3>1. Reads(t) /\ inId[t] \in Nat /\ inId[t] < Len(InQ[t])
      BY <2>4 DEF GetItem, Get, Goto, PlaceOK, TypeOK
    <3>2. In(t) \in Pad
      BY <3>1, InIsPad DEF In
    <3>3. Head(pad[In(t)]) \in Item /\ Tail(pad[In(t)]) \in Seq(Item)
      BY <2>4, <3>2 DEF GetItem, Get, TypeOK
    <3>4. pc' \in [Task -> TaskPc] /\ PlaceOK'
      BY <2>4, <3>1, GotoType DEF GetItem, Get, AfterInlet, TaskPc, Reads, Writes
    <3>5. /\ hand' \in [Task -> Item]
          /\ pad' \in [Pad -> Seq(Item)]
          /\ taken' \in [Task -> Seq(Item)]
      BY <2>4, <3>3, SequenceFacts DEF GetItem, Get, TypeOK
    <3>6. Next1(inId[t], InQ[t]) \in Nat /\ Next1(inId[t], InQ[t]) < Len(InQ[t])
      BY <3>1, NextPosition DEF Next1
    <3>7. /\ inId' \in [Task -> Nat]
          /\ \A u \in Task : Reads(u) => inId'[u] < Len(InQ[u])
      BY <2>4, <3>6 DEF GetItem, Get, TypeOK
    <3> QED
      BY <2>4, <3>4, <3>5, <3>7 DEF GetItem, Get, TypeOK, app
  <2>5. CASE GatherItem(t)
    <3>1. Reads(t) /\ inId[t] \in Nat /\ inId[t] < Len(InQ[t])
      BY <2>5 DEF GatherItem, Goto, PlaceOK, TypeOK
    <3>2. In(t) \in Pad
      BY <3>1, InIsPad DEF In
    <3>3. Head(pad[In(t)]) \in Item /\ Tail(pad[In(t)]) \in Seq(Item)
      BY <2>5, <3>2 DEF GatherItem, TypeOK
    <3>4. pc' \in [Task -> TaskPc] /\ PlaceOK'
      BY <2>5, <3>1, GotoType DEF GatherItem, AfterInlet, TaskPc, Reads, Writes
    <3>5. hand[t] \o Head(pad[In(t)]) \in Item
      BY <3>3 DEF TypeOK, Item
    <3>6. hand' \in [Task -> Item] /\ hand'[t] \in Item /\ pad' \in [Pad -> Seq(Item)]
      BY <2>5, <3>3, <3>5 DEF GatherItem, TypeOK
    <3>7. Append(taken[t], hand'[t]) \in Seq(Item)
      BY <3>6, SequenceFacts DEF TypeOK
    <3>8. taken' \in [Task -> Seq(Item)]
      BY <2>5, <3>7 DEF GatherItem, TypeOK
    <3>9. Next1(inId[t], InQ[t]) \in Nat /\ Next1(inId[t], InQ[t]) < Len(InQ[t])
      BY <3>1, NextPosition DEF Next1
    <3>10. /\ inId' \in [Task -> Nat]
          /\ \A u \in Task : Reads(u) => inId'[u] < Len(InQ[u])
      BY <2>5, <3>9 DEF GatherItem, TypeOK
    <3> QED
      BY <2>5, <3>4, <3>6, <3>8, <3>10 DEF GatherItem, TypeOK, app
  <2>6. CASE Produce(t)
    <3>1. << [src |-> t, n |-> Len(taken[t]) + 1] >> \in Item
      BY DEF TypeOK, Item, Frame
    <3>2. hand' \in [Task -> Item] /\ taken' \in [Task -> Seq(Item)]
      BY <2>6, <3>1 DEF Produce, TypeOK
    <3>3. pc' \in [Task -> TaskPc] /\ PlaceOK'
      BY <2>6, GotoType DEF Produce, TaskPc, Source, Writes
    <3> QED
      BY <2>6, <3>2, <3>3 DEF Produce, TypeOK, app
  <2>7. CASE Process(t)
    <3>1. pc' \in [Task -> TaskPc] /\ PlaceOK'
      BY <2>7, GotoType DEF Process, Move, TaskPc
    <3> QED
      BY <2>7, <3>1 DEF Process, Move, TypeOK, app, history
  <2>8. CASE Raise(t)
    <3>1. pc' \in [Task -> TaskPc] /\ PlaceOK'
      BY <2>8, GotoType DEF Raise, Move, TaskPc, Leave
    <3> QED
      BY <2>8, <3>1 DEF Raise, Move, TypeOK, app, history
  <2>9. CASE CheckOutlet(t)
    <3>1. Writes(t)
      BY <2>9 DEF CheckOutlet, Move, Goto, PlaceOK
    <3>2. pc' \in [Task -> TaskPc] /\ PlaceOK'
      BY <2>9, <3>1, GotoType DEF CheckOutlet, Move, TaskPc, FirstPutStep, AfterOutlet
    <3> QED
      BY <2>9, <3>2 DEF CheckOutlet, Move, TypeOK, app, history
  <2>10. CASE DiscardOld(t)
    <3>1. pc' \in [Task -> TaskPc] /\ PlaceOK'
      BY <2>10, GotoType DEF DiscardOld, Goto, PlaceOK, TaskPc, Writes
    <3>2. << >> \in Seq(Item)
      OBVIOUS
    <3>3. pad' \in [Pad -> Seq(Item)]
      BY <2>10, <3>2 DEF DiscardOld, TypeOK
    <3> QED
      BY <2>10, <3>1, <3>3 DEF DiscardOld, TypeOK, app, history
  <2>11. CASE Put(t)
    <3>1. Writes(t) /\ outId[t] \in Nat /\ outId[t] < Len(OutQ[t])
      BY <2>11 DEF Put, PutItem, Goto, PlaceOK, TypeOK
    <3>2. pc' \in [Task -> TaskPc] /\ PlaceOK'
      BY <2>11, <3>1, GotoType DEF Put, PutItem, AfterPut, AfterOutlet, TaskPc
    <3>3. Out(t) \in Pad
      BY <3>1, OutIsPad DEF Out
    <3>4. pad' \in [Pad -> Seq(Item)] /\ sent' \in [Pad -> Seq(Item)]
      BY <2>11, <3>3 DEF Put, PutItem, TypeOK
    <3>5. Next1(outId[t], OutQ[t]) \in Nat /\ Next1(outId[t], OutQ[t]) < Len(OutQ[t])
      BY <3>1, NextPosition DEF Next1
    <3>6. /\ outId' \in [Task -> Nat]
          /\ \A u \in Task : Writes(u) => outId'[u] < Len(OutQ[u])
      BY <2>11, <3>5 DEF Put, PutItem, TypeOK
    <3> QED
      BY <2>11, <3>2, <3>4, <3>6 DEF Put, PutItem, TypeOK, app
  <2>12. CASE PutFull(t)
    <3>1. pc' \in [Task -> TaskPc] /\ PlaceOK'
      BY <2>12, GotoType DEF PutFull, PutFullTo, Move, Goto, PlaceOK, TaskPc
    <3> QED
      BY <2>12, <3>1 DEF PutFull, PutFullTo, Move, TypeOK, app, history
  <2>13. CASE TeePutFull(t)
    <3>1. Writes(t) /\ outId[t] \in Nat /\ outId[t] < Len(OutQ[t])
      BY <2>13 DEF TeePutFull, TeePassOver, Goto, PlaceOK, TypeOK
    <3>2. pc' \in [Task -> TaskPc] /\ PlaceOK'
      BY <2>13, <3>1, GotoType DEF TeePutFull, TeePassOver, AfterPut, AfterOutlet, TaskPc
    <3>3. Next1(outId[t], OutQ[t]) \in Nat /\ Next1(outId[t], OutQ[t]) < Len(OutQ[t])
      BY <3>1, NextPosition DEF Next1
    <3>4. /\ outId' \in [Task -> Nat]
          /\ \A u \in Task : Writes(u) => outId'[u] < Len(OutQ[u])
      BY <2>13, <3>3 DEF TeePutFull, TeePassOver, TypeOK
    <3> QED
      BY <2>13, <3>2, <3>4 DEF TeePutFull, TeePassOver, TypeOK, app, history
  <2>14. CASE CheckStop(t)
    <3>1. pc' \in [Task -> TaskPc] /\ PlaceOK'
      BY <2>14, GotoType DEF CheckStop, Move, TaskPc, LoopHead, Leave
    <3> QED
      BY <2>14, <3>1 DEF CheckStop, Move, TypeOK, app, history
  <2>15. CASE Cleanup(t)
    <3>1. pc' \in [Task -> TaskPc] /\ PlaceOK'
      BY <2>15, GotoType DEF Cleanup, TaskPc
    <3>2. cleaned' \in [Task -> Nat]
      BY <2>15 DEF Cleanup, TypeOK
    <3> QED
      BY <2>15, <3>1, <3>2 DEF Cleanup, TypeOK, app
  <2> QED
    BY <2>1, <2>2, <2>3, <2>4, <2>5, <2>6, <2>7, <2>8, <2>9, <2>10, <2>11, <2>12, <2>13,
       <2>14, <2>15 DEF TaskStep
<1>8. CASE UNCHANGED vars
  BY <1>8 DEF vars, app, history, TypeOK, PlaceOK
<1> QED
  BY <1>1, <1>2, <1>3, <1>4, <1>5, <1>6, <1>7, <1>8 DEF Next, AppStep, Returned

\* In every reachable state every variable has its type: in particular every
\* in_queue_id and out_queue_id is an index of its list, whatever the topology.
THEOREM TypeCorrect == Spec => []TypeOK
<1>1. Spec => [](TypeOK /\ PlaceOK)
  BY TypeInit, TypeStep, PTL DEF Spec
<1> QED
  BY <1>1, PTL

-----------------------------------------------------------------------------
(* Winding down *)

\* What a step of one task leaves alone: the application, the flags, the other
\* tasks; and the two places it cannot be at or come to.
LEMMA TaskFrame ==
  ASSUME TypeOK, NEW t \in Task, TaskStep(t)
  PROVE  /\ UNCHANGED <<app, running>>
         /\ pc[t] \notin {"new", "done"} /\ pc'[t] # "new"
         /\ \A u \in Task : u # t => pc'[u] = pc[u] /\ outId'[u] = outId[u]
<1>1. CASE CheckInlet(t)
  BY <1>1 DEF CheckInlet, Goto, Leave, TypeOK
<1>2. CASE CheckGather(t)
  BY <1>2 DEF CheckGather, Move, Goto, TypeOK
<1>3. CASE GetEmpty(t)
  BY <1>3 DEF GetEmpty, Move, Goto, TypeOK
<1>4. CASE GetItem(t)
  BY <1>4 DEF GetItem, Get, Goto, AfterInlet, TypeOK
<1>5. CASE GatherItem(t)
  BY <1>5 DEF GatherItem, Goto, AfterInlet, TypeOK
<1>6. CASE Produce(t)
  BY <1>6 DEF Produce, Goto, TypeOK
<1>7. CASE Process(t)
  BY <1>7 DEF Process, Move, Goto, TypeOK
<1>8. CASE Raise(t)
  BY <1>8 DEF Raise, Move, Goto, Leave, TypeOK
<1>9. CASE CheckOutlet(t)
  BY <1>9 DEF CheckOutlet, Move, Goto, FirstPutStep, AfterOutlet, TypeOK
<1>10. CASE DiscardOld(t)
  BY <1>10 DEF DiscardOld, Goto, TypeOK
<1>11. CASE Put(t)
  BY <1>11 DEF Put, PutItem, Goto, AfterPut, AfterOutlet, TypeOK
<1>12. CASE PutFull(t)
  BY <1>12 DEF PutFull, PutFullTo, Move, Goto, TypeOK
<1>13. CASE TeePutFull(t)
  BY <1>13 DEF TeePutFull, TeePassOver, Goto, AfterPut, AfterOutlet, TypeOK
<1>14. CASE CheckStop(t)
  BY <1>14 DEF CheckStop, Move, Goto, LoopHead, Leave, TypeOK
<1>15. CASE Cleanup(t)
  BY <1>15 DEF Cleanup, Goto, TypeOK
<1> QED
  BY <1>1, <1>2, <1>3, <1>4, <1>5, <1>6, <1>7, <1>8, <1>9, <1>10, <1>11, <1>12, <1>13,
     <1>14, <1>15 DEF TaskStep

LEMMA Ranks ==
  /\ StopRank["done"] = 0 /\ StopRank["cleanup"] = 1
  /\ StopRank["inlet"] = 2 /\ StopRank["checkstop"] = 2
  /\ StopRank["gather"] = 3 /\ StopRank["outlet"] = 3
  /\ StopRank["proc"] = 4 /\ StopRank["put"] = 4
  /\ StopRank["discard"] = 5 /\ StopRank["get"] = 5
BY DEF StopRank

\* ToGo of a place, when Tee's position is j; ToGo(t) and ToGo(t)' are two of it.
ToGoAt(t, place, j) ==
  StopRank[place] + IF place = "put" /\ Kind[t] = "tee" THEN Len(OutQ[t]) - j ELSE 0

LEMMA StoppedStep ==
  ASSUME TypeOK, PlaceOK, NEW t \in Task, ~ running[t], TaskStep(t)
  PROVE  ToGo(t)' < ToGo(t)
<1>1. ToGo(t) = ToGoAt(t, pc[t], outId[t]) /\ ToGo(t)' = ToGoAt(t, pc'[t], outId'[t])
  BY DEF ToGo, PutsLeft, ToGoAt
<1>2. /\ outId[t] \in Nat /\ Len(OutQ[t]) \in Nat
      /\ Writes(t) => outId[t] < Len(OutQ[t])
  BY QueueLists DEF TypeOK
<1> SUFFICES ToGoAt(t, pc'[t], outId'[t]) < ToGoAt(t, pc[t], outId[t])
  BY <1>1
<1> USE Ranks DEF ToGoAt
<1>3. CASE CheckInlet(t)
  BY <1>3 DEF CheckInlet, Goto, Leave, TypeOK
<1>4. CASE CheckGather(t)
  BY <1>4 DEF CheckGather, Move, Goto, TypeOK
<1>5. CASE GetEmpty(t)
  BY <1>5 DEF GetEmpty, Move, Goto, TypeOK
<1>6. CASE GetItem(t)
  BY <1>6 DEF GetItem, Get, Goto, AfterInlet, TypeOK
<1>7. CASE GatherItem(t)
  BY <1>7 DEF GatherItem, Goto, AfterInlet, TypeOK
<1>8. CASE Produce(t)
  BY <1>8 DEF Produce, Goto, TypeOK
<1>9. CASE Process(t)
  BY <1>9 DEF Process, Move, Goto, TypeOK
<1>10. CASE Raise(t)
  BY <1>10 DEF Raise, Move, Goto, Leave, TypeOK
<1>11. CASE CheckOutlet(t)
  BY <1>11 DEF CheckOutlet, Move, Goto, AfterOutlet, TypeOK
<1>12. CASE DiscardOld(t)
  <2>1. Kind[t] = "capture"
    BY <1>12 DEF DiscardOld, Goto, PlaceOK
  <2> QED
    BY <1>12, <2>1 DEF DiscardOld, Goto, TypeOK
<1>13. CASE Put(t) \/ TeePutFull(t)
  <2>1. /\ pc[t] = "put" /\ pc'[t] = AfterPut(t)
        /\ outId'[t] = Next1(outId[t], OutQ[t])
    BY <1>13 DEF Put, PutItem, TeePutFull, TeePassOver, Goto, TypeOK
  <2>2. CASE Kind[t] = "tee" /\ outId[t] + 1 < Len(OutQ[t])
    <3>1. Next1(outId[t], OutQ[t]) = outId[t] + 1
      <4>1. Len(OutQ[t]) > 0 /\ outId[t] + 1 < Len(OutQ[t])
        BY <1>2, <2>2
      <4>2. (outId[t] + 1) % Len(OutQ[t]) = outId[t] + 1
        BY <1>2, <4>1, NextPosition
      <4> QED
        BY <4>2 DEF Next1
    <3> QED
      BY <1>2, <2>1, <2>2, <3>1 DEF AfterPut
  <2>3. CASE ~ (Kind[t] = "tee" /\ outId[t] + 1 < Len(OutQ[t]))
    <3>1. pc'[t] \in {"inlet", "checkstop"}
      BY <2>1, <2>3 DEF AfterPut, AfterOutlet
    <3>2. Writes(t)
      BY <2>1 DEF PlaceOK
    <3> QED
      BY <1>2, <2>1, <3>1, <3>2
  <2> QED
    BY <2>2, <2>3
<1>14. CASE PutFull(t)
  BY <1>14 DEF PutFull, PutFullTo, Move, Goto, TypeOK
<1>15. CASE CheckStop(t)
  BY <1>15 DEF CheckStop, Move, Goto, Leave, TypeOK
<1>16. CASE Cleanup(t)
  BY <1>16 DEF Cleanup, Goto, TypeOK
<1> QED
  BY <1>3, <1>4, <1>5, <1>6, <1>7, <1>8, <1>9, <1>10, <1>11, <1>12, <1>13, <1>14, <1>15,
     <1>16 DEF TaskStep

-----------------------------------------------------------------------------
(* The phases of Application.run *)

\* Tasks are new until the first loop of run comes to them, have their flag until
\* its second loop, have ended once its third loop is past them; cleanup() was
\* called by the ones that came to the end of their `finally', once.
Control ==
  /\ \A t \in Task : running[t] \/ appPc \in {"stop", "join", "returned"}
  /\ \A i \in DOMAIN Order : pc[Order[i]] = "new" <=> appPc = "start" /\ appNext <= i
  /\ appPc = "join" => \A i \in DOMAIN Order : i < appNext => pc[Order[i]] = "done"
  /\ appPc = "returned" => \A i \in DOMAIN Order : pc[Order[i]] = "done"
  /\ \A t \in Task : pc[t] = "cleanup" => HasFinally(t)
  /\ \A t \in Task : CleanedUp(t)

IInv == TypeOK /\ PlaceOK /\ Control

LEMMA ControlInit == Init => Control
BY RegistrationFacts DEF Init, Control, CleanedUp

\* The part of Control that is about one task, over a step of that task.
LEMMA TaskCleanup ==
  ASSUME TypeOK, NEW t \in Task, TaskStep(t), pc[t] = "cleanup" => HasFinally(t),
         \A u \in Task : CleanedUp(u)
  PROVE  /\ pc'[t] = "cleanup" => HasFinally(t)
         /\ \A u \in Task : CleanedUp(u)'
<1>1. CASE Cleanup(t)
  BY <1>1 DEF Cleanup, Goto, TypeOK, CleanedUp
<1>2. CASE ~ Cleanup(t)
  <2>1. cleaned' = cleaned
    BY <1>2 DEF TaskStep, CheckInlet, CheckGather, GetEmpty, GetItem, Get, GatherItem,
       Produce, Process, Raise, CheckOutlet, DiscardOld, Put, PutItem, PutFull, PutFullTo,
       TeePutFull, TeePassOver, CheckStop, Move, history
  <2>2. /\ pc'[t] = "cleanup" => HasFinally(t)
        /\ pc'[t] = "done" => ~ HasFinally(t)
    <3>1. CASE CheckInlet(t)
      BY <3>1 DEF CheckInlet, Goto, Leave, TypeOK
    <3>2. CASE GetItem(t) \/ GatherItem(t)
      BY <3>2 DEF GetItem, Get, GatherItem, Goto, AfterInlet, TypeOK
    <3>3. CASE Raise(t) \/ CheckStop(t)
      BY <3>3 DEF Raise, CheckStop, Move, Goto, Leave, LoopHead, TypeOK
    <3>4. CASE Put(t) \/ TeePutFull(t)
      BY <3>4 DEF Put, PutItem, TeePutFull, TeePassOver, Goto, AfterPut, AfterOutlet, TypeOK
    <3>5. CASE CheckGather(t) \/ GetEmpty(t) \/ Produce(t) \/ Process(t) \/ CheckOutlet(t)
               \/ DiscardOld(t) \/ PutFull(t)
      BY <3>5 DEF CheckGather, GetEmpty, Produce, Process, CheckOutlet, DiscardOld, PutFull,
         PutFullTo, Move, Goto, FirstPutStep, AfterOutlet, TypeOK
    <3> QED
      BY <1>2, <3>1, <3>2, <3>3, <3>4, <3>5 DEF TaskStep
  <2>3. \A u \in Task : u # t => pc'[u] = pc[u]
    BY TaskFrame
  <2>4. pc[t] # "done"
    BY TaskFrame
  <2> QED
    BY <2>1, <2>2, <2>3, <2>4 DEF CleanedUp
<1> QED
  BY <1>1, <1>2

LEMMA ControlStep == TypeOK /\ Control /\ [Next]_vars => Control'
<1> SUFFICES ASSUME TypeOK, Control, [Next]_vars  PROVE Control'
  OBVIOUS
<1> USE RegistrationFacts
<1>0. \A i, j \in DOMAIN Order : Order[i] = Order[j] => i = j
  BY Registration DEF Registration
<1>1. CASE AppStartTask
  <2>1. pc[Order[appNext]] = "new" /\ LoopHead(Order[appNext]) \in {"proc", "inlet"}
    BY <1>1 DEF AppStartTask, Step, Control, TypeOK, LoopHead
  <2>2. \A i \in DOMAIN Order : i # appNext => pc'[Order[i]] = pc[Order[i]]
    BY <1>0, <1>1 DEF AppStartTask, TypeOK
  <2>3. pc'[Order[appNext]] \in {"proc", "inlet"}
    BY <1>1, <2>1 DEF AppStartTask, TypeOK
  <2>4. \A i \in DOMAIN Order : pc'[Order[i]] = "new" <=> appPc' = "start" /\ appNext' <= i
    BY <1>1, <2>2, <2>3 DEF AppStartTask, Step, Control, TypeOK
  <2>5. \A t \in Task : pc'[t] = pc[t] \/ (pc[t] = "new" /\ pc'[t] \in {"proc", "inlet"})
    BY <1>1, <2>1, <2>3 DEF AppStartTask, TypeOK
  <2>6. \A t \in Task : CleanedUp(t)' /\ (pc'[t] = "cleanup" => HasFinally(t))
    BY <1>1, <2>5 DEF AppStartTask, history, Control, CleanedUp
  <2> QED
    BY <1>1, <2>4, <2>6 DEF AppStartTask, Step, Control
<1>2. CASE AppWake \/ AppKeyboardInterrupt \/ Stop
  BY <1>2 DEF AppWake, AppKeyboardInterrupt, Stop, history, Control, CleanedUp
<1>3. CASE AppStopTask
  BY <1>3 DEF AppStopTask, Step, history, Control, CleanedUp, TypeOK
<1>4. CASE AppJoinTask
  <2>1. \A i \in DOMAIN Order : i <= appNext => pc[Order[i]] = "done"
    BY <1>4 DEF AppJoinTask, Step, Control, TypeOK
  <2> QED
    BY <1>4, <2>1 DEF AppJoinTask, Step, history, Control, CleanedUp, TypeOK
<1>5. ASSUME NEW t \in Task, TaskStep(t)  PROVE Control'
  <2>1. UNCHANGED <<appRunning, appPc, appNext, running>>
    BY <1>5, TaskFrame DEF app
  <2>2. /\ \A u \in Task : u # t => pc'[u] = pc[u]
        /\ pc[t] \notin {"new", "done"} /\ pc'[t] # "new"
    BY <1>5, TaskFrame
  <2>3. \A u \in Task : CleanedUp(u)' /\ (pc'[u] = "cleanup" => HasFinally(u))
    BY <1>5, <2>2, TaskCleanup DEF Control
  <2> QED
    BY <2>1, <2>2, <2>3 DEF Control
<1>6. CASE UNCHANGED vars
  BY <1>6 DEF vars, app, history, Control, CleanedUp
<1> QED
  BY <1>1, <1>2, <1>3, <1>4, <1>5, <1>6 DEF Next, AppStep, Returned

LEMMA Inductive == Spec => []IInv
<1>1. Init => IInv
  BY TypeInit, ControlInit DEF IInv
<1>2. IInv /\ [Next]_vars => IInv'
  BY TypeStep, ControlStep DEF IInv
<1> QED
  BY <1>1, <1>2, PTL DEF Spec

\* Application.run returns only after every task has ended, and every Producer,
\* Pipe and Consumer that has ended has run its cleanup, once.
THEOREM JoinedAndCleanedUp == Spec => []ReturnsCleanedUp
<1>1. IInv => ReturnsCleanedUp
  BY Registration DEF IInv, Control, ReturnsCleanedUp, Registration
<1> QED
  BY <1>1, Inductive, PTL

\* A stopped task makes no step that does not bring it nearer to the end of run,
\* in any topology: stop() is obeyed within ToGo steps of the task.
THEOREM StopIsObeyed == Spec => StoppedWindsDown
<1> DEFINE Down(t) == ~ running[t] => ~ running'[t] /\ (<<pc[t], outId[t]>>' # <<pc[t], outId[t]>>
                                                          => ToGo(t)' < ToGo(t))
<1>1. ASSUME IInv, Next, NEW t \in Task, ~ running[t]
      PROVE  ~ running'[t] /\ (<<pc[t], outId[t]>>' # <<pc[t], outId[t]>> => ToGo(t)' < ToGo(t))
  <2>1. CASE AppStartTask
    BY <1>1, <2>1 DEF IInv, Control, AppStartTask, Step
  <2>2. CASE AppStopTask
    BY <1>1, <2>2 DEF IInv, TypeOK, AppStopTask
  <2>3. CASE AppWake \/ AppKeyboardInterrupt \/ Stop \/ AppJoinTask \/ Returned
    BY <1>1, <2>3 DEF AppWake, AppKeyboardInterrupt, Stop, AppJoinTask, Returned, vars
  <2>4. ASSUME NEW u \in Task, TaskStep(u)
        PROVE  ~ running'[t] /\ (<<pc[t], outId[t]>>' # <<pc[t], outId[t]>> => ToGo(t)' < ToGo(t))
    <3>1. ~ running'[t]
      BY <1>1, <2>4, TaskFrame DEF IInv
    <3>2. CASE u = t
      BY <1>1, <2>4, <3>1, <3>2, StoppedStep DEF IInv
    <3>3. CASE u # t
      BY <1>1, <2>4, <3>1, <3>3, TaskFrame DEF IInv
    <3> QED
      BY <3>2, <3>3
  <2> QED
    BY <1>1, <2>1, <2>2, <2>3, <2>4 DEF Next, AppStep
<1>2. IInv /\ [Next]_vars => [\A t \in Task : Down(t)]_vars
  BY <1>1
<1> QED
  BY <1>2, Inductive, PTL DEF Spec, StoppedWindsDown

-----------------------------------------------------------------------------
(* Discarding pads *)

\* connect() made the pad for one place: two tasks never put on the same one.
LEMMA OnlyWriter ==
  ASSUME NEW t \in Task, NEW u \in Task, NEW i \in Nat, NEW j \in Nat,
         i < Len(OutQ[t]), j < Len(OutQ[u]), OutQ[t][i + 1] = OutQ[u][j + 1]
  PROVE  t = u /\ i = j
<1>1. /\ OutQ[t] \in Seq(Pad) /\ OutQ[u] \in Seq(Pad)
      /\ i + 1 \in DOMAIN OutQ[t] /\ j + 1 \in DOMAIN OutQ[u]
  BY QueueLists
<1>2. OnePlace(OutQ, OutQ[t][i + 1])
  BY <1>1, Topology DEF Topology
<1> QED
  BY <1>1, <1>2 DEF OnePlace

LEMMA CaptureStep ==
  TypeOK /\ PlaceOK /\ CaptureNeverBlocks /\ [Next]_vars => CaptureNeverBlocks'
<1> SUFFICES ASSUME TypeOK, PlaceOK, CaptureNeverBlocks, [Next]_vars,
                    NEW t \in Task, Kind[t] = "capture", pc'[t] = "put"
             PROVE  pad'[Out(t)'] = << >>
  BY DEF CaptureNeverBlocks
<1>1. Writes(t) /\ outId[t] \in Nat /\ outId[t] < Len(OutQ[t])
  BY DEF Writes, TypeOK
<1>2. Out(t) \in Pad
  BY <1>1, OutIsPad DEF Out
<1>3. pc[t] = "put" => pad[Out(t)] = << >>
  BY DEF CaptureNeverBlocks
<1>4. CASE AppStep \/ AppKeyboardInterrupt \/ Stop \/ Returned \/ UNCHANGED vars
  <2>1. UNCHANGED <<outId, pad>>
    BY <1>4 DEF AppStep, AppStartTask, AppWake, AppStopTask, AppJoinTask,
       AppKeyboardInterrupt, Stop, Returned, vars, app, history
  <2>2. pc[t] = "put"
    BY <1>4 DEF AppStep, AppStartTask, AppWake, AppStopTask, AppJoinTask, LoopHead,
       AppKeyboardInterrupt, Stop, Returned, vars, app, history, TypeOK
  <2> QED
    BY <1>3, <2>1, <2>2 DEF Out
<1>5. ASSUME NEW u \in Task, TaskStep(u), u # t
      PROVE  pad'[Out(t)'] = << >>
  <2>1. pc[t] = "put" /\ outId'[t] = outId[t]
    BY <1>5, TaskFrame
  <2>2. Out(t)' = Out(t)
    BY <2>1 DEF Out
  <2>3. pad[Out(t)] = << >>
    BY <1>3, <2>1
  <2>4. CASE GetItem(u) \/ GatherItem(u)
    <3>1. pad[In(u)] # << >> /\ pad' = [pad EXCEPT ![In(u)] = Tail(@)]
      BY <2>4 DEF GetItem, Get, GatherItem
    <3> QED
      BY <1>2, <2>2, <2>3, <3>1 DEF TypeOK
  <2>5. CASE DiscardOld(u)
    BY <1>2, <2>2, <2>3, <2>5 DEF DiscardOld, TypeOK
  <2>6. CASE Put(u)
    <3>1. Writes(u) /\ outId[u] \in Nat /\ outId[u] < Len(OutQ[u])
      BY <2>6 DEF Put, PutItem, Goto, PlaceOK, TypeOK
    <3>2. Out(u) # Out(t)
      BY <1>1, <1>5, <3>1, OnlyWriter DEF Out
    <3> QED
      BY <1>2, <2>2, <2>3, <2>6, <3>2 DEF Put, PutItem, TypeOK
  <2>7. CASE pad' = pad
    BY <2>2, <2>3, <2>7
  <2> QED
    BY <1>5, <2>4, <2>5, <2>6, <2>7 DEF TaskStep, CheckInlet, CheckGather, GetEmpty, Produce,
       Process, Raise, CheckOutlet, PutFull, PutFullTo, TeePutFull, TeePassOver, CheckStop,
       Cleanup, Move
<1>6. CASE TaskStep(t)
  <2>1. DiscardOld(t)
    BY <1>6 DEF TaskStep, CheckInlet, CheckGather, GetEmpty, GetItem, Get, GatherItem, Produce,
       Process, Raise, CheckOutlet, Put, PutItem, PutFull, PutFullTo, TeePutFull, TeePassOver,
       CheckStop, Cleanup, Move, Goto, Leave, LoopHead, AfterInlet, FirstPutStep, AfterOutlet,
       AfterPut, TypeOK
  <2> QED
    BY <1>2, <2>1 DEF DiscardOld, Out, TypeOK
<1> QED
  BY <1>4, <1>5, <1>6 DEF Next

\* The put that ends _PadDiscardingOld.put finds the slot empty in every topology,
\* however slow the readers are: a capture is the only one that puts on its pads.
THEOREM CaptureFindsRoom == Spec => []CaptureNeverBlocks
<1>1. Init => CaptureNeverBlocks
  BY DEF Init, CaptureNeverBlocks
<1>2. Spec => [](TypeOK /\ PlaceOK)
  BY Inductive, PTL DEF IInv
<1> QED
  BY <1>1, <1>2, CaptureStep, PTL DEF Spec

-----------------------------------------------------------------------------
(* Dealing in turn *)

\* The full rounds a task has made of its out_queues, the items it has dealt out,
\* whether the item in its hand is one it has yet to deal out, and whether it is
\* on its way out, where a last item may be dropped.
Rounds(t) == Len(sent[OutQ[t][Len(OutQ[t])]])
Dealt(t) == Rounds(t) * Len(OutQ[t]) + outId[t]
Pending(t) == pc[t] \in {"outlet", "discard", "put"} \/ (pc[t] = "proc" /\ Kind[t] = "pipe")
Finishing(t) == pc[t] \in {"cleanup", "done"} \/ (pc[t] \in {"inlet", "checkstop"} /\ ~ running[t])

\* The pads before out_queue_id are one item ahead of the others; what was taken
\* is what was dealt out and the item in the hand; and every item is in its place.
Levels(t) ==
  \A i \in DOMAIN OutQ[t] :
    Len(sent[OutQ[t][i]]) = Rounds(t) + IF i <= outId[t] THEN 1 ELSE 0
Count(t) ==
  /\ Pending(t) => Len(taken[t]) = Dealt(t) + 1 /\ hand[t] = taken[t][Len(taken[t])]
  /\ ~ Pending(t) => \/ Len(taken[t]) = Dealt(t)
                     \/ Len(taken[t]) = Dealt(t) + 1 /\ Finishing(t)
Content(t) ==
  \A i \in DOMAIN OutQ[t] : \A k \in DOMAIN sent[OutQ[t][i]] :
    LET turn == (k - 1) * Len(OutQ[t]) + i IN
      turn \in DOMAIN taken[t] /\ sent[OutQ[t][i]][k] = taken[t][turn]

Dealer(t) == Writes(t) /\ Kind[t] # "tee"
DealsAt(t) == Levels(t) /\ Count(t) /\ Content(t)
Deals == \A t \in Task : Dealer(t) => DealsAt(t)

LEMMA LastPad ==
  ASSUME NEW t \in Task, Writes(t)
  PROVE  /\ Len(OutQ[t]) \in Nat /\ Len(OutQ[t]) > 0
         /\ DOMAIN OutQ[t] = 1 .. Len(OutQ[t])
         /\ \A i \in DOMAIN OutQ[t] : OutQ[t][i] \in Pad
BY QueueLists

LEMMA DealsInit == Init => Deals
<1> SUFFICES ASSUME Init, NEW t \in Task, Dealer(t)  PROVE DealsAt(t)
  BY DEF Deals
<1>1. \A i \in DOMAIN OutQ[t] : sent[OutQ[t][i]] = << >>
  BY LastPad DEF Dealer, Init
<1>2. Rounds(t) = 0
  BY <1>1, LastPad DEF Dealer, Rounds
<1>3. outId[t] = 0 /\ taken[t] = << >> /\ pc[t] = "new"
  BY DEF Init
<1>4. Dealt(t) = 0
  BY <1>2, <1>3, LastPad DEF Dealt, Dealer
<1>5. Levels(t) /\ Content(t)
  BY <1>1, <1>2, <1>3, LastPad DEF Levels, Content, Dealer
<1>6. Count(t)
  BY <1>3, <1>4 DEF Count, Pending
<1> QED
  BY <1>5, <1>6 DEF DealsAt

\* A step that leaves a task's pads, histories and hand alone and moves it so
\* that what is pending stays pending, or is dropped on the way out.
LEMMA DealsKept ==
  ASSUME NEW t \in Task, Dealer(t), DealsAt(t),
         \A i \in DOMAIN OutQ[t] : sent'[OutQ[t][i]] = sent[OutQ[t][i]],
         taken'[t] = taken[t], outId'[t] = outId[t],
         Pending(t)' => Pending(t) /\ hand'[t] = hand[t],
         ~ Pending(t)' /\ Pending(t) => Finishing(t)',
         Finishing(t) => Finishing(t)'
  PROVE  DealsAt(t)'
<1>1. Rounds(t)' = Rounds(t)
  BY LastPad DEF Rounds, Dealer
<1>2. Dealt(t)' = Dealt(t)
  BY <1>1 DEF Dealt
<1>3. Levels(t)' /\ Content(t)'
  BY <1>1 DEF Levels, Content, DealsAt
<1>4. Count(t)'
  BY <1>2 DEF Count, DealsAt
<1> QED
  BY <1>3, <1>4 DEF DealsAt

\* A step in which the task takes one more item into its hand.
LEMMA DealsTaken ==
  ASSUME TypeOK, NEW t \in Task, Dealer(t), DealsAt(t), NEW item \in Item,
         ~ Pending(t), ~ Finishing(t), Pending(t)',
         sent' = sent, outId'[t] = outId[t],
         taken'[t] = Append(taken[t], item), hand'[t] = item
  PROVE  DealsAt(t)'
<1>1. Rounds(t)' = Rounds(t) /\ Dealt(t)' = Dealt(t)
  BY DEF Rounds, Dealt
<1>2. Levels(t)'
  BY <1>1 DEF Levels, DealsAt
<1>3. taken[t] \in Seq(Item) /\ taken'[t] \in Seq(Item)
  BY SequenceFacts DEF TypeOK
<1>4. /\ Len(taken'[t]) = Len(taken[t]) + 1
      /\ taken'[t][Len(taken[t]) + 1] = item
      /\ \A k \in DOMAIN taken[t] : k \in DOMAIN taken'[t] /\ taken'[t][k] = taken[t][k]
  BY <1>3
<1>5. Content(t)'
  BY <1>4 DEF Content, DealsAt
<1>6. Count(t)'
  BY <1>1, <1>4 DEF Count, DealsAt
<1> QED
  BY <1>2, <1>5, <1>6 DEF DealsAt

LEMMA RoundUp ==
  ASSUME NEW q \in Nat, NEW n \in Nat
  PROVE  (q + 1) * n + 0 = q * n + n /\ q * n \in Nat
OBVIOUS

\* The put of a pending item: it goes to the place of its turn.
LEMMA DealsPut ==
  ASSUME TypeOK, PlaceOK, NEW t \in Task, Dealer(t), DealsAt(t), Put(t)
  PROVE  DealsAt(t)'
<1> DEFINE n == Len(OutQ[t])
           o == outId[t]
           q == Rounds(t)
           last == Len(taken[t])
<1>1. /\ n \in Nat /\ n > 0 /\ DOMAIN OutQ[t] = 1 .. n /\ o \in Nat /\ o < n
      /\ \A i \in DOMAIN OutQ[t] : OutQ[t][i] \in Pad
  BY LastPad DEF Dealer, TypeOK
<1>2. /\ \A p \in Pad : sent[p] \in Seq(Item) /\ Len(sent[p]) \in Nat
      /\ q \in Nat /\ last \in Nat /\ hand[t] \in Item
  BY <1>1 DEF TypeOK, Rounds
<1>3. Pending(t) /\ last = q * n + o + 1 /\ hand[t] = taken[t][last]
  <2>1. Pending(t)
    BY DEF Put, PutItem, Goto, Pending
  <2>2. Dealt(t) = q * n + o
    BY DEF Dealt
  <2> QED
    BY <2>1, <2>2 DEF DealsAt, Count
<1>4. last \in DOMAIN taken[t] /\ taken' = taken
  <2>1. last >= 1
    BY <1>1, <1>2, <1>3, RoundUp
  <2>2. taken[t] \in Seq(Item)
    BY DEF TypeOK
  <2> QED
    BY <2>1, <2>2 DEF Put, PutItem
<1>5. Out(t) = OutQ[t][o + 1] /\ Out(t) \in Pad /\ o + 1 \in DOMAIN OutQ[t]
  BY <1>1 DEF Out
<1>6. /\ \A i \in DOMAIN OutQ[t] : i # o + 1 => sent'[OutQ[t][i]] = sent[OutQ[t][i]]
      /\ sent'[OutQ[t][o + 1]] = Append(sent[OutQ[t][o + 1]], hand[t])
  <2>1. ASSUME NEW i \in DOMAIN OutQ[t], i # o + 1  PROVE OutQ[t][i] # Out(t)
    <3>1. i - 1 \in Nat /\ i - 1 < n /\ (i - 1) + 1 = i
      BY <1>1
    <3> QED
      BY <1>1, <1>5, <2>1, <3>1, OnlyWriter
  <2>2. sent' = [sent EXCEPT ![Out(t)] = Append(@, hand[t])]
    BY DEF Put, PutItem
  <2> QED
    BY <1>1, <1>5, <2>1, <2>2 DEF TypeOK
<1>7. /\ Len(sent[OutQ[t][o + 1]]) = q
      /\ Len(sent'[OutQ[t][o + 1]]) = q + 1
      /\ sent'[OutQ[t][o + 1]][q + 1] = hand[t]
      /\ \A k \in 1 .. q : sent'[OutQ[t][o + 1]][k] = sent[OutQ[t][o + 1]][k]
      /\ DOMAIN sent'[OutQ[t][o + 1]] = 1 .. q + 1 /\ DOMAIN sent[OutQ[t][o + 1]] = 1 .. q
  <2>1. Len(sent[OutQ[t][o + 1]]) = q
    BY <1>1, <1>2, <1>5 DEF DealsAt, Levels
  <2> DEFINE s == sent[OutQ[t][o + 1]]
             r == sent'[OutQ[t][o + 1]]
             e == hand[t]
  <2>2. s \in Seq(Item) /\ Len(s) = q
    BY <1>5, <2>1 DEF TypeOK
  <2>3. r = Append(s, e)
    BY <1>6
  <2> HIDE DEF s, r, e
  <2>4. Len(r) = q + 1 /\ r[q + 1] = e /\ \A k \in 1 .. q : r[k] = s[k]
    BY <2>2, <2>3
  <2>5. DOMAIN r = 1 .. q + 1 /\ DOMAIN s = 1 .. q
    BY <2>2, <2>3
  <2> QED
    BY <2>2, <2>4, <2>5 DEF s, r, e
<1>8. Content(t)'
  <2> SUFFICES ASSUME NEW i \in DOMAIN OutQ[t], NEW k \in DOMAIN sent'[OutQ[t][i]]
               PROVE  /\ (k - 1) * n + i \in DOMAIN taken[t]
                      /\ sent'[OutQ[t][i]][k] = taken[t][(k - 1) * n + i]
    BY <1>4 DEF Content
  <2>1. ASSUME NEW j \in DOMAIN OutQ[t], NEW l \in DOMAIN sent[OutQ[t][j]]
        PROVE  /\ (l - 1) * n + j \in DOMAIN taken[t]
               /\ sent[OutQ[t][j]][l] = taken[t][(l - 1) * n + j]
    BY DEF DealsAt, Content
  <2>2. CASE i # o + 1
    <3>1. sent'[OutQ[t][i]] = sent[OutQ[t][i]]
      BY <1>6, <2>2
    <3>2. k \in DOMAIN sent[OutQ[t][i]]
      BY <3>1
    <3> QED
      BY <2>1, <3>1, <3>2, Zenon
  <2>3. CASE i = o + 1 /\ k # q + 1
    <3>1. k \in DOMAIN sent[OutQ[t][i]] /\ k \in 1 .. q
      <4>1. k \in 1 .. q + 1 /\ DOMAIN sent[OutQ[t][i]] = 1 .. q
        BY <1>7, <2>3, Zenon
      <4>2. k \in 1 .. q
        BY <1>2, <2>3, <4>1
      <4> QED
        BY <4>1, <4>2
    <3> QED
      BY <1>7, <2>1, <2>3, <3>1
  <2>4. CASE i = o + 1 /\ k = q + 1
    <3>1. (k - 1) * n + i = last
      <4>1. k - 1 = q
        BY <1>2, <2>4
      <4>2. q * n \in Nat
        BY <1>1, <1>2, RoundUp
      <4>3. q * n + i = last
        BY <1>1, <1>3, <2>4, <4>2
      <4> QED
        BY <4>1, <4>3
    <3> QED
      BY <1>3, <1>4, <1>7, <2>4, <3>1
  <2> QED
    BY <2>2, <2>3, <2>4
<1>9. /\ outId'[t] = (IF o + 1 < n THEN o + 1 ELSE 0)
      /\ Rounds(t)' = (IF o + 1 < n THEN q ELSE q + 1)
  <2>1. outId'[t] = (o + 1) % n
    BY DEF Put, PutItem, Next1, TypeOK
  <2>2. n \in DOMAIN OutQ[t] /\ Rounds(t)' = Len(sent'[OutQ[t][n]])
    BY <1>1 DEF Rounds
  <2>3. CASE o + 1 < n
    <3>1. (o + 1) % n = o + 1
      BY <1>1, <2>3, NextPosition
    <3>2. n # o + 1
      BY <1>1, <2>3
    <3> QED
      BY <1>6, <2>1, <2>2, <2>3, <3>1, <3>2 DEF Rounds
  <2>4. CASE ~ (o + 1 < n)
    <3>1. n = o + 1
      BY <1>1, <2>4
    <3>2. (o + 1) % n = 0
      BY <1>1, <3>1, WrapAround
    <3> QED
      BY <1>7, <2>1, <2>2, <2>4, <3>1, <3>2
  <2> QED
    BY <2>3, <2>4
<1>10. Levels(t)'
  <2> SUFFICES ASSUME NEW i \in DOMAIN OutQ[t]
               PROVE  Len(sent'[OutQ[t][i]]) = Rounds(t)' + IF i <= outId'[t] THEN 1 ELSE 0
    BY DEF Levels
  <2>1. Len(sent[OutQ[t][i]]) = q + IF i <= o THEN 1 ELSE 0
    BY DEF DealsAt, Levels
  <2>2. CASE i = o + 1
    BY <1>1, <1>2, <1>7, <1>9, <2>2
  <2>3. CASE i # o + 1
    BY <1>1, <1>2, <1>6, <1>9, <2>1, <2>3
  <2> QED
    BY <2>2, <2>3
<1>11. Len(taken'[t]) = Dealt(t)'
  <2>1. Dealt(t)' = Rounds(t)' * n + outId'[t]
    BY DEF Dealt
  <2>2. q * n \in Nat
    BY <1>1, <1>2, RoundUp
  <2>3. CASE o + 1 < n
    BY <1>1, <1>3, <1>4, <1>9, <2>1, <2>2, <2>3
  <2>4. CASE ~ (o + 1 < n)
    <3>1. n = o + 1
      BY <1>1, <2>4
    <3>2. Dealt(t)' = (q + 1) * n + 0
      BY <1>9, <2>1, <2>4
    <3>3. Dealt(t)' = q * n + n
      BY <1>1, <1>2, <3>2, RoundUp
    <3> QED
      BY <1>1, <1>3, <1>4, <2>2, <3>1, <3>3
  <2> QED
    BY <2>3, <2>4
<1>12. ~ Pending(t)'
  BY DEF Put, PutItem, Goto, AfterPut, AfterOutlet, Pending, Dealer, TypeOK
<1>13. Count(t)'
  BY <1>11, <1>12 DEF Count
<1> QED
  BY <1>8, <1>10, <1>13 DEF DealsAt

LEMMA DealsTaskStep ==
  ASSUME TypeOK, PlaceOK, NEW t \in Task, Dealer(t), DealsAt(t), TaskStep(t)
  PROVE  DealsAt(t)'
<1>1. CASE GetItem(t)
  <2>1. Kind[t] = "pipe" /\ In(t) \in Pad /\ pad[In(t)] # << >>
    BY <1>1, QueueLists, InIsPad DEF GetItem, Get, Goto, In, PlaceOK, Reads, Dealer, Writes, TypeOK
  <2>2. Head(pad[In(t)]) \in Item
    BY <2>1, SequenceFacts DEF TypeOK
  <2>3. ~ Pending(t) /\ ~ Finishing(t) /\ Pending(t)'
    BY <1>1, <2>1 DEF GetItem, Get, Goto, AfterInlet, Pending, Finishing, TypeOK
  <2> QED
    BY <1>1, <2>2, <2>3, DealsTaken DEF GetItem, Get, TypeOK
<1>2. CASE GatherItem(t) /\ inId[t] + 1 = Len(InQ[t])
  <2>1. Kind[t] = "join" /\ In(t) \in Pad /\ pad[In(t)] # << >>
    BY <1>2, InIsPad DEF GatherItem, Goto, In, PlaceOK, Reads, TypeOK
  <2>2. Head(pad[In(t)]) \in Item
    BY <2>1, SequenceFacts DEF TypeOK
  <2>3. hand'[t] \in Item
    BY <1>2, <2>2 DEF GatherItem, Item, TypeOK
  <2>4. ~ Pending(t) /\ ~ Finishing(t) /\ Pending(t)'
    BY <1>2, <2>1 DEF GatherItem, Goto, AfterInlet, Pending, Finishing, TypeOK
  <2> QED
    BY <1>2, <2>3, <2>4, DealsTaken DEF GatherItem, TypeOK
<1>3. CASE Produce(t)
  <2>1. << [src |-> t, n |-> Len(taken[t]) + 1] >> \in Item
    BY DEF TypeOK, Item, Frame
  <2>2. ~ Pending(t) /\ ~ Finishing(t) /\ Pending(t)'
    BY <1>3 DEF Produce, Source, Goto, Pending, Finishing, TypeOK
  <2> QED
    BY <1>3, <2>1, <2>2, DealsTaken DEF Produce, TypeOK
<1>4. CASE Put(t)
  BY <1>4, DealsPut
<1>5. CASE /\ ~ GetItem(t) /\ ~ Produce(t) /\ ~ Put(t)
           /\ ~ (GatherItem(t) /\ inId[t] + 1 = Len(InQ[t]))
  <2>1. ~ TeePutFull(t)
    BY DEF TeePutFull, TeePassOver, Dealer
  <2>2. sent' = sent /\ taken' = taken /\ outId' = outId
    BY <1>5, <2>1 DEF TaskStep, CheckInlet, CheckGather, GetEmpty, GatherItem, Process, Raise,
       CheckOutlet, DiscardOld, PutFull, PutFullTo, CheckStop, Cleanup, Move, history
  <2>3. running' = running
    BY TaskFrame
  <2>4. /\ Pending(t)' => Pending(t) /\ hand'[t] = hand[t]
        /\ ~ Pending(t)' /\ Pending(t) => Finishing(t)'
        /\ Finishing(t) => Finishing(t)'
    <3>1. CASE CheckInlet(t)
      BY <2>3, <3>1 DEF CheckInlet, Goto, Leave, Pending, Finishing, Dealer, Writes, PlaceOK, TypeOK
    <3>2. CASE CheckGather(t)
      BY <2>3, <3>2 DEF CheckGather, Move, Goto, Pending, Finishing, TypeOK
    <3>3. CASE GetEmpty(t)
      BY <2>3, <3>3 DEF GetEmpty, Move, Goto, Pending, Finishing, TypeOK
    <3>4. CASE GatherItem(t)
      BY <1>5, <2>3, <3>4 DEF GatherItem, Goto, Pending, Finishing, TypeOK
    <3>5. CASE Process(t)
      <4>1. Kind[t] = "pipe"
        BY <3>5 DEF Process, Move, Goto, Reads, Dealer, Writes, PlaceOK
      <4> QED
        BY <2>3, <3>5, <4>1 DEF Process, Move, Goto, Pending, Finishing, Writes, TypeOK
    <3>6. CASE Raise(t)
      BY <2>3, <3>6 DEF Raise, Move, Goto, Leave, Pending, Finishing, TypeOK
    <3>7. CASE CheckOutlet(t)
      BY <2>3, <3>7 DEF CheckOutlet, Move, Goto, FirstPutStep, AfterOutlet, Pending, Finishing, TypeOK
    <3>8. CASE DiscardOld(t)
      BY <2>3, <3>8 DEF DiscardOld, Goto, Pending, Finishing, TypeOK
    <3>9. CASE PutFull(t)
      BY <2>3, <3>9 DEF PutFull, PutFullTo, Move, Goto, Pending, Finishing, TypeOK
    <3>10. CASE CheckStop(t)
      BY <2>3, <3>10 DEF CheckStop, Move, Goto, LoopHead, Leave, Pending, Finishing, TypeOK
    <3>11. CASE Cleanup(t)
      BY <2>3, <3>11 DEF Cleanup, Goto, Pending, Finishing, TypeOK
    <3> QED
      BY <1>5, <2>1, <3>1, <3>2, <3>3, <3>4, <3>5, <3>6, <3>7, <3>8, <3>9, <3>10, <3>11
         DEF TaskStep
  <2> QED
    BY <2>2, <2>4, DealsKept
<1> QED
  BY <1>1, <1>2, <1>3, <1>4, <1>5

\* A step of another task does not touch what this one has taken or dealt out.
LEMMA OthersLeaveAlone ==
  ASSUME TypeOK, PlaceOK, NEW t \in Task, Writes(t), NEW u \in Task, u # t, TaskStep(u)
  PROVE  /\ \A i \in DOMAIN OutQ[t] : sent'[OutQ[t][i]] = sent[OutQ[t][i]]
         /\ taken'[t] = taken[t] /\ hand'[t] = hand[t] /\ outId'[t] = outId[t]
<1>1. CASE Put(u)
  <2>1. Writes(u) /\ outId[u] \in Nat /\ outId[u] < Len(OutQ[u])
    BY <1>1 DEF Put, PutItem, Goto, PlaceOK, TypeOK
  <2>2. ASSUME NEW i \in DOMAIN OutQ[t]  PROVE OutQ[t][i] # Out(u)
    <3>1. i - 1 \in Nat /\ i - 1 < Len(OutQ[t]) /\ (i - 1) + 1 = i
      BY LastPad
    <3> QED
      BY <2>1, <3>1, OnlyWriter DEF Out
  <2> QED
    BY <1>1, <2>2, LastPad DEF Put, PutItem, TypeOK
<1>2. CASE ~ Put(u)
  <2>1. sent' = sent
    BY <1>2 DEF TaskStep, CheckInlet, CheckGather, GetEmpty, GetItem, Get, GatherItem, Produce,
       Process, Raise, CheckOutlet, DiscardOld, PutFull, PutFullTo, TeePutFull, TeePassOver,
       CheckStop, Cleanup, Move, history
  <2>2. taken'[t] = taken[t] /\ hand'[t] = hand[t]
    BY <1>2 DEF TaskStep, CheckInlet, CheckGather, GetEmpty, GetItem, Get, GatherItem, Produce,
       Process, Raise, CheckOutlet, DiscardOld, PutFull, PutFullTo, TeePutFull, TeePassOver,
       CheckStop, Cleanup, Move, history, TypeOK
  <2> QED
    BY <2>1, <2>2, TaskFrame
<1> QED
  BY <1>1, <1>2

LEMMA DealsStep == TypeOK /\ PlaceOK /\ Control /\ Deals /\ [Next]_vars => Deals'
<1> SUFFICES ASSUME TypeOK, PlaceOK, Control, Deals, [Next]_vars, NEW t \in Task, Dealer(t)
             PROVE  DealsAt(t)'
  BY DEF Deals, Dealer, Writes
<1>1. DealsAt(t)
  BY DEF Deals
<1>2. CASE AppStartTask
  <2>1. UNCHANGED <<sent, taken, hand, outId, running>>
    BY <1>2 DEF AppStartTask, history
  <2>2. pc'[t] = pc[t] \/ (pc[t] = "new" /\ pc'[t] = LoopHead(t))
    BY <1>2 DEF AppStartTask, Step, Control, TypeOK
  <2>3. /\ Pending(t)' => Pending(t)
        /\ ~ Pending(t)' /\ Pending(t) => Finishing(t)'
        /\ Finishing(t) => Finishing(t)'
    BY <2>1, <2>2 DEF LoopHead, Pending, Finishing
  <2> QED
    BY <1>1, <2>1, <2>3, DealsKept
<1>3. CASE AppStopTask
  <2>1. UNCHANGED <<sent, taken, hand, outId, pc>>
    BY <1>3 DEF AppStopTask, history
  <2>2. ~ running[t] => ~ running'[t]
    BY <1>3 DEF AppStopTask, TypeOK
  <2>3. Pending(t)' = Pending(t) /\ (Finishing(t) => Finishing(t)')
    BY <2>1, <2>2 DEF Pending, Finishing
  <2> QED
    BY <1>1, <2>1, <2>3, DealsKept
<1>4. CASE AppWake \/ AppJoinTask \/ AppKeyboardInterrupt \/ Stop \/ Returned \/ UNCHANGED vars
  <2>1. UNCHANGED <<sent, taken, hand, outId, running, pc>>
    BY <1>4 DEF AppWake, AppJoinTask, AppKeyboardInterrupt, Stop, Returned, vars, app, history
  <2>2. Pending(t)' = Pending(t) /\ Finishing(t)' = Finishing(t)
    BY <2>1 DEF Pending, Finishing
  <2> QED
    BY <1>1, <2>1, <2>2, DealsKept
<1>5. ASSUME NEW u \in Task, u # t, TaskStep(u)
      PROVE  DealsAt(t)'
  <2>1. /\ \A i \in DOMAIN OutQ[t] : sent'[OutQ[t][i]] = sent[OutQ[t][i]]
        /\ taken'[t] = taken[t] /\ hand'[t] = hand[t] /\ outId'[t] = outId[t]
    BY <1>5, OthersLeaveAlone DEF Dealer
  <2>2. pc'[t] = pc[t] /\ running' = running
    BY <1>5, TaskFrame
  <2>3. Pending(t)' = Pending(t) /\ Finishing(t)' = Finishing(t)
    BY <2>2 DEF Pending, Finishing
  <2> QED
    BY <1>1, <2>1, <2>3, DealsKept
<1>6. CASE TaskStep(t)
  BY <1>1, <1>6, DealsTaskStep
<1> QED
  BY <1>2, <1>3, <1>4, <1>5, <1>6 DEF Next, AppStep

\* Every task but a Tee deals the items it takes out to its pads in strict turn,
\* in every topology, whatever the timeouts, the stop and the exceptions.
THEOREM DealtInTurn == Spec => []DealsInTurn
<1>1. Init => Deals
  BY DealsInit
<1>2. Spec => [](TypeOK /\ PlaceOK /\ Control)
  BY Inductive, PTL DEF IInv
<1>3. Deals => DealsInTurn
  BY DEF Deals, Dealer, DealsAt, Content, DealsInTurn
<1> QED
  BY <1>1, <1>2, <1>3, DealsStep, PTL DEF Spec

-----------------------------------------------------------------------------
(* Taking in turn *)

\* A reader other than a Join has made q full rounds of its in_queues and has
\* taken one more item from each of the pads before in_queue_id.  What was put on
\* a pad that does not discard was taken, each item at its turn, or is in the slot.
Taker(t) == Reads(t) /\ Kind[t] # "join"
TakenFrom(t, i, q) == q + IF i <= inId[t] THEN 1 ELSE 0
TakesFrom(t, i, q) ==
  LET p == InQ[t][i]
      out == TakenFrom(t, i, q) IN
    /\ Len(sent[p]) = out + Len(pad[p])
    /\ \A k \in 1 .. Len(pad[p]) : pad[p][k] = sent[p][out + k]
    /\ \A k \in 1 .. out :
         LET turn == (k - 1) * Len(InQ[t]) + i IN
           turn \in DOMAIN taken[t] /\ taken[t][turn] = sent[p][k]
TakesAt(t, q) ==
  /\ Len(taken[t]) = q * Len(InQ[t]) + inId[t]
  /\ \A i \in DOMAIN InQ[t] : ~ Discarding(InQ[t][i]) => TakesFrom(t, i, q)
Takes == \A t \in Task : Taker(t) => \E q \in Nat : TakesAt(t, q)

LEMMA FirstPad ==
  ASSUME NEW t \in Task, Reads(t)
  PROVE  /\ Len(InQ[t]) \in Nat /\ Len(InQ[t]) > 0
         /\ DOMAIN InQ[t] = 1 .. Len(InQ[t])
         /\ \A i \in DOMAIN InQ[t] : InQ[t][i] \in Pad
BY QueueLists

\* connect() made the pad for one place: two tasks never wait on the same one.
LEMMA OnlyReader ==
  ASSUME NEW t \in Task, NEW u \in Task, NEW i \in DOMAIN InQ[t], NEW j \in DOMAIN InQ[u],
         InQ[t][i] = InQ[u][j]
  PROVE  t = u /\ i = j
<1>1. InQ[t] \in Seq(Pad)
  BY QueueLists
<1>2. InQ[t][i] \in Pad
  BY <1>1
<1>3. OnePlace(InQ, InQ[t][i])
  BY <1>2, Topology DEF Topology
<1> QED
  BY <1>3 DEF OnePlace

LEMMA FullRound ==
  ASSUME NEW q \in Nat, NEW n \in Nat
  PROVE  (q + 1) * n = q * n + n /\ q * n \in Nat
OBVIOUS

LEMMA TakesInit == Init => Takes
<1> SUFFICES ASSUME Init, NEW t \in Task, Taker(t)  PROVE TakesAt(t, 0)
  BY DEF Takes
<1>1. \A i \in DOMAIN InQ[t] : sent[InQ[t][i]] = << >> /\ pad[InQ[t][i]] = << >>
  BY FirstPad DEF Taker, Init
<1>2. inId[t] = 0 /\ taken[t] = << >> /\ Len(InQ[t]) \in Nat
  BY FirstPad DEF Init, Taker
<1>3. \A i \in DOMAIN InQ[t] : TakenFrom(t, i, 0) = 0
  BY <1>2, FirstPad DEF TakenFrom, Taker
<1>4. ASSUME NEW i \in DOMAIN InQ[t]  PROVE TakesFrom(t, i, 0)
  <2>1. Len(sent[InQ[t][i]]) = 0 /\ Len(pad[InQ[t][i]]) = 0
    BY <1>1
  <2>2. /\ Len(sent[InQ[t][i]]) = TakenFrom(t, i, 0) + Len(pad[InQ[t][i]])
        /\ \A k : k \notin 1 .. Len(pad[InQ[t][i]]) /\ k \notin 1 .. TakenFrom(t, i, 0)
    BY <1>3, <2>1
  <2> QED
    BY <2>2, Zenon DEF TakesFrom
<1>5. Len(taken[t]) = 0 * Len(InQ[t]) + inId[t]
  BY <1>2
<1> QED
  BY <1>4, <1>5 DEF TakesAt

\* A step that leaves a reader's pads and what it has taken alone.
LEMMA TakesKept ==
  ASSUME NEW t \in Task, NEW q \in Nat, TakesAt(t, q),
         \A i \in DOMAIN InQ[t] : ~ Discarding(InQ[t][i]) =>
           sent'[InQ[t][i]] = sent[InQ[t][i]] /\ pad'[InQ[t][i]] = pad[InQ[t][i]],
         taken'[t] = taken[t], inId'[t] = inId[t]
  PROVE  TakesAt(t, q)'
<1>1. \A i : TakenFrom(t, i, q)' = TakenFrom(t, i, q)
  BY DEF TakenFrom
<1>2. ASSUME NEW i \in DOMAIN InQ[t], ~ Discarding(InQ[t][i])  PROVE TakesFrom(t, i, q)'
  <2>1. TakesFrom(t, i, q)
    BY <1>2 DEF TakesAt
  <2>2. sent'[InQ[t][i]] = sent[InQ[t][i]] /\ pad'[InQ[t][i]] = pad[InQ[t][i]]
    BY <1>2
  <2> QED
    <3> DEFINE p == InQ[t][i]
               out == TakenFrom(t, i, q)
    <3>1. sent'[p] = sent[p] /\ pad'[p] = pad[p] /\ taken'[t] = taken[t] /\ out' = out
      BY <1>1, <2>2
    <3>2. /\ Len(sent[p]) = out + Len(pad[p])
          /\ \A k \in 1 .. Len(pad[p]) : pad[p][k] = sent[p][out + k]
          /\ \A k \in 1 .. out :
               LET turn == (k - 1) * Len(InQ[t]) + i IN
                 turn \in DOMAIN taken[t] /\ taken[t][turn] = sent[p][k]
      BY <2>1 DEF TakesFrom
    <3> SUFFICES /\ Len(sent'[p]) = out' + Len(pad'[p])
                 /\ \A k \in 1 .. Len(pad'[p]) : pad'[p][k] = sent'[p][out' + k]
                 /\ \A k \in 1 .. out' :
                      LET turn == (k - 1) * Len(InQ[t]) + i IN
                        turn \in DOMAIN taken'[t] /\ taken'[t][turn] = sent'[p][k]
      BY DEF TakesFrom
    <3> HIDE DEF p, out
    <3> QED
      BY <3>1, <3>2
<1>3. Len(taken'[t]) = q * Len(InQ[t]) + inId'[t]
  BY DEF TakesAt
<1> QED
  BY <1>2, <1>3 DEF TakesAt, Discarding

\* A put on one of the pads: the item goes behind what the slot holds.
LEMMA TakesPut ==
  ASSUME TypeOK, PlaceOK, NEW t \in Task, Taker(t), NEW q \in Nat, TakesAt(t, q),
         NEW u \in Task, Put(u)
  PROVE  TakesAt(t, q)'
<1>1. taken'[t] = taken[t] /\ inId'[t] = inId[t] /\ inId[t] \in Nat
  BY DEF Put, PutItem, TypeOK
<1>2. Out(u) \in Pad
  BY OutIsPad, QueueLists DEF Out, Put, PutItem, Goto, PlaceOK, TypeOK
<1>3. \A i : TakenFrom(t, i, q)' = TakenFrom(t, i, q) /\ TakenFrom(t, i, q) \in Nat
  BY <1>1 DEF TakenFrom
<1>4. ASSUME NEW i \in DOMAIN InQ[t], ~ Discarding(InQ[t][i])  PROVE TakesFrom(t, i, q)'
  <2> DEFINE p == InQ[t][i]
             out == TakenFrom(t, i, q)
  <2>1. /\ p \in Pad /\ out \in Nat
        /\ sent[p] \in Seq(Item) /\ pad[p] \in Seq(Item) /\ hand[u] \in Item
    BY <1>3, FirstPad DEF Taker, TypeOK
  <2>2. /\ Len(sent[p]) = out + Len(pad[p])
        /\ \A k \in 1 .. Len(pad[p]) : pad[p][k] = sent[p][out + k]
        /\ \A k \in 1 .. out : /\ (k - 1) * Len(InQ[t]) + i \in DOMAIN taken[t]
                               /\ taken[t][(k - 1) * Len(InQ[t]) + i] = sent[p][k]
    BY <1>4 DEF TakesAt, TakesFrom
  <2>3. CASE p # Out(u)
    <3>1. sent'[p] = sent[p] /\ pad'[p] = pad[p]
      BY <1>2, <2>1, <2>3 DEF Put, PutItem, TypeOK
    <3> HIDE DEF p, out
    <3> QED
      BY <1>1, <1>3, <2>2, <3>1 DEF TakesFrom, p, out
  <2>4. CASE p = Out(u)
    <3>1. sent'[p] = Append(sent[p], hand[u]) /\ pad'[p] = Append(pad[p], hand[u])
      BY <1>2, <2>4 DEF Put, PutItem, TypeOK
    <3> HIDE DEF p, out
    <3>2. /\ Len(sent'[p]) = out + Len(pad'[p])
          /\ \A k \in 1 .. out : sent'[p][k] = sent[p][k]
          /\ \A k \in 1 .. Len(pad'[p]) : pad'[p][k] = sent'[p][out + k]
      <4>1. /\ Len(sent'[p]) = Len(sent[p]) + 1 /\ Len(pad'[p]) = Len(pad[p]) + 1
            /\ \A k \in 1 .. Len(sent[p]) : sent'[p][k] = sent[p][k]
            /\ \A k \in 1 .. Len(pad[p]) : pad'[p][k] = pad[p][k]
            /\ sent'[p][Len(sent[p]) + 1] = hand[u] /\ pad'[p][Len(pad[p]) + 1] = hand[u]
        BY <2>1, <3>1, AppendProperties
      <4>2. Len(pad[p]) \in Nat /\ Len(sent[p]) \in Nat
        BY <2>1
      <4>3. Len(sent'[p]) = out + Len(pad'[p])
        BY <2>1, <2>2, <4>1, <4>2
      <4>4. ASSUME NEW k \in 1 .. Len(pad'[p])  PROVE pad'[p][k] = sent'[p][out + k]
        <5>1. CASE k \in 1 .. Len(pad[p])
          <6>1. out + k \in 1 .. Len(sent[p])
            BY <2>1, <2>2, <4>2, <5>1
          <6> QED
            BY <2>2, <4>1, <5>1, <6>1
        <5>2. CASE k = Len(pad[p]) + 1
          <6>1. out + k = Len(sent[p]) + 1
            BY <2>1, <2>2, <4>2, <5>2
          <6> QED
            BY <4>1, <5>2, <6>1
        <5> QED
          BY <4>1, <4>2, <5>1, <5>2
      <4>5. ASSUME NEW k \in 1 .. out  PROVE sent'[p][k] = sent[p][k]
        BY <2>1, <2>2, <4>1, <4>2
      <4> QED
        BY <4>3, <4>4, <4>5
    <3> QED
      BY <1>1, <1>3, <2>2, <3>2 DEF TakesFrom, p, out
  <2> QED
    BY <2>3, <2>4
<1>5. Len(taken'[t]) = q * Len(InQ[t]) + inId'[t]
  BY <1>1 DEF TakesAt
<1> QED
  BY <1>4, <1>5 DEF TakesAt, Discarding

\* A get: the item is the next one of the pad whose turn it is.
LEMMA TakesGet ==
  ASSUME TypeOK, PlaceOK, NEW t \in Task, Taker(t), NEW q \in Nat, TakesAt(t, q), GetItem(t)
  PROVE  \E r \in Nat : TakesAt(t, r)'
<1> DEFINE n == Len(InQ[t])
           j == inId[t]
           last == Len(taken[t])
           full == q * n
<1>1. /\ n \in Nat /\ n > 0 /\ DOMAIN InQ[t] = 1 .. n /\ j \in Nat /\ j < n
      /\ \A i \in DOMAIN InQ[t] : InQ[t][i] \in Pad
  BY FirstPad DEF Taker, TypeOK
<1>2. In(t) = InQ[t][j + 1] /\ j + 1 \in DOMAIN InQ[t] /\ In(t) \in Pad
  BY <1>1 DEF In
<1>3. /\ pad[In(t)] \in Seq(Item) /\ pad[In(t)] # << >>
      /\ Head(pad[In(t)]) \in Item
      /\ taken[t] \in Seq(Item) /\ last \in Nat
  BY <1>2 DEF GetItem, Get, TypeOK
<1>4. /\ taken'[t] = Append(taken[t], Head(pad[In(t)]))
      /\ pad' = [pad EXCEPT ![In(t)] = Tail(@)]
      /\ sent' = sent
      /\ inId'[t] = (j + 1) % n
  BY DEF GetItem, Get, Next1, TypeOK
<1>5. last = full + j /\ full \in Nat /\ (q + 1) * n = full + n
  <2>1. last = q * n + j
    BY DEF TakesAt
  <2>2. q * n \in Nat /\ (q + 1) * n = q * n + n
    BY <1>1, FullRound
  <2> QED
    BY <2>1, <2>2
<1> PICK r \in Nat : r = IF j + 1 < n THEN q ELSE q + 1
  OBVIOUS
<1>12. r * n = IF j + 1 < n THEN full ELSE full + n
  BY <1>5
<1> HIDE DEF full
<1>6. inId'[t] = IF j + 1 < n THEN j + 1 ELSE 0
  <2>1. CASE j + 1 < n
    BY <1>1, <1>4, <2>1, NextPosition
  <2>2. CASE ~ (j + 1 < n)
    <3>1. j + 1 = n
      BY <1>1, <2>2
    <3> QED
      BY <1>1, <1>4, <2>2, <3>1, WrapAround
  <2> QED
    BY <2>1, <2>2
<1>7. \A i \in DOMAIN InQ[t] :
        TakenFrom(t, i, r)' = TakenFrom(t, i, q) + IF i = j + 1 THEN 1 ELSE 0
  <2> SUFFICES ASSUME NEW i \in 1 .. n
               PROVE  r + (IF i <= inId'[t] THEN 1 ELSE 0)
                        = q + (IF i <= j THEN 1 ELSE 0) + IF i = j + 1 THEN 1 ELSE 0
    BY <1>1 DEF TakenFrom
  <2>1. CASE j + 1 < n
    BY <1>1, <1>6, <2>1
  <2>2. CASE ~ (j + 1 < n)
    BY <1>1, <1>6, <2>2
  <2> QED
    BY <2>1, <2>2
<1>8. Len(taken'[t]) = r * n + inId'[t]
  <2> HIDE DEF n, j
  <2>1. Len(taken'[t]) = full + (j + 1)
    BY <1>1, <1>3, <1>4, <1>5
  <2>2. CASE j + 1 < n
    <3>1. r * n = full /\ inId'[t] = j + 1
      BY <1>12, <1>6, <2>2
    <3> QED
      BY <1>1, <1>5, <2>1, <3>1
  <2>3. CASE ~ (j + 1 < n)
    <3>1. n = j + 1 /\ r * n = full + n /\ inId'[t] = 0
      BY <1>1, <1>12, <1>6, <2>3
    <3> QED
      BY <1>1, <1>5, <2>1, <3>1
  <2> QED
    BY <2>2, <2>3
<1>9. /\ \A k \in DOMAIN taken[t] : k \in DOMAIN taken'[t] /\ taken'[t][k] = taken[t][k]
      /\ full + j + 1 \in DOMAIN taken'[t]
      /\ taken'[t][full + j + 1] = Head(pad[In(t)])
  <2>1. /\ Len(taken'[t]) = last + 1
        /\ \A k \in 1 .. last : taken'[t][k] = taken[t][k]
        /\ taken'[t][last + 1] = Head(pad[In(t)])
        /\ DOMAIN taken[t] = 1 .. last /\ DOMAIN taken'[t] = 1 .. last + 1
    BY <1>3, <1>4
  <2>2. last + 1 = full + j + 1
    BY <1>1, <1>5
  <2> QED
    BY <1>3, <2>1, <2>2
<1>10. ASSUME NEW i \in DOMAIN InQ[t], ~ Discarding(InQ[t][i])  PROVE TakesFrom(t, i, r)'
  <2> DEFINE p == InQ[t][i]
             out == TakenFrom(t, i, q)
  <2>1. p \in Pad /\ out \in Nat /\ sent[p] \in Seq(Item) /\ pad[p] \in Seq(Item)
    BY <1>1 DEF TypeOK, TakenFrom
  <2>2. /\ Len(sent[p]) = out + Len(pad[p])
        /\ \A k \in 1 .. Len(pad[p]) : pad[p][k] = sent[p][out + k]
        /\ \A k \in 1 .. out : /\ (k - 1) * n + i \in DOMAIN taken[t]
                               /\ taken[t][(k - 1) * n + i] = sent[p][k]
    BY <1>10 DEF TakesAt, TakesFrom
  <2>3. CASE i # j + 1
    <3>1. p # In(t)
      BY <1>2, <2>3, OnlyReader
    <3>2. sent'[p] = sent[p] /\ pad'[p] = pad[p]
      BY <1>2, <1>4, <2>1, <3>1 DEF TypeOK
    <3>3. TakenFrom(t, i, r)' = out
      BY <1>7, <2>1, <2>3
    <3> HIDE DEF p, out, n
    <3> QED
      BY <1>9, <2>2, <3>2, <3>3 DEF TakesFrom, p, n
  <2>4. CASE i = j + 1
    <3>1. sent'[p] = sent[p] /\ pad'[p] = Tail(pad[p])
      BY <1>2, <1>4, <2>1, <2>4 DEF TypeOK
    <3>2. TakenFrom(t, i, r)' = out + 1 /\ out = q
      BY <1>1, <1>7, <2>1, <2>4 DEF TakenFrom
    <3>3. Len(pad[p]) >= 1 /\ Head(pad[p]) = pad[p][1] /\ pad[p][1] = sent[p][out + 1]
      BY <1>2, <1>3, <2>1, <2>2, <2>4
    <3>4. /\ Len(sent'[p]) = out + 1 + Len(pad'[p])
          /\ \A k \in 1 .. Len(pad'[p]) : pad'[p][k] = sent'[p][out + 1 + k]
      <4> HIDE DEF p, out
      <4>1. /\ Len(pad'[p]) = Len(pad[p]) - 1 /\ Len(pad[p]) \in Nat
            /\ \A k \in 1 .. Len(pad'[p]) : pad'[p][k] = pad[p][k + 1]
        BY <2>1, <3>1, <3>3
      <4>2. Len(sent'[p]) = out + 1 + Len(pad'[p])
        <5>1. Len(sent'[p]) = out + Len(pad[p])
          BY <2>2, <3>1
        <5>2. out \in Nat /\ Len(pad[p]) \in Nat
          BY <2>1, <4>1
        <5>3. \A a, b : a \in Nat /\ b \in Nat => a + b = a + 1 + (b - 1)
          OBVIOUS
        <5>4. Len(pad'[p]) = Len(pad[p]) - 1
          BY <4>1
        <5>5. out + Len(pad[p]) = out + 1 + (Len(pad[p]) - 1)
          BY <5>2, <5>3, Zenon
        <5> QED
          BY <5>1, <5>4, <5>5, Zenon
      <4>3. ASSUME NEW k \in 1 .. Len(pad'[p])  PROVE pad'[p][k] = sent'[p][out + 1 + k]
        <5>1. k + 1 \in 1 .. Len(pad[p]) /\ out + 1 + k = out + (k + 1)
          BY <2>1, <4>1
        <5> QED
          BY <2>2, <3>1, <4>1, <5>1
      <4> QED
        BY <4>2, <4>3
    <3>5. ASSUME NEW k \in 1 .. out + 1
          PROVE  /\ (k - 1) * n + i \in DOMAIN taken'[t]
                 /\ taken'[t][(k - 1) * n + i] = sent'[p][k]
      <4>1. CASE k \in 1 .. out
        BY <1>9, <2>2, <3>1, <4>1
      <4>2. CASE k = out + 1
        <5>1. (k - 1) * n + i = full + j + 1
          <6>1. k - 1 = q
            BY <2>1, <3>2, <4>2
          <6>2. (k - 1) * n = full /\ full \in Nat
            BY <1>5, <6>1 DEF full
          <6>3. i = j + 1 /\ j \in Nat
            BY <1>1, <2>4
          <6> HIDE DEF n, j
          <6> QED
            BY <6>2, <6>3
        <5> QED
          BY <1>2, <1>9, <2>4, <3>1, <3>3, <4>2, <5>1
      <4>3. k \in 1 .. out \/ k = out + 1
        BY <2>1
      <4> QED
        BY <4>1, <4>2, <4>3
    <3> HIDE DEF p, out, n
    <3> QED
      BY <3>2, <3>4, <3>5 DEF TakesFrom, p, n
  <2> QED
    BY <2>3, <2>4
<1>11. TakesAt(t, r)'
  BY <1>8, <1>10 DEF TakesAt, Discarding
<1> QED
  BY <1>11

\* A step of another task that puts nothing leaves the pads a task waits on alone,
\* but for a DiscardOld on a pad of a capture.
LEMMA OtherReaders ==
  ASSUME TypeOK, PlaceOK, NEW t \in Task, Taker(t), NEW u \in Task, u # t, TaskStep(u), ~ Put(u)
  PROVE  /\ taken'[t] = taken[t] /\ inId'[t] = inId[t]
         /\ \A i \in DOMAIN InQ[t] : ~ Discarding(InQ[t][i]) =>
              sent'[InQ[t][i]] = sent[InQ[t][i]] /\ pad'[InQ[t][i]] = pad[InQ[t][i]]
<1>1. sent' = sent
  BY DEF TaskStep, CheckInlet, CheckGather, GetEmpty, GetItem, Get, GatherItem, Produce,
     Process, Raise, CheckOutlet, DiscardOld, PutFull, PutFullTo, TeePutFull, TeePassOver,
     CheckStop, Cleanup, Move, history
<1>2. taken'[t] = taken[t] /\ inId'[t] = inId[t]
  BY DEF TaskStep, CheckInlet, CheckGather, GetEmpty, GetItem, Get, GatherItem, Produce,
     Process, Raise, CheckOutlet, DiscardOld, PutFull, PutFullTo, TeePutFull, TeePassOver,
     CheckStop, Cleanup, Move, history, TypeOK
<1>3. ASSUME NEW i \in DOMAIN InQ[t], ~ Discarding(InQ[t][i])
      PROVE  pad'[InQ[t][i]] = pad[InQ[t][i]]
  <2>1. InQ[t][i] \in Pad
    BY FirstPad DEF Taker
  <2>2. CASE GetItem(u) \/ GatherItem(u)
    <3>1. Reads(u) /\ inId[u] \in Nat /\ inId[u] < Len(InQ[u])
      BY <2>2 DEF GetItem, Get, GatherItem, Goto, PlaceOK, TypeOK
    <3>2. inId[u] + 1 \in DOMAIN InQ[u]
      BY <3>1, FirstPad
    <3>3. In(u) # InQ[t][i]
      BY <3>2, OnlyReader DEF In
    <3>4. pad' = [pad EXCEPT ![In(u)] = Tail(@)]
      BY <2>2 DEF GetItem, Get, GatherItem
    <3> QED
      BY <2>1, <3>3, <3>4 DEF TypeOK
  <2>3. CASE DiscardOld(u)
    <3>1. Kind[u] = "capture" /\ outId[u] \in Nat /\ outId[u] < Len(OutQ[u])
      BY <2>3 DEF DiscardOld, Goto, PlaceOK, TypeOK, Writes
    <3>2. Discarding(Out(u))
      BY <3>1, LastPad DEF Discarding, Out, Writes
    <3> QED
      BY <1>3, <2>1, <2>3, <3>2 DEF DiscardOld, TypeOK
  <2>4. CASE pad' = pad
    BY <2>4
  <2> QED
    BY <2>2, <2>3, <2>4 DEF TaskStep, CheckInlet, CheckGather, GetEmpty, Produce, Process,
       Raise, CheckOutlet, PutFull, PutFullTo, TeePutFull, TeePassOver, CheckStop, Cleanup, Move
<1> QED
  BY <1>1, <1>2, <1>3

LEMMA TakesStep == TypeOK /\ PlaceOK /\ Takes /\ [Next]_vars => Takes'
<1> SUFFICES ASSUME TypeOK, PlaceOK, Takes, [Next]_vars, NEW t \in Task, Taker(t)
             PROVE  \E r \in Nat : TakesAt(t, r)'
  BY DEF Takes, Taker, Reads
<1>1. PICK q \in Nat : TakesAt(t, q)
  BY DEF Takes
<1>2. CASE AppStep \/ AppKeyboardInterrupt \/ Stop \/ Returned \/ UNCHANGED vars
  <2>1. UNCHANGED <<sent, pad, taken, inId>>
    BY <1>2 DEF AppStep, AppStartTask, AppWake, AppStopTask, AppJoinTask,
       AppKeyboardInterrupt, Stop, Returned, vars, app, history
  <2> QED
    BY <1>1, <2>1, TakesKept
<1>3. ASSUME NEW u \in Task, Put(u)
      PROVE  \E r \in Nat : TakesAt(t, r)'
  BY <1>1, <1>3, TakesPut
<1>4. ASSUME NEW u \in Task, u # t, TaskStep(u), ~ Put(u)
      PROVE  \E r \in Nat : TakesAt(t, r)'
  BY <1>1, <1>4, OtherReaders, TakesKept
<1>5. CASE GetItem(t)
  BY <1>1, <1>5, TakesGet
<1>6. CASE TaskStep(t) /\ ~ Put(t) /\ ~ GetItem(t)
  <2>1. ~ Produce(t) /\ ~ GatherItem(t) /\ Kind[t] \notin {"capture", "join"}
    BY DEF Produce, Source, Taker, Reads, GatherItem
  <2>2. ~ DiscardOld(t)
    BY <2>1 DEF DiscardOld, Goto, PlaceOK
  <2>3. UNCHANGED <<sent, pad, taken, inId>>
    BY <1>6, <2>1, <2>2 DEF TaskStep, CheckInlet, CheckGather, GetEmpty, Process, Raise,
       CheckOutlet, PutFull, PutFullTo, TeePutFull, TeePassOver, CheckStop, Cleanup, Move, history
  <2> QED
    BY <1>1, <2>3, TakesKept
<1> QED
  BY <1>2, <1>3, <1>4, <1>5, <1>6 DEF Next

\* The turn and the pad of an item that a reader has taken.
LEMMA TurnOf ==
  ASSUME NEW n \in Nat, n > 0, NEW k \in Nat, k > 0
  PROVE  /\ (k - 1) % n \in 0 .. n - 1 /\ (k - 1) \div n \in Nat
         /\ k = ((k - 1) \div n) * n + ((k - 1) % n) + 1
OBVIOUS

LEMMA RoundsBefore ==
  ASSUME NEW n \in Nat, n > 0, NEW q \in Nat, NEW r \in Nat, NEW i \in 0 .. n - 1,
         NEW j \in 0 .. n - 1, r * n + i < q * n + j
  PROVE  r < q \/ (r = q /\ i < j)
<1>1. ASSUME r > q  PROVE FALSE
  <2>1. PICK d \in Nat : r = q + 1 + d
    <3>1. r - (q + 1) \in Nat /\ r = q + 1 + (r - (q + 1))
      BY <1>1
    <3> QED
      BY <3>1
  <2>2. r * n = q * n + n + d * n
    BY <2>1
  <2>3. d * n \in Nat /\ q * n \in Nat
    BY FullRound
  <2> QED
    BY <2>2, <2>3
<1>2. ASSUME r = q  PROVE i < j
  BY <1>2, FullRound
<1> QED
  BY <1>1, <1>2

\* Every reader but a Join takes from its pads in strict turn, and from a pad that
\* does not discard it takes what was put there, each item once and in order: in
\* every topology, whatever the timeouts, the stop and the exceptions.
THEOREM TakenInTurn == Spec => []TakesInTurn
<1>1. ASSUME TypeOK, Takes  PROVE TakesInTurn
  <2> SUFFICES ASSUME NEW t \in Task, Taker(t), NEW k \in DOMAIN taken[t],
                      ~ Discarding(InQ[t][((k - 1) % Len(InQ[t])) + 1])
               PROVE  LET p == InQ[t][((k - 1) % Len(InQ[t])) + 1]
                          place == ((k - 1) \div Len(InQ[t])) + 1
                      IN  place \in DOMAIN sent[p] /\ taken[t][k] = sent[p][place]
    BY DEF TakesInTurn, Taker
  <2> DEFINE n == Len(InQ[t])
             i == (k - 1) % n
             r == (k - 1) \div n
             p == InQ[t][i + 1]
  <2>1. n \in Nat /\ n > 0 /\ DOMAIN InQ[t] = 1 .. n
    BY FirstPad DEF Taker
  <2>2. taken[t] \in Seq(Item) /\ inId[t] \in Nat /\ inId[t] < n
    BY <1>1 DEF TypeOK, Taker
  <2>3. k \in Nat /\ k > 0 /\ k <= Len(taken[t])
    BY <2>2
  <2>4. i \in 0 .. n - 1 /\ r \in Nat /\ k = r * n + i + 1
    BY <2>1, <2>3, TurnOf
  <2>5. PICK q \in Nat : TakesAt(t, q)
    BY <1>1 DEF Takes
  <2> HIDE DEF n, i, r
  <2>6. Len(taken[t]) = q * n + inId[t] /\ q * n \in Nat /\ r * n \in Nat
    BY <2>1, <2>4, <2>5, FullRound DEF TakesAt, n
  <2>7. r * n + i < q * n + inId[t]
    BY <2>2, <2>3, <2>4, <2>6
  <2>8. r < q \/ (r = q /\ i < inId[t])
    <3>1. inId[t] \in 0 .. n - 1
      BY <2>1, <2>2
    <3> QED
      BY <2>1, <2>4, <2>7, <3>1, RoundsBefore
  <2>9. i + 1 \in DOMAIN InQ[t] /\ p \in Pad
    BY <2>1, <2>4, FirstPad DEF Taker, n
  <2>10. TakesFrom(t, i + 1, q)
    BY <2>5, <2>9 DEF TakesAt, i, n
  <2>11. /\ TakenFrom(t, i + 1, q) \in Nat /\ r + 1 \in 1 .. TakenFrom(t, i + 1, q)
    BY <2>2, <2>4, <2>8 DEF TakenFrom
  <2>12. Len(sent[p]) >= TakenFrom(t, i + 1, q) /\ sent[p] \in Seq(Item)
    BY <1>1, <2>9, <2>10, <2>11 DEF TakesFrom, TypeOK
  <2>13. taken[t][((r + 1) - 1) * n + (i + 1)] = sent[p][r + 1]
    BY <2>10, <2>11 DEF TakesFrom, n
  <2>14. ((r + 1) - 1) * n + (i + 1) = k
    <3>1. (r + 1) - 1 = r
      BY <2>4
    <3> QED
      BY <2>4, <2>6, <3>1
  <2> QED
    BY <2>11, <2>12, <2>13, <2>14 DEF i, r, n
<1>2. Spec => [](TypeOK /\ PlaceOK)
  BY Inductive, PTL DEF IInv
<1> QED
  BY <1>1, <1>2, TakesInit, TakesStep, PTL DEF Spec

-----------------------------------------------------------------------------
(* Sharing the work out *)

\* Only these steps give a task an item.
LEMMA TakenStep ==
  ASSUME TypeOK, [Next]_vars, NEW t \in Task, ~ GetItem(t), ~ GatherItem(t), ~ Produce(t)
  PROVE  taken'[t] = taken[t]
<1>1. ASSUME NEW u \in Task, TaskStep(u)  PROVE taken'[t] = taken[t]
  <2>1. CASE u # t /\ (GetItem(u) \/ GatherItem(u) \/ Produce(u))
    BY <2>1 DEF GetItem, Get, GatherItem, Produce, TypeOK
  <2>2. CASE ~ GetItem(u) /\ ~ GatherItem(u) /\ ~ Produce(u)
    BY <1>1, <2>2 DEF TaskStep, CheckInlet, CheckGather, GetEmpty, Process, Raise, CheckOutlet,
       DiscardOld, Put, PutItem, PutFull, PutFullTo, TeePutFull, TeePassOver, CheckStop,
       Cleanup, Move, history
  <2> QED
    BY <2>1, <2>2
<1>2. ASSUME AppStep \/ AppKeyboardInterrupt \/ Stop \/ Returned \/ UNCHANGED vars
      PROVE  taken'[t] = taken[t]
  BY <1>2 DEF AppStep, AppStartTask, AppWake, AppStopTask, AppJoinTask,
     AppKeyboardInterrupt, Stop, Returned, vars, app, history
<1> QED
  BY <1>1, <1>2 DEF Next

\* The k-th item of a source is its frame k.
Numbered ==
  \A t \in Task : Source(t) =>
    \A k \in DOMAIN taken[t] : taken[t][k] = << [src |-> t, n |-> k] >>

LEMMA NumberedStep == TypeOK /\ PlaceOK /\ Numbered /\ [Next]_vars => Numbered'
<1> SUFFICES ASSUME TypeOK, PlaceOK, Numbered, [Next]_vars, NEW t \in Task, Source(t)
             PROVE  \A k \in DOMAIN taken'[t] : taken'[t][k] = << [src |-> t, n |-> k] >>
  BY DEF Numbered, Source
<1>1. \A k \in DOMAIN taken[t] : taken[t][k] = << [src |-> t, n |-> k] >>
  BY DEF Numbered
<1>2. CASE Produce(t)
  <2>1. taken'[t] = Append(taken[t], << [src |-> t, n |-> Len(taken[t]) + 1] >>)
    BY <1>2 DEF Produce, TypeOK
  <2>2. taken[t] \in Seq(Item) /\ << [src |-> t, n |-> Len(taken[t]) + 1] >> \in Item
    <3>1. << [src |-> t, n |-> Len(taken[t]) + 1] >> \in Item
      BY DEF TypeOK, Item, Frame
    <3> QED
      BY <3>1 DEF TypeOK
  <2>3. /\ DOMAIN taken'[t] = 1 .. Len(taken[t]) + 1 /\ DOMAIN taken[t] = 1 .. Len(taken[t])
        /\ \A k \in 1 .. Len(taken[t]) : taken'[t][k] = taken[t][k]
        /\ taken'[t][Len(taken[t]) + 1] = << [src |-> t, n |-> Len(taken[t]) + 1] >>
    BY <2>1, <2>2, AppendProperties
  <2> QED
    BY <1>1, <2>2, <2>3
<1>3. CASE ~ Produce(t)
  <2>1. ~ GetItem(t) /\ ~ GatherItem(t)
    BY DEF GetItem, Get, GatherItem, Goto, PlaceOK, Source, Reads
  <2>2. taken'[t] = taken[t]
    BY <1>3, <2>1, TakenStep
  <2> QED
    BY <1>1, <2>2
<1> QED
  BY <1>2, <1>3

LEMMA NumberedAlways == Spec => []Numbered
<1>1. Init => Numbered
  BY DEF Init, Numbered
<1>2. Spec => [](TypeOK /\ PlaceOK)
  BY Inductive, PTL DEF IInv
<1> QED
  BY <1>1, <1>2, NumberedStep, PTL DEF Spec

LEMMA PlaceOf ==
  ASSUME NEW n \in Nat, n > 0, NEW k \in Nat, k > 0
  PROVE  /\ ((k - 1) % n) + 1 \in 1 .. n /\ (k - 1) \div n \in Nat
         /\ k = ((k - 1) \div n) * n + (((k - 1) % n) + 1)
OBVIOUS

LEMMA DivideByOne ==
  ASSUME NEW k \in Nat, k > 0
  PROVE  /\ (k - 1) % 1 = 0 /\ (k - 1) \div 1 = k - 1
         /\ (k - 1) * 1 + 1 = k
OBVIOUS

\* With one out_queue, what a task takes is what it puts there.
LEMMA OneOut ==
  ASSUME DealsInTurn, NEW t \in Task, Writes(t), Kind[t] # "tee", Len(OutQ[t]) = 1,
         1 \in DOMAIN OutQ[t], NEW k \in Nat, k > 0, k \in DOMAIN sent[OutQ[t][1]]
  PROVE  k \in DOMAIN taken[t] /\ sent[OutQ[t][1]][k] = taken[t][k]
<1>1. \A j \in DOMAIN sent[OutQ[t][1]] :
        /\ (j - 1) * Len(OutQ[t]) + 1 \in DOMAIN taken[t]
        /\ sent[OutQ[t][1]][j] = taken[t][(j - 1) * Len(OutQ[t]) + 1]
  BY Zenon DEF DealsInTurn
<1>2. (k - 1) * Len(OutQ[t]) + 1 = k
  BY DivideByOne
<1> QED
  BY <1>1, <1>2

\* A pipe between two pads hands the items on as they come.
LEMMA PipePassesOn ==
  ASSUME TypeOK, DealsInTurn, TakesInTurn, NEW w \in Task, Kind[w] = "pipe",
         NEW p \in Pad, NEW u \in Pad, InQ[w] = <<p>>, OutQ[w] = <<u>>, ~ Discarding(p),
         NEW k \in DOMAIN sent[u]
  PROVE  k \in DOMAIN sent[p] /\ sent[u][k] = sent[p][k]
<1>1. k \in Nat /\ k > 0
  BY DEF TypeOK
<1>2. Len(OutQ[w]) = 1 /\ OutQ[w][1] = u /\ 1 \in DOMAIN OutQ[w]
  OBVIOUS
<1>3. Len(InQ[w]) = 1 /\ InQ[w][1] = p
  OBVIOUS
<1>4. k \in DOMAIN taken[w] /\ sent[u][k] = taken[w][k]
  BY <1>1, <1>2, OneOut DEF Writes
<1>5. k \in DOMAIN sent[p] /\ taken[w][k] = sent[p][k]
  <2>1. ((k - 1) % 1) + 1 = 1 /\ ((k - 1) \div 1) + 1 = k
    BY <1>1, DivideByOne
  <2> QED
    BY <1>3, <1>4, <2>1 DEF TakesInTurn, Reads
<1> QED
  BY <1>4, <1>5

\* A pad that a task other than a capture puts on does not discard.
LEMMA NotDiscarding ==
  ASSUME NEW t \in Task, Kind[t] # "capture", NEW i \in DOMAIN OutQ[t]
  PROVE  ~ Discarding(OutQ[t][i])
<1> SUFFICES ASSUME NEW u \in Task, Kind[u] = "capture",
                    NEW j \in DOMAIN OutQ[u], OutQ[u][j] = OutQ[t][i]
             PROVE  FALSE
  BY DEF Discarding
<1>1. OutQ[t] \in Seq(Pad)
  BY QueueLists
<1>2. OnePlace(OutQ, OutQ[t][i])
  BY <1>1, Topology DEF Topology
<1> QED
  BY <1>2 DEF OnePlace

\* Any number of pipes may share the work of one producer: the consumer that collects
\* it gets the producer's frames, each once and in order, however many there are.
THEOREM SharedWorkStaysInOrder == Fan(Kind, InQ, OutQ) => (Spec => []SinkInOrder)
<1> SUFFICES ASSUME Fan(Kind, InQ, OutQ)  PROVE Spec => []SinkInOrder
  OBVIOUS
<1> DEFINE n == Len(OutQ["src"])
<1>0. DOMAIN Kind = Task
  BY Topology DEF Topology
<1>1. /\ "src" \in Task /\ "sink" \in Task
      /\ Kind["src"] = "producer" /\ Kind["sink"] = "consumer"
  BY <1>0 DEF Fan
<1>2. /\ n \in Nat /\ n > 0 /\ DOMAIN OutQ["src"] = 1 .. n /\ DOMAIN InQ["sink"] = 1 .. n
      /\ Len(InQ["sink"]) = n
      /\ \A i \in 1 .. n : OutQ["src"][i] \in Pad /\ InQ["sink"][i] \in Pad
  <2>1. /\ n \in Nat /\ n > 0 /\ DOMAIN OutQ["src"] = 1 .. n
        /\ \A i \in 1 .. n : OutQ["src"][i] \in Pad
    BY <1>1, LastPad DEF Writes
  <2>2. /\ Len(InQ["sink"]) \in Nat /\ DOMAIN InQ["sink"] = 1 .. Len(InQ["sink"])
        /\ \A i \in DOMAIN InQ["sink"] : InQ["sink"][i] \in Pad
    BY <1>1, FirstPad DEF Reads
  <2>3. DOMAIN InQ["sink"] = DOMAIN OutQ["src"]
    BY DEF Fan
  <2> QED
    BY <2>1, <2>2, <2>3
<1>3. ASSUME TypeOK, DealsInTurn, TakesInTurn, Numbered, NEW k \in DOMAIN taken["sink"]
      PROVE  taken["sink"][k] = << [src |-> "src", n |-> k] >>
  <2> DEFINE i == ((k - 1) % n) + 1
             r == (k - 1) \div n
             p == OutQ["src"][i]
             u == InQ["sink"][i]
  <2>1. k \in Nat /\ k > 0
    BY <1>1, <1>3 DEF TypeOK
  <2>2. i \in 1 .. n /\ r \in Nat /\ k = r * n + i
    BY <1>2, <2>1, PlaceOf
  <2>3. PICK w \in Task : Kind[w] = "pipe" /\ InQ[w] = <<p>> /\ OutQ[w] = <<u>>
    BY <1>0, <1>2, <2>2 DEF Fan
  <2>4. p \in Pad /\ u \in Pad
    BY <1>2, <2>2
  <2>5. ~ Discarding(p) /\ ~ Discarding(u)
    <3>1. ~ Discarding(p)
      BY <1>1, <1>2, <2>2, NotDiscarding
    <3>2. ~ Discarding(OutQ[w][1])
      BY <2>3, NotDiscarding
    <3> QED
      BY <2>3, <3>1, <3>2
  <2>6. r + 1 \in DOMAIN sent[u] /\ taken["sink"][k] = sent[u][r + 1]
    BY <1>1, <1>2, <1>3, <2>5 DEF TakesInTurn, Reads
  <2>7. r + 1 \in DOMAIN sent[p] /\ sent[u][r + 1] = sent[p][r + 1]
    BY <1>3, <2>3, <2>4, <2>5, <2>6, PipePassesOn
  <2>8. ((r + 1) - 1) * n + i = k
    <3>1. (r + 1) - 1 = r
      BY <2>2
    <3> QED
      BY <2>2, <3>1
  <2>9. k \in DOMAIN taken["src"] /\ sent[p][r + 1] = taken["src"][k]
    <3>1. i \in DOMAIN OutQ["src"]
      BY <1>2, <2>2
    <3> HIDE DEF i, r
    <3> QED
      BY <1>1, <1>3, <2>7, <2>8, <3>1 DEF DealsInTurn, Writes
  <2> QED
    BY <1>1, <1>3, <2>6, <2>7, <2>9 DEF Numbered, Source
<1>4. TypeOK /\ DealsInTurn /\ TakesInTurn /\ Numbered => SinkInOrder
  BY <1>3 DEF SinkInOrder
<1> QED
  BY <1>4, TypeCorrect, NumberedAlways, DealtInTurn, TakenInTurn, PTL

-----------------------------------------------------------------------------
(* No frame overtakes another *)

\* Item f comes after e: place by place it has a later frame of the same source.
Follows(e, f) ==
  Len(e) = Len(f) /\ \A j \in DOMAIN e : e[j].src = f[j].src /\ e[j].n < f[j].n
Ascending(s) == \A k, l \in DOMAIN s : k < l => Follows(s[k], s[l])

\* The items that have left a pad, taken or discarded, and what is in its slot.
Gone(p) == Len(sent[p]) - Len(pad[p])
SlotOK(p) ==
  /\ Gone(p) \in Nat
  /\ \A k \in 1 .. Len(pad[p]) : pad[p][k] = sent[p][Gone(p) + k]

\* What a task with one in_queue took came by it, one after the other.
ReaderOK(t) ==
  /\ Ascending(taken[t])
  /\ \A k \in DOMAIN taken[t] : \E x \in 1 .. Gone(InQ[t][1]) : taken[t][k] = sent[InQ[t][1]][x]

\* From lo + 1 to hi, e has one of the first items of the sequence s, which are gone.
Part(s, gone, lo, hi, e) ==
  \E x \in 1 .. gone :
    /\ hi = lo + Len(s[x])
    /\ \A j \in 1 .. Len(s[x]) : e[lo + j] = s[x][j]
PartOf(t, cut, i, e) ==
  Part(sent[InQ[t][i]], Gone(InQ[t][i]), cut[i - 1], cut[i], e)

\* Every tuple of a Join, and the `results' of the one it is at, is cut at the same
\* places into items of its in_queues.
Cuts(n) == {cut \in [0 .. n -> Nat] : cut[0] = 0 /\ \A i, k \in 0 .. n : i <= k => cut[i] <= cut[k]}
Before(e, f) == \A j \in 1 .. Len(f) : e[j].src = f[j].src /\ e[j].n < f[j].n
JoinAt(t, cut) ==
  /\ Ascending(taken[t])
  /\ \A k \in DOMAIN taken[t] :
       /\ Len(taken[t][k]) = cut[Len(InQ[t])]
       /\ \A i \in 1 .. Len(InQ[t]) : PartOf(t, cut, i, taken[t][k])
  /\ pc[t] \in {"gather", "get"} =>
       /\ Len(hand[t]) = cut[inId[t]]
       /\ \A i \in 1 .. inId[t] : PartOf(t, cut, i, hand[t])
       /\ \A k \in DOMAIN taken[t] : Before(taken[t][k], hand[t])
JoinOK(t) == \E cut \in Cuts(Len(InQ[t])) : JoinAt(t, cut)

\* What a Tee put is what it took, and it has yet to put the item in its hand on
\* the pads it has not come to.
Holding(t) == pc[t] \in {"outlet", "put"}
TeeOK(t) ==
  /\ pc[t] # "put" => outId[t] = 0
  /\ Holding(t) => taken[t] # << >> /\ hand[t] = taken[t][Len(taken[t])]
  /\ \A i \in DOMAIN OutQ[t] : LET s == sent[OutQ[t][i]] IN
       /\ Ascending(s)
       /\ \A k \in DOMAIN s : \E x \in DOMAIN taken[t] :
            /\ s[k] = taken[t][x]
            /\ Holding(t) /\ outId[t] < i => x < Len(taken[t])

Ordered ==
  /\ \A p \in Pad : SlotOK(p)
  /\ \A t \in Task : Taker(t) => ReaderOK(t)
  /\ \A t \in Task : Kind[t] = "join" => JoinOK(t)
  /\ \A t \in Task : Kind[t] = "tee" => TeeOK(t)

LEMMA Difference == \A x, y \in Nat : (x - y) + y = x /\ x - y \in Int
OBVIOUS

LEMMA AscendingAppend ==
  ASSUME NEW s \in Seq(Item), NEW e \in Item, Ascending(s), \A k \in DOMAIN s : Follows(s[k], e)
  PROVE  Ascending(Append(s, e))
<1> SUFFICES ASSUME NEW k \in DOMAIN Append(s, e), NEW l \in DOMAIN Append(s, e), k < l
             PROVE  Follows(Append(s, e)[k], Append(s, e)[l])
  BY DEF Ascending
<1>1. /\ DOMAIN Append(s, e) = 1 .. Len(s) + 1 /\ DOMAIN s = 1 .. Len(s) /\ Len(s) \in Nat
      /\ \A i \in 1 .. Len(s) : Append(s, e)[i] = s[i]
      /\ Append(s, e)[Len(s) + 1] = e
  BY AppendProperties
<1>2. k \in DOMAIN s /\ Append(s, e)[k] = s[k]
  BY <1>1
<1>3. CASE l \in DOMAIN s
  BY <1>1, <1>2, <1>3 DEF Ascending
<1>4. CASE l = Len(s) + 1
  BY <1>1, <1>2, <1>4
<1> QED
  BY <1>1, <1>3, <1>4

LEMMA PartKept ==
  ASSUME NEW s \in Seq(Item), NEW r \in Seq(Item), NEW gone \in Nat, NEW more \in Nat,
         gone <= more, gone <= Len(s), \A x \in DOMAIN s : r[x] = s[x],
         NEW lo, NEW hi, NEW e, Part(s, gone, lo, hi, e)
  PROVE  Part(r, more, lo, hi, e)
<1>1. PICK x \in 1 .. gone : /\ hi = lo + Len(s[x])
                             /\ \A j \in 1 .. Len(s[x]) : e[lo + j] = s[x][j]
  BY DEF Part
<1>2. x \in DOMAIN s /\ x \in 1 .. more
  OBVIOUS
<1>3. r[x] = s[x]
  BY <1>2
<1> QED
  BY <1>1, <1>2, <1>3 DEF Part

\* Steps only add to what was put on a pad and to what is gone from it.
PadsFlow ==
  \A p \in Pad :
    /\ SlotOK(p)'
    /\ Gone(p) <= Gone(p)'
    /\ \A x \in DOMAIN sent[p] : x \in DOMAIN sent'[p] /\ sent'[p][x] = sent[p][x]

\* A get of the reader of a pad: the item in the slot is the first that is not gone.
LEMMA SlotGet ==
  ASSUME TypeOK, NEW p \in Pad, SlotOK(p), pad[p] # << >>, sent' = sent, pad'[p] = Tail(pad[p])
  PROVE  /\ SlotOK(p)' /\ Gone(p)' = Gone(p) + 1
         /\ Gone(p) + 1 \in DOMAIN sent[p] /\ Head(pad[p]) = sent[p][Gone(p) + 1]
<1>1. sent[p] \in Seq(Item) /\ pad[p] \in Seq(Item)
  BY DEF TypeOK
<1>2. /\ Len(pad[p]) \in Nat /\ Len(pad[p]) > 0 /\ Len(sent[p]) \in Nat
      /\ Head(pad[p]) = pad[p][1]
      /\ Len(pad'[p]) + 1 = Len(pad[p]) /\ Len(pad'[p]) \in Nat
      /\ \A k \in 1 .. Len(pad'[p]) : pad'[p][k] = pad[p][k + 1]
  BY <1>1
<1>3. Gone(p) \in Nat /\ \A k \in 1 .. Len(pad[p]) : pad[p][k] = sent[p][Gone(p) + k]
  BY DEF SlotOK
<1>9. Gone(p) + Len(pad[p]) = Len(sent[p]) /\ Gone(p)' + Len(pad'[p]) = Len(sent[p])
      /\ Gone(p)' \in Int /\ Gone(p) \in Int
  BY <1>2, Difference, Zenon DEF Gone
<1>10. Gone(p) \in Nat /\ Len(pad[p]) \in Nat /\ Len(pad[p]) > 0 /\ Len(sent[p]) \in Nat
  BY <1>2, <1>3
<1>4. Gone(p)' = Gone(p) + 1
  BY <1>2, <1>9
<1>5. Gone(p) + 1 \in DOMAIN sent[p] /\ Head(pad[p]) = sent[p][Gone(p) + 1]
  <2>1. Gone(p) + 1 \in 1 .. Len(sent[p]) /\ 1 \in 1 .. Len(pad[p])
    BY <1>9, <1>10
  <2> QED
    BY <1>1, <1>2, <1>3, <2>1, SMTT(30)
<1>6. ASSUME NEW k \in 1 .. Len(pad'[p])  PROVE pad'[p][k] = sent'[p][Gone(p)' + k]
  <2>1. k \in Nat /\ k >= 1 /\ k + 1 \in 1 .. Len(pad[p])
    <3>1. Len(pad'[p]) + 1 = Len(pad[p]) /\ Len(pad'[p]) \in Nat
      BY <1>2
    <3> QED
      BY <3>1
  <2>2. Gone(p)' + k = Gone(p) + (k + 1)
    BY <1>4, <1>10, <2>1
  <2> QED
    BY <1>2, <1>3, <2>1, <2>2
<1>7. SlotOK(p)'
  BY <1>3, <1>4, <1>6 DEF SlotOK
<1> QED
  BY <1>4, <1>5, <1>7

LEMMA SlotPut ==
  ASSUME TypeOK, NEW p \in Pad, SlotOK(p), NEW e \in Item,
         sent'[p] = Append(sent[p], e), pad'[p] = Append(pad[p], e)
  PROVE  /\ SlotOK(p)' /\ Gone(p)' = Gone(p)
         /\ \A x \in DOMAIN sent[p] : x \in DOMAIN sent'[p] /\ sent'[p][x] = sent[p][x]
<1>1. sent[p] \in Seq(Item) /\ pad[p] \in Seq(Item)
  BY DEF TypeOK
<1>2. /\ Len(pad[p]) \in Nat /\ Len(sent[p]) \in Nat
      /\ Len(pad'[p]) = Len(pad[p]) + 1 /\ Len(sent'[p]) = Len(sent[p]) + 1
      /\ Len(pad'[p]) \in Nat /\ Len(sent'[p]) \in Nat
      /\ \A k \in 1 .. Len(sent[p]) : sent'[p][k] = sent[p][k]
      /\ \A k \in 1 .. Len(pad[p]) : pad'[p][k] = pad[p][k]
      /\ sent'[p][Len(sent[p]) + 1] = e /\ pad'[p][Len(pad[p]) + 1] = e
      /\ DOMAIN sent[p] = 1 .. Len(sent[p]) /\ DOMAIN sent'[p] = 1 .. Len(sent[p]) + 1
  BY <1>1, AppendProperties
<1>3. Gone(p) \in Nat /\ \A k \in 1 .. Len(pad[p]) : pad[p][k] = sent[p][Gone(p) + k]
  BY DEF SlotOK
<1>9. Gone(p) + Len(pad[p]) = Len(sent[p]) /\ Gone(p)' + Len(pad'[p]) = Len(sent'[p])
      /\ Gone(p)' \in Int /\ Gone(p) \in Int
  BY <1>2, Difference, Zenon DEF Gone
<1>10. Gone(p) \in Nat /\ Len(pad[p]) \in Nat /\ Len(sent[p]) \in Nat
  BY <1>2, <1>3
<1>4. Gone(p)' = Gone(p)
  BY <1>2, <1>9
<1>5. ASSUME NEW k \in 1 .. Len(pad'[p])  PROVE pad'[p][k] = sent'[p][Gone(p) + k]
  <2>1. CASE k \in 1 .. Len(pad[p])
    <3>1. Gone(p) + k \in 1 .. Len(sent[p])
      BY <1>9, <1>10, <2>1
    <3> QED
      BY <1>2, <1>3, <2>1, <3>1
  <2>2. CASE k = Len(pad[p]) + 1
    <3>1. Gone(p) + k = Len(sent[p]) + 1
      BY <1>9, <1>10, <2>2
    <3> QED
      BY <1>2, <2>2, <3>1
  <2>3. k \in 1 .. Len(pad[p]) \/ k = Len(pad[p]) + 1
    BY <1>2
  <2> QED
    BY <2>1, <2>2, <2>3
<1>6. SlotOK(p)'
  BY <1>3, <1>4, <1>5 DEF SlotOK
<1> QED
  BY <1>2, <1>4, <1>6

LEMMA PadsStep ==
  ASSUME TypeOK, PlaceOK, \A p \in Pad : SlotOK(p), [Next]_vars
  PROVE  PadsFlow
<1> SUFFICES ASSUME NEW p \in Pad
             PROVE  /\ SlotOK(p)' /\ Gone(p) <= Gone(p)'
                    /\ \A x \in DOMAIN sent[p] : x \in DOMAIN sent'[p] /\ sent'[p][x] = sent[p][x]
  BY DEF PadsFlow
<1>1. SlotOK(p) /\ sent[p] \in Seq(Item) /\ pad[p] \in Seq(Item) /\ Gone(p) \in Nat
  BY DEF TypeOK, SlotOK
<1> DEFINE Flow == /\ SlotOK(p)' /\ Gone(p) <= Gone(p)'
                   /\ \A x \in DOMAIN sent[p] : x \in DOMAIN sent'[p] /\ sent'[p][x] = sent[p][x]
<1>2. ASSUME sent'[p] = sent[p], pad'[p] = pad[p]  PROVE Flow
  <2>1. Gone(p)' = Gone(p)
    BY <1>2 DEF Gone
  <2> QED
    BY <1>1, <1>2, <2>1 DEF SlotOK
<1>3. ASSUME NEW t \in Task, GetItem(t) \/ GatherItem(t)  PROVE Flow
  <2>1. /\ pad[In(t)] # << >> /\ sent' = sent
        /\ pad' = [pad EXCEPT ![In(t)] = Tail(@)]
    BY <1>3 DEF GetItem, Get, GatherItem
  <2>2. CASE p = In(t)
    <3>1. pad'[p] = Tail(pad[p]) /\ pad[p] # << >>
      BY <2>1, <2>2 DEF TypeOK
    <3> QED
      BY <1>1, <2>1, <3>1, SlotGet
  <2>3. CASE p # In(t)
    BY <1>2, <2>1, <2>3 DEF TypeOK
  <2> QED
    BY <2>2, <2>3
<1>4. ASSUME NEW t \in Task, DiscardOld(t)  PROVE Flow
  <2>1. sent' = sent /\ (pad'[p] = pad[p] \/ pad'[p] = << >>)
    BY <1>4 DEF DiscardOld, history, TypeOK
  <2>2. CASE pad'[p] = << >>
    <3>1. Gone(p)' = Len(sent[p]) /\ Len(sent[p]) \in Nat /\ Len(pad[p]) \in Nat
      BY <1>1, <2>1, <2>2 DEF Gone
    <3>2. Gone(p) <= Gone(p)'
      <4>1. Gone(p) + Len(pad[p]) = Len(sent[p])
        BY <3>1, Difference, Zenon DEF Gone
      <4> QED
        BY <1>1, <3>1, <4>1
    <3>3. \A k : k \notin 1 .. Len(pad'[p])
      BY <2>2
    <3> QED
      BY <1>1, <2>1, <3>1, <3>2, <3>3 DEF SlotOK
  <2> QED
    BY <1>2, <2>1, <2>2
<1>5. ASSUME NEW t \in Task, Put(t)  PROVE Flow
  <2>1. /\ sent' = [sent EXCEPT ![Out(t)] = Append(@, hand[t])]
        /\ pad' = [pad EXCEPT ![Out(t)] = Append(@, hand[t])]
        /\ hand[t] \in Item
    BY <1>5 DEF Put, PutItem, TypeOK
  <2>2. CASE p = Out(t)
    <3>1. sent'[p] = Append(sent[p], hand[t]) /\ pad'[p] = Append(pad[p], hand[t])
      BY <2>1, <2>2 DEF TypeOK
    <3> QED
      BY <1>1, <2>1, <3>1, SlotPut
  <2>3. CASE p # Out(t)
    BY <1>2, <2>1, <2>3 DEF TypeOK
  <2> QED
    BY <2>2, <2>3
<1>6. ASSUME NEW t \in Task, TaskStep(t), ~ GetItem(t), ~ GatherItem(t), ~ DiscardOld(t), ~ Put(t)
      PROVE  Flow
  <2>1. sent' = sent /\ pad' = pad
    BY <1>6 DEF TaskStep, CheckInlet, CheckGather, GetEmpty, Produce, Process, Raise, CheckOutlet,
       PutFull, PutFullTo, TeePutFull, TeePassOver, CheckStop, Cleanup, Move, history
  <2> QED
    BY <1>2, <2>1
<1>7. ASSUME AppStep \/ AppKeyboardInterrupt \/ Stop \/ Returned \/ UNCHANGED vars  PROVE Flow
  <2>1. sent' = sent /\ pad' = pad
    BY <1>7 DEF AppStep, AppStartTask, AppWake, AppStopTask, AppJoinTask,
       AppKeyboardInterrupt, Stop, Returned, vars, app, history
  <2> QED
    BY <1>2, <2>1
<1> QED
  BY <1>3, <1>4, <1>5, <1>6, <1>7 DEF Next

LEMMA GoneBound ==
  ASSUME TypeOK, NEW p \in Pad, SlotOK(p)
  PROVE  /\ sent[p] \in Seq(Item) /\ Gone(p) \in Nat /\ Gone(p) <= Len(sent[p])
         /\ \A x \in 1 .. Gone(p) : x \in DOMAIN sent[p]
<1>1. sent[p] \in Seq(Item) /\ pad[p] \in Seq(Item) /\ Gone(p) \in Nat
  BY DEF TypeOK, SlotOK
<1>2. Len(sent[p]) \in Nat /\ Len(pad[p]) \in Nat /\ DOMAIN sent[p] = 1 .. Len(sent[p])
  BY <1>1
<1>3. Gone(p) + Len(pad[p]) = Len(sent[p])
  BY <1>2, Difference, Zenon DEF Gone
<1>4. Gone(p) <= Len(sent[p])
  BY <1>1, <1>2, <1>3
<1> QED
  BY <1>1, <1>2, <1>4

-----------------------------------------------------------------------------
\* What goes in by one pad in order comes out in order.
LEMMA ReaderKept ==
  ASSUME TypeOK, \A p \in Pad : SlotOK(p), PadsFlow, NEW t \in Task, Taker(t), ReaderOK(t),
         taken'[t] = taken[t]
  PROVE  ReaderOK(t)'
<1> DEFINE p == InQ[t][1]
<1>1. p \in Pad
  BY FirstPad DEF Taker
<1>2. \A x \in 1 .. Gone(p) : x \in 1 .. Gone(p)' /\ sent'[p][x] = sent[p][x]
  <2>1. Gone(p) <= Gone(p)' /\ Gone(p) \in Nat /\ Gone(p)' \in Nat
    BY <1>1, GoneBound DEF PadsFlow, SlotOK
  <2> QED
    BY <1>1, <2>1, GoneBound DEF PadsFlow
<1>3. ASSUME NEW k \in DOMAIN taken'[t]  PROVE \E x \in 1 .. Gone(p)' : taken'[t][k] = sent'[p][x]
  <2>1. PICK x \in 1 .. Gone(p) : taken[t][k] = sent[p][x]
    BY <1>3 DEF ReaderOK
  <2> QED
    BY <1>2, <2>1
<1> QED
  BY <1>3 DEF ReaderOK, Ascending

LEMMA ReaderGet ==
  ASSUME TypeOK, PlaceOK, \A p \in Pad : SlotOK(p) /\ Ascending(sent[p]),
         NEW t \in Task, Taker(t), Len(InQ[t]) = 1, ReaderOK(t), GetItem(t)
  PROVE  ReaderOK(t)'
<1> DEFINE p == InQ[t][1]
           item == Head(pad[p])
<1>1. In(t) = p /\ p \in Pad
  BY FirstPad DEF In, TypeOK, Taker
<1>2. /\ pad[p] # << >> /\ sent' = sent /\ pad'[p] = Tail(pad[p])
      /\ taken'[t] = Append(taken[t], item)
  BY <1>1 DEF GetItem, Get, TypeOK
<1>3. /\ Gone(p)' = Gone(p) + 1 /\ Gone(p) + 1 \in DOMAIN sent[p]
      /\ item = sent[p][Gone(p) + 1]
  BY <1>1, <1>2, SlotGet
<1>4. /\ sent[p] \in Seq(Item) /\ Gone(p) \in Nat
      /\ \A x \in 1 .. Gone(p) : x \in DOMAIN sent[p]
      /\ taken[t] \in Seq(Item) /\ item \in Item
  BY <1>1, <1>3, GoneBound DEF TypeOK
<1>5. ASSUME NEW k \in DOMAIN taken[t]  PROVE Follows(taken[t][k], item)
  <2>1. PICK x \in 1 .. Gone(p) : taken[t][k] = sent[p][x]
    BY DEF ReaderOK
  <2>2. x \in DOMAIN sent[p] /\ x < Gone(p) + 1
    BY <1>4
  <2> QED
    BY <1>1, <1>3, <2>1, <2>2 DEF Ascending
<1>6. Ascending(taken'[t])
  BY <1>2, <1>4, <1>5, AscendingAppend DEF ReaderOK
<1>7. ASSUME NEW k \in DOMAIN taken'[t]  PROVE \E x \in 1 .. Gone(p)' : taken'[t][k] = sent'[p][x]
  <2>1. /\ DOMAIN taken'[t] = 1 .. Len(taken[t]) + 1 /\ DOMAIN taken[t] = 1 .. Len(taken[t])
        /\ Len(taken[t]) \in Nat
        /\ \A i \in 1 .. Len(taken[t]) : taken'[t][i] = taken[t][i]
        /\ taken'[t][Len(taken[t]) + 1] = item
    BY <1>2, <1>4, AppendProperties
  <2>2. CASE k \in DOMAIN taken[t]
    <3>1. PICK x \in 1 .. Gone(p) : taken[t][k] = sent[p][x]
      BY <2>2 DEF ReaderOK
    <3>2. x \in 1 .. Gone(p)'
      BY <1>3, <1>4
    <3> QED
      BY <1>2, <2>1, <2>2, <3>1, <3>2
  <2>3. CASE k = Len(taken[t]) + 1
    <3>1. Gone(p) + 1 \in 1 .. Gone(p)'
      BY <1>3, <1>4
    <3> QED
      BY <1>2, <1>3, <2>1, <2>3, <3>1
  <2> QED
    BY <1>7, <2>1, <2>2, <2>3
<1> QED
  BY <1>6, <1>7 DEF ReaderOK

LEMMA ReaderStep ==
  ASSUME TypeOK, PlaceOK, \A p \in Pad : SlotOK(p) /\ Ascending(sent[p]), [Next]_vars,
         NEW t \in Task, Taker(t), Len(InQ[t]) = 1, ReaderOK(t)
  PROVE  ReaderOK(t)'
<1>1. ~ GatherItem(t) /\ ~ Produce(t)
  BY DEF GatherItem, Produce, Source, Taker, Reads
<1>2. PadsFlow
  BY PadsStep
<1> QED
  BY <1>1, <1>2, ReaderGet, ReaderKept, TakenStep

-----------------------------------------------------------------------------
\* The tuples of a Join.
LEMMA CutFacts ==
  ASSUME NEW n \in Nat, NEW cut \in Cuts(n)
  PROVE  /\ cut \in [0 .. n -> Nat] /\ cut[0] = 0
         /\ \A i, k \in 0 .. n : i <= k => cut[i] <= cut[k]
BY DEF Cuts

LEMMA PartFlows ==
  ASSUME TypeOK, \A p \in Pad : SlotOK(p), PadsFlow, TypeOK', NEW p \in Pad,
         NEW lo, NEW hi, NEW e, Part(sent[p], Gone(p), lo, hi, e)
  PROVE  Part(sent'[p], Gone(p)', lo, hi, e)
<1>1. /\ sent[p] \in Seq(Item) /\ sent'[p] \in Seq(Item)
      /\ Gone(p) \in Nat /\ Gone(p)' \in Nat /\ Gone(p) <= Gone(p)' /\ Gone(p) <= Len(sent[p])
      /\ \A x \in DOMAIN sent[p] : sent'[p][x] = sent[p][x]
  BY GoneBound DEF PadsFlow, SlotOK, TypeOK
<1> QED
  BY <1>1, PartKept

LEMMA JoinKept ==
  ASSUME TypeOK, TypeOK', \A p \in Pad : SlotOK(p), PadsFlow, NEW t \in Task, Kind[t] = "join",
         NEW cut \in Cuts(Len(InQ[t])), JoinAt(t, cut), taken'[t] = taken[t],
         pc'[t] \in {"gather", "get"} =>
           \/ pc[t] \in {"gather", "get"} /\ hand'[t] = hand[t] /\ inId'[t] = inId[t]
           \/ hand'[t] = << >> /\ inId'[t] = 0
  PROVE  JoinAt(t, cut)'
<1> DEFINE n == Len(InQ[t])
<1>1. n \in Nat /\ \A i \in 1 .. n : InQ[t][i] \in Pad
  BY FirstPad DEF Reads
<1>2. ASSUME NEW i \in 1 .. n, NEW e, Part(sent[InQ[t][i]], Gone(InQ[t][i]), cut[i - 1], cut[i], e)
      PROVE  Part(sent'[InQ[t][i]], Gone(InQ[t][i])', cut[i - 1], cut[i], e)
  BY <1>1, <1>2, PartFlows
<1>3. ASSUME NEW k \in DOMAIN taken'[t]
      PROVE  /\ Len(taken'[t][k]) = cut[n]
             /\ \A i \in 1 .. n : PartOf(t, cut, i, taken[t][k])'
  <2>1. k \in DOMAIN taken[t] /\ taken'[t][k] = taken[t][k]
    BY <1>3
  <2> QED
    BY <1>2, <2>1 DEF JoinAt, PartOf
<1>4. ASSUME pc'[t] \in {"gather", "get"}
      PROVE  /\ Len(hand'[t]) = cut[inId'[t]]
             /\ \A i \in 1 .. inId'[t] : PartOf(t, cut, i, hand[t])'
             /\ \A k \in DOMAIN taken'[t] : Before(taken'[t][k], hand'[t])
  <2>1. CASE pc[t] \in {"gather", "get"} /\ hand'[t] = hand[t] /\ inId'[t] = inId[t]
    <3>1. /\ Len(hand[t]) = cut[inId[t]]
          /\ \A i \in 1 .. inId[t] : PartOf(t, cut, i, hand[t])
          /\ \A k \in DOMAIN taken[t] : Before(taken[t][k], hand[t])
      BY <2>1 DEF JoinAt
    <3>2. inId[t] \in Nat /\ inId[t] < n
      BY DEF TypeOK, Reads
    <3>3. ASSUME NEW i \in 1 .. inId[t]  PROVE PartOf(t, cut, i, hand[t])'
      <4>1. i \in 1 .. n
        BY <1>1, <3>2
      <4> QED
        BY <1>2, <2>1, <3>1, <4>1 DEF PartOf
    <3> QED
      BY <2>1, <3>1, <3>3
  <2>2. CASE hand'[t] = << >> /\ inId'[t] = 0
    <3>1. Len(hand'[t]) = 0 /\ (\A i : i \notin 1 .. 0) /\ cut[0] = 0
      BY <1>1, <2>2, CutFacts
    <3> QED
      BY <2>2, <3>1 DEF Before
  <2> QED
    BY <1>4, <2>1, <2>2
<1>5. Ascending(taken'[t])
  BY DEF JoinAt
<1> QED
  BY <1>3, <1>4, <1>5 DEF JoinAt, Ascending

\* `results' gets longer by one item.
LEMMA Concatenation ==
  ASSUME NEW e \in Item, NEW f \in Item
  PROVE  /\ e \o f \in Item
         /\ Len(e \o f) = Len(e) + Len(f) /\ Len(e) \in Nat /\ Len(f) \in Nat
         /\ \A j \in 1 .. Len(e) : (e \o f)[j] = e[j]
         /\ \A j \in 1 .. Len(f) : (e \o f)[Len(e) + j] = f[j]
<1>1. e \in Seq(Frame) /\ f \in Seq(Frame)
  BY DEF Item
<1> QED
  BY <1>1, ConcatProperties DEF Item

LEMMA PartLonger ==
  ASSUME NEW s, NEW gone, NEW lo \in Nat, NEW hi \in Nat, NEW e \in Item, NEW f \in Item,
         hi <= Len(e), \A x \in 1 .. gone : s[x] \in Item, Part(s, gone, lo, hi, e)
  PROVE  Part(s, gone, lo, hi, e \o f)
<1>1. PICK x \in 1 .. gone : /\ hi = lo + Len(s[x])
                             /\ \A j \in 1 .. Len(s[x]) : e[lo + j] = s[x][j]
  BY DEF Part
<1>2. Len(s[x]) \in Nat /\ Len(e) \in Nat
  BY DEF Item
<1>3. ASSUME NEW j \in 1 .. Len(s[x])  PROVE (e \o f)[lo + j] = s[x][j]
  <2>1. lo + j \in 1 .. Len(e)
    BY <1>1, <1>2
  <2> QED
    BY <1>1, <2>1, Concatenation
<1> QED
  BY <1>1, <1>3 DEF Part

LEMMA JoinGather ==
  ASSUME TypeOK, TypeOK', PlaceOK, \A p \in Pad : SlotOK(p) /\ Ascending(sent[p]), PadsFlow,
         NEW t \in Task, Kind[t] = "join", NEW cut \in Cuts(Len(InQ[t])), JoinAt(t, cut),
         GatherItem(t)
  PROVE  \E next \in Cuts(Len(InQ[t])) : JoinAt(t, next)'
<1>0. inId[t] \in Nat /\ inId[t] < Len(InQ[t])
  BY DEF TypeOK, Reads
<1> PICK m \in Nat : m = inId[t]
  BY <1>0
<1> DEFINE n == Len(InQ[t])
           p == InQ[t][m + 1]
           item == Head(pad[p])
           lo == cut[m]
           tuple == hand[t] \o item
<1>1. /\ n \in Nat /\ n > 0 /\ m \in Nat /\ m < n /\ m \in 0 .. n /\ m + 1 \in 0 .. n
      /\ \A i \in 1 .. n : InQ[t][i] \in Pad
  BY <1>0, FirstPad DEF Reads
<1>2. In(t) = p /\ p \in Pad /\ m + 1 \in 1 .. n
  BY <1>1 DEF In
<1>3. /\ pad[p] # << >> /\ sent' = sent /\ pad'[p] = Tail(pad[p])
      /\ hand'[t] = tuple /\ inId'[t] = (m + 1) % n
  BY <1>2 DEF GatherItem, Next1, TypeOK
<1>4. /\ Gone(p)' = Gone(p) + 1 /\ Gone(p) + 1 \in DOMAIN sent[p]
      /\ item = sent[p][Gone(p) + 1]
  BY <1>2, <1>3, SlotGet
<1>5. /\ sent[p] \in Seq(Item) /\ Gone(p) \in Nat /\ item \in Item /\ hand[t] \in Item
      /\ \A x \in 1 .. Gone(p) : x \in DOMAIN sent[p]
  <2>1. sent[p] \in Seq(Item) /\ Gone(p) \in Nat /\ \A x \in 1 .. Gone(p) : x \in DOMAIN sent[p]
    BY <1>2, GoneBound
  <2>2. sent[p][Gone(p) + 1] \in Item
    BY <1>4, <2>1
  <2>3. hand[t] \in Item
    BY DEF TypeOK
  <2> QED
    BY <1>4, <2>1, <2>2, <2>3
<1>6. /\ cut \in [0 .. n -> Nat] /\ cut[0] = 0 /\ lo \in Nat
      /\ \A i, k \in 0 .. n : i <= k => cut[i] <= cut[k]
  BY <1>1, CutFacts
<1>7. /\ pc[t] = "get" /\ Len(hand[t]) = lo
      /\ \A i \in 1 .. m : PartOf(t, cut, i, hand[t])
      /\ \A k \in DOMAIN taken[t] : Before(taken[t][k], hand[t])
  BY DEF GatherItem, JoinAt
<1>8. /\ tuple \in Item /\ Len(tuple) = lo + Len(item) /\ Len(item) \in Nat
      /\ \A j \in 1 .. lo : tuple[j] = hand[t][j]
      /\ \A j \in 1 .. Len(item) : tuple[lo + j] = item[j]
  <2>1. /\ tuple \in Item /\ Len(tuple) = Len(hand[t]) + Len(item) /\ Len(item) \in Nat
        /\ \A j \in 1 .. Len(hand[t]) : tuple[j] = hand[t][j]
        /\ \A j \in 1 .. Len(item) : tuple[Len(hand[t]) + j] = item[j]
    BY <1>5, Concatenation
  <2> QED
    BY <1>7, <2>1, Zenon
<1> HIDE DEF lo, item, tuple
\* The earlier tuples have an earlier item of the same length from this in_queue.
<1>9. ASSUME NEW k \in DOMAIN taken[t]
      PROVE  cut[m + 1] = lo + Len(item) /\ Before(taken[t][k], tuple)
  <2>1. PartOf(t, cut, m + 1, taken[t][k])
    BY <1>2 DEF JoinAt
  <2>2. Part(sent[p], Gone(p), lo, cut[m + 1], taken[t][k])
    <3>1. (m + 1) - 1 = m
      BY <1>1
    <3> QED
      BY <2>1, <3>1, Zenon DEF PartOf, lo
  <2>3. PICK x \in 1 .. Gone(p) : /\ cut[m + 1] = lo + Len(sent[p][x])
                                  /\ \A j \in 1 .. Len(sent[p][x]) : taken[t][k][lo + j] = sent[p][x][j]
    BY <2>2, Zenon DEF Part
  <2>4. Follows(sent[p][x], item)
    <3>1. x \in DOMAIN sent[p] /\ x < Gone(p) + 1
      BY <1>5
    <3> QED
      BY <1>2, <1>4, <3>1 DEF Ascending
  <2>5. Len(sent[p][x]) = Len(item) /\ DOMAIN sent[p][x] = 1 .. Len(item)
    <3>1. sent[p][x] \in Seq(Frame)
      BY <1>5 DEF Item
    <3> QED
      BY <2>4, <3>1 DEF Follows
  <2>6. ASSUME NEW j \in 1 .. Len(tuple)
        PROVE  taken[t][k][j].src = tuple[j].src /\ taken[t][k][j].n < tuple[j].n
    <3>1. CASE j \in 1 .. lo
      <4>1. taken[t][k][j].src = hand[t][j].src /\ taken[t][k][j].n < hand[t][j].n
        BY <1>7, <3>1 DEF Before
      <4> QED
        BY <1>8, <3>1, <4>1
    <3>2. CASE j \notin 1 .. lo
      <4>1. PICK i \in 1 .. Len(item) : j = lo + i
        <5>1. j - lo \in 1 .. Len(item) /\ j = lo + (j - lo)
          BY <1>6, <1>8, <3>2
        <5> QED
          BY <5>1
      <4>2. taken[t][k][j] = sent[p][x][i] /\ tuple[j] = item[i]
        BY <1>8, <2>3, <2>5, <4>1
      <4>3. sent[p][x][i].src = item[i].src /\ sent[p][x][i].n < item[i].n
        BY <2>4, <2>5 DEF Follows
      <4> QED
        BY <4>2, <4>3
    <3> QED
      BY <3>1, <3>2
  <2> QED
    BY <2>3, <2>5, <2>6 DEF Before
\* The first tuple sets the places of the cuts.
<1> DEFINE next == [i \in 0 .. n |-> IF taken[t] = << >> /\ m < i THEN lo + Len(item) ELSE cut[i]]
<1>10. /\ next[m + 1] = lo + Len(item)
       /\ \A i \in 0 .. m : next[i] = cut[i]
       /\ taken[t] # << >> => next = cut
  <2>1. taken[t] # << >> => 1 \in DOMAIN taken[t]
    BY DEF TypeOK
  <2>2. taken[t] # << >> => cut[m + 1] = lo + Len(item)
    BY <1>9, <2>1
  <2>3. taken[t] # << >> => next = cut
    BY <1>6
  <2>4. \A i \in 0 .. m : i \in 0 .. n /\ ~ (m < i)
    BY <1>1
  <2>5. next[m + 1] = lo + Len(item)
    BY <1>1, <2>2, <2>3
  <2> QED
    BY <2>3, <2>4, <2>5
<1>11. next \in Cuts(n)
  <2>1. next \in [0 .. n -> Nat] /\ next[0] = 0
    <3>1. 0 \in 0 .. m
      BY <1>1
    <3> QED
      BY <1>6, <1>8, <1>10, <3>1
  <2>2. ASSUME NEW i \in 0 .. n, NEW k \in 0 .. n, i <= k  PROVE next[i] <= next[k]
    <3>1. CASE taken[t] = << >> /\ m < k
      <4>1. next[k] = lo + Len(item)
        BY <3>1
      <4>2. CASE m < i
        BY <1>6, <1>8, <3>1, <4>1, <4>2
      <4>3. CASE ~ (m < i)
        <5>1. next[i] = cut[i] /\ cut[i] <= lo /\ cut[i] \in Nat
          BY <1>1, <1>6, <4>3 DEF lo
        <5> QED
          BY <1>6, <1>8, <4>1, <5>1
      <4> QED
        BY <4>2, <4>3
    <3>2. CASE ~ (taken[t] = << >> /\ m < k)
      <4>1. next[k] = cut[k] /\ next[i] = cut[i]
        BY <1>1, <2>2, <3>2
      <4> QED
        BY <1>6, <2>2, <4>1
    <3> QED
      BY <3>1, <3>2
  <2> QED
    BY <2>1, <2>2 DEF Cuts
<1>12. PICK new \in Cuts(n) : new = next
  BY <1>11
<1> HIDE DEF next
<1>13. ASSUME NEW i \in 1 .. m + 1
       PROVE  Part(sent'[InQ[t][i]], Gone(InQ[t][i])', new[i - 1], new[i], tuple)
  <2>1. CASE i = m + 1
    <3>1. i - 1 = m /\ m \in 0 .. m
      BY <1>1, <2>1
    <3>2. new[i - 1] = lo /\ new[i] = lo + Len(item)
      BY <1>10, <1>12, <2>1, <3>1 DEF lo
    <3>3. Gone(p) + 1 \in 1 .. Gone(p)'
      BY <1>4, <1>5
    <3>4. sent'[p][Gone(p) + 1] = item
      BY <1>3, <1>4
    <3> QED
      BY <1>8, <2>1, <3>2, <3>3, <3>4 DEF Part
  <2>2. CASE i # m + 1
    <3>1. i \in 1 .. m /\ i \in 1 .. n /\ i - 1 \in 0 .. m /\ i \in 0 .. m /\ i \in 0 .. n /\ i - 1 \in 0 .. n
      BY <1>1, <2>2
    <3>2. new[i - 1] = cut[i - 1] /\ new[i] = cut[i]
      BY <1>10, <1>12, <3>1
    <3>3. Part(sent[InQ[t][i]], Gone(InQ[t][i]), cut[i - 1], cut[i], hand[t])
      BY <1>7, <3>1 DEF PartOf
    <3>4. Part(sent'[InQ[t][i]], Gone(InQ[t][i])', cut[i - 1], cut[i], hand[t])
      BY <1>1, <3>1, <3>3, PartFlows
    <3>5. cut[i] <= Len(hand[t]) /\ cut[i] \in Nat /\ cut[i - 1] \in Nat
      BY <1>1, <1>6, <1>7, <3>1 DEF lo
    <3>6. \A x \in 1 .. Gone(InQ[t][i])' : sent'[InQ[t][i]][x] \in Item
      <4>1. InQ[t][i] \in Pad /\ SlotOK(InQ[t][i])'
        BY <1>1, <3>1 DEF PadsFlow
      <4>2. Gone(InQ[t][i])' \in Nat /\ sent'[InQ[t][i]] \in Seq(Item) /\ pad'[InQ[t][i]] \in Seq(Item)
        BY <4>1 DEF SlotOK, TypeOK
      <4>3. Gone(InQ[t][i])' + Len(pad'[InQ[t][i]]) = Len(sent'[InQ[t][i]])
        BY <4>2, Difference, LenProperties, Zenon DEF Gone
      <4>4. Len(pad'[InQ[t][i]]) \in Nat /\ Len(sent'[InQ[t][i]]) \in Nat
        BY <4>2
      <4>5. Gone(InQ[t][i])' <= Len(sent'[InQ[t][i]])
        BY <4>2, <4>3, <4>4
      <4> QED
        BY <4>2, <4>4, <4>5
    <3> QED
      BY <1>5, <3>2, <3>4, <3>5, <3>6, PartLonger DEF tuple
  <2> QED
    BY <2>1, <2>2
<1>14. ASSUME NEW k \in DOMAIN taken[t]
       PROVE  /\ Len(taken[t][k]) = new[n]
              /\ \A i \in 1 .. n :
                   Part(sent'[InQ[t][i]], Gone(InQ[t][i])', new[i - 1], new[i], taken[t][k])
  <2>1. new = cut
    <3>1. taken[t] # << >>
      BY DEF TypeOK
    <3> QED
      BY <1>10, <1>12, <3>1
  <2>2. ASSUME NEW i \in 1 .. n
        PROVE  Part(sent'[InQ[t][i]], Gone(InQ[t][i])', new[i - 1], new[i], taken[t][k])
    <3>1. Part(sent[InQ[t][i]], Gone(InQ[t][i]), cut[i - 1], cut[i], taken[t][k])
      BY DEF JoinAt, PartOf
    <3> QED
      BY <1>1, <2>1, <3>1, PartFlows
  <2> QED
    BY <2>1, <2>2 DEF JoinAt
<1>15. CASE m + 1 < n
  <2>1. inId'[t] = m + 1 /\ taken'[t] = taken[t]
    <3>1. (m + 1) % n = m + 1
      BY <1>1, <1>15, NextPosition
    <3>2. UNCHANGED taken
      BY <1>1, <1>15 DEF GatherItem
    <3> QED
      BY <1>3, <3>1, <3>2
  <2>2. Len(hand'[t]) = new[inId'[t]]
    BY <1>3, <1>8, <1>10, <1>12, <2>1
  <2>3. \A i \in 1 .. inId'[t] : PartOf(t, new, i, hand[t])'
    BY <1>3, <1>13, <2>1 DEF PartOf
  <2>4. \A k \in DOMAIN taken'[t] : Before(taken'[t][k], hand'[t])
    BY <1>3, <1>9, <2>1
  <2>5. \A k \in DOMAIN taken'[t] : Len(taken'[t][k]) = new[n] /\ \A i \in 1 .. n : PartOf(t, new, i, taken[t][k])'
    BY <1>14, <2>1 DEF PartOf
  <2>6. Ascending(taken'[t])
    BY <2>1 DEF JoinAt
  <2>7. JoinAt(t, new)'
    BY <2>2, <2>3, <2>4, <2>5, <2>6 DEF JoinAt, Ascending
  <2> QED
    BY <2>7
<1>16. CASE m + 1 = n
  <2>1. taken'[t] = Append(taken[t], tuple) /\ pc'[t] = "outlet" /\ taken[t] \in Seq(Item)
    BY <1>3, <1>16 DEF GatherItem, Goto, AfterInlet, TypeOK
  <2>2. /\ DOMAIN taken'[t] = 1 .. Len(taken[t]) + 1 /\ DOMAIN taken[t] = 1 .. Len(taken[t])
        /\ Len(taken[t]) \in Nat
        /\ \A i \in 1 .. Len(taken[t]) : taken'[t][i] = taken[t][i]
        /\ taken'[t][Len(taken[t]) + 1] = tuple
    BY <1>8, <2>1, AppendProperties
  <2>3. Len(tuple) = new[n]
    BY <1>8, <1>10, <1>12, <1>16
  <2>4. ASSUME NEW k \in DOMAIN taken[t]  PROVE Follows(taken[t][k], tuple)
    <3>1. Len(taken[t][k]) = Len(tuple)
      BY <1>14, <2>3
    <3>2. DOMAIN taken[t][k] = 1 .. Len(tuple)
      <4>1. taken[t][k] \in Seq(Frame)
        BY <2>1 DEF Item
      <4> QED
        BY <3>1, <4>1
    <3>3. Before(taken[t][k], tuple)
      BY <1>9
    <3> QED
      BY <3>1, <3>2, <3>3 DEF Follows, Before
  <2>5. Ascending(taken'[t])
    <3>1. Ascending(taken[t])
      BY DEF JoinAt
    <3> QED
      BY <1>8, <2>1, <2>4, <3>1, AscendingAppend
  <2>6. ASSUME NEW k \in DOMAIN taken'[t]
        PROVE  Len(taken'[t][k]) = new[n] /\ \A i \in 1 .. n : PartOf(t, new, i, taken[t][k])'
    <3>1. CASE k \in DOMAIN taken[t]
      <4>1. taken'[t][k] = taken[t][k]
        BY <2>2, <3>1
      <4> QED
        BY <1>14, <3>1, <4>1 DEF PartOf
    <3>2. CASE k = Len(taken[t]) + 1
      <4>1. taken'[t][k] = tuple
        BY <2>2, <3>2
      <4> QED
        BY <1>13, <1>16, <2>3, <4>1 DEF PartOf
    <3> QED
      BY <2>2, <2>6, <3>1, <3>2
  <2>7. JoinAt(t, new)'
    BY <2>1, <2>5, <2>6 DEF JoinAt, Ascending
  <2> QED
    BY <2>7
<1> QED
  BY <1>1, <1>15, <1>16

\* The position and the `results' of a Join over a step that gives it no item: they
\* stay, or it begins a new tuple; while it runs it gives no tuple up.
LEMMA JoinMoves ==
  ASSUME TypeOK, PlaceOK, Control, [Next]_vars, NEW t \in Task, Kind[t] = "join",
         ~ GatherItem(t)
  PROVE  /\ taken'[t] = taken[t]
         /\ running'[t] => running[t]
         /\ pc'[t] \in {"gather", "get"} =>
              \/ pc[t] \in {"gather", "get"} /\ hand'[t] = hand[t] /\ inId'[t] = inId[t]
              \/ /\ pc[t] \notin {"gather", "get"} /\ running[t]
                 /\ hand'[t] = << >> /\ inId'[t] = 0
         /\ pc'[t] \notin {"gather", "get"} /\ running'[t] => pc[t] \notin {"gather", "get"}
<1> DEFINE At == pc[t] \in {"gather", "get"}
           Same == At /\ hand'[t] = hand[t] /\ inId'[t] = inId[t]
           Anew == ~ At /\ running[t] /\ hand'[t] = << >> /\ inId'[t] = 0
           Moves == /\ running'[t] => running[t]
                    /\ At' => Same \/ Anew
                    /\ ~ At' /\ running'[t] => ~ At
<1>1. taken'[t] = taken[t]
  <2>1. ~ GetItem(t) /\ ~ Produce(t)
    BY DEF GetItem, Get, Produce, Source
  <2> QED
    BY <2>1, TakenStep
<1>2. ASSUME AppStep \/ AppKeyboardInterrupt \/ Stop \/ Returned \/ UNCHANGED vars
      PROVE  Moves
  <2>1. UNCHANGED <<hand, inId>>
    BY <1>2 DEF AppStep, AppStartTask, AppWake, AppStopTask, AppJoinTask,
       AppKeyboardInterrupt, Stop, Returned, vars, app, history
  <2>2. running'[t] => running[t]
    BY <1>2 DEF AppStep, AppStartTask, AppWake, AppStopTask, AppJoinTask,
       AppKeyboardInterrupt, Stop, Returned, vars, app, history, TypeOK
  <2>3. CASE AppStartTask
    <3>1. pc'[t] = pc[t] \/ (pc'[t] \in {"proc", "inlet"} /\ pc[t] = "new")
      BY <2>3, RegistrationFacts DEF AppStartTask, Step, LoopHead, Control, TypeOK
    <3> QED
      BY <2>1, <2>2, <2>3, <3>1 DEF AppStartTask
  <2>4. CASE ~ AppStartTask
    <3>1. pc'[t] = pc[t]
      BY <1>2, <2>4 DEF AppStep, AppWake, AppStopTask, AppJoinTask, AppKeyboardInterrupt, Stop,
         Returned, vars, app, history
    <3> QED
      BY <2>1, <2>2, <3>1
  <2> QED
    BY <2>3, <2>4
<1>3. ASSUME NEW u \in Task, u # t, TaskStep(u)  PROVE Moves
  <2>1. pc'[t] = pc[t] /\ running' = running
    BY <1>3, TaskFrame
  <2>2. hand'[t] = hand[t] /\ inId'[t] = inId[t]
    BY <1>3 DEF TaskStep, CheckInlet, CheckGather, GetEmpty, GetItem, Get, GatherItem, Produce,
       Process, Raise, CheckOutlet, DiscardOld, Put, PutItem, PutFull, PutFullTo, TeePutFull,
       TeePassOver, CheckStop, Cleanup, Move, history, TypeOK
  <2> QED
    BY <2>1, <2>2
<1>4. ASSUME TaskStep(t)  PROVE Moves
  <2>0. running' = running
    BY <1>4, TaskFrame
  <2>1. CASE CheckInlet(t)
    BY <2>0, <2>1 DEF CheckInlet, Goto, Leave, TypeOK
  <2>2. CASE CheckGather(t)
    BY <2>0, <2>2 DEF CheckGather, Move, Goto, TypeOK
  <2>3. CASE GetEmpty(t)
    BY <2>0, <2>3 DEF GetEmpty, Move, Goto, TypeOK
  <2>4. CASE GetItem(t) \/ Produce(t) \/ Process(t) \/ Raise(t)
    BY <2>4 DEF GetItem, Get, Produce, Source, Process, Raise, Move, Goto, PlaceOK
  <2>5. CASE CheckOutlet(t) \/ DiscardOld(t) \/ PutFull(t) \/ TeePutFull(t) \/ CheckStop(t)
             \/ Cleanup(t)
    BY <2>0, <2>5 DEF CheckOutlet, DiscardOld, PutFull, PutFullTo, TeePutFull, TeePassOver,
       CheckStop, Cleanup, Move, Goto, PlaceOK, LoopHead, Leave, FirstPutStep, AfterOutlet, TypeOK
  <2>6. CASE Put(t)
    BY <2>0, <2>6 DEF Put, PutItem, Goto, AfterPut, AfterOutlet, TypeOK
  <2> QED
    BY <1>4, <2>1, <2>2, <2>3, <2>4, <2>5, <2>6 DEF TaskStep
<1>5. Moves
  BY <1>2, <1>3, <1>4 DEF Next
<1> QED
  BY <1>1, <1>5

LEMMA JoinStep ==
  ASSUME TypeOK, TypeOK', PlaceOK, Control, [Next]_vars,
         \A p \in Pad : SlotOK(p) /\ Ascending(sent[p]),
         NEW t \in Task, Kind[t] = "join", JoinOK(t)
  PROVE  JoinOK(t)'
<1> SUFFICES \E next \in Cuts(Len(InQ[t])) : JoinAt(t, next)'
  BY DEF JoinOK
<1>1. PICK cut \in Cuts(Len(InQ[t])) : JoinAt(t, cut)
  BY DEF JoinOK
<1>2. PadsFlow
  BY PadsStep
<1>3. CASE GatherItem(t)
  BY <1>1, <1>2, <1>3, JoinGather
<1>4. CASE ~ GatherItem(t)
  BY <1>1, <1>2, <1>4, JoinMoves, JoinKept
<1> QED
  BY <1>3, <1>4

-----------------------------------------------------------------------------
\* What a Tee passes on.
LEMMA TeeKept ==
  ASSUME NEW t \in Task, TeeOK(t), taken'[t] = taken[t],
         \A i \in DOMAIN OutQ[t] : sent'[OutQ[t][i]] = sent[OutQ[t][i]],
         pc'[t] # "put" => outId'[t] = 0,
         Holding(t)' => Holding(t) /\ hand'[t] = hand[t]
                          /\ \A i \in DOMAIN OutQ[t] : outId'[t] < i => outId[t] < i
  PROVE  TeeOK(t)'
<1>1. Holding(t)' => taken'[t] # << >> /\ hand'[t] = taken'[t][Len(taken'[t])]
  BY DEF TeeOK
<1>2. ASSUME NEW i \in DOMAIN OutQ[t]
      PROVE  /\ Ascending(sent'[OutQ[t][i]])
             /\ \A k \in DOMAIN sent'[OutQ[t][i]] : \E x \in DOMAIN taken'[t] :
                  /\ sent'[OutQ[t][i]][k] = taken'[t][x]
                  /\ Holding(t)' /\ outId'[t] < i => x < Len(taken'[t])
  <2>1. Ascending(sent[OutQ[t][i]])
    BY DEF TeeOK
  <2>2. ASSUME NEW k \in DOMAIN sent[OutQ[t][i]]
        PROVE  \E x \in DOMAIN taken[t] :
                 /\ sent[OutQ[t][i]][k] = taken[t][x]
                 /\ Holding(t)' /\ outId'[t] < i => x < Len(taken[t])
    <3>1. PICK x \in DOMAIN taken[t] :
            /\ sent[OutQ[t][i]][k] = taken[t][x]
            /\ Holding(t) /\ outId[t] < i => x < Len(taken[t])
      BY DEF TeeOK
    <3> QED
      BY <3>1
  <2> QED
    BY <2>1, <2>2
<1> QED
  BY <1>1, <1>2 DEF TeeOK, Ascending

LEMMA TeeTake ==
  ASSUME TypeOK, PlaceOK, NEW t \in Task, Kind[t] = "tee", TeeOK(t), GetItem(t)
  PROVE  TeeOK(t)'
<1> DEFINE last == Len(taken[t])
<1>1. In(t) \in Pad /\ pad[In(t)] # << >>
  BY FirstPad DEF In, GetItem, Get, Reads, TypeOK
<1>2. PICK item \in Item : taken'[t] = Append(taken[t], item) /\ hand'[t] = item
  <2>1. Head(pad[In(t)]) \in Item
    BY <1>1, SequenceFacts DEF TypeOK
  <2> QED
    BY <2>1 DEF GetItem, Get, TypeOK
<1>3. /\ last \in Nat /\ DOMAIN taken[t] = 1 .. last
      /\ Len(taken'[t]) = last + 1 /\ DOMAIN taken'[t] = 1 .. last + 1
      /\ \A k \in 1 .. last : taken'[t][k] = taken[t][k]
      /\ taken'[t][last + 1] = item
  BY <1>2, AppendProperties DEF TypeOK
<1>4. sent' = sent /\ outId' = outId /\ outId[t] = 0
  BY DEF GetItem, Get, Goto, TeeOK
<1>5. ASSUME NEW i \in DOMAIN OutQ[t]
      PROVE  /\ Ascending(sent'[OutQ[t][i]])
             /\ \A k \in DOMAIN sent'[OutQ[t][i]] : \E x \in DOMAIN taken'[t] :
                  /\ sent'[OutQ[t][i]][k] = taken'[t][x]
                  /\ Holding(t)' /\ outId'[t] < i => x < Len(taken'[t])
  <2>1. ASSUME NEW k \in DOMAIN sent[OutQ[t][i]]
        PROVE  \E x \in DOMAIN taken'[t] :
                 sent[OutQ[t][i]][k] = taken'[t][x] /\ x < Len(taken'[t])
    <3>1. PICK x \in DOMAIN taken[t] : sent[OutQ[t][i]][k] = taken[t][x]
      BY DEF TeeOK
    <3> QED
      BY <1>3, <3>1
  <2> QED
    BY <1>4, <2>1 DEF TeeOK
<1>6. taken'[t] # << >> /\ hand'[t] = taken'[t][Len(taken'[t])]
  BY <1>2, <1>3
<1> QED
  BY <1>4, <1>5, <1>6 DEF TeeOK, Ascending

LEMMA TeePut ==
  ASSUME TypeOK, PlaceOK, NEW t \in Task, Kind[t] = "tee", Ascending(taken[t]), TeeOK(t), Put(t)
  PROVE  TeeOK(t)'
<1>0. outId[t] \in Nat /\ outId[t] < Len(OutQ[t]) /\ Len(OutQ[t]) \in Nat
  BY LastPad DEF TypeOK, Writes
<1> PICK o \in Nat : o = outId[t]
  BY <1>0
<1> DEFINE n == Len(OutQ[t])
           p == OutQ[t][o + 1]
           last == Len(taken[t])
<1>1. /\ n \in Nat /\ n > 0 /\ DOMAIN OutQ[t] = 1 .. n /\ o < n
      /\ \A i \in DOMAIN OutQ[t] : OutQ[t][i] \in Pad
  BY <1>0, LastPad DEF Writes
<1>2. Out(t) = p /\ p \in Pad /\ o + 1 \in DOMAIN OutQ[t]
  BY <1>1 DEF Out
<1>3. /\ taken[t] \in Seq(Item) /\ last \in Nat /\ last \in DOMAIN taken[t] /\ hand[t] \in Item
      /\ hand[t] = taken[t][last]
  BY DEF Put, PutItem, Goto, TeeOK, Holding, TypeOK
<1>4. /\ taken' = taken /\ hand' = hand
      /\ pc'[t] = IF o + 1 < n THEN "put" ELSE "checkstop"
      /\ outId'[t] = IF o + 1 < n THEN o + 1 ELSE 0
  <2>1. /\ taken' = taken /\ hand' = hand /\ outId'[t] = (o + 1) % n
        /\ pc'[t] = IF o + 1 < n THEN "put" ELSE "checkstop"
    BY DEF Put, PutItem, Goto, AfterPut, AfterOutlet, Next1, TypeOK
  <2>2. CASE o + 1 < n
    BY <1>1, <2>1, <2>2, NextPosition
  <2>3. CASE ~ (o + 1 < n)
    <3>1. n = o + 1
      BY <1>1, <2>3
    <3> QED
      BY <1>1, <2>1, <2>3, <3>1, WrapAround
  <2> QED
    BY <2>2, <2>3
<1>5. /\ \A i \in DOMAIN OutQ[t] : i # o + 1 => sent'[OutQ[t][i]] = sent[OutQ[t][i]]
      /\ sent'[p] = Append(sent[p], hand[t])
  <2>1. ASSUME NEW i \in DOMAIN OutQ[t], i # o + 1  PROVE OutQ[t][i] # Out(t)
    <3>1. i - 1 \in Nat /\ i - 1 < n /\ (i - 1) + 1 = i
      BY <1>1
    <3> QED
      BY <1>1, <1>2, <2>1, <3>1, OnlyWriter
  <2>2. sent' = [sent EXCEPT ![Out(t)] = Append(@, hand[t])]
    BY DEF Put, PutItem
  <2> QED
    BY <1>1, <1>2, <2>1, <2>2 DEF TypeOK
<1>6. ASSUME NEW i \in DOMAIN OutQ[t], i # o + 1
      PROVE  /\ Ascending(sent'[OutQ[t][i]])
             /\ \A k \in DOMAIN sent'[OutQ[t][i]] : \E x \in DOMAIN taken'[t] :
                  /\ sent'[OutQ[t][i]][k] = taken'[t][x]
                  /\ Holding(t)' /\ outId'[t] < i => x < Len(taken'[t])
  <2>1. Holding(t)' /\ outId'[t] < i => Holding(t) /\ outId[t] < i
    BY <1>1, <1>4, <1>6 DEF Holding, Put, PutItem, Goto
  <2>2. ASSUME NEW k \in DOMAIN sent[OutQ[t][i]]
        PROVE  \E x \in DOMAIN taken[t] :
                 /\ sent[OutQ[t][i]][k] = taken[t][x]
                 /\ Holding(t)' /\ outId'[t] < i => x < Len(taken[t])
    <3>1. PICK x \in DOMAIN taken[t] :
            /\ sent[OutQ[t][i]][k] = taken[t][x]
            /\ Holding(t) /\ outId[t] < i => x < Len(taken[t])
      BY DEF TeeOK
    <3> QED
      BY <2>1, <3>1
  <2> QED
    BY <1>4, <1>5, <1>6, <2>2 DEF TeeOK
<1>7. /\ Ascending(sent'[p])
      /\ \A k \in DOMAIN sent'[p] : \E x \in DOMAIN taken'[t] : sent'[p][k] = taken'[t][x]
  <2>1. sent[p] \in Seq(Item)
    BY <1>2 DEF TypeOK
  <2>2. ASSUME NEW k \in DOMAIN sent[p]
        PROVE  \E x \in DOMAIN taken[t] : sent[p][k] = taken[t][x] /\ x < last
    <3>1. Holding(t) /\ outId[t] < o + 1
      BY <1>0 DEF Put, PutItem, Goto, Holding
    <3> QED
      BY <1>2, <3>1 DEF TeeOK
  <2>3. ASSUME NEW k \in DOMAIN sent[p]  PROVE Follows(sent[p][k], hand[t])
    <3>1. PICK x \in DOMAIN taken[t] : sent[p][k] = taken[t][x] /\ x < last
      BY <2>2
    <3> QED
      BY <1>3, <3>1 DEF Ascending
  <2>4. Ascending(sent[p])
    BY <1>2 DEF TeeOK
  <2>5. Ascending(Append(sent[p], hand[t]))
    BY <1>3, <2>1, <2>3, <2>4, AscendingAppend
  <2>6. /\ DOMAIN Append(sent[p], hand[t]) = 1 .. Len(sent[p]) + 1 /\ DOMAIN sent[p] = 1 .. Len(sent[p])
        /\ Len(sent[p]) \in Nat
        /\ \A i \in 1 .. Len(sent[p]) : Append(sent[p], hand[t])[i] = sent[p][i]
        /\ Append(sent[p], hand[t])[Len(sent[p]) + 1] = hand[t]
    <3>1. \A s \in Seq(Item) : \A e \in Item :
            /\ DOMAIN Append(s, e) = 1 .. Len(s) + 1 /\ DOMAIN s = 1 .. Len(s) /\ Len(s) \in Nat
            /\ \A i \in 1 .. Len(s) : Append(s, e)[i] = s[i]
            /\ Append(s, e)[Len(s) + 1] = e
      BY AppendProperties
    <3> QED
      BY <1>3, <2>1, <3>1, Zenon
  <2>7. ASSUME NEW k \in DOMAIN Append(sent[p], hand[t])
        PROVE  \E x \in DOMAIN taken[t] : Append(sent[p], hand[t])[k] = taken[t][x]
    <3>1. CASE k \in DOMAIN sent[p]
      BY <2>2, <2>6, <3>1
    <3>2. CASE k = Len(sent[p]) + 1
      BY <1>3, <2>6, <3>2
    <3>3. k \in 1 .. Len(sent[p]) + 1
      BY <2>6, <2>7, Zenon
    <3>4. k \in 1 .. Len(sent[p]) \/ k = Len(sent[p]) + 1
      BY <2>6, <3>3
    <3> QED
      BY <2>6, <3>1, <3>2, <3>4
  <2> QED
    <3> DEFINE r == Append(sent[p], hand[t])
    <3>1. Ascending(r) /\ \A k \in DOMAIN r : \E x \in DOMAIN taken[t] : r[k] = taken[t][x]
      BY <2>5, <2>7
    <3>2. sent'[p] = r /\ taken' = taken
      BY <1>4, <1>5
    <3> HIDE DEF r
    <3> QED
      BY <3>1, <3>2
<1>8. Holding(t)' => ~ (outId'[t] < o + 1)
  BY <1>1, <1>4 DEF Holding
<1>9. ASSUME NEW i \in DOMAIN OutQ[t]
      PROVE  /\ Ascending(sent'[OutQ[t][i]])
             /\ \A k \in DOMAIN sent'[OutQ[t][i]] : \E x \in DOMAIN taken'[t] :
                  /\ sent'[OutQ[t][i]][k] = taken'[t][x]
                  /\ Holding(t)' /\ outId'[t] < i => x < Len(taken'[t])
  <2>1. CASE i = o + 1
    BY <1>7, <1>8, <2>1
  <2> QED
    BY <1>6, <2>1
<1>10. (pc'[t] # "put" => outId'[t] = 0) /\ taken'[t] # << >> /\ hand'[t] = taken'[t][Len(taken'[t])]
  BY <1>3, <1>4
<1> QED
  BY <1>9, <1>10 DEF TeeOK, Ascending

LEMMA TeeStep ==
  ASSUME TypeOK, PlaceOK, Control, [Next]_vars, NEW t \in Task, Kind[t] = "tee",
         Ascending(taken[t]), TeeOK(t)
  PROVE  TeeOK(t)'
<1>1. \A i \in DOMAIN OutQ[t] : i \in Nat /\ 0 < i /\ OutQ[t][i] \in Pad
  BY LastPad DEF Writes
<1>2. pc[t] # "put" => outId[t] = 0
  BY DEF TeeOK
<1>3. ~ GatherItem(t) /\ ~ Produce(t)
  BY DEF GatherItem, Produce, Source
<1>4. CASE AppStep \/ AppKeyboardInterrupt \/ Stop \/ Returned \/ UNCHANGED vars
  <2>1. UNCHANGED <<taken, sent, outId, hand>>
    BY <1>4 DEF AppStep, AppStartTask, AppWake, AppStopTask, AppJoinTask,
       AppKeyboardInterrupt, Stop, Returned, vars, app, history
  <2>2. pc'[t] = pc[t] \/ (pc[t] = "new" /\ pc'[t] = "inlet")
    <3>1. CASE AppStartTask
      <4>1. pc[Order[appNext]] = "new"
        BY <3>1 DEF AppStartTask, Step, Control, TypeOK
      <4> QED
        BY <3>1, <4>1 DEF AppStartTask, LoopHead, TypeOK
    <3>2. CASE ~ AppStartTask
      BY <1>4, <3>2 DEF AppStep, AppWake, AppStopTask, AppJoinTask,
         AppKeyboardInterrupt, Stop, Returned, vars, app, history
    <3> QED
      BY <3>1, <3>2
  <2>3. /\ pc'[t] # "put" => outId'[t] = 0
        /\ Holding(t)' => Holding(t)
    BY <1>2, <2>1, <2>2 DEF Holding
  <2> QED
    BY <2>1, <2>3, TeeKept
<1>5. ASSUME NEW u \in Task, u # t, TaskStep(u)  PROVE TeeOK(t)'
  <2>1. /\ \A i \in DOMAIN OutQ[t] : sent'[OutQ[t][i]] = sent[OutQ[t][i]]
        /\ taken'[t] = taken[t] /\ hand'[t] = hand[t] /\ outId'[t] = outId[t]
    BY <1>5, OthersLeaveAlone DEF Writes
  <2>2. pc'[t] = pc[t]
    BY <1>5, TaskFrame
  <2> QED
    BY <1>2, <2>1, <2>2, TeeKept DEF Holding
<1>6. CASE TaskStep(t) /\ ~ GetItem(t) /\ ~ Put(t)
  <2>1. /\ taken'[t] = taken[t] /\ hand'[t] = hand[t]
        /\ \A i \in DOMAIN OutQ[t] : sent'[OutQ[t][i]] = sent[OutQ[t][i]]
    <3>1. taken' = taken /\ sent' = sent
      BY <1>3, <1>6 DEF TaskStep, CheckInlet, CheckGather, GetEmpty, Process, Raise, CheckOutlet,
         DiscardOld, PutFull, PutFullTo, TeePutFull, TeePassOver, CheckStop, Cleanup, Move, history
    <3>2. hand'[t] = hand[t]
      BY <1>3, <1>6 DEF TaskStep, CheckInlet, CheckGather, GetEmpty, Process, Raise, CheckOutlet,
         DiscardOld, PutFull, PutFullTo, TeePutFull, TeePassOver, CheckStop, Cleanup, Move, history
    <3> QED
      BY <3>1, <3>2
  <2>2. CASE TeePutFull(t)
    <3>1. /\ outId[t] \in Nat /\ outId[t] < Len(OutQ[t]) /\ Len(OutQ[t]) \in Nat
      BY LastPad DEF TypeOK, Writes
    <3>2. /\ pc[t] = "put" /\ outId'[t] = (outId[t] + 1) % Len(OutQ[t])
          /\ pc'[t] = IF outId[t] + 1 < Len(OutQ[t]) THEN "put" ELSE "checkstop"
      BY <2>2 DEF TeePutFull, TeePassOver, Goto, AfterPut, AfterOutlet, Next1, TypeOK
    <3>3. CASE outId[t] + 1 < Len(OutQ[t])
      <4>1. outId'[t] = outId[t] + 1 /\ pc'[t] = "put"
        BY <3>1, <3>2, <3>3, NextPosition
      <4>2. \A i \in DOMAIN OutQ[t] : outId'[t] < i => outId[t] < i
        BY <1>1, <3>1, <4>1
      <4> QED
        BY <2>1, <3>2, <4>1, <4>2, TeeKept DEF Holding
    <3>4. CASE ~ (outId[t] + 1 < Len(OutQ[t]))
      <4>1. outId[t] + 1 = Len(OutQ[t])
        BY <3>1, <3>4
      <4>2. outId'[t] = 0 /\ pc'[t] = "checkstop"
        BY <3>1, <3>2, <4>1, WrapAround
      <4> QED
        BY <2>1, <4>2, TeeKept DEF Holding
    <3> QED
      BY <3>3, <3>4
  <2>3. CASE ~ TeePutFull(t)
    <3>1. outId' = outId
      BY <1>3, <1>6, <2>3 DEF TaskStep, CheckInlet, CheckGather, GetEmpty, Process, Raise,
         CheckOutlet, DiscardOld, PutFull, PutFullTo, CheckStop, Cleanup, Move, history
    <3>2. /\ pc[t] # "put"
          /\ Holding(t)' => Holding(t)
      BY <1>3, <1>6, <2>3 DEF TaskStep, CheckInlet, CheckGather, GetEmpty, Process, Raise,
         CheckOutlet, DiscardOld, PutFull, PutFullTo, CheckStop, Cleanup, Move, Goto, Leave,
         LoopHead, FirstPutStep, AfterOutlet, Holding, PlaceOK, TypeOK
    <3> QED
      BY <1>2, <2>1, <3>1, <3>2, TeeKept
  <2> QED
    BY <2>2, <2>3
<1> QED
  BY <1>4, <1>5, <1>6, TeeTake, TeePut DEF Next

-----------------------------------------------------------------------------
\* Every pad has its frames in order once every task takes them in order.
LEMMA LaterTurn ==
  ASSUME NEW n \in Nat, n > 0, NEW i \in Nat, NEW k \in Nat, k > 0, NEW l \in Nat, k < l
  PROVE  (k - 1) * n + i < (l - 1) * n + i
<1>1. PICK d \in Nat : l - 1 = (k - 1) + 1 + d
  <2>1. l - 1 - k \in Nat /\ l - 1 = (k - 1) + 1 + (l - 1 - k)
    OBVIOUS
  <2> QED
    BY <2>1
<1>2. PICK c \in Nat : c = k - 1
  OBVIOUS
<1>3. (c + 1 + d) * n = c * n + n + d * n
  OBVIOUS
<1>4. c * n \in Nat /\ d * n \in Nat
  BY FullRound
<1> QED
  BY <1>1, <1>2, <1>3, <1>4

LEMMA DealerAscends ==
  ASSUME TypeOK, NEW t \in Task, Dealer(t), DealsAt(t), Ascending(taken[t]),
         NEW i \in DOMAIN OutQ[t]
  PROVE  Ascending(sent[OutQ[t][i]])
<1> DEFINE n == Len(OutQ[t])
           s == sent[OutQ[t][i]]
<1>1. n \in Nat /\ n > 0 /\ i \in Nat /\ s \in Seq(Item) /\ taken[t] \in Seq(Item)
  BY LastPad DEF Dealer, TypeOK
<1> SUFFICES ASSUME NEW k \in DOMAIN s, NEW l \in DOMAIN s, k < l  PROVE Follows(s[k], s[l])
  BY DEF Ascending
<1>2. /\ (k - 1) * n + i \in DOMAIN taken[t] /\ s[k] = taken[t][(k - 1) * n + i]
      /\ (l - 1) * n + i \in DOMAIN taken[t] /\ s[l] = taken[t][(l - 1) * n + i]
  BY DEF DealsAt, Content
<1>3. (k - 1) * n + i < (l - 1) * n + i
  <2>1. k \in Nat /\ k > 0 /\ l \in Nat
    BY <1>1
  <2> HIDE DEF n, s
  <2> QED
    BY <1>1, <2>1, LaterTurn
<1> QED
  BY <1>2, <1>3 DEF Ascending

LEMMA SourceAscends ==
  ASSUME TypeOK, Numbered, NEW t \in Task, Source(t)
  PROVE  Ascending(taken[t])
<1> SUFFICES ASSUME NEW k \in DOMAIN taken[t], NEW l \in DOMAIN taken[t], k < l
             PROVE  Follows(taken[t][k], taken[t][l])
  BY DEF Ascending
<1>1. taken[t][k] = << [src |-> t, n |-> k] >> /\ taken[t][l] = << [src |-> t, n |-> l] >>
  BY DEF Numbered
<1> QED
  BY <1>1 DEF Follows

LEMMA PadsAscend ==
  ASSUME TypeOK, Deals, Numbered, Ordered, NEW p \in Pad
  PROVE  Ascending(sent[p])
<1> PICK t \in Task : \E i \in DOMAIN OutQ[t] : OutQ[t][i] = p
  BY Topology DEF Topology, OnePlace
<1>1. PICK i \in DOMAIN OutQ[t] : OutQ[t][i] = p
  OBVIOUS
<1>2. Writes(t) /\ Kind[t] \in Kinds
  <2>1. OutQ[t] # << >>
    BY <1>1
  <2> QED
    BY <2>1, QueueLists, Topology DEF Topology
<1>3. CASE Kind[t] = "tee"
  BY <1>1, <1>3 DEF Ordered, TeeOK
<1>4. CASE Kind[t] # "tee"
  <2>1. Ascending(taken[t])
    <3>1. CASE Source(t)
      BY <3>1, SourceAscends
    <3>2. CASE Kind[t] = "join"
      BY <3>2 DEF Ordered, JoinOK, JoinAt
    <3>3. CASE Kind[t] = "pipe"
      BY <3>3 DEF Ordered, Taker, Reads, ReaderOK
    <3> QED
      BY <1>2, <1>4, <3>1, <3>2, <3>3 DEF Source, Kinds, Writes
  <2> QED
    BY <1>1, <1>2, <1>4, <2>1, DealerAscends DEF Deals, Dealer
<1> QED
  BY <1>3, <1>4

LEMMA OrderedInit == Init => Ordered
<1> SUFFICES ASSUME Init  PROVE Ordered
  OBVIOUS
<1>1. TypeOK
  BY TypeInit
<1>2. ASSUME NEW p \in Pad  PROVE SlotOK(p)
  <2>1. pad[p] = << >> /\ sent[p] = << >>
    BY <1>2 DEF Init
  <2>2. Gone(p) = 0 /\ Len(pad[p]) = 0
    BY <2>1 DEF Gone
  <2>3. \A k : k \notin 1 .. Len(pad[p])
    BY <2>2
  <2> QED
    BY <2>2, <2>3 DEF SlotOK
<1>3. ASSUME NEW t \in Task
      PROVE  /\ taken[t] = << >> /\ DOMAIN taken[t] = {} /\ pc[t] = "new" /\ outId[t] = 0
             /\ Ascending(taken[t])
  BY <1>3 DEF Init, Ascending
<1>4. ASSUME NEW t \in Task, Kind[t] = "join"  PROVE JoinOK(t)
  <2> DEFINE cut == [i \in 0 .. Len(InQ[t]) |-> 0]
  <2>1. cut \in Cuts(Len(InQ[t]))
    BY QueueLists DEF Cuts
  <2>2. JoinAt(t, cut)
    BY <1>3 DEF JoinAt
  <2> QED
    BY <2>1, <2>2 DEF JoinOK
<1>5. ASSUME NEW t \in Task, Kind[t] = "tee"  PROVE TeeOK(t)
  <2>1. \A i \in DOMAIN OutQ[t] : DOMAIN sent[OutQ[t][i]] = {}
    BY <1>5, LastPad DEF Init, Writes
  <2> QED
    BY <1>3, <2>1 DEF TeeOK, Holding, Ascending
<1> QED
  BY <1>2, <1>3, <1>4, <1>5 DEF Ordered, ReaderOK

LEMMA OrderedAlways ==
  ASSUME NoFanIn(Kind, InQ)
  PROVE  Spec => [](Deals /\ Ordered)
<1>1. ASSUME NEW t \in Task, Taker(t)  PROVE Len(InQ[t]) = 1
  <2>1. DOMAIN Kind = Task /\ Kind[t] \in {"pipe", "consumer", "tee"}
    BY <1>1, Topology DEF Topology, Taker, Reads
  <2> QED
    BY <2>1 DEF NoFanIn
<1>2. TypeOK /\ TypeOK' /\ PlaceOK /\ Control /\ Deals /\ Numbered /\ Ordered /\ [Next]_vars => Ordered'
  <2> SUFFICES ASSUME TypeOK, TypeOK', PlaceOK, Control, Deals, Numbered, Ordered, [Next]_vars
               PROVE  Ordered'
    OBVIOUS
  <2>1. \A p \in Pad : SlotOK(p) /\ Ascending(sent[p])
    BY PadsAscend DEF Ordered
  <2>2. \A p \in Pad : SlotOK(p)'
    BY <2>1, PadsStep DEF PadsFlow
  <2>3. ASSUME NEW t \in Task, Taker(t)  PROVE ReaderOK(t)'
    BY <1>1, <2>1, <2>3, ReaderStep DEF Ordered
  <2>4. ASSUME NEW t \in Task, Kind[t] = "join"  PROVE JoinOK(t)'
    BY <2>1, <2>4, JoinStep DEF Ordered
  <2>5. ASSUME NEW t \in Task, Kind[t] = "tee"  PROVE TeeOK(t)'
    <3>1. Ascending(taken[t]) /\ TeeOK(t)
      BY <2>5 DEF Ordered, Taker, Reads, ReaderOK
    <3> QED
      BY <2>5, <3>1, TeeStep
  <2> QED
    BY <2>2, <2>3, <2>4, <2>5 DEF Ordered, Taker, Reads
<1>3. Spec => [](TypeOK /\ PlaceOK /\ Control)
  BY Inductive, PTL DEF IInv
<1>4. Spec => []Deals
  BY <1>3, DealsInit, DealsStep, PTL DEF Spec
<1> QED
  BY <1>2, <1>3, <1>4, NumberedAlways, OrderedInit, PTL DEF Spec

\* Where no task but a Join has more than one in_queue the frames of every source get to
\* every pad in order, whatever a Tee passes over, the captures discard, the timeouts
\* delay and stops and exceptions cut off; a Join of any number of in_queues included.
THEOREM FramesStayInOrder == NoFanIn(Kind, InQ) => (Spec => []NeverOvertaken)
<1> SUFFICES ASSUME NoFanIn(Kind, InQ)  PROVE Spec => []NeverOvertaken
  OBVIOUS
<1>1. TypeOK /\ Deals /\ Numbered /\ Ordered => NeverOvertaken
  <2> SUFFICES ASSUME TypeOK, Deals, Numbered, Ordered, NEW p \in Pad, NEW k \in 1 .. Len(sent[p]) - 1,
                      NEW j \in DOMAIN sent[p][k]
               PROVE  sent[p][k][j].n < sent[p][k + 1][j].n
    BY DEF NeverOvertaken
  <2>1. sent[p] \in Seq(Item)
    BY DEF TypeOK
  <2>2. k \in DOMAIN sent[p] /\ k + 1 \in DOMAIN sent[p] /\ k < k + 1
    BY <2>1
  <2>3. Follows(sent[p][k], sent[p][k + 1])
    BY <2>2, PadsAscend DEF Ascending
  <2> QED
    BY <2>3 DEF Follows
<1> QED
  BY <1>1, TypeCorrect, NumberedAlways, OrderedAlways, PTL

-----------------------------------------------------------------------------
(* What Join puts together *)

\* The first n places of e have the k-th item of each of the first n in_queues, of
\* items that are one frame.
TupleOf(t, k, n, e) ==
  /\ Len(e) = n
  /\ \A i \in 1 .. n : k \in 1 .. Gone(InQ[t][i]) /\ e[i] = sent[InQ[t][i]][k][1]

\* A Join has taken as many items from each of its in_queues as it made tuples, but
\* for the ones it has in `results' and, once it is stopped, the ones it dropped.
Ahead(t, i) == IF i <= inId[t] THEN 1 ELSE 0
Level(t) ==
  \A i \in DOMAIN InQ[t] : Gone(InQ[t][i]) = Len(taken[t])
Gathers(t) ==
  /\ \A k \in DOMAIN taken[t] : TupleOf(t, k, Len(InQ[t]), taken[t][k])
  /\ pc[t] \in {"gather", "get"} =>
       /\ TupleOf(t, Len(taken[t]) + 1, inId[t], hand[t])
       /\ \A i \in DOMAIN InQ[t] : Gone(InQ[t][i]) = Len(taken[t]) + Ahead(t, i)
  /\ pc[t] \notin {"gather", "get"} /\ running[t] => Level(t)

\* A task whose in_queues block and carry one frame in an item.
Single(t) ==
  \A i \in DOMAIN InQ[t] : \A x \in DOMAIN sent[InQ[t][i]] : Len(sent[InQ[t][i]][x]) = 1
Blocking(t) == \A i \in DOMAIN InQ[t] : ~ Discarding(InQ[t][i])

\* Only the reader of a pad that does not discard makes room in it.
LEMMA GoneStep ==
  ASSUME TypeOK, PlaceOK, \A p \in Pad : SlotOK(p), [Next]_vars, NEW t \in Task, Reads(t),
         NEW i \in DOMAIN InQ[t], ~ Discarding(InQ[t][i]), ~ GetItem(t), ~ GatherItem(t)
  PROVE  Gone(InQ[t][i])' = Gone(InQ[t][i])
<1> DEFINE p == InQ[t][i]
<1>1. p \in Pad /\ SlotOK(p)
  BY FirstPad
<1>2. ASSUME sent'[p] = sent[p], pad'[p] = pad[p]  PROVE Gone(p)' = Gone(p)
  BY <1>2 DEF Gone
<1>3. ASSUME NEW u \in Task, GetItem(u) \/ GatherItem(u)  PROVE Gone(p)' = Gone(p)
  <2>1. Reads(u) /\ inId[u] \in Nat /\ inId[u] < Len(InQ[u])
    BY <1>3 DEF GetItem, Get, GatherItem, Goto, PlaceOK, TypeOK
  <2>2. inId[u] + 1 \in DOMAIN InQ[u] /\ In(u) = InQ[u][inId[u] + 1]
    BY <2>1, FirstPad DEF In
  <2>3. u # t
    BY <1>3
  <2>4. In(u) # p
    BY <2>2, <2>3, OnlyReader
  <2>5. sent' = sent /\ pad' = [pad EXCEPT ![In(u)] = Tail(@)]
    BY <1>3 DEF GetItem, Get, GatherItem
  <2> QED
    BY <1>1, <1>2, <2>4, <2>5 DEF TypeOK
<1>4. ASSUME NEW u \in Task, DiscardOld(u)  PROVE Gone(p)' = Gone(p)
  <2>1. Kind[u] = "capture" /\ Writes(u) /\ outId[u] \in Nat /\ outId[u] < Len(OutQ[u])
    BY <1>4 DEF DiscardOld, Goto, PlaceOK, Writes, TypeOK
  <2>2. outId[u] + 1 \in DOMAIN OutQ[u] /\ Out(u) = OutQ[u][outId[u] + 1]
    BY <2>1, LastPad DEF Out
  <2>3. Out(u) # p
    BY <2>1, <2>2 DEF Discarding
  <2> QED
    BY <1>2, <1>4, <2>3 DEF DiscardOld, history, TypeOK
<1>5. ASSUME NEW u \in Task, Put(u)  PROVE Gone(p)' = Gone(p)
  <2>1. /\ sent' = [sent EXCEPT ![Out(u)] = Append(@, hand[u])]
        /\ pad' = [pad EXCEPT ![Out(u)] = Append(@, hand[u])]
        /\ hand[u] \in Item
    BY <1>5 DEF Put, PutItem, TypeOK
  <2>2. CASE p = Out(u)
    <3>1. sent'[p] = Append(sent[p], hand[u]) /\ pad'[p] = Append(pad[p], hand[u])
      BY <1>1, <2>1, <2>2 DEF TypeOK
    <3> QED
      BY <1>1, <2>1, <3>1, SlotPut
  <2>3. CASE p # Out(u)
    BY <1>1, <1>2, <2>1, <2>3 DEF TypeOK
  <2> QED
    BY <2>2, <2>3
<1>6. ASSUME NEW u \in Task, TaskStep(u), ~ GetItem(u), ~ GatherItem(u), ~ DiscardOld(u), ~ Put(u)
      PROVE  Gone(p)' = Gone(p)
  <2>1. sent' = sent /\ pad' = pad
    BY <1>6 DEF TaskStep, CheckInlet, CheckGather, GetEmpty, Produce, Process, Raise, CheckOutlet,
       PutFull, PutFullTo, TeePutFull, TeePassOver, CheckStop, Cleanup, Move, history
  <2> QED
    BY <1>2, <2>1
<1>7. ASSUME AppStep \/ AppKeyboardInterrupt \/ Stop \/ Returned \/ UNCHANGED vars
      PROVE  Gone(p)' = Gone(p)
  <2>1. sent' = sent /\ pad' = pad
    BY <1>7 DEF AppStep, AppStartTask, AppWake, AppStopTask, AppJoinTask,
       AppKeyboardInterrupt, Stop, Returned, vars, app, history
  <2> QED
    BY <1>2, <2>1
<1> QED
  BY <1>3, <1>4, <1>5, <1>6, <1>7 DEF Next

LEMMA TupleKept ==
  ASSUME \A p \in Pad : SlotOK(p), TypeOK, PadsFlow, NEW t \in Task, Reads(t), NEW k,
         NEW n \in Nat, n <= Len(InQ[t]), NEW e, TupleOf(t, k, n, e)
  PROVE  TupleOf(t, k, n, e)'
<1> SUFFICES ASSUME NEW i \in 1 .. n
             PROVE  /\ k \in 1 .. Gone(InQ[t][i])'
                    /\ sent'[InQ[t][i]][k] = sent[InQ[t][i]][k]
  BY DEF TupleOf
<1> DEFINE p == InQ[t][i]
<1>1. p \in Pad /\ k \in 1 .. Gone(p)
  BY FirstPad DEF TupleOf
<1>2. Gone(p) \in Nat /\ Gone(p)' \in Nat /\ Gone(p) <= Gone(p)' /\ k \in DOMAIN sent[p]
  BY <1>1, GoneBound DEF PadsFlow, SlotOK
<1> QED
  BY <1>1, <1>2 DEF PadsFlow

LEMMA GathersKept ==
  ASSUME TypeOK, PlaceOK, Control, \A p \in Pad : SlotOK(p), [Next]_vars, NEW t \in Task,
         Kind[t] = "join", Blocking(t), Gathers(t), ~ GatherItem(t)
  PROVE  Gathers(t)'
<1> DEFINE n == Len(InQ[t])
<1>1. /\ n \in Nat /\ DOMAIN InQ[t] = 1 .. n /\ Reads(t)
      /\ inId[t] \in Nat /\ inId[t] < n /\ inId[t] <= n
  BY FirstPad DEF Reads, TypeOK
<1>2. PadsFlow
  BY PadsStep
<1>3. taken'[t] = taken[t]
  BY JoinMoves
<1>4. \A i \in DOMAIN InQ[t] : Gone(InQ[t][i])' = Gone(InQ[t][i])
  <2>1. ~ GetItem(t)
    BY DEF GetItem, Get
  <2> QED
    BY <1>1, <2>1, GoneStep DEF Blocking
<1>5. ASSUME NEW k \in DOMAIN taken[t]  PROVE TupleOf(t, k, n, taken[t][k])'
  <2> PICK e \in Item : e = taken[t][k]
    BY DEF TypeOK
  <2>1. TupleOf(t, k, n, e)
    BY DEF Gathers
  <2>2. TupleOf(t, k, n, e)'
    BY <1>1, <1>2, <2>1, TupleKept
  <2> QED
    BY <1>3, <2>2 DEF TupleOf
<1>6. ASSUME pc[t] \in {"gather", "get"}, hand'[t] = hand[t], inId'[t] = inId[t]
      PROVE  /\ TupleOf(t, Len(taken[t]) + 1, inId[t], hand[t])'
             /\ \A i \in DOMAIN InQ[t] : Gone(InQ[t][i])' = Len(taken'[t]) + Ahead(t, i)'
  <2>1. /\ TupleOf(t, Len(taken[t]) + 1, inId[t], hand[t])
        /\ \A i \in DOMAIN InQ[t] : Gone(InQ[t][i]) = Len(taken[t]) + Ahead(t, i)
    BY <1>6 DEF Gathers
  <2> PICK m \in Nat : m = inId[t]
    BY <1>1
  <2> PICK k \in Nat : k = Len(taken[t]) + 1
    BY DEF TypeOK
  <2>2. TupleOf(t, k, m, hand[t])'
    <3> PICK e \in Item : e = hand[t]
      BY DEF TypeOK
    <3>1. TupleOf(t, k, m, e)
      BY <2>1
    <3>2. TupleOf(t, k, m, e)'
      BY <1>1, <1>2, <3>1, TupleKept
    <3> QED
      BY <1>6, <3>2 DEF TupleOf
  <2> QED
    BY <1>3, <1>4, <1>6, <2>1, <2>2 DEF Ahead, TupleOf
<1>7. ASSUME pc[t] \notin {"gather", "get"}, running[t], hand'[t] = << >>, inId'[t] = 0
      PROVE  /\ TupleOf(t, Len(taken[t]) + 1, inId[t], hand[t])'
             /\ \A i \in DOMAIN InQ[t] : Gone(InQ[t][i])' = Len(taken'[t]) + Ahead(t, i)'
  <2>1. Level(t)
    BY <1>7 DEF Gathers
  <2>2. Len(hand'[t]) = 0 /\ \A i : i \notin 1 .. 0
    BY <1>7
  <2>3. \A i \in DOMAIN InQ[t] : Ahead(t, i)' = 0
    BY <1>1, <1>7 DEF Ahead
  <2>4. Len(taken[t]) \in Nat
    BY DEF TypeOK
  <2>5. \A i \in DOMAIN InQ[t] : Gone(InQ[t][i])' = Len(taken'[t]) + Ahead(t, i)'
    BY <1>3, <1>4, <2>1, <2>3, <2>4 DEF Level
  <2> QED
    BY <1>7, <2>2, <2>5 DEF TupleOf
<1>8. pc'[t] \in {"gather", "get"} =>
        /\ TupleOf(t, Len(taken[t]) + 1, inId[t], hand[t])'
        /\ \A i \in DOMAIN InQ[t] : Gone(InQ[t][i])' = Len(taken'[t]) + Ahead(t, i)'
  BY <1>6, <1>7, JoinMoves
<1>9. pc'[t] \notin {"gather", "get"} /\ running'[t] => Level(t)'
  <2>1. pc'[t] \notin {"gather", "get"} /\ running'[t] => Level(t)
    BY JoinMoves DEF Gathers
  <2> QED
    BY <1>3, <1>4, <2>1 DEF Level
<1> QED
  BY <1>3, <1>5, <1>8, <1>9 DEF Gathers

LEMMA GathersItem ==
  ASSUME TypeOK, PlaceOK, \A p \in Pad : SlotOK(p), [Next]_vars, NEW t \in Task,
         Kind[t] = "join", Single(t), Gathers(t), GatherItem(t)
  PROVE  Gathers(t)'
<1>0. inId[t] \in Nat /\ inId[t] < Len(InQ[t]) /\ Len(taken[t]) \in Nat /\ Reads(t)
  BY DEF TypeOK, Reads
<1> PICK m \in Nat : m = inId[t]
  BY <1>0
<1> PICK made \in Nat : made = Len(taken[t])
  BY <1>0
<1> DEFINE n == Len(InQ[t])
           p == InQ[t][m + 1]
           item == Head(pad[p])
<1>1. /\ n \in Nat /\ DOMAIN InQ[t] = 1 .. n /\ m < n
      /\ \A i \in 1 .. n : InQ[t][i] \in Pad
  BY <1>0, FirstPad
<1>2. In(t) = p /\ p \in Pad /\ m + 1 \in 1 .. n
  BY <1>1 DEF In
<1>3. /\ pad[p] # << >> /\ sent' = sent /\ pad' = [pad EXCEPT ![p] = Tail(@)]
      /\ hand'[t] = hand[t] \o item /\ inId'[t] = (m + 1) % n
  BY <1>2 DEF GatherItem, Next1, TypeOK
<1>4. /\ Gone(p)' = Gone(p) + 1 /\ Gone(p) + 1 \in DOMAIN sent[p]
      /\ item = sent[p][Gone(p) + 1]
  <2>1. pad'[p] = Tail(pad[p])
    BY <1>2, <1>3 DEF TypeOK
  <2> QED
    BY <1>2, <1>3, <2>1, SlotGet
<1>5. \A i \in 1 .. n : i # m + 1 => Gone(InQ[t][i])' = Gone(InQ[t][i])
  <2> SUFFICES ASSUME NEW i \in 1 .. n, i # m + 1  PROVE Gone(InQ[t][i])' = Gone(InQ[t][i])
    OBVIOUS
  <2>1. InQ[t][i] # p
    BY <1>1, <1>2, OnlyReader
  <2>2. pad'[InQ[t][i]] = pad[InQ[t][i]]
    BY <1>1, <1>3, <2>1 DEF TypeOK
  <2> QED
    BY <1>3, <2>2 DEF Gone
<1>6. /\ pc[t] = "get" /\ TupleOf(t, made + 1, m, hand[t])
      /\ \A i \in 1 .. n : Gone(InQ[t][i]) = made + Ahead(t, i)
  BY <1>1 DEF GatherItem, Gathers
\* The item is item made + 1 of the in_queue, and now all up to it have given that many.
<1>7. Gone(p) = made /\ Gone(p)' = made + 1 /\ item = sent[p][made + 1]
  <2>1. Ahead(t, m + 1) = 0
    BY DEF Ahead
  <2>2. Gone(p) = made + Ahead(t, m + 1)
    BY <1>2, <1>6, Zenon
  <2>3. Gone(p) = made
    BY <2>1, <2>2
  <2> QED
    BY <1>4, <2>3, Zenon
<1>8. \A i \in 1 .. n : /\ i <= m + 1 => Gone(InQ[t][i])' = made + 1
                        /\ ~ (i <= m + 1) => Gone(InQ[t][i])' = made
  <2> SUFFICES ASSUME NEW i \in 1 .. n
               PROVE  /\ i <= m + 1 => Gone(InQ[t][i])' = made + 1
                      /\ ~ (i <= m + 1) => Gone(InQ[t][i])' = made
    OBVIOUS
  <2>1. CASE i = m + 1
    <3>1. Gone(InQ[t][i])' = made + 1 /\ i <= m + 1
      BY <1>7, <2>1
    <3> QED
      BY <3>1, Zenon
  <2>2. CASE i # m + 1
    <3>1. Gone(InQ[t][i])' = made + Ahead(t, i)
      BY <1>5, <1>6, <2>2
    <3>2. i <= m <=> i <= m + 1
      BY <1>1, <2>2
    <3>3. (i <= m => Ahead(t, i) = 1) /\ (~ (i <= m) => Ahead(t, i) = 0) /\ made + 0 = made
      BY DEF Ahead
    <3> QED
      BY <3>1, <3>2, <3>3, Zenon
  <2> QED
    BY <2>1, <2>2
<1> PICK e \in Item : /\ e = hand'[t] /\ Len(e) = m + 1
                      /\ \A j \in 1 .. m : e[j] = hand[t][j]
                      /\ e[m + 1] = sent[p][made + 1][1]
  <2>1. sent[p] \in Seq(Item) /\ hand[t] \in Item /\ Len(hand[t]) = m
    BY <1>2, <1>6 DEF TypeOK, TupleOf
  <2>2. item \in Item /\ Len(item) = 1 /\ item[1] = sent[p][made + 1][1]
    <3>1. made + 1 \in DOMAIN sent[p]
      BY <1>4, <1>7, Zenon
    <3>2. Len(sent[p][made + 1]) = 1
      BY <1>1, <1>2, <3>1, Zenon DEF Single
    <3>3. sent[p][made + 1] \in Item
      BY <2>1, <3>1
    <3> QED
      BY <1>7, <3>2, <3>3, Zenon
  <2> HIDE DEF item
  <2> DEFINE e == hand[t] \o item
  <2>3. /\ e \in Item /\ Len(e) = m + 1
        /\ (\A j \in 1 .. m : e[j] = hand[t][j]) /\ e[m + 1] = item[1]
    <3>1. /\ e \in Item /\ Len(e) = Len(hand[t]) + Len(item)
          /\ \A j \in 1 .. Len(hand[t]) : e[j] = hand[t][j]
          /\ \A j \in 1 .. Len(item) : e[Len(hand[t]) + j] = item[j]
      BY <2>1, <2>2, Concatenation
    <3> HIDE DEF e
    <3>2. 1 \in 1 .. Len(item)
      BY <2>2
    <3> QED
      BY <2>1, <2>2, <3>1, <3>2
  <2> QED
    BY <1>3, <2>2, <2>3, Zenon
<1> HIDE DEF item
<1>9. TupleOf(t, made + 1, m + 1, e)'
  <2> SUFFICES ASSUME NEW i \in 1 .. m + 1
               PROVE  /\ made + 1 \in 1 .. Gone(InQ[t][i])'
                      /\ e[i] = sent[InQ[t][i]][made + 1][1]
    BY <1>3 DEF TupleOf
  <2>1. Gone(InQ[t][i])' = made + 1 /\ made + 1 \in 1 .. made + 1
    <3>1. i \in 1 .. n /\ i <= m + 1 /\ made + 1 \in 1 .. made + 1
      BY <1>1
    <3> QED
      BY <1>8, <3>1, Zenon
  <2>2. CASE i = m + 1
    <3>1. e[i] = sent[InQ[t][i]][made + 1][1]
      BY <2>2
    <3> QED
      BY <2>1, <3>1, Zenon
  <2>3. CASE i \in 1 .. m
    BY <1>6, <2>1, <2>3 DEF TupleOf
  <2> QED
    BY <2>2, <2>3
<1>10. ASSUME NEW k \in DOMAIN taken[t]
       PROVE  TupleOf(t, k, n, taken[t][k]) /\ \A f : f = taken[t][k] => TupleOf(t, k, n, f)'
  <2>1. PadsFlow
    BY PadsStep
  <2>2. TupleOf(t, k, n, taken[t][k])
    BY DEF Gathers
  <2>3. ASSUME NEW f, f = taken[t][k]  PROVE TupleOf(t, k, n, f)'
    BY <1>0, <1>1, <2>1, <2>2, <2>3, TupleKept
  <2> QED
    BY <2>2, <2>3
<1>11. CASE m + 1 = n
  <2>1. taken'[t] = Append(taken[t], e) /\ pc'[t] = "outlet"
    BY <1>1, <1>11 DEF GatherItem, Goto, AfterInlet, TypeOK
  <2>2. /\ DOMAIN taken'[t] = 1 .. made + 1 /\ DOMAIN taken[t] = 1 .. made
        /\ Len(taken'[t]) = made + 1
        /\ \A k \in 1 .. made : taken'[t][k] = taken[t][k]
        /\ taken'[t][made + 1] = e
    BY <2>1, AppendProperties DEF TypeOK
  <2>3. ASSUME NEW k \in DOMAIN taken'[t]  PROVE TupleOf(t, k, n, taken[t][k])'
    <3> PICK f : f = taken'[t][k]
      OBVIOUS
    <3>1. TupleOf(t, k, n, f)'
      <4>1. CASE k \in 1 .. made
        BY <1>10, <2>2, <4>1
      <4>2. CASE k = made + 1
        BY <1>9, <1>11, <2>2, <4>2
      <4> QED
        BY <2>2, <4>1, <4>2
    <3> QED
      BY <3>1 DEF TupleOf
  <2>4. Level(t)'
    <3>1. \A i \in 1 .. n : i <= m + 1
      BY <1>11
    <3> QED
      BY <1>1, <1>8, <2>2, <3>1 DEF Level
  <2> QED
    BY <2>1, <2>3, <2>4 DEF Gathers
<1>12. CASE m + 1 # n
  <2>1. taken'[t] = taken[t] /\ pc'[t] = "gather" /\ inId'[t] = m + 1
    <3>1. (m + 1) % n = m + 1
      <4>1. n > 0 /\ m + 1 < n
        BY <1>1, <1>12
      <4> HIDE DEF n
      <4> QED
        BY <1>1, <4>1, NextPosition
    <3> QED
      BY <1>1, <1>3, <1>12, <3>1 DEF GatherItem, Goto, TypeOK
  <2>2. ASSUME NEW k \in DOMAIN taken'[t]  PROVE TupleOf(t, k, n, taken[t][k])'
    <3> PICK f : f = taken'[t][k]
      OBVIOUS
    <3>1. TupleOf(t, k, n, f)'
      BY <1>10, <2>1
    <3> QED
      BY <3>1 DEF TupleOf
  <2>3. TupleOf(t, Len(taken[t]) + 1, inId[t], hand[t])'
    BY <1>9, <2>1 DEF TupleOf
  <2>4. \A i \in DOMAIN InQ[t] : Gone(InQ[t][i])' = Len(taken'[t]) + Ahead(t, i)'
    <3> SUFFICES ASSUME NEW i \in 1 .. n
                 PROVE  Gone(InQ[t][i])' = Len(taken'[t]) + Ahead(t, i)'
      BY <1>1
    <3>1. (i <= m + 1 => Ahead(t, i)' = 1) /\ (~ (i <= m + 1) => Ahead(t, i)' = 0)
      BY <2>1 DEF Ahead
    <3>2. Len(taken'[t]) = made /\ made + 0 = made
      BY <2>1
    <3> QED
      BY <1>8, <3>1, <3>2, Zenon
  <2> QED
    BY <2>1, <2>2, <2>3, <2>4 DEF Gathers
<1> QED
  BY <1>11, <1>12

-----------------------------------------------------------------------------
\* A source makes no frame beyond the bound but the one that a stop finds it at.
Bounded ==
  \A t \in Task : Source(t) =>
    \/ Len(taken[t]) <= MaxItems
    \/ Len(taken[t]) = MaxItems + 1 /\ ~ running[t] /\ pc[t] # "proc"

LEMMA BoundedStep == TypeOK /\ PlaceOK /\ Control /\ Bounded /\ [Next]_vars => Bounded'
<1> SUFFICES ASSUME TypeOK, PlaceOK, Control, Bounded, [Next]_vars, NEW t \in Task, Source(t)
             PROVE  \/ Len(taken'[t]) <= MaxItems
                    \/ Len(taken'[t]) = MaxItems + 1 /\ ~ running'[t] /\ pc'[t] # "proc"
  BY DEF Bounded, Source
<1>1. \/ Len(taken[t]) <= MaxItems
      \/ Len(taken[t]) = MaxItems + 1 /\ ~ running[t] /\ pc[t] # "proc"
  BY DEF Bounded
<1>2. CASE Produce(t)
  <2>1. /\ pc[t] = "proc" /\ pc'[t] = "outlet" /\ running'[t] = running[t]
        /\ Len(taken[t]) < MaxItems \/ ~ running[t]
        /\ taken'[t] = Append(taken[t], << [src |-> t, n |-> Len(taken[t]) + 1] >>)
    BY <1>2 DEF Produce, Goto, app, TypeOK
  <2>2. Len(taken'[t]) = Len(taken[t]) + 1 /\ Len(taken[t]) \in Nat
    BY <2>1 DEF TypeOK
  <2>3. MaxItems \in Nat
    BY Parameters DEF Parameters
  <2> QED
    BY <1>1, <2>1, <2>2, <2>3
<1>3. CASE ~ Produce(t)
  <2>1. ~ GetItem(t) /\ ~ GatherItem(t)
    BY DEF GetItem, Get, GatherItem, Goto, PlaceOK, Source, Reads
  <2>2. taken'[t] = taken[t]
    BY <1>3, <2>1, TakenStep
  <2> SUFFICES ASSUME ~ running[t], pc[t] # "proc"  PROVE ~ running'[t] /\ pc'[t] # "proc"
    BY <1>1, <2>2
  <2>3. ASSUME NEW u \in Task, TaskStep(u)  PROVE ~ running'[t] /\ pc'[t] # "proc"
    <3>1. running' = running /\ (u # t => pc'[t] = pc[t])
      BY <2>3, TaskFrame
    <3>2. CASE u = t
      <4>1. pc'[t] # "proc"
        <5>1. CASE CheckInlet(t) \/ CheckStop(t)
          BY <5>1 DEF CheckInlet, CheckStop, Move, Goto, Leave, TypeOK
        <5>2. CASE CheckGather(t) \/ GetEmpty(t) \/ Process(t) \/ Raise(t)
          BY <5>2 DEF CheckGather, GetEmpty, Process, Raise, Move, Goto, Leave, TypeOK
        <5>3. CASE CheckOutlet(t) \/ DiscardOld(t) \/ PutFull(t)
          BY <5>3 DEF CheckOutlet, DiscardOld, PutFull, PutFullTo, Move, Goto, FirstPutStep,
             AfterOutlet, TypeOK
        <5>4. CASE Put(t) \/ TeePutFull(t)
          BY <5>4 DEF Put, PutItem, TeePutFull, TeePassOver, Goto, AfterPut, AfterOutlet, TypeOK
        <5>5. CASE Cleanup(t)
          BY <5>5 DEF Cleanup, Goto, TypeOK
        <5> QED
          BY <1>3, <2>1, <2>3, <3>2, <5>1, <5>2, <5>3, <5>4, <5>5 DEF TaskStep
      <4> QED
        BY <3>1, <4>1
    <3> QED
      BY <3>1, <3>2
  <2>4. CASE AppStartTask
    <3>1. running[t]
      BY <2>4 DEF AppStartTask, Step, Control
    <3> QED
      BY <3>1
  <2>5. CASE AppStopTask
    BY <2>5 DEF AppStopTask, TypeOK
  <2>6. CASE AppWake \/ AppJoinTask \/ AppKeyboardInterrupt \/ Stop \/ Returned \/ UNCHANGED vars
    BY <2>6 DEF AppWake, AppJoinTask, AppKeyboardInterrupt, Stop, Returned, vars, app
  <2> QED
    BY <2>3, <2>4, <2>5, <2>6 DEF Next, AppStep
<1> QED
  BY <1>2, <1>3

-----------------------------------------------------------------------------
\* What an in_queue of `join' carries is what a pad of `tee' carries.
LEMMA Branch ==
  ASSUME Diamond(Kind, InQ, OutQ), TypeOK, DealsInTurn, TakesInTurn, NEW i \in DOMAIN InQ["join"]
  PROVE  /\ ~ Discarding(InQ["join"][i])
         /\ \E j \in DOMAIN OutQ["tee"] : \A x \in DOMAIN sent[InQ["join"][i]] :
              /\ x \in DOMAIN sent[OutQ["tee"][j]]
              /\ sent[InQ["join"][i]][x] = sent[OutQ["tee"][j]][x]
<1> DEFINE p == InQ["join"][i]
<1>1. /\ DOMAIN Kind = Task /\ "tee" \in Task /\ Kind["tee"] = "tee" /\ "join" \in Task
      /\ Kind["join"] = "join"
  BY Topology DEF Topology, Diamond
<1>2. p \in Pad
  BY <1>1, FirstPad DEF Reads
<1> PICK j \in DOMAIN OutQ["tee"] :
      \/ p = OutQ["tee"][j]
      \/ \E w \in DOMAIN Kind : Kind[w] = "pipe" /\ InQ[w] = <<OutQ["tee"][j]>> /\ OutQ[w] = <<p>>
  BY DEF Diamond
<1>3. OutQ["tee"][j] \in Pad /\ ~ Discarding(OutQ["tee"][j])
  BY <1>1, LastPad, NotDiscarding DEF Writes
<1>4. CASE p = OutQ["tee"][j]
  BY <1>3, <1>4
<1>5. ASSUME NEW w \in Task, Kind[w] = "pipe", InQ[w] = <<OutQ["tee"][j]>>, OutQ[w] = <<p>>
      PROVE  /\ ~ Discarding(p)
             /\ \A x \in DOMAIN sent[p] : /\ x \in DOMAIN sent[OutQ["tee"][j]]
                                          /\ sent[p][x] = sent[OutQ["tee"][j]][x]
  <2>1. ~ Discarding(p)
    <3>1. ~ Discarding(OutQ[w][1])
      BY <1>5, NotDiscarding
    <3> QED
      BY <1>5, <3>1
  <2> QED
    BY <1>2, <1>3, <1>5, <2>1, PipePassesOn
<1> QED
  BY <1>1, <1>4, <1>5

\* What `tee' passes on are frames of `src', one in an item.
LEMMA TeeFrames ==
  ASSUME Diamond(Kind, InQ, OutQ), TypeOK, DealsInTurn, Numbered, Bounded, Ordered,
         NEW j \in DOMAIN OutQ["tee"], NEW x \in DOMAIN sent[OutQ["tee"][j]]
  PROVE  \E n \in 1 .. MaxItems + 1 : sent[OutQ["tee"][j]][x] = << [src |-> "src", n |-> n] >>
<1>1. /\ DOMAIN Kind = Task /\ "tee" \in Task /\ Kind["tee"] = "tee"
      /\ "src" \in Task /\ Source("src")
  BY Topology DEF Topology, Diamond, Source
<1> PICK i \in DOMAIN OutQ["src"] : InQ["tee"] = <<OutQ["src"][i]>>
  BY DEF Diamond
<1> DEFINE p == OutQ["src"][i]
<1>2. InQ["tee"][1] = p /\ p \in Pad /\ Len(OutQ["src"]) \in Nat /\ i \in Nat /\ i > 0
  BY <1>1, LastPad DEF Source, Writes
<1>3. PICK y \in DOMAIN taken["tee"] : sent[OutQ["tee"][j]][x] = taken["tee"][y]
  BY <1>1 DEF Ordered, TeeOK
<1>4. PICK z \in 1 .. Gone(p) : taken["tee"][y] = sent[p][z]
  BY <1>1, <1>2 DEF Ordered, Taker, Reads, ReaderOK
<1>5. z \in DOMAIN sent[p]
  BY <1>2, GoneBound DEF Ordered
<1>6. PICK n \in DOMAIN taken["src"] : sent[p][z] = taken["src"][n]
  BY <1>1, <1>5 DEF DealsInTurn, Source, Writes
<1>7. taken["src"][n] = << [src |-> "src", n |-> n] >>
  BY <1>1 DEF Numbered
<1>8. n \in 1 .. MaxItems + 1
  <2>1. n \in 1 .. Len(taken["src"]) /\ Len(taken["src"]) \in Nat /\ MaxItems \in Nat
    BY <1>1, Parameters DEF TypeOK, Parameters
  <2>2. Len(taken["src"]) <= MaxItems + 1
    <3>1. Len(taken["src"]) <= MaxItems \/ Len(taken["src"]) = MaxItems + 1
      BY <1>1 DEF Bounded
    <3> QED
      BY <2>1, <3>1
  <2> QED
    BY <2>1, <2>2
<1> QED
  BY <1>3, <1>4, <1>6, <1>7, <1>8

\* Where a Tee and a Join of any number of branches enclose pipes, each tuple the
\* consumer after them gets is made of one frame, as long as the Tee passed no pad over:
\* whatever times out, stops or raises in between, and from a capture too, whose pad to
\* the Tee discards.
THEOREM TuplesAreOneFrame ==
  NoFanIn(Kind, InQ) /\ Diamond(Kind, InQ, OutQ) => (Spec => []JoinPairs)
<1> SUFFICES ASSUME NoFanIn(Kind, InQ), Diamond(Kind, InQ, OutQ)  PROVE Spec => []JoinPairs
  OBVIOUS
<1>0. /\ DOMAIN Kind = Task /\ "join" \in Task /\ Kind["join"] = "join"
      /\ "sink" \in Task /\ Kind["sink"] = "consumer"
  BY Topology DEF Topology, Diamond
<1>1. TypeOK /\ DealsInTurn /\ TakesInTurn /\ Numbered /\ Bounded /\ Ordered
        => Single("join") /\ Blocking("join")
  <2> SUFFICES ASSUME TypeOK, DealsInTurn, TakesInTurn, Numbered, Bounded, Ordered,
                      NEW i \in DOMAIN InQ["join"]
               PROVE  /\ ~ Discarding(InQ["join"][i])
                      /\ \A x \in DOMAIN sent[InQ["join"][i]] : Len(sent[InQ["join"][i]][x]) = 1
    BY DEF Single, Blocking
  <2>1. ASSUME NEW x \in DOMAIN sent[InQ["join"][i]]  PROVE Len(sent[InQ["join"][i]][x]) = 1
    <3>1. PICK j \in DOMAIN OutQ["tee"] : /\ x \in DOMAIN sent[OutQ["tee"][j]]
                                          /\ sent[InQ["join"][i]][x] = sent[OutQ["tee"][j]][x]
      BY <2>1, Branch
    <3>2. PICK n \in 1 .. MaxItems + 1 :
            sent[OutQ["tee"][j]][x] = << [src |-> "src", n |-> n] >>
      BY <3>1, TeeFrames
    <3> QED
      BY <3>1, <3>2
  <2> QED
    BY <2>1, Branch
<1>2. Init => Gathers("join")
  <2> SUFFICES ASSUME Init  PROVE Gathers("join")
    OBVIOUS
  <2>1. taken["join"] = << >> /\ pc["join"] = "new"
    BY <1>0 DEF Init
  <2>2. ASSUME NEW i \in DOMAIN InQ["join"]  PROVE Gone(InQ["join"][i]) = Len(taken["join"])
    <3>1. sent[InQ["join"][i]] = << >> /\ pad[InQ["join"][i]] = << >>
      BY <1>0, FirstPad DEF Init, Reads
    <3> QED
      BY <2>1, <3>1 DEF Gone
  <2> QED
    BY <2>1, <2>2 DEF Gathers, Level
<1>3. /\ TypeOK /\ PlaceOK /\ Control /\ Ordered /\ Single("join") /\ Blocking("join")
      /\ Gathers("join") /\ [Next]_vars
      => Gathers("join")'
  BY <1>0, GathersKept, GathersItem DEF Ordered
<1>4. TypeOK /\ DealsInTurn /\ TakesInTurn /\ Numbered /\ Bounded /\ Ordered /\ Gathers("join")
        => JoinPairs
  <2> SUFFICES ASSUME TypeOK, DealsInTurn, TakesInTurn, Numbered, Bounded, Ordered,
                      Gathers("join"), TeeWasEven, NEW k \in DOMAIN taken["sink"]
               PROVE  \E n \in 1 .. MaxItems + 1 :
                        taken["sink"][k] = [i \in DOMAIN InQ["join"] |-> [src |-> "src", n |-> n]]
    BY DEF JoinPairs
  <2> DEFINE p == InQ["sink"][1]
             tuple == taken["join"][k]
  <2>1. k \in Nat /\ k > 0
    BY <1>0 DEF TypeOK
  <2>2. Len(InQ["sink"]) = 1 /\ OutQ["join"] = InQ["sink"] /\ 1 \in DOMAIN OutQ["join"]
    <3>1. Len(InQ["sink"]) = 1 /\ OutQ["join"] = InQ["sink"]
      BY <1>0 DEF NoFanIn, Diamond
    <3> QED
      BY <1>0, <3>1, FirstPad DEF Reads
  <2>3. ~ Discarding(p)
    BY <1>0, <2>2, NotDiscarding
  <2>4. k \in DOMAIN sent[p] /\ taken["sink"][k] = sent[p][k]
    <3>1. ((k - 1) % 1) + 1 = 1 /\ ((k - 1) \div 1) + 1 = k
      BY <2>1, DivideByOne
    <3> QED
      BY <1>0, <2>2, <2>3, <3>1 DEF TakesInTurn, Reads
  <2>5. k \in DOMAIN taken["join"] /\ sent[p][k] = tuple
    <3>1. Len(OutQ["join"]) = 1 /\ OutQ["join"][1] = p
      BY <2>2
    <3> QED
      BY <1>0, <2>1, <2>2, <2>4, <3>1, OneOut DEF Writes
  <2>6. /\ DOMAIN InQ["join"] = 1 .. Len(InQ["join"]) /\ Len(InQ["join"]) \in Nat
        /\ 1 \in DOMAIN InQ["join"]
        /\ \A i \in DOMAIN InQ["join"] : InQ["join"][i] \in Pad
    BY <1>0, FirstPad DEF Reads
  <2>7. /\ Len(tuple) = Len(InQ["join"])
        /\ \A i \in DOMAIN InQ["join"] : /\ k \in DOMAIN sent[InQ["join"][i]]
                                         /\ tuple[i] = sent[InQ["join"][i]][k][1]
    <3>1. TupleOf("join", k, Len(InQ["join"]), tuple)
      BY <2>5 DEF Gathers
    <3> QED
      BY <2>6, <3>1, GoneBound DEF TupleOf, Ordered
  <2>8. \A i \in DOMAIN InQ["join"] : \E j \in DOMAIN OutQ["tee"] :
          k \in DOMAIN sent[OutQ["tee"][j]] /\ tuple[i] = sent[OutQ["tee"][j]][k][1]
    <3> SUFFICES ASSUME NEW i \in DOMAIN InQ["join"]
                 PROVE  \E j \in DOMAIN OutQ["tee"] :
                          k \in DOMAIN sent[OutQ["tee"][j]] /\ tuple[i] = sent[OutQ["tee"][j]][k][1]
      OBVIOUS
    <3>1. k \in DOMAIN sent[InQ["join"][i]] /\ tuple[i] = sent[InQ["join"][i]][k][1]
      BY <2>7
    <3>2. PICK j \in DOMAIN OutQ["tee"] : \A x \in DOMAIN sent[InQ["join"][i]] :
            /\ x \in DOMAIN sent[OutQ["tee"][j]]
            /\ sent[InQ["join"][i]][x] = sent[OutQ["tee"][j]][x]
      BY Branch
    <3> QED
      BY <3>1, <3>2, Zenon
  <2>9. PICK j \in DOMAIN OutQ["tee"] : k \in DOMAIN sent[OutQ["tee"][j]]
    BY <2>6, <2>8
  <2>10. PICK n \in 1 .. MaxItems + 1 : sent[OutQ["tee"][j]][k] = << [src |-> "src", n |-> n] >>
    BY <2>9, TeeFrames
  <2>11. \A i \in DOMAIN InQ["join"] : tuple[i] = [src |-> "src", n |-> n]
    BY <2>8, <2>9, <2>10 DEF TeeWasEven
  <2>12. tuple \in Item
    BY <1>0, <2>5 DEF TypeOK
  <2>13. tuple = [i \in DOMAIN InQ["join"] |-> [src |-> "src", n |-> n]]
    <3>1. tuple \in Seq(Frame) /\ DOMAIN tuple = DOMAIN InQ["join"]
      BY <2>6, <2>7, <2>12 DEF Item
    <3> HIDE DEF tuple
    <3> QED
      BY <2>11, <3>1
  <2> QED
    BY <2>4, <2>5, <2>13
<1>5. Spec => [](TypeOK /\ PlaceOK /\ Control)
  BY Inductive, PTL DEF IInv
<1>6. Spec => [](Numbered /\ Bounded /\ Ordered)
  <2>1. Init => Bounded
    BY Parameters DEF Init, Bounded, Parameters
  <2>2. Spec => []Bounded
    BY <1>5, <2>1, BoundedStep, PTL DEF Spec
  <2> QED
    BY <2>2, NumberedAlways, OrderedAlways, PTL
<1>7. Spec => []Gathers("join")
  BY <1>1, <1>2, <1>3, <1>5, <1>6, DealtInTurn, TakenInTurn, PTL DEF Spec
<1> QED
  BY <1>4, <1>5, <1>6, <1>7, DealtInTurn, TakenInTurn, PTL

=============================================================================
