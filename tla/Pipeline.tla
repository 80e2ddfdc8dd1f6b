------------------------------ MODULE Pipeline ------------------------------
(***************************************************************************)
(* The task pipeline of actfw_core: an Application thread that starts,     *)
(* stops and joins the registered tasks (application.py), task threads     *)
(* that pass items on through the pads between them (task/*.py), and the   *)
(* pads themselves, queues of one slot (util/pad.py).                      *)
(*                                                                         *)
(* Every task is a thread of its own.  One action is one stretch of Python *)
(* between two points where another thread can be noticed: a read of       *)
(* `running', a queue operation, a call of the user's `proc'.              *)
(*                                                                         *)
(* A definition that stands before another one and is named after it and a *)
(* slip (CheckStopIgnored, PutSameQueue) is that slip: a mistake the code  *)
(* could contain, kept to see that a property notices it.  It is no part   *)
(* of the specification.                                                   *)
(***************************************************************************)
EXTENDS Integers, Sequences, FiniteSets

CONSTANTS
  Task,      \* the tasks of the application
  Order,     \* the order in which they were registered, a sequence of tasks
  Kind,      \* the class of each task
  Pad,       \* the pads that connect() made
  InQ,       \* in_queues of each task, a sequence of pads
  OutQ,      \* out_queues of each task, a sequence of pads
  MayFail,   \* the tasks whose proc (or capture) may raise
  MaxItems   \* bound: items a source makes while it has not been told to stop

Kinds == {"producer", "capture", "pipe", "consumer", "tee", "join"}

Source(t) == Kind[t] \in {"producer", "capture"}
Reads(t) == Kind[t] \in {"pipe", "consumer", "tee", "join"}
Writes(t) == Kind[t] # "consumer"

\* connect() makes a fresh pad for every pair of tasks it joins: a pad has one
\* place in one out_queues and one place in one in_queues.
OnePlace(Q, p) ==
  \E t \in Task : \E i \in DOMAIN Q[t] :
    /\ Q[t][i] = p
    /\ \A u \in Task : \A j \in DOMAIN Q[u] : Q[u][j] = p => u = t /\ j = i

ASSUME Topology ==
  /\ Kind \in [Task -> Kinds]
  /\ InQ \in [Task -> Seq(Pad)]
  /\ OutQ \in [Task -> Seq(Pad)]
  /\ \A p \in Pad : OnePlace(InQ, p) /\ OnePlace(OutQ, p)
  /\ \A t \in Task : (InQ[t] # << >>) = Reads(t)
  /\ \A t \in Task : (OutQ[t] # << >>) = Writes(t)

\* run() starts, stops and joins each registered task in this order.
ASSUME Registration ==
  /\ Order \in Seq(Task)
  /\ Order # << >>
  /\ \A t \in Task : \E i \in DOMAIN Order : Order[i] = t
  /\ \A i, j \in DOMAIN Order : Order[i] = Order[j] => i = j

ASSUME Parameters ==
  /\ MayFail \subseteq Task
  /\ MaxItems \in Nat

\* An item is known by the frames it was computed from: what a source makes is
\* one new frame, what a Join makes is as many frames as it has in_queues.
Frame == [src : Task, n : Nat]
Item == Seq(Frame)

VARIABLES
  appRunning,  \* Application.running
  appPc,       \* where Application.run is
  appNext,     \* the index its current `for task in self.tasks' has reached
  running,     \* Task.running
  pc,          \* where each task's run is
  inId,        \* in_queue_id of _inlet, or the position of Join's `for in_queue'
  outId,       \* out_queue_id, or the position of Tee's `for out_queue'
  hand,        \* the item a task has in its local variable (Join: results)
  pad,         \* the content of each pad's Queue(1)
  cleaned,     \* history: calls of cleanup()
  taken,       \* history: the items each task's inlet or source proc gave it
  sent         \* history: the items put on each pad

app == <<appRunning, appPc, appNext>>
history == <<cleaned, taken, sent>>
vars == <<app, running, pc, inId, outId, hand, pad, history>>

TaskPc == {"new", "inlet", "gather", "get", "proc", "outlet", "discard", "put",
           "checkstop", "cleanup", "done"}

TypeOK ==
  /\ appRunning \in BOOLEAN
  /\ appPc \in {"start", "sleep", "stop", "join", "returned"}
  /\ appNext \in DOMAIN Order
  /\ running \in [Task -> BOOLEAN]
  /\ pc \in [Task -> TaskPc]
  /\ inId \in [Task -> Nat]
  /\ outId \in [Task -> Nat]
  /\ \A t \in Task : Reads(t) => inId[t] < Len(InQ[t])
  /\ \A t \in Task : Writes(t) => outId[t] < Len(OutQ[t])
  /\ hand \in [Task -> Item]
  /\ pad \in [Pad -> Seq(Item)]
  /\ cleaned \in [Task -> Nat]
  /\ taken \in [Task -> Seq(Item)]
  /\ sent \in [Pad -> Seq(Item)]

Init ==
  /\ appRunning = TRUE
  /\ appPc = "start"
  /\ appNext = 1
  /\ running = [t \in Task |-> TRUE]
  /\ pc = [t \in Task |-> "new"]
  /\ inId = [t \in Task |-> 0]
  /\ outId = [t \in Task |-> 0]
  /\ hand = [t \in Task |-> << >>]
  /\ pad = [p \in Pad |-> << >>]
  /\ cleaned = [t \in Task |-> 0]
  /\ taken = [t \in Task |-> << >>]
  /\ sent = [p \in Pad |-> << >>]

-----------------------------------------------------------------------------
(* Places in the code *)

In(t) == InQ[t][inId[t] + 1]
Out(t) == OutQ[t][outId[t] + 1]
Full(p) == Len(pad[p]) = 1

\* The captures override _new_pad: their pads drop the old item for the new.
Discarding(p) == \E t \in Task : Kind[t] = "capture" /\ \E i \in DOMAIN OutQ[t] : OutQ[t][i] = p

\* The statement run() begins with: the source's `while True' calls proc at once.
LoopHead(t) == IF Kind[t] = "producer" THEN "proc" ELSE "inlet"

\* Where run() goes when it leaves its loop or an exception does: the `finally'
\* of Producer, Pipe and Consumer.  Tee, Join and the captures have none.
HasFinally(t) == Kind[t] \in {"producer", "pipe", "consumer"}

Leave(t) == IF HasFinally(t) THEN "cleanup" ELSE "done"

\* Where run() goes when _outlet returns: the captures return to `while', the
\* other tasks test `if not self._is_running()'.
AfterOutlet(t) == IF Kind[t] = "capture" THEN "inlet" ELSE "checkstop"

\* Where run() goes with the item that the inlet gave it.
AfterInlet(t) == IF Kind[t] \in {"pipe", "consumer"} THEN "proc" ELSE "outlet"

\* The queue operation put() begins with on the pad at hand.
FirstPutStep(t) == IF Kind[t] = "capture" THEN "discard" ELSE "put"

Next1(i, q) == (i + 1) % Len(q)

Goto(t, from, to) == pc[t] = from /\ pc' = [pc EXCEPT ![t] = to]

\* A step that changes nothing but the place.
Move(t, from, to) ==
  /\ Goto(t, from, to)
  /\ UNCHANGED <<app, running, inId, outId, hand, pad, history>>

-----------------------------------------------------------------------------
(* Application *)

\* One turn of a `for task in self.tasks' loop that ends in `then'.
Step(here, then) ==
  /\ appPc = here
  /\ IF appNext < Len(Order)
       THEN appNext' = appNext + 1 /\ appPc' = appPc
       ELSE appNext' = 1 /\ appPc' = then
  /\ UNCHANGED appRunning

AppStartTask ==
  /\ Step("start", "sleep")
  /\ pc' = [pc EXCEPT ![Order[appNext]] = LoopHead(Order[appNext])]
  /\ UNCHANGED <<running, inId, outId, hand, pad, history>>

\* `while self.running' reads FALSE.
AppWake ==
  /\ appPc = "sleep"
  /\ ~ appRunning
  /\ appPc' = "stop"
  /\ UNCHANGED <<appRunning, appNext, running, pc, inId, outId, hand, pad, history>>

\* A KeyboardInterrupt (SIGINT was not given to the handler) ends the sleep.
AppKeyboardInterrupt ==
  /\ appPc = "sleep"
  /\ appRunning
  /\ appPc' = "stop"
  /\ UNCHANGED <<appRunning, appNext, running, pc, inId, outId, hand, pad, history>>

AppStopTask ==
  /\ Step("stop", "join")
  /\ running' = [running EXCEPT ![Order[appNext]] = FALSE]
  /\ UNCHANGED <<pc, inId, outId, hand, pad, history>>

\* Thread.join() waits for the end of one task.
AppJoinTask ==
  /\ Step("join", "returned")
  /\ pc[Order[appNext]] = "done"
  /\ UNCHANGED <<running, pc, inId, outId, hand, pad, history>>

\* Application.stop(), called by the signal handler or by another thread, at any
\* time until run() has returned.
Stop ==
  /\ appRunning
  /\ appPc # "returned"
  /\ appRunning' = FALSE
  /\ UNCHANGED <<appPc, appNext, running, pc, inId, outId, hand, pad, history>>

AppStep == AppStartTask \/ AppWake \/ AppStopTask \/ AppJoinTask

-----------------------------------------------------------------------------
(* Tasks: the inlet *)

\* `while self._is_running()' of _inlet, and the `while' of a capture's run.
CheckInlet(t) ==
  /\ Goto(t, "inlet",
          IF ~ running[t] THEN Leave(t)
          ELSE CASE Kind[t] = "capture" -> "proc"
                 [] Kind[t] = "join"    -> "gather"
                 [] OTHER               -> "get")
  /\ hand' = IF Kind[t] = "join" THEN [hand EXCEPT ![t] = << >>] ELSE hand
  /\ inId' = IF Kind[t] = "join" THEN [inId EXCEPT ![t] = 0] ELSE inId
  /\ UNCHANGED <<app, running, outId, pad, history>>

CheckGatherIgnored(t) == Move(t, "gather", "get")

\* Join tests `running' again before each wait.  Once it reads FALSE it reads
\* FALSE for the in_queues that are left, `results' is short and is dropped.
CheckGather(t) == Move(t, "gather", IF running[t] THEN "get" ELSE "inlet")

\* get(timeout=1) raises Empty when the pad is empty at the end of the second.
GetEmptyAdvances(t) ==
  /\ Goto(t, "get", IF Kind[t] = "join" THEN "gather" ELSE "inlet")
  /\ pad[In(t)] = << >>
  /\ inId' = [inId EXCEPT ![t] = Next1(@, InQ[t])]
  /\ UNCHANGED <<app, running, outId, hand, pad, history>>

GetEmpty(t) ==
  /\ Move(t, "get", IF Kind[t] = "join" THEN "gather" ELSE "inlet")
  /\ pad[In(t)] = << >>

\* The item is yielded to run(); in_queue_id moves on when run() asks for the
\* next item, which nothing can tell from moving it on here.
Get(t, next) ==
  /\ Kind[t] # "join"
  /\ Goto(t, "get", AfterInlet(t))
  /\ pad[In(t)] # << >>
  /\ hand' = [hand EXCEPT ![t] = Head(pad[In(t)])]
  /\ taken' = [taken EXCEPT ![t] = Append(@, Head(pad[In(t)]))]
  /\ pad' = [pad EXCEPT ![In(t)] = Tail(@)]
  /\ inId' = [inId EXCEPT ![t] = next]
  /\ UNCHANGED <<app, running, outId, cleaned, sent>>

GetItemNoAdvance(t) == Get(t, inId[t])
GetItem(t) == Get(t, Next1(inId[t], InQ[t]))

\* Join adds one item to `results'; the last one completes the tuple it yields.
GatherItem(t) ==
  /\ Kind[t] = "join"
  /\ pc[t] = "get"
  /\ pad[In(t)] # << >>
  /\ hand' = [hand EXCEPT ![t] = @ \o Head(pad[In(t)])]
  /\ pad' = [pad EXCEPT ![In(t)] = Tail(@)]
  /\ inId' = [inId EXCEPT ![t] = Next1(@, InQ[t])]
  /\ IF inId[t] + 1 = Len(InQ[t])
       THEN /\ Goto(t, "get", AfterInlet(t))
            /\ taken' = [taken EXCEPT ![t] = Append(@, hand'[t])]
       ELSE /\ Goto(t, "get", "gather")
            /\ UNCHANGED taken
  /\ UNCHANGED <<app, running, outId, cleaned, sent>>

-----------------------------------------------------------------------------
(* Tasks: proc *)

\* A source makes its next frame.  MaxItems bounds how many it makes while it
\* runs; a call that a stop finds it in still returns.
Produce(t) ==
  /\ Source(t)
  /\ Len(taken[t]) < MaxItems \/ ~ running[t]
  /\ Goto(t, "proc", "outlet")
  /\ LET item == << [src |-> t, n |-> Len(taken[t]) + 1] >> IN
       /\ hand' = [hand EXCEPT ![t] = item]
       /\ taken' = [taken EXCEPT ![t] = Append(@, item)]
  /\ UNCHANGED <<app, running, inId, outId, pad, cleaned, sent>>

\* The proc of a Pipe or of a Consumer returns.
Process(t) == Reads(t) /\ Move(t, "proc", IF Writes(t) THEN "outlet" ELSE "checkstop")

\* It raises (a capture: a timeout or an I/O error), which ends the thread.
RaiseSkipsFinally(t) == t \in MayFail /\ Move(t, "proc", "done")

Raise(t) == t \in MayFail /\ Move(t, "proc", Leave(t))

-----------------------------------------------------------------------------
(* Tasks: the outlet *)

CheckOutletIgnored(t) == Move(t, "outlet", FirstPutStep(t))

\* `while self._is_running()' of _outlet: an item is dropped once it reads FALSE.
CheckOutlet(t) ==
  Move(t, "outlet", IF running[t] THEN FirstPutStep(t) ELSE AfterOutlet(t))

\* _PadDiscardingOld.put: first a get(block=False) whose Empty is ignored.
DiscardNothing(t) == Move(t, "discard", "put")

DiscardOld(t) ==
  /\ Goto(t, "discard", "put")
  /\ pad' = [pad EXCEPT ![Out(t)] = << >>]
  /\ UNCHANGED <<app, running, inId, outId, hand, history>>

\* Where run() goes once a put succeeded: Tee has out_queues left, or not.
AfterPut(t) ==
  IF Kind[t] = "tee" /\ outId[t] + 1 < Len(OutQ[t]) THEN "put" ELSE AfterOutlet(t)

\* Queue.put(timeout=1) on a pad with room.
PutItem(t, room, to, next) ==
  /\ Goto(t, "put", to)
  /\ room
  /\ pad' = [pad EXCEPT ![Out(t)] = Append(@, hand[t])]
  /\ sent' = [sent EXCEPT ![Out(t)] = Append(@, hand[t])]
  /\ outId' = [outId EXCEPT ![t] = next]
  /\ UNCHANGED <<app, running, inId, hand, cleaned, taken>>

PutSameQueue(t) == PutItem(t, ~ Full(Out(t)), AfterPut(t), outId[t])
PutNoReturn(t) == PutItem(t, ~ Full(Out(t)), "outlet", Next1(outId[t], OutQ[t]))
Put(t) == PutItem(t, ~ Full(Out(t)), AfterPut(t), Next1(outId[t], OutQ[t]))

\* ... which raises Full on a pad that is full at the end of the second: _outlet
\* looks at `running' and puts the same item again.
PutFullTo(t, to) == Kind[t] # "tee" /\ Move(t, "put", to) /\ Full(Out(t))

PutFullDrops(t) == PutFullTo(t, "checkstop")

PutFull(t) == PutFullTo(t, "outlet")

\* Tee passes over an out_queue that is full at the end of the second.
TeePassOver(t, to, next) ==
  /\ Kind[t] = "tee"
  /\ Goto(t, "put", to)
  /\ Full(Out(t))
  /\ outId' = [outId EXCEPT ![t] = next]
  /\ UNCHANGED <<app, running, inId, hand, pad, history>>

TeePutFullRestarts(t) == TeePassOver(t, "outlet", 0)

TeePutFull(t) == TeePassOver(t, AfterPut(t), Next1(outId[t], OutQ[t]))

-----------------------------------------------------------------------------
(* Tasks: the end of a turn, the end of run *)

\* `if not self._is_running(): break'.
CheckStopIgnored(t) == Move(t, "checkstop", LoopHead(t))

CheckStop(t) == Move(t, "checkstop", IF running[t] THEN LoopHead(t) ELSE Leave(t))

Cleanup(t) ==
  /\ Goto(t, "cleanup", "done")
  /\ cleaned' = [cleaned EXCEPT ![t] = @ + 1]
  /\ UNCHANGED <<app, running, inId, outId, hand, pad, taken, sent>>

TaskStep(t) ==
  \/ CheckInlet(t) \/ CheckGather(t) \/ GetEmpty(t) \/ GetItem(t) \/ GatherItem(t)
  \/ Produce(t) \/ Process(t) \/ Raise(t)
  \/ CheckOutlet(t) \/ DiscardOld(t) \/ Put(t) \/ PutFull(t) \/ TeePutFull(t)
  \/ CheckStop(t) \/ Cleanup(t)

\* run() has returned: nothing is left to do.
Returned == appPc = "returned" /\ UNCHANGED vars

Next ==
  \/ AppStep \/ AppKeyboardInterrupt \/ Stop \/ Returned
  \/ \E t \in Task : TaskStep(t)

Spec == Init /\ [][Next]_vars

\* Every thread is scheduled again and again, and a proc ends.  Nothing makes a
\* stop request come.
Fairness == WF_vars(AppStep) /\ \A t \in Task : WF_vars(TaskStep(t))
FairSpec == Spec /\ Fairness

-----------------------------------------------------------------------------
(* Properties *)

\* The k-th item on the i-th pad of a task is the item of the turn at which its
\* out_queue_id was there for the k-th time: a task deals its items out in turn,
\* none lost, repeated or out of place, however often puts time out, and also
\* when it is stopped or its proc raises in between (_outlet).
DealsInTurn ==
  \A t \in Task : Writes(t) /\ Kind[t] # "tee" =>
    \A i \in DOMAIN OutQ[t] : LET s == sent[OutQ[t][i]] IN \A k \in DOMAIN s :
      LET turn == (k - 1) * Len(OutQ[t]) + i IN
        turn \in DOMAIN taken[t] /\ s[k] = taken[t][turn]

\* The k-th item a task takes is the next item of the pad whose turn it is: an
\* empty pad is waited for, never passed over (_inlet), and what is put on a
\* blocking pad is taken, once, in order (_PadBlocking).
TakesInTurn ==
  \A t \in Task : Reads(t) /\ Kind[t] # "join" => \A k \in DOMAIN taken[t] :
    LET m == Len(InQ[t])
        p == InQ[t][((k - 1) % m) + 1]
        place == ((k - 1) \div m) + 1 IN
      ~ Discarding(p) => place \in DOMAIN sent[p] /\ taken[t][k] = sent[p][place]

\* No frame overtakes another and none comes twice: the frames of a source get to
\* every pad in the order they were made, also where a Tee or a discarding pad
\* loses some of them.  In the tuples of a Join that holds for each place of the
\* tuple: once a Tee has passed a pad over, a frame may come a second time, from
\* the other in_queue.
NeverOvertaken ==
  \A p \in Pad : \A k \in 1 .. Len(sent[p]) - 1 :
    LET e == sent[p][k]
        f == sent[p][k + 1] IN
      \A j \in DOMAIN e \cap DOMAIN f : e[j].src = f[j].src => e[j].n < f[j].n

\* A capture is the only one that puts on its pads, so the get that empties the
\* slot leaves room for the put that follows: it never blocks, however slow the
\* reader is (_PadDiscardingOld.put).
CaptureNeverBlocks ==
  \A t \in Task : Kind[t] = "capture" /\ pc[t] = "put" => pad[Out(t)] = << >>

\* The steps a task still makes after stop(): every one of them brings it nearer
\* to the end of run, so that a stopped task makes at most one more frame and
\* completes at most the put it is in (the checks of _is_running).
StopRank == [done |-> 0, cleanup |-> 1, inlet |-> 2, checkstop |-> 2, gather |-> 3,
             outlet |-> 3, proc |-> 4, put |-> 4, discard |-> 5, get |-> 5]

PutsLeft(t) == IF pc[t] = "put" /\ Kind[t] = "tee" THEN Len(OutQ[t]) - outId[t] ELSE 0
ToGo(t) == StopRank[pc[t]] + PutsLeft(t)

StoppedWindsDown ==
  [][\A t \in Task :
       ~ running[t] => ~ running'[t] /\ (<<pc[t], outId[t]>>' # <<pc[t], outId[t]>>
                                          => ToGo(t)' < ToGo(t))]_vars

\* Application.run returns only when every thread it started has ended, with the
\* cleanup of every Producer, Pipe and Consumer called once, after its last proc,
\* also when a proc raised.
CleanedUp(t) == cleaned[t] = IF pc[t] = "done" /\ HasFinally(t) THEN 1 ELSE 0
ReturnsCleanedUp ==
  /\ \A t \in Task : CleanedUp(t)
  /\ appPc = "returned" => \A t \in Task : pc[t] = "done"

\* The docstring of Producer.cleanup, for every subclass that has that method:
\* it is executed at the end of run, even if an exception is raised.
CleanupAtEndOfRun ==
  \A t \in Task : Kind[t] \in {"producer", "capture", "pipe", "consumer"} /\ pc[t] = "done"
    => cleaned[t] = 1

\* stop() ends the application, whichever tasks wait on full or empty pads or
\* have died.
StopReturns == ~ appRunning ~> appPc = "returned"

\* When a source has made its last frame, every frame of it gets to a consumer,
\* unless the application is told to stop or a proc has raised.
Over == ~ appRunning \/ appPc \in {"stop", "join", "returned"} \/ \E t \in Task : pc[t] = "done"
FramesOf(s, item) == {item[j].n : j \in {i \in DOMAIN item : item[i].src = s}}
Arrived(s, n) ==
  \E c \in Task : Kind[c] = "consumer" /\ \E k \in DOMAIN taken[c] : n \in FramesOf(s, taken[c][k])
FramesArrive ==
  \A s \in {t \in Task : Source(t)} :
    Len(taken[s]) >= MaxItems ~> (\A n \in 1 .. MaxItems : Arrived(s, n)) \/ Over

=============================================================================
