----------------------- MODULE ServiceProtocolProofs -----------------------
(***************************************************************************)
(* Theorems about ServiceProtocol for any number of calls, of crashes, and *)
(* whatever the callers send.                                              *)
(***************************************************************************)
EXTENDS ServiceProtocol, TLAPS

CallerState == {"new", "waiting", "returned", "exited", "raised", "left"}

Types ==
  /\ queue \in Seq(Call)
  /\ stream \in Call \cup {NoCall}
  /\ caller \in [Call -> CallerState]
  /\ what \in [Call -> Request]
  /\ sock \in [Call -> {"nothing", "ok", "error", "eof", "reset"}]
  /\ loop \in {"parse", "answer", "failed"} => stream \in Call
  /\ loop \in {"new", "test", "accept", "ended"} => stream = NoCall
  /\ loop \in {"new", "test", "accept", "parse", "answer", "ended", "failed"}
  /\ main \in {"new", "dead"} => loop = "new"

\* Whoever is in the queue or has the stream has made its call, so that no
\* other connection takes its place.
Called ==
  /\ \A i \in DOMAIN queue : caller[queue[i]] # "new"
  /\ stream \in Call => caller[stream] # "new"

IInv == Types /\ Called /\ FailsOnlyByCaller /\ NobodyLeftBehind

LEMMA InitIInv == Init => IInv
BY Parameters DEF Parameters, Init, IInv, Types, CallerState, Called, FailsOnlyByCaller, NobodyLeftBehind, Request

\* The steps of the owner, and those of the loop that leave queue and stream.
LEMMA QuietIInv ==
  ASSUME IInv, Startup \/ Teardown \/ Join \/ Joined \/ Restart \/ Test \/ AcceptTimeout \/ Over
               \/ UNCHANGED vars
  PROVE  IInv'
<1>1. UNCHANGED <<stream, queue, callers>>
  BY Parameters DEF Parameters, Startup, Teardown, Join, Joined, Restart, Test, AcceptTimeout, Over,
     vars, server
<1>2. Types'
  BY <1>1 DEF IInv, Types, Startup, Teardown, Join, Joined, Restart, Test, AcceptTimeout, Over,
     vars, server, callers
<1>3. FailsOnlyByCaller'
  BY <1>1 DEF IInv, FailsOnlyByCaller, Startup, Teardown, Join, Joined, Restart, Test, AcceptTimeout,
     Over, vars, server, callers
<1>4. Called' /\ NobodyLeftBehind'
  BY <1>1 DEF IInv, Called, NobodyLeftBehind, Queued, callers
<1> QED
  BY <1>2, <1>3, <1>4 DEF IInv

LEMMA CrashIInv == IInv /\ Crash => IInv'
<1> SUFFICES ASSUME IInv, Crash
             PROVE  IInv'
  OBVIOUS
<1>1. Types'
  BY DEF IInv, Types, Crash
<1>2. Called' /\ FailsOnlyByCaller'
  BY Parameters DEF Parameters, IInv, Types, Called, FailsOnlyByCaller, Crash
<1>3. NobodyLeftBehind'
  BY DEF IInv, Types, NobodyLeftBehind, Crash
<1> QED
  BY <1>1, <1>2, <1>3 DEF IInv

\* The head of the queue becomes the stream, the others stay in the queue.
LEMMA AcceptIInv == IInv /\ Accept => IInv'
<1> SUFFICES ASSUME IInv, Accept
             PROVE  IInv'
  OBVIOUS
<1>1. /\ Head(queue) \in Call
      /\ Tail(queue) \in Seq(Call)
      /\ 1 \in DOMAIN queue
      /\ Head(queue) = queue[1]
  BY DEF Accept, IInv, Types
<1>2. \A i \in DOMAIN Tail(queue) : i + 1 \in DOMAIN queue /\ Tail(queue)[i] = queue[i + 1]
  BY DEF Accept, IInv, Types
<1>3. \A i \in DOMAIN queue : i = 1 \/ (i - 1 \in DOMAIN Tail(queue) /\ Tail(queue)[i - 1] = queue[i])
  BY DEF Accept, IInv, Types
<1>4. Types'
  BY <1>1 DEF IInv, Types, Accept, callers
<1>5. Called'
  BY <1>1, <1>2 DEF IInv, Called, Accept, callers
<1>6. FailsOnlyByCaller'
  BY DEF FailsOnlyByCaller, Accept
<1>7. NobodyLeftBehind'
  <2> SUFFICES ASSUME NEW c \in Call, caller[c] = "waiting", sock[c] = "nothing"
               PROVE  c = stream' \/ \E i \in DOMAIN queue' : queue'[i] = c
    BY DEF NobodyLeftBehind, Queued, Accept, callers
  <2>1. stream = NoCall
    BY DEF IInv, Types, Accept
  <2>2. PICK i \in DOMAIN queue : queue[i] = c
    BY <2>1, Parameters DEF Parameters, IInv, NobodyLeftBehind, Queued
  <2> QED
    BY <1>1, <1>3, <2>2 DEF Accept
<1> QED
  BY <1>4, <1>5, <1>6, <1>7 DEF IInv

\* The loop fails in them only because of what the caller sent or did.
LEMMA RequestIInv == IInv /\ (Parse \/ Answer) => IInv'
<1> SUFFICES ASSUME IInv, Parse \/ Answer
             PROVE  IInv'
  OBVIOUS
<1>1. stream \in Call
  BY DEF Parse, Answer, IInv, Types
<1>2. Types'
  BY <1>1, Parameters DEF Parameters, IInv, Types, Parse, Answer, StatusOf, callers
<1>3. Called'
  BY <1>1, Parameters DEF Parameters, IInv, Called, Parse, Answer, callers
<1>4. FailsOnlyByCaller'
  BY <1>1 DEF IInv, FailsOnlyByCaller, Parse, Answer, callers
<1>5. NobodyLeftBehind'
  BY <1>1 DEF IInv, Types, NobodyLeftBehind, Queued, Parse, Answer, StatusOf, callers
<1> QED
  BY <1>2, <1>3, <1>4, <1>5 DEF IInv

\* A caller joins the end of the queue.
LEMMA ConnectIInv == ASSUME NEW c \in Call PROVE IInv /\ Connect(c) => IInv'
<1> SUFFICES ASSUME IInv, Connect(c)
             PROVE  IInv'
  OBVIOUS
<1>1. /\ queue' \in Seq(Call)
      /\ DOMAIN queue' = DOMAIN queue \cup {Len(queue) + 1}
      /\ queue'[Len(queue) + 1] = c
      /\ \A i \in DOMAIN queue : queue'[i] = queue[i]
  BY DEF Connect, IInv, Types
<1>2. /\ \A d \in Call \ {c} : caller'[d] = caller[d] /\ what'[d] = what[d]
      /\ caller'[c] = "waiting"
      /\ c # stream
  BY Parameters DEF Parameters, Connect, IInv, Types, Called
<1>3. Types'
  BY <1>1, Parameters DEF Parameters, Connect, IInv, Types, CallerState
<1>4. Called'
  <2>1. \A i \in DOMAIN queue : queue[i] \in Call
    BY DEF IInv, Types
  <2> QED
    BY <1>1, <1>2, <2>1 DEF Connect, IInv, Called
<1>5. FailsOnlyByCaller'
  BY <1>2 DEF Connect, IInv, FailsOnlyByCaller
<1>6. NobodyLeftBehind'
  BY <1>1, <1>2 DEF Connect, IInv, NobodyLeftBehind, Queued
<1> QED
  BY <1>3, <1>4, <1>5, <1>6 DEF IInv

\* The other steps of a caller end its call.
LEMMA CallerIInv ==
  ASSUME NEW c \in Call PROVE IInv /\ (Refused(c) \/ Read(c) \/ Leave(c)) => IInv'
<1> SUFFICES ASSUME IInv, Refused(c) \/ Read(c) \/ Leave(c)
             PROVE  IInv'
  OBVIOUS
<1>1. PICK s \in {"returned", "exited", "raised", "left"} : caller' = [caller EXCEPT ![c] = s]
  BY DEF Refused, Read, ReturnOk, RaiseError, Leave
<1>2. UNCHANGED <<server, what, sock>> /\ caller[c] # "left"
  BY DEF Refused, Read, ReturnOk, RaiseError, Leave
<1>3. Types'
  BY <1>1, <1>2 DEF IInv, Types, CallerState, server
<1>4. Called'
  <2>1. \A i \in DOMAIN queue : queue[i] \in Call
    BY DEF IInv, Types
  <2> QED
    BY <1>1, <1>2, <2>1 DEF IInv, Called, Types, server
<1>5. FailsOnlyByCaller'
  BY <1>1, <1>2 DEF IInv, Types, FailsOnlyByCaller, server
<1>6. NobodyLeftBehind'
  BY <1>1, <1>2 DEF IInv, Types, NobodyLeftBehind, Queued, server
<1> QED
  BY <1>3, <1>4, <1>5, <1>6 DEF IInv

LEMMA StepIInv == IInv /\ [Next]_vars => IInv'
<1> SUFFICES ASSUME IInv, [Next]_vars
             PROVE  IInv'
  OBVIOUS
<1>1. CASE Startup \/ Teardown \/ Join \/ Joined \/ Restart \/ Test \/ AcceptTimeout \/ Over
           \/ UNCHANGED vars
  BY <1>1, QuietIInv
<1>2. CASE Crash
  BY <1>2, CrashIInv
<1>3. CASE Accept
  BY <1>3, AcceptIInv
<1>4. CASE Parse \/ Answer
  BY <1>4, RequestIInv
<1>5. ASSUME NEW c \in Call, Connect(c) \/ Refused(c) \/ Read(c) \/ Leave(c)
      PROVE  IInv'
  BY <1>5, ConnectIInv, CallerIInv
<1> QED
  BY <1>1, <1>2, <1>3, <1>4, <1>5 DEF Next, Loop

\* Every variable keeps its type, and there is a connection in hand just while a
\* request is handled, or after it has made the loop fail.
THEOREM TypeCorrect == Spec => []TypeOK
<1> DEFINE Rest == /\ main \in {"new", "up", "torn", "joining", "joined", "dead"}
                   /\ torn \in BOOLEAN
                   /\ crashes \in 0 .. MaxCrash
<1>1. Init => Rest
  <2>1. Init => torn \in BOOLEAN
    BY Zenon DEF Init
  <2>2. Init => main \in {"new", "up", "torn", "joining", "joined", "dead"} /\ crashes \in 0 .. MaxCrash
    BY Parameters, SMT DEF Parameters, Init
  <2> QED
    BY <2>1, <2>2
<1>2. Rest /\ [Next]_vars => Rest'
  <2> SUFFICES ASSUME Rest, [Next]_vars
               PROVE  Rest'
    OBVIOUS
  <2>1. CASE Startup \/ Teardown \/ Join \/ Joined \/ Restart \/ Over \/ UNCHANGED vars
    BY <2>1 DEF Startup, Teardown, Join, Joined, Restart, Over, vars, server
  <2>2. CASE Crash
    BY <2>2, Parameters DEF Parameters, Crash
  <2>3. CASE Loop
    BY <2>3 DEF Loop, Test, AcceptTimeout, Accept, Parse, Answer
  <2>4. ASSUME NEW c \in Call, Connect(c) \/ Refused(c) \/ Read(c) \/ Leave(c)
        PROVE  Rest'
    BY <2>4 DEF Connect, Refused, Read, ReturnOk, RaiseError, Leave, server
  <2> QED
    BY <2>1, <2>2, <2>3, <2>4 DEF Next
<1>3. IInv /\ Rest => TypeOK
  BY Parameters DEF Parameters, IInv, Types, CallerState, TypeOK
<1> QED
  BY InitIInv, StepIInv, <1>1, <1>2, <1>3, PTL DEF Spec

\* The loop of the server dies only of a caller that sent no request or went
\* away before its answer (_loop_body).
THEOREM OnlyCallersFailIt == Spec => []FailsOnlyByCaller
<1>1. IInv => FailsOnlyByCaller
  BY DEF IInv
<1> QED
  BY InitIInv, StepIInv, <1>1, PTL DEF Spec

\* Every connection taken from the queue is answered before _loop_body is run
\* again.
THEOREM EachIsAnswered == Spec => []NobodyLeftBehind
<1>1. IInv => NobodyLeftBehind
  BY DEF IInv
<1> QED
  BY InitIInv, StepIInv, <1>1, PTL DEF Spec
=============================================================================
