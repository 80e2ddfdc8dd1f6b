------------------------ MODULE CommandServerProofs ------------------------
(***************************************************************************)
(* Theorems about CommandServer for any number of connections, images and  *)
(* crashes, with or without a handler of custom commands.                  *)
(***************************************************************************)
EXTENDS CommandServer, TLAPS

(* run() and the file of its socket *)

FileOK ==
  /\ srv = "bind" => file = "none"
  /\ srv \in {"remove", "done"} => ~ running
  /\ srv = "done" => file = "none"

\* run() ends only because of stop() and leaves no file: what a killed process
\* left behind never makes bind() fail (CommandServer.run).
THEOREM ServesUntilTold == Spec => []ServesUntilStopped
<1>1. Init => FileOK
  BY DEF Init, FileOK
<1>2. FileOK /\ [Next]_vars => FileOK'
  <2> SUFFICES ASSUME FileOK, [Next]_vars
               PROVE  FileOK'
    OBVIOUS
  <2> USE DEF FileOK
  <2>1. CASE Server
    BY <2>1 DEF Server, Unlink, Bind, CheckRunning, Accept, AcceptWhen, AcceptTimeout, Remove
  <2>2. CASE Stop \/ Crash \/ Restart \/ Returned
    BY <2>2 DEF Stop, Crash, Restart, Returned, vars, server
  <2>3. CASE UpdateImage \/ UpdateLock \/ UpdateCopy
    BY <2>3 DEF UpdateImage, UpdateLock, UpdateCopy, CopyInto, server
  <2>4. ASSUME NEW c \in Conn, Handler(c) \/ Lock(c) \/ Call(c) \/ Connect(c) \/ Leave(c)
        PROVE  FileOK'
    BY <2>4 DEF Handler, Parse, While, Look, LookAnd, Send, Lock, Call, Connect, Leave, server
  <2>5. CASE UNCHANGED vars
    BY <2>5 DEF vars, server
  <2> QED
    BY <2>1, <2>2, <2>3, <2>4, <2>5 DEF Next
<1>3. FileOK => ServesUntilStopped
  BY DEF FileOK, ServesUntilStopped
<1> QED
  BY <1>1, <1>2, <1>3, PTL DEF Spec

-----------------------------------------------------------------------------
(* The photo *)

Places == {"none", "parse", "while", "lock", "look", "call", "send", "raised", "done"}

Types ==
  /\ given \in Nat /\ img = given
  /\ pc \in [Conn -> Places]
  /\ client \in [Conn -> {"new", "waiting", "answered", "closed", "left"}]
  /\ request \in [Conn -> Request]
  /\ since \in [Conn -> Nat]
  /\ answer \in [Conn -> [status : Status, photo : Nat]]

\* A connection is in the queue once, and nobody has answered it.
QueueOK ==
  /\ queue \in Seq(Conn)
  /\ \A i \in DOMAIN queue : /\ pc[queue[i]] = "none"
                             /\ client[queue[i]] \in {"waiting", "left"}
  /\ \A i, j \in DOMAIN queue : queue[i] = queue[j] => i = j

Current(c) ==
  request[c] = "photo" =>
    /\ answer[c].status = "OK"
    /\ answer[c].photo > 0
    /\ answer[c].photo >= since[c]

\* While a request is handled the image only gets newer; its answer is computed
\* from the image, which is never taken back, and is not touched afterwards.
ConnOK(c) ==
  /\ client[c] = "new" => pc[c] = "none"
  /\ pc[c] = "call" => request[c] # "photo"
  /\ pc[c] \in {"parse", "while", "lock", "look"} => since[c] <= given
  /\ pc[c] = "send" => Current(c)
  /\ client[c] = "answered" => pc[c] = "done" /\ Current(c)

IInv == Types /\ QueueOK /\ \A c \in Conn : ConnOK(c)

LEMMA InitIInv == Init => IInv
BY DEF Init, IInv, Types, Places, QueueOK, ConnOK, Current, Request, Status, Reply

\* Steps that touch no connection and do not take an image back.
LEMMA ImageStep ==
  ASSUME IInv, given' \in Nat, given' >= given, img' = given',
         UNCHANGED <<queue, pc, answer, clients, since>>
  PROVE  IInv'
<1>1. Types' /\ QueueOK'
  BY DEF IInv, Types, QueueOK, clients
<1>2. ASSUME NEW c \in Conn
      PROVE  ConnOK(c)'
  BY DEF IInv, Types, ConnOK, Current, clients
<1> QED
  BY <1>1, <1>2 DEF IInv

LEMMA AcceptIInv == IInv /\ Accept => IInv'
<1> SUFFICES ASSUME IInv, Accept
             PROVE  IInv'
  OBVIOUS
<1> USE DEF IInv
<1> DEFINE h == Head(queue)
<1>1. /\ h \in Conn
      /\ Tail(queue) \in Seq(Conn)
      /\ \A i \in DOMAIN Tail(queue) : /\ i \in DOMAIN queue
                                       /\ i + 1 \in DOMAIN queue
                                       /\ Tail(queue)[i] = queue[i + 1]
      /\ 1 \in DOMAIN queue
      /\ h = queue[1]
  BY DEF Accept, AcceptWhen, QueueOK
<1>2. pc[h] = "none" /\ client[h] \in {"waiting", "left"}
  BY <1>1 DEF QueueOK
<1>3. /\ pc' = [pc EXCEPT ![h] = "parse"]
      /\ since' = [since EXCEPT ![h] = given]
      /\ UNCHANGED <<answer, request, given, img>>
      /\ queue' = Tail(queue)
  BY DEF Accept, AcceptWhen, image
<1>4. \A c \in Conn : \/ client'[c] = client[c]
                      \/ client[c] = "waiting" /\ client'[c] = "closed" /\ pc[c] = "raised"
  BY DEF Accept, AcceptWhen, Close, Types
<1>5. client' \in [Conn -> {"new", "waiting", "answered", "closed", "left"}]
  BY DEF Accept, AcceptWhen, Close, Types
<1>6. Types'
  BY <1>1, <1>3, <1>5 DEF Types, Places
<1>7. QueueOK'
  <2>1. ASSUME NEW i \in DOMAIN queue'
        PROVE  queue'[i] \in Conn /\ queue'[i] # h /\ pc[queue'[i]] = "none"
               /\ client[queue'[i]] \in {"waiting", "left"}
    <3>1. i + 1 \in DOMAIN queue /\ queue'[i] = queue[i + 1] /\ i + 1 # 1
      BY <1>1, <1>3
    <3> QED
      BY <1>1, <3>1 DEF QueueOK
  <2>2. \A i \in DOMAIN queue' : pc'[queue'[i]] = "none" /\ client'[queue'[i]] \in {"waiting", "left"}
    BY <1>3, <1>4, <2>1 DEF Types
  <2>3. \A i, j \in DOMAIN queue' : queue'[i] = queue'[j] => i = j
    <3> SUFFICES ASSUME NEW i \in DOMAIN queue', NEW j \in DOMAIN queue', queue'[i] = queue'[j]
                 PROVE  i = j
      OBVIOUS
    <3>1. i + 1 \in DOMAIN queue /\ j + 1 \in DOMAIN queue /\ queue[i + 1] = queue[j + 1]
      BY <1>1, <1>3
    <3>2. i + 1 = j + 1
      BY <3>1 DEF QueueOK
    <3>3. i \in Nat /\ j \in Nat
      BY <1>1, <1>3
    <3> QED
      BY <3>2, <3>3
  <2> QED
    BY <1>1, <1>3, <2>2, <2>3 DEF QueueOK
<1>8. ASSUME NEW c \in Conn
      PROVE  ConnOK(c)'
  <2>1. CASE c = h
    <3>1. since'[c] = given /\ pc'[c] = "parse" /\ client'[c] \in {"waiting", "left"}
      BY <1>1, <1>2, <1>3, <1>4, <2>1 DEF Types
    <3>2. given \in Nat /\ given' = given
      BY <1>3 DEF Types
    <3> QED
      BY <3>1, <3>2 DEF ConnOK
  <2>2. CASE c # h
    BY <1>3, <1>4, <2>2 DEF ConnOK, Current, Types
  <2> QED
    BY <2>1, <2>2
<1> QED
  BY <1>6, <1>7, <1>8

\* A step of the thread of one connection, which is not in the queue any more.
LEMMA OneConn ==
  ASSUME NEW c \in Conn, IInv, Types', ConnOK(c)',
         pc[c] # "none",
         UNCHANGED <<queue, given, img>>,
         \A d \in Conn \ {c} : /\ pc'[d] = pc[d] /\ client'[d] = client[d]
                               /\ since'[d] = since[d] /\ request'[d] = request[d]
                               /\ answer'[d] = answer[d]
  PROVE  IInv'
<1>1. \A i \in DOMAIN queue : queue[i] \in Conn /\ queue[i] # c
  BY DEF IInv, QueueOK
<1>2. QueueOK'
  BY <1>1 DEF IInv, QueueOK
<1>3. ASSUME NEW d \in Conn
      PROVE  ConnOK(d)'
  <2>1. CASE d # c
    BY <2>1 DEF IInv, ConnOK, Current
  <2> QED
    BY <2>1
<1> QED
  BY <1>2, <1>3 DEF IInv

LEMMA HandlerIInv ==
  ASSUME NEW c \in Conn, IInv, Handler(c) \/ Lock(c) \/ Call(c)
  PROVE  IInv'
<1> USE DEF IInv, Types, ConnOK, Current, Places, image, clients, server, Finish, Die,
            Respond, Close, Reply
<1>1. CASE Parse(c)
  <2> USE <1>1 DEF Parse
  <2>1. Types'
    <3>1. \A status \in Status : Reply(status, 0) \in [status : Status, photo : Nat]
      OBVIOUS
    <3>2. \/ answer' = answer
          \/ \E status \in Status : answer' = [answer EXCEPT ![c] = Reply(status, 0)]
      BY DEF Status
    <3>3. answer' \in [Conn -> [status : Status, photo : Nat]]
      BY <3>1, <3>2
    <3>4. /\ pc' \in [Conn -> Places]
          /\ client' \in [Conn -> {"new", "waiting", "answered", "closed", "left"}]
      OBVIOUS
    <3> QED
      BY <3>3, <3>4
  <2>2. ConnOK(c)'
    BY DEF Request
  <2> QED
    BY <2>1, <2>2, OneConn
<1>2. CASE While(c)
  <2> USE <1>2 DEF While
  <2>1. Types' /\ ConnOK(c)'
    OBVIOUS
  <2> QED
    BY <2>1, OneConn
<1>3. CASE Look(c)
  <2> USE <1>3 DEF Look, LookAnd
  <2>1. Types'
    <3>1. Reply("OK", img) \in [status : Status, photo : Nat]
      BY DEF Status
    <3>2. answer' = answer \/ answer' = [answer EXCEPT ![c] = Reply("OK", img)]
      OBVIOUS
    <3>3. answer' \in [Conn -> [status : Status, photo : Nat]]
      BY <3>1, <3>2
    <3>4. /\ pc' \in [Conn -> Places]
          /\ client' \in [Conn -> {"new", "waiting", "answered", "closed", "left"}]
      OBVIOUS
    <3> QED
      BY <3>3, <3>4
  <2>2. ConnOK(c)'
    OBVIOUS
  <2> QED
    BY <2>1, <2>2, OneConn
<1>4. CASE Send(c)
  <2> USE <1>4 DEF Send
  <2>1. Types' /\ ConnOK(c)'
    OBVIOUS
  <2> QED
    BY <2>1, OneConn
<1>5. CASE Lock(c)
  <2> USE <1>5 DEF Lock
  <2>1. Types' /\ ConnOK(c)'
    OBVIOUS
  <2> QED
    BY <2>1, OneConn
<1>6. CASE Call(c)
  <2> USE <1>6 DEF Call
  <2>1. Types'
    <3>1. \A status \in {"OK", "APP_ERROR"} : Reply(status, 0) \in [status : Status, photo : Nat]
      BY DEF Status
    <3>2. PICK status \in {"OK", "APP_ERROR"} : answer' = [answer EXCEPT ![c] = Reply(status, 0)]
      OBVIOUS
    <3>3. answer' \in [Conn -> [status : Status, photo : Nat]]
      BY <3>1, <3>2
    <3> QED
      BY <3>3
  <2>2. ConnOK(c)'
    OBVIOUS
  <2> QED
    BY <2>1, <2>2, OneConn
<1> QED
  BY <1>1, <1>2, <1>3, <1>4, <1>5, <1>6 DEF Handler

LEMMA ConnectIInv ==
  ASSUME NEW c \in Conn, IInv, Connect(c)
  PROVE  IInv'
<1> USE DEF IInv
<1>1. /\ client[c] = "new" /\ pc[c] = "none"
      /\ client' = [client EXCEPT ![c] = "waiting"]
      /\ queue' = Append(queue, c)
      /\ UNCHANGED <<pc, answer, since, given, img>>
  BY DEF Connect, ConnOK, image
<1>2. PICK r \in Sent[c] : request' = [request EXCEPT ![c] = r]
  BY DEF Connect
<1>3. Types'
  BY <1>1, <1>2, Parameters DEF Types, Parameters
<1>4. \A i \in DOMAIN queue : queue[i] \in Conn /\ queue[i] # c
  BY <1>1 DEF QueueOK
<1>5. QueueOK'
  <2>1. queue' \in Seq(Conn)
    BY <1>1 DEF QueueOK
  <2>2. \A i \in DOMAIN queue' : (i \in DOMAIN queue /\ queue'[i] = queue[i])
                                   \/ (i = Len(queue) + 1 /\ queue'[i] = c)
    BY <1>1 DEF QueueOK
  <2>3. \A i \in DOMAIN queue' : pc'[queue'[i]] = "none" /\ client'[queue'[i]] \in {"waiting", "left"}
    BY <1>1, <1>4, <2>2 DEF QueueOK, Types
  <2>4. \A i, j \in DOMAIN queue' : queue'[i] = queue'[j] => i = j
    BY <1>4, <2>2 DEF QueueOK
  <2> QED
    BY <2>1, <2>3, <2>4 DEF QueueOK
<1>6. ASSUME NEW d \in Conn
      PROVE  ConnOK(d)'
  BY <1>1, <1>2 DEF Types, ConnOK, Current
<1> QED
  BY <1>3, <1>5, <1>6

\* Remove and Crash empty the queue.
LEMMA EmptiedIInv == IInv /\ (Remove \/ Crash) => IInv'
<1> SUFFICES ASSUME IInv, Remove \/ Crash
             PROVE  IInv'
  OBVIOUS
<1> USE DEF IInv
<1>1. QueueOK'
  <2>1. queue' = << >>
    BY DEF Remove, Crash
  <2>2. queue' \in Seq(Conn) /\ DOMAIN queue' = {}
    BY <2>1
  <2> QED
    BY <2>2 DEF QueueOK
<1>2. CASE Remove
  <2>1. Types'
    BY <1>2 DEF Remove, Types, Close, image
  <2>2. ASSUME NEW c \in Conn
        PROVE  ConnOK(c)'
    BY <1>2 DEF Remove, Types, Close, image, ConnOK, Current
  <2> QED
    BY <1>1, <2>1, <2>2
<1>3. CASE Crash
  <2>1. Types'
    BY <1>3 DEF Crash, Types, Places, Close
  <2>2. ASSUME NEW c \in Conn
        PROVE  ConnOK(c)'
    BY <1>3 DEF Crash, Types, Close, ConnOK, Current
  <2> QED
    BY <1>1, <2>1, <2>2
<1> QED
  BY <1>2, <1>3

LEMMA LeaveIInv ==
  ASSUME NEW c \in Conn, IInv, Leave(c)
  PROVE  IInv'
<1> USE DEF IInv, Leave, server, image
<1>1. Types'
  BY DEF Types
<1>2. QueueOK'
  <2>1. \A i \in DOMAIN queue : queue[i] \in Conn
    BY DEF QueueOK
  <2>2. \A d \in Conn : client[d] \in {"waiting", "left"} => client'[d] \in {"waiting", "left"}
    BY DEF Types
  <2> QED
    BY <2>1, <2>2 DEF QueueOK
<1>3. ASSUME NEW d \in Conn
      PROVE  ConnOK(d)'
  BY DEF Types, ConnOK, Current
<1> QED
  BY <1>1, <1>2, <1>3

LEMMA NextIInv == IInv /\ [Next]_vars => IInv'
<1> SUFFICES ASSUME IInv, [Next]_vars
             PROVE  IInv'
  OBVIOUS
<1>0. given \in Nat /\ img = given
  BY DEF IInv, Types
<1>1. CASE Unlink \/ Bind \/ CheckRunning \/ AcceptTimeout \/ Stop \/ Restart \/ Returned \/ UNCHANGED vars
  BY <1>0, <1>1, ImageStep
     DEF Unlink, Bind, CheckRunning, AcceptTimeout, Stop, Restart, Returned, vars, server, image
<1>2. CASE UpdateImage \/ UpdateLock \/ UpdateCopy
  BY <1>0, <1>2, ImageStep DEF UpdateImage, UpdateLock, UpdateCopy, CopyInto, server
<1>3. CASE Accept
  BY <1>3, AcceptIInv
<1>4. CASE Remove \/ Crash
  BY <1>4, EmptiedIInv
<1>5. ASSUME NEW c \in Conn, Handler(c) \/ Lock(c) \/ Call(c) \/ Connect(c) \/ Leave(c)
      PROVE  IInv'
  BY <1>5, HandlerIInv, ConnectIInv, LeaveIInv
<1> QED
  BY <1>1, <1>2, <1>3, <1>4, <1>5 DEF Next, Server

\* No photo is older than the image that was current when its request was
\* accepted, however requests, updates, stops and crashes interleave
\* (_handle_take_photo, update_image).
THEOREM PhotosAreCurrent == Spec => []PhotoIsCurrent
<1>1. IInv => PhotoIsCurrent
  BY DEF IInv, ConnOK, Current, PhotoIsCurrent
<1> QED
  BY <1>1, InitIInv, NextIInv, PTL DEF Spec

-----------------------------------------------------------------------------
(* Types *)

\* What Types leaves open, and that update_image is called for images that are left.
Rest ==
  /\ running \in BOOLEAN
  /\ srv \in {"down", "unlink", "bind", "check", "accept", "remove", "done"}
  /\ conn \in Conn \cup {NoConn}
  /\ file \in {"none", "ours", "dead"}
  /\ answer \in [Conn -> [status : Status, photo : 0 .. MaxImage]]
  /\ lock \in Conn \cup {"free", "update"}
  /\ given \in 0 .. MaxImage
  /\ upd \in {"idle", "lock", "copy"}
  /\ upd # "idle" => given < MaxImage
  /\ since \in [Conn -> 0 .. MaxImage]
  /\ crashes \in 0 .. MaxCrash
  /\ lock = "update" <=> upd = "copy"
  /\ \A c \in Conn : lock = c <=> pc[c] = "look"

LEMMA RestStep == IInv /\ Rest /\ [Next]_vars => Rest'
<1> SUFFICES ASSUME Types, QueueOK, Rest, [Next]_vars
             PROVE  Rest'
  BY DEF IInv
<1> USE Parameters DEF Parameters, Rest
<1>1. CASE Unlink \/ Bind \/ CheckRunning \/ AcceptTimeout \/ Stop \/ Restart \/ Returned \/ UNCHANGED vars
  BY <1>1 DEF Unlink, Bind, CheckRunning, AcceptTimeout, Stop, Restart, Returned, vars, server, image
<1>2. CASE UpdateImage \/ UpdateLock \/ UpdateCopy
  BY <1>2 DEF UpdateImage, UpdateLock, UpdateCopy, CopyInto, server
<1>3. CASE Accept
  <2>1. Head(queue) \in Conn /\ pc[Head(queue)] = "none"
    BY <1>3 DEF Accept, AcceptWhen, QueueOK
  <2> QED
    BY <1>3, <2>1 DEF Accept, AcceptWhen, Types, image
<1>4. CASE Remove
  BY <1>4 DEF Remove, image
<1>5. CASE Crash
  BY <1>5 DEF Crash
<1>6. ASSUME NEW c \in Conn, Parse(c) \/ While(c) \/ Call(c) \/ Send(c) \/ Connect(c) \/ Leave(c)
      PROVE  Rest'
  <2>1. answer' = answer \/ \E s \in Status : answer' = [answer EXCEPT ![c] = Reply(s, 0)]
    BY <1>6 DEF Parse, While, Call, Send, Connect, Leave, Respond, Status, server, image
  <2>2. answer' \in [Conn -> [status : Status, photo : 0 .. MaxImage]]
    <3>1. CASE answer' = answer
      BY <3>1
    <3>2. ASSUME NEW s \in Status, answer' = [answer EXCEPT ![c] = Reply(s, 0)]
          PROVE  answer' \in [Conn -> [status : Status, photo : 0 .. MaxImage]]
      BY <3>2 DEF Reply
    <3> QED
      BY <2>1, <3>1, <3>2
  <2>3. /\ UNCHANGED <<running, srv, conn, file, lock, given, upd, since, crashes>>
        /\ \A d \in Conn : pc'[d] = "look" <=> pc[d] = "look"
    BY <1>6 DEF Parse, While, Call, Send, Connect, Leave, Respond, Finish, Die, Types, server, image
  <2> QED
    BY <2>2, <2>3
<1>7. ASSUME NEW c \in Conn, Look(c)
      PROVE  Rest'
  <2>1. answer' = answer \/ answer' = [answer EXCEPT ![c] = Reply("OK", img)]
    BY <1>7 DEF Look, LookAnd, Respond
  <2>2. answer' \in [Conn -> [status : Status, photo : 0 .. MaxImage]]
    <3>1. img \in 0 .. MaxImage /\ "OK" \in Status
      BY DEF Types, Status
    <3> QED
      BY <2>1, <3>1 DEF Reply
  <2>3. /\ UNCHANGED <<running, srv, conn, file, given, upd, since, crashes>>
        /\ lock = c /\ lock' = "free"
        /\ \A d \in Conn : pc'[d] = "look" <=> pc[d] = "look" /\ d # c
    BY <1>7 DEF Look, LookAnd, Respond, Die, Types, server
  <2> QED
    BY <2>2, <2>3
<1>8. ASSUME NEW c \in Conn, Lock(c)
      PROVE  Rest'
  BY <1>8 DEF Lock, Types, server
<1> QED
  BY <1>1, <1>2, <1>3, <1>4, <1>5, <1>6, <1>7, <1>8 DEF Next, Server, Handler

\* Every variable keeps its type, and img_lock is held just in the two blocks that
\* take it, by one thread at most (_handle_take_photo, update_image).
THEOREM TypeCorrect == Spec => []TypeOK
<1>1. Init => Rest
  BY Parameters DEF Parameters, Init, Rest, Reply, Status
<1>2. IInv /\ Rest => TypeOK
  BY DEF IInv, Types, Places, QueueOK, Rest, TypeOK
<1> QED
  BY <1>1, <1>2, InitIInv, RestStep, NextIInv, PTL DEF Spec
=============================================================================
