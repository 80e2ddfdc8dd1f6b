--------------------------- MODULE CommandServer ---------------------------
(***************************************************************************)
(* The command server of actfw_core (command_server.py): one thread that   *)
(* accepts connections on a Unix socket, one daemon thread for every       *)
(* connection that answers its request, a pipeline task that updates the   *)
(* image of the Take Photo command, and the clients.                       *)
(*                                                                         *)
(* An image is the number of the update_image call that gave it; 0 is      *)
(* None.  The process may be killed and started again: nothing but the     *)
(* file of its socket outlives it.                                         *)
(*                                                                         *)
(* A definition that stands before another one and is named after it and a *)
(* slip (UnlinkSkipped) is a mistake the code could contain, kept to see   *)
(* that a property notices it.  It is no part of the specification.        *)
(***************************************************************************)
EXTENDS Naturals, Sequences

CONSTANTS
  Conn,       \* the connections clients make
  NoConn,     \* the value of run()'s local variable `conn' before the first
  HasHandler, \* custom_command_handler is not None
  Unsavable,  \* images of a mode that PNG cannot save
  Sent,       \* bound: what each client sends
  MaxImage,   \* bound: images a process is given
  MaxCrash    \* bound: times the process is killed

\* What a client sends: the three commands, a custom command that is not JSON,
\* bytes that do not parse, the beginning of a request and no more.
Request == {"photo", "check", "custom", "badjson", "invalid", "short"}
Status == {"OK", "UNIMPLEMENTED", "APP_ERROR", "GENERAL_ERROR"}

ASSUME Parameters ==
  /\ NoConn \notin Conn
  /\ {"free", "update"} \cap Conn = {}
  /\ HasHandler \in BOOLEAN
  /\ Unsavable \subseteq Nat
  /\ Sent \in [Conn -> SUBSET Request]
  /\ MaxImage \in Nat /\ MaxCrash \in Nat

VARIABLES
  running,  \* Task.running
  srv,      \* where run() is; "down" while there is no process
  conn,     \* its local variable `conn'
  file,     \* what sock_path names: nothing, our socket or a dead one
  queue,    \* connections that wait for an accept; a client whose connect()
            \* blocks because too many do is not connected yet
  pc,       \* where the thread of each connection is
  answer,   \* its local variable `response'
  lock,     \* the holder of img_lock
  img,      \* self.img
  upd,      \* where the call of update_image is
  given,    \* history: the image that the last call which returned has given
  client,   \* what the client of each connection sees
  request,  \* and what it sent
  since,    \* history: the image that was current when it was accepted
  crashes

server == <<running, srv, conn, file, queue>>
image == <<lock, img, upd, given>>
clients == <<client, request>>
vars == <<server, pc, answer, image, clients, since, crashes>>

\* The types, and the block each holder of img_lock is in.
TypeOK ==
  /\ running \in BOOLEAN
  /\ srv \in {"down", "unlink", "bind", "check", "accept", "remove", "done"}
  /\ conn \in Conn \cup {NoConn}
  /\ file \in {"none", "ours", "dead"}
  /\ queue \in Seq(Conn)
  /\ pc \in [Conn -> {"none", "parse", "while", "lock", "look", "call", "send",
                      "raised", "done"}]
  /\ answer \in [Conn -> [status : Status, photo : 0 .. MaxImage]]
  /\ lock \in Conn \cup {"free", "update"}
  /\ img \in 0 .. MaxImage /\ given \in 0 .. MaxImage
  /\ upd \in {"idle", "lock", "copy"}
  /\ client \in [Conn -> {"new", "waiting", "answered", "closed", "left"}]
  /\ request \in [Conn -> Request]
  /\ since \in [Conn -> 0 .. MaxImage]
  /\ crashes \in 0 .. MaxCrash
  /\ lock = "update" <=> upd = "copy"
  /\ \A c \in Conn : lock = c <=> pc[c] = "look"

Reply(status, photo) == [status |-> status, photo |-> photo]

Init ==
  /\ running = TRUE
  /\ srv = "unlink"
  /\ conn = NoConn
  /\ file \in {"none", "dead"}
  /\ queue = << >>
  /\ pc = [c \in Conn |-> "none"]
  /\ answer = [c \in Conn |-> Reply("OK", 0)]
  /\ lock = "free"
  /\ img = 0
  /\ upd = "idle"
  /\ given = 0
  /\ client = [c \in Conn |-> "new"]
  /\ request = [c \in Conn |-> "photo"]
  /\ since = [c \in Conn |-> 0]
  /\ crashes = 0

\* A socket is closed: the client that waits for an answer sees the end.
Close(C) == client' = [c \in Conn |-> IF c \in C /\ client[c] = "waiting" THEN "closed" ELSE client[c]]

-----------------------------------------------------------------------------
(* run *)

UnlinkSkipped ==
  /\ srv = "unlink"
  /\ srv' = "bind"
  /\ UNCHANGED <<running, conn, file, queue, pc, answer, image, clients, since, crashes>>

\* os.unlink, whose FileNotFoundError is ignored.
Unlink ==
  /\ srv = "unlink"
  /\ srv' = "bind"
  /\ file' = "none"
  /\ UNCHANGED <<running, conn, queue, pc, answer, image, clients, since, crashes>>

\* bind and listen.  bind raises when the path names a file, which ends run().
Bind ==
  /\ srv = "bind"
  /\ IF file = "none"
       THEN file' = "ours" /\ srv' = "check"
       ELSE file' = file /\ srv' = "done"
  /\ UNCHANGED <<running, conn, queue, pc, answer, image, clients, since, crashes>>

\* `while self.running'.
CheckRunning ==
  /\ srv = "check"
  /\ srv' = IF running THEN "accept" ELSE "remove"
  /\ UNCHANGED <<running, conn, file, queue, pc, answer, image, clients, since, crashes>>

\* A thread is started for the connection.  The socket `conn' held before goes
\* with its last reference, if its handler has died with an exception.
AcceptWhen(idle) ==
  /\ srv = "accept"
  /\ queue # << >>
  /\ idle
  /\ srv' = "check"
  /\ conn' = Head(queue)
  /\ queue' = Tail(queue)
  /\ pc' = [pc EXCEPT ![Head(queue)] = "parse"]
  /\ since' = [since EXCEPT ![Head(queue)] = given]
  /\ Close({c \in {conn} : c # NoConn /\ pc[c] = "raised"})
  /\ UNCHANGED <<running, file, answer, image, request, crashes>>

\* The slip: the request is handled by run() itself.
AcceptOneAtATime == AcceptWhen(\A c \in Conn : pc[c] \in {"none", "raised", "done"})

Accept == AcceptWhen(TRUE)

\* accept raises socket.timeout after a second.
AcceptTimeout ==
  /\ srv = "accept"
  /\ queue = << >>
  /\ srv' = "check"
  /\ UNCHANGED <<running, conn, file, queue, pc, answer, image, clients, since, crashes>>

\* os.remove, and run() returns: its sockets go, those not accepted included.
Remove ==
  /\ srv = "remove"
  /\ srv' = "done"
  /\ file' = "none"
  /\ conn' = NoConn
  /\ queue' = << >>
  /\ Close({c \in Conn : pc[c] \in {"none", "raised"}})
  /\ UNCHANGED <<running, pc, answer, image, request, since, crashes>>

Server == Unlink \/ Bind \/ CheckRunning \/ Accept \/ AcceptTimeout \/ Remove

\* Task.stop.
Stop ==
  /\ srv # "down"
  /\ running
  /\ running' = FALSE
  /\ UNCHANGED <<srv, conn, file, queue, pc, answer, image, clients, since, crashes>>

-----------------------------------------------------------------------------
(* _handle_request, one thread for each connection *)

\* The thread ends: the connection is shut down and closed.
Finish(c) == pc' = [pc EXCEPT ![c] = "done"] /\ Close({c})

\* It ends with an exception: nothing closes the connection while it is the
\* value of `conn' in run().
Die(c) == pc' = [pc EXCEPT ![c] = "raised"] /\ Close({c} \ {conn})

Respond(c, status, photo) ==
  /\ pc' = [pc EXCEPT ![c] = "send"]
  /\ answer' = [answer EXCEPT ![c] = Reply(status, photo)]
  /\ UNCHANGED client

\* CommandRequest.parse and the choice of a handler.  Of a short request it
\* never sees the end, also when the client has left.
Parse(c) ==
  /\ pc[c] = "parse"
  /\ request[c] # "short"
  /\ \/ /\ request[c] = "invalid"
        /\ Finish(c)
        /\ UNCHANGED answer
     \/ /\ request[c] = "photo"
        /\ pc' = [pc EXCEPT ![c] = "while"]
        /\ UNCHANGED <<answer, client>>
     \/ /\ request[c] = "check"
        /\ Respond(c, IF HasHandler THEN "OK" ELSE "UNIMPLEMENTED", 0)
     \/ /\ request[c] \in {"custom", "badjson"}
        /\ IF HasHandler /\ request[c] = "custom"
             THEN /\ pc' = [pc EXCEPT ![c] = "call"]
                  /\ UNCHANGED <<answer, client>>
             ELSE Respond(c, "GENERAL_ERROR", 0)
  /\ UNCHANGED <<server, image, request, since, crashes>>

\* `while self.running' of _handle_take_photo.
While(c) ==
  /\ pc[c] = "while"
  /\ IF running THEN pc' = [pc EXCEPT ![c] = "lock"] /\ UNCHANGED client
                ELSE Finish(c)
  /\ UNCHANGED <<server, answer, image, request, since, crashes>>

Lock(c) ==
  /\ pc[c] = "lock"
  /\ lock = "free"
  /\ lock' = c
  /\ pc' = [pc EXCEPT ![c] = "look"]
  /\ UNCHANGED <<server, answer, img, upd, given, clients, since, crashes>>

\* The block under img_lock: look at the image, save it, release the lock.
LookAnd(c, unlock) ==
  /\ pc[c] = "look"
  /\ \/ /\ img = 0
        /\ lock' = unlock
        /\ pc' = [pc EXCEPT ![c] = "while"]
        /\ UNCHANGED <<answer, client>>
     \/ /\ img # 0
        /\ lock' = "free"
        /\ IF img \in Unsavable THEN Die(c) /\ UNCHANGED answer
                                ELSE Respond(c, "OK", img)
  /\ UNCHANGED <<server, img, upd, given, request, since, crashes>>

\* The slip: the `continue' leaves the lock taken.
LookKeepsLock(c) == LookAnd(c, lock)

Look(c) == LookAnd(c, "free")

\* custom_command_handler returns or raises; nothing says that it ever does.
Call(c) ==
  /\ pc[c] = "call"
  /\ \E status \in {"OK", "APP_ERROR"} : Respond(c, status, 0)
  /\ UNCHANGED <<server, image, request, since, crashes>>

\* sendall raises when the client has left.
Send(c) ==
  /\ pc[c] = "send"
  /\ IF client[c] = "left"
       THEN Die(c)
       ELSE /\ pc' = [pc EXCEPT ![c] = "done"]
            /\ client' = [client EXCEPT ![c] = "answered"]
  /\ UNCHANGED <<server, answer, image, request, since, crashes>>

Handler(c) == Parse(c) \/ While(c) \/ Look(c) \/ Send(c)

-----------------------------------------------------------------------------
(* update_image, called by a task of the pipeline *)

UpdateImage ==
  /\ upd = "idle"
  /\ srv # "down"
  /\ given < MaxImage
  /\ upd' = "lock"
  /\ UNCHANGED <<server, pc, answer, lock, img, given, clients, since, crashes>>

UpdateLock ==
  /\ upd = "lock"
  /\ lock = "free"
  /\ lock' = "update"
  /\ upd' = "copy"
  /\ UNCHANGED <<server, pc, answer, img, given, clients, since, crashes>>

CopyInto(new) ==
  /\ upd = "copy"
  /\ given' = given + 1
  /\ img' = new
  /\ lock' = "free"
  /\ upd' = "idle"
  /\ UNCHANGED <<server, pc, answer, clients, since, crashes>>

UpdateKeepsFirst == CopyInto(IF img = 0 THEN given + 1 ELSE img)

UpdateCopy == CopyInto(given + 1)

-----------------------------------------------------------------------------
(* Clients and the process *)

Connect(c) ==
  /\ client[c] = "new"
  /\ file = "ours"
  /\ srv \in {"check", "accept", "remove"}
  /\ queue' = Append(queue, c)
  /\ client' = [client EXCEPT ![c] = "waiting"]
  /\ \E r \in Sent[c] : request' = [request EXCEPT ![c] = r]
  /\ UNCHANGED <<running, srv, conn, file, pc, answer, image, since, crashes>>

Leave(c) ==
  /\ client[c] = "waiting"
  /\ client' = [client EXCEPT ![c] = "left"]
  /\ UNCHANGED <<server, pc, answer, image, request, since, crashes>>

Crash ==
  /\ srv # "down"
  /\ crashes < MaxCrash
  /\ crashes' = crashes + 1
  /\ srv' = "down"
  /\ conn' = NoConn
  /\ file' = IF file = "ours" THEN "dead" ELSE file
  /\ queue' = << >>
  /\ pc' = [c \in Conn |-> IF client[c] = "new" THEN "none" ELSE "done"]
  /\ Close(Conn)
  /\ lock' = "free"
  /\ img' = 0
  /\ given' = 0
  /\ upd' = "idle"
  /\ UNCHANGED <<running, answer, request, since>>

Restart ==
  /\ srv = "down"
  /\ srv' = "unlink"
  /\ running' = TRUE
  /\ UNCHANGED <<conn, file, queue, pc, answer, image, clients, since, crashes>>

\* run() has returned: nothing is left that must happen.
Returned == srv = "done" /\ UNCHANGED vars

Next ==
  \/ Server \/ Stop \/ Crash \/ Restart \/ Returned
  \/ UpdateImage \/ UpdateLock \/ UpdateCopy
  \/ \E c \in Conn : Handler(c) \/ Lock(c) \/ Call(c) \/ Connect(c) \/ Leave(c)

Spec == Init /\ [][Next]_vars

\* Every thread goes on; one that asks for img_lock again and again gets it in the
\* end, although the handlers that wait for an image take it all the time.  No
\* call of the custom handler has to return.
Fairness ==
  /\ WF_vars(Server)
  /\ WF_vars(UpdateCopy)
  /\ SF_vars(UpdateLock)
  /\ \A c \in Conn : WF_vars(Handler(c)) /\ SF_vars(Lock(c))
FairSpec == Spec /\ Fairness

-----------------------------------------------------------------------------
(* Properties *)

\* A photo is never older than the image that was current when the request was
\* accepted, and there is one (_handle_take_photo, update_image).
PhotoIsCurrent ==
  \A c \in Conn : client[c] = "answered" /\ request[c] = "photo" =>
    /\ answer[c].status = "OK"
    /\ answer[c].photo > 0
    /\ answer[c].photo >= since[c]

\* run() returns only when it was told to stop, and leaves no socket file, also
\* after a process that was killed had left its own (os.unlink, os.remove).
ServesUntilStopped == srv = "done" => ~ running /\ file = "none"

\* update_image returns: the requests that wait for an image do not hold up the
\* pipeline for ever.
UpdateReturns == upd # "idle" ~> upd = "idle"

\* A client that waits is served, whatever the other clients do: one whose custom
\* command never returns, one that sends half a request, one that leaves.  Not
\* served are a photo request while there is no image, and a connection whose
\* handler died, until the next one is accepted.
Settles(c) ==
  /\ request[c] \in {"photo", "check", "badjson", "invalid"}
  /\ request[c] = "photo" => img # 0 \/ ~ running

Served ==
  \A c \in Conn : client[c] = "waiting" /\ Settles(c) ~>
    client[c] # "waiting" \/ (pc[c] = "raised" /\ conn = c)
=============================================================================
