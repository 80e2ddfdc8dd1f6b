-------------------------- MODULE ServiceProtocol --------------------------
(***************************************************************************)
(* The signing service of actfw_core: AgentAppProtocolServiceServer        *)
(* (_private/agent_app_protocol/service_server.py) on its LoopThread       *)
(* (_private/util/thread.py), the process that starts it and tears it      *)
(* down, and the callers: ServiceClient (service_client.py), which opens a *)
(* connection for every request, and other programs that use the socket.   *)
(*                                                                         *)
(* Both ends read with the parsers of agent_app_protocol.py.  They take an *)
(* empty recv for "nothing yet": at the end of a stream they turn round    *)
(* for ever, which is here a reader that has no step.                      *)
(*                                                                         *)
(* A definition that stands before another one and is named after it and a *)
(* slip (AnswerForgotten) is a mistake the code could contain, kept to see *)
(* that a property notices it.  It is no part of the specification.        *)
(***************************************************************************)
EXTENDS Naturals, Sequences

CONSTANTS
  Call,     \* the calls, each with a connection of its own
  NoCall,   \* _loop_body has no stream
  Sent,     \* bound: what the callers send
  Patient,  \* no caller is killed while it waits
  MaxCrash  \* bound: times the process of the server ends

\* rs256(), stop_act(), and what only other programs send: a payload that is
\* not base64, bytes that are no request, the beginning of one and no more.
Request == {"rs256", "stop", "badpayload", "malformed", "short"}

ASSUME Parameters ==
  /\ NoCall \notin Call
  /\ Sent \subseteq Request
  /\ Patient \in BOOLEAN
  /\ MaxCrash \in Nat

VARIABLES
  main,     \* the thread that calls startup, teardown and join
  torn,     \* _teardown_ch is not empty
  loop,     \* where the thread of the LoopThread is
  stream,   \* the connection _loop_body has accepted
  queue,    \* the connections that wait for an accept
  caller,   \* where each caller is
  what,     \* what it sends
  sock,     \* what its end of the connection has to read
  crashes

server == <<main, torn, loop, stream, queue>>
callers == <<caller, what, sock>>
vars == <<server, callers, crashes>>

\* The types, and the places of _loop_body that have a stream.
TypeOK ==
  /\ main \in {"new", "up", "torn", "joining", "joined", "dead"}
  /\ torn \in BOOLEAN
  /\ loop \in {"new", "test", "accept", "parse", "answer", "ended", "failed"}
  /\ stream \in Call \cup {NoCall}
  /\ queue \in Seq(Call)
  /\ caller \in [Call -> {"new", "waiting", "returned", "exited", "raised", "left"}]
  /\ what \in [Call -> Request]
  /\ sock \in [Call -> {"nothing", "ok", "error", "eof", "reset"}]
  /\ crashes \in 0 .. MaxCrash
  /\ stream = NoCall <=> loop \notin {"parse", "answer", "failed"}

Init ==
  /\ main = "new"
  /\ torn = FALSE
  /\ loop = "new"
  /\ stream = NoCall
  /\ queue = << >>
  /\ caller = [c \in Call |-> "new"]
  /\ what = [c \in Call |-> "rs256"]
  /\ sock = [c \in Call |-> "nothing"]
  /\ crashes = 0

-----------------------------------------------------------------------------
(* The owner of the server *)

\* startup(): unlink, bind and listen, then start the thread.  What a caller
\* notices is the listen.
Startup ==
  /\ main = "new"
  /\ main' = "up"
  /\ loop' = "test"
  /\ UNCHANGED <<torn, stream, queue, callers, crashes>>

\* teardown().  The listener is not closed, nor its file removed: later callers
\* are connected and wait.
Teardown ==
  /\ main = "up"
  /\ main' = "torn"
  /\ torn' = TRUE
  /\ UNCHANGED <<loop, stream, queue, callers, crashes>>

\* join() is called, and returns when the thread has ended.
Join ==
  /\ main = "torn"
  /\ main' = "joining"
  /\ UNCHANGED <<torn, loop, stream, queue, callers, crashes>>

Joined ==
  /\ main = "joining"
  /\ loop \in {"ended", "failed"}
  /\ main' = "joined"
  /\ UNCHANGED <<torn, loop, stream, queue, callers, crashes>>

\* The process ends, by a signal or after the join.  A caller whose bytes were
\* not all read gets ECONNRESET, one whose request was read gets the end.
Crash ==
  /\ main \notin {"new", "dead"}
  /\ crashes < MaxCrash
  /\ crashes' = crashes + 1
  /\ main' = "dead"
  /\ loop' = "new"
  /\ stream' = NoCall
  /\ queue' = << >>
  /\ \E read \in BOOLEAN :
       sock' = [c \in Call |->
         IF caller[c] # "waiting" \/ sock[c] # "nothing" THEN sock[c]
         ELSE IF c = stream /\ (loop = "answer" \/ read) THEN "eof"
         ELSE "reset"]
  /\ UNCHANGED <<torn, caller, what>>

\* A new process, with a server of its own.
Restart ==
  /\ main = "dead"
  /\ main' = "new"
  /\ torn' = FALSE
  /\ UNCHANGED <<loop, stream, queue, callers, crashes>>

-----------------------------------------------------------------------------
(* LoopThread._loop and _loop_body *)

TestIgnored ==
  /\ loop = "test"
  /\ loop' = "accept"
  /\ UNCHANGED <<main, torn, stream, queue, callers, crashes>>

\* `while self._teardown_ch.empty()', with no extra turn after it.
Test ==
  /\ loop = "test"
  /\ loop' = IF torn THEN "ended" ELSE "accept"
  /\ UNCHANGED <<main, torn, stream, queue, callers, crashes>>

AcceptTimeoutEscapes ==
  /\ loop = "accept"
  /\ queue = << >>
  /\ loop' = "failed"
  /\ UNCHANGED <<main, torn, stream, queue, callers, crashes>>

\* accept() raises socket.timeout after a second, and _loop_body returns.
AcceptTimeout ==
  /\ loop = "accept"
  /\ queue = << >>
  /\ loop' = "test"
  /\ UNCHANGED <<main, torn, stream, queue, callers, crashes>>

Accept ==
  /\ loop = "accept"
  /\ queue # << >>
  /\ loop' = "parse"
  /\ stream' = Head(queue)
  /\ queue' = Tail(queue)
  /\ UNCHANGED <<main, torn, callers, crashes>>

ParseReturns ==
  /\ loop = "parse"
  /\ what[stream] # "short"
  /\ IF what[stream] = "malformed"
       THEN loop' = "test" /\ stream' = NoCall
       ELSE loop' = "answer" /\ stream' = stream
  /\ UNCHANGED <<main, torn, queue, callers, crashes>>

\* ServiceRequest.parse: a request that is no request ends the loop with the
\* RuntimeError of _loop_body, which _loop puts into a channel nobody reads.
\* The error holds the stream: the caller sees no end.
Parse ==
  /\ loop = "parse"
  /\ what[stream] # "short"
  /\ loop' = IF what[stream] = "malformed" THEN "failed" ELSE "answer"
  /\ UNCHANGED <<main, torn, stream, queue, callers, crashes>>

\* The status of _handle_rs_256, which gets requests of both kinds.
StatusOf(request) == IF request = "badpayload" THEN "error" ELSE "ok"

AnswerForgotten ==
  /\ loop = "answer"
  /\ loop' = "test"
  /\ stream' = NoCall
  /\ sock' = IF StatusOf(what[stream]) = "error" THEN sock
             ELSE [sock EXCEPT ![stream] = "ok"]
  /\ UNCHANGED <<main, torn, queue, caller, what, crashes>>

\* sendall, which raises BrokenPipeError when the caller has gone; else the
\* stream is closed with its last reference.
Answer ==
  /\ loop = "answer"
  /\ IF caller[stream] = "left"
       THEN loop' = "failed" /\ UNCHANGED <<stream, sock>>
       ELSE /\ loop' = "test"
            /\ stream' = NoCall
            /\ sock' = [sock EXCEPT ![stream] = StatusOf(what[stream])]
  /\ UNCHANGED <<main, torn, queue, caller, what, crashes>>

Loop == Test \/ AcceptTimeout \/ Accept \/ Parse \/ Answer

-----------------------------------------------------------------------------
(* The callers *)

\* connect() and sendall().  The call waits in connect() while the queue of the
\* listener is full: it is then not connected yet.
Connect(c) ==
  /\ caller[c] = "new"
  /\ main \notin {"new", "dead"}
  /\ \E r \in Sent : what' = [what EXCEPT ![c] = r]
  /\ caller' = [caller EXCEPT ![c] = "waiting"]
  /\ queue' = Append(queue, c)
  /\ UNCHANGED <<main, torn, loop, stream, sock, crashes>>

\* There is no file, or nobody listens at it.
Refused(c) ==
  /\ caller[c] = "new"
  /\ main \in {"new", "dead"}
  /\ caller' = [caller EXCEPT ![c] = "raised"]
  /\ UNCHANGED <<server, what, sock, crashes>>

\* rs256() returns the signature; stop_act() calls sys.exit(0).
ReturnOk(c) ==
  /\ caller[c] = "waiting"
  /\ sock[c] = "ok"
  /\ caller' = [caller EXCEPT ![c] = IF what[c] = "stop" THEN "exited" ELSE "returned"]
  /\ UNCHANGED <<server, what, sock, crashes>>

\* The status is not OK, or a recv has raised inside ServiceResponse.parse.
RaiseError(c) ==
  /\ caller[c] = "waiting"
  /\ sock[c] \in {"error", "reset"}
  /\ caller' = [caller EXCEPT ![c] = "raised"]
  /\ UNCHANGED <<server, what, sock, crashes>>

\* The process of the caller is killed.
Leave(c) ==
  /\ ~ Patient
  /\ caller[c] = "waiting"
  /\ caller' = [caller EXCEPT ![c] = "left"]
  /\ UNCHANGED <<server, what, sock, crashes>>

Read(c) == ReturnOk(c) \/ RaiseError(c)

\* The owner is through with the server and every caller with its call.
Over ==
  /\ main = "joined"
  /\ \A c \in Call : caller[c] # "new"
  /\ UNCHANGED vars

Next ==
  \/ Startup \/ Teardown \/ Join \/ Joined \/ Crash \/ Restart
  \/ Loop
  \/ \E c \in Call : Connect(c) \/ Refused(c) \/ Read(c) \/ Leave(c)
  \/ Over

Spec == Init /\ [][Next]_vars

\* The threads of the server and of the callers run; join() returns once it can.
FairSpec ==
  /\ Spec
  /\ WF_vars(Loop)
  /\ WF_vars(Joined)
  /\ \A c \in Call : WF_vars(Read(c))

-----------------------------------------------------------------------------
(* Properties *)

Queued(c) == \E i \in DOMAIN queue : queue[i] = c

\* Nothing but a caller that sent garbage or went away in the middle of its
\* call ends the loop before a teardown (LoopThread._loop catches whatever
\* _loop_body raises, and ends).
FailsOnlyByCaller ==
  loop = "failed" =>
    \E c \in Call : (c = stream) /\ (what[c] = "malformed" \/ caller[c] = "left")

\* A connection taken from the queue is answered before the loop takes the next
\* one or ends: no return of _loop_body leaves a caller behind.
NobodyLeftBehind ==
  \A c \in Call :
    (caller[c] = "waiting" /\ sock[c] = "nothing") => (Queued(c) \/ c = stream)

\* What keeps the loop from ever taking another turn: half a request, for whose
\* rest _loop_body waits, and the end of the thread.
Stuck == loop = "failed" \/ (loop = "parse" /\ what[stream] = "short")

\* Every call ends, and every call that is queued up behind others, unless the
\* loop is torn down or stuck, or the process ends with the request in its hand.
CallsEnd ==
  \A c \in Call : caller[c] = "waiting" ~>
    (caller[c] # "waiting" \/ torn \/ Stuck \/ sock[c] = "eof")

\* join() after teardown() returns, whatever is in the queue then, unless the loop
\* waits for the rest of a request.
JoinReturns == main = "joining" ~> (main # "joining" \/ (Stuck /\ loop # "failed"))

\* A response that cannot be parsed makes the call raise (service_client.py:47):
\* so does one that never comes because the agent has ended.
EndOfStreamRaises ==
  \A c \in Call :
    (caller[c] = "waiting" /\ sock[c] = "eof") ~> caller[c] # "waiting"
=============================================================================
