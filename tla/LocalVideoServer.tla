-------------------------- MODULE LocalVideoServer --------------------------
(***************************************************************************)
(* The video server of actfw_core (local_video_server.py): a pipeline task *)
(* sets an observable value, one daemon thread for every viewer waits for  *)
(* new values and streams them, and the threads that call stop() end       *)
(* serve_forever, which run() is in.                                       *)
(*                                                                         *)
(* socketserver.BaseServer (serve_forever, shutdown) and                   *)
(* threading.Condition (wait, notify_all) are Python's own and are         *)
(* modelled by what this file relies on: shutdown() asks and waits, and    *)
(* wait() gives the lock up and sleeps in one step.                        *)
(*                                                                         *)
(* A definition that stands before another one and is named after it and a *)
(* slip (SetNotifiesOne) is a mistake the code could contain, kept to see  *)
(* that a property notices it.  It is no part of the specification.        *)
(***************************************************************************)
EXTENDS Naturals, Sequences

CONSTANTS
  Viewer,    \* the viewers
  Stopper,   \* the threads that call stop(): the application, and others
  MaxImage,  \* bound: the images the pipeline has
  Unsavable  \* those JPEG cannot save, by their mode (RGBA, P)

ASSUME Parameters ==
  /\ Viewer \cap Stopper = {}
  /\ "free" \notin Viewer
  /\ MaxImage \in Nat
  /\ Unsavable \subseteq 1 .. MaxImage

VARIABLES
  srv,       \* where run(), the thread of serve_forever, is
  asked,     \* BaseServer.__shutdown_request
  ended,     \* BaseServer.__is_shut_down
  listening, \* the socket is open
  stop,      \* where each call of stop() is
  lock,      \* the holder of the condition's lock, or "free"
  value,     \* _ObservableValue.value: an image, by its number; 0 is None
  asleep,    \* the viewers in condition.wait() that have not been notified
  pc,        \* where the thread of each viewer is
  frame,     \* its local variable `frame'
  gone,      \* the viewers that have closed their connection
  slept,     \* history: the value when each viewer began to wait
  seen       \* history: the images written to each viewer

socket == <<srv, asked, ended, listening, stop>>
observable == <<lock, value, asleep>>
vars == <<socket, observable, pc, frame, gone, slept, seen>>

TypeOK ==
  /\ srv \in {"new", "poll", "failed", "done"}
  /\ asked \in BOOLEAN /\ ended \in BOOLEAN /\ listening \in BOOLEAN
  /\ stop \in [Stopper -> {"no", "wait", "close", "returned"}]
  /\ lock \in Viewer \cup {"free"}
  /\ value \in 0 .. MaxImage
  /\ asleep \subseteq Viewer
  /\ pc \in [Viewer -> {"none", "lock", "held", "wait", "write", "done"}]
  /\ frame \in [Viewer -> 0 .. MaxImage]
  /\ gone \subseteq Viewer
  /\ slept \in [Viewer -> 0 .. MaxImage]
  /\ seen \in [Viewer -> Seq(1 .. MaxImage)]
  /\ \A v \in asleep : pc[v] = "wait"
  /\ \A v \in Viewer : lock = v <=> pc[v] = "held"

\* The server listens from its __init__ on.
Init ==
  /\ srv = "new"
  /\ asked = FALSE
  /\ ended = FALSE
  /\ listening = TRUE
  /\ stop = [s \in Stopper |-> "no"]
  /\ lock = "free"
  /\ value = 0
  /\ asleep = {}
  /\ pc = [v \in Viewer |-> "none"]
  /\ frame = [v \in Viewer |-> 0]
  /\ gone = {}
  /\ slept = [v \in Viewer |-> 0]
  /\ seen = [v \in Viewer |-> << >>]

-----------------------------------------------------------------------------
(* run and stop *)

\* The slip: run() looks whether stop() was called, and then does not serve.
ServeUnlessStopped ==
  /\ srv = "new"
  /\ srv' = IF \A s \in Stopper : stop[s] = "no" THEN "poll" ELSE "done"
  /\ UNCHANGED <<asked, ended, listening, stop, observable, pc, frame, gone, slept, seen>>

\* serve_forever begins: it clears the event that shutdown() waits for.
Serve ==
  /\ srv = "new"
  /\ srv' = "poll"
  /\ ended' = FALSE
  /\ UNCHANGED <<asked, listening, stop, observable, pc, frame, gone, slept, seen>>

\* It polls, and ends when it was asked to; on a closed socket it fails.
ServeEnds ==
  /\ srv = "poll"
  /\ asked \/ ~ listening
  /\ srv' = IF listening THEN "done" ELSE "failed"
  /\ asked' = FALSE
  /\ ended' = TRUE
  /\ UNCHANGED <<listening, stop, observable, pc, frame, gone, slept, seen>>

\* A viewer's GET is handled by a thread of its own (ThreadingMixIn): do_GET
\* sends the header.
View(v) ==
  /\ srv = "poll"
  /\ listening
  /\ ~ asked
  /\ pc[v] = "none"
  /\ pc' = [pc EXCEPT ![v] = "lock"]
  /\ UNCHANGED <<socket, observable, frame, gone, slept, seen>>

\* stop() may come at any time, and from the application while it stops its tasks.
StopStep(s, from, to) == stop[s] = from /\ stop' = [stop EXCEPT ![s] = to]

\* The slip: the request without the wait.
AskNotWaited(s) ==
  /\ StopStep(s, "no", "close")
  /\ asked' = TRUE
  /\ UNCHANGED <<srv, ended, listening, observable, pc, frame, gone, slept, seen>>

\* server.shutdown(): the request ...
Ask(s) ==
  /\ StopStep(s, "no", "wait")
  /\ asked' = TRUE
  /\ UNCHANGED <<srv, ended, listening, observable, pc, frame, gone, slept, seen>>

\* ... and the wait for the event.
Wait(s) ==
  /\ StopStep(s, "wait", "close")
  /\ ended
  /\ UNCHANGED <<srv, asked, ended, listening, observable, pc, frame, gone, slept, seen>>

\* server.server_close(): no thread of a viewer is waited for (daemon_threads).
CloseServer(s) ==
  /\ StopStep(s, "close", "returned")
  /\ listening' = FALSE
  /\ UNCHANGED <<srv, asked, ended, observable, pc, frame, gone, slept, seen>>

-----------------------------------------------------------------------------
(* _ObservableValue.set, called by update_image *)

Notify(V) ==
  /\ lock = "free"
  /\ value < MaxImage
  /\ value' = value + 1
  /\ asleep' = asleep \ V
  /\ UNCHANGED <<socket, lock, pc, frame, gone, slept, seen>>

\* The slip: notify() for notify_all().
SetNotifiesOne == \E v \in Viewer : (asleep = {} \/ v \in asleep) /\ Notify({v})

Set == Notify(asleep)

-----------------------------------------------------------------------------
(* do_GET and wait_new_value, one thread for each viewer *)

\* `with self.condition': the lock is taken for the call of wait ...
Enter(v) ==
  /\ pc[v] = "lock"
  /\ lock = "free"
  /\ lock' = v
  /\ pc' = [pc EXCEPT ![v] = "held"]
  /\ UNCHANGED <<socket, value, asleep, frame, gone, slept, seen>>

\* ... which gives it up and sleeps.
SleepAfter(v, sleepers) ==
  /\ pc[v] = "held"
  /\ lock' = "free"
  /\ asleep' = sleepers
  /\ slept' = [slept EXCEPT ![v] = value]
  /\ pc' = [pc EXCEPT ![v] = "wait"]
  /\ UNCHANGED <<socket, value, frame, gone, seen>>

\* The slip: a poll of the value in place of the wait.
SleepSkipped(v) == SleepAfter(v, asleep)

Sleep(v) == SleepAfter(v, asleep \cup {v})

\* Notified, it takes the lock again, reads the value and gives the lock up.
\* RuntimeError, when the value is None, makes do_GET wait again.
Wake(v) ==
  /\ pc[v] = "wait"
  /\ v \notin asleep
  /\ lock = "free"
  /\ frame' = [frame EXCEPT ![v] = value]
  /\ pc' = [pc EXCEPT ![v] = IF value = 0 THEN "lock" ELSE "write"]
  /\ UNCHANGED <<socket, observable, gone, slept, seen>>

\* The frame is encoded and written.  An image that JPEG cannot save raises in the
\* encoding, a viewer that has gone in the writing: either ends do_GET, and with it
\* the stream, for the `except' is outside of the loop.
Write(v) ==
  /\ pc[v] = "write"
  /\ IF v \in gone \/ frame[v] \in Unsavable
       THEN /\ pc' = [pc EXCEPT ![v] = "done"]
            /\ UNCHANGED seen
       ELSE /\ pc' = [pc EXCEPT ![v] = "lock"]
            /\ seen' = [seen EXCEPT ![v] = Append(@, frame[v])]
  /\ UNCHANGED <<socket, observable, frame, gone, slept>>

Leave(v) ==
  /\ pc[v] \notin {"none", "done"}
  /\ v \notin gone
  /\ gone' = gone \cup {v}
  /\ UNCHANGED <<socket, observable, pc, frame, slept, seen>>

-----------------------------------------------------------------------------
Stopping(s) == Wait(s) \/ CloseServer(s)
Watching(v) == Sleep(v) \/ Write(v)

\* The poll times out, or run() has returned.
Idle == srv \in {"poll", "done"} /\ UNCHANGED vars

Next ==
  \/ Serve \/ ServeEnds \/ Set \/ Idle
  \/ \E s \in Stopper : Ask(s) \/ Stopping(s)
  \/ \E v \in Viewer : View(v) \/ Watching(v) \/ Enter(v) \/ Wake(v) \/ Leave(v)

Spec == Init /\ [][Next]_vars

\* Every thread goes on, and one that asks for the lock gets it in the end.
\* Nobody has to call stop(), to view, to leave or to have another image.
Fairness ==
  /\ WF_vars(Serve) /\ WF_vars(ServeEnds)
  /\ \A s \in Stopper : WF_vars(Stopping(s))
  /\ \A v \in Viewer : WF_vars(Watching(v)) /\ SF_vars(Enter(v)) /\ SF_vars(Wake(v))
FairSpec == Spec /\ Fairness

-----------------------------------------------------------------------------
(* Properties *)

\* A viewer never gets an image again, nor one that is older than the last it
\* got: wait() has no predicate, so this rests on the order of the threads in
\* the condition and on the value being read again under the lock.
OnlyNewer == \A v \in Viewer : \A i \in 1 .. Len(seen[v]) - 1 : seen[v][i] < seen[v][i + 1]

\* wait_new_value never comes back for nothing: the RuntimeError is not raised.
ValueIsSet == \A v \in Viewer : pc[v] = "wait" /\ v \notin asleep => value # 0

\* What a viewer that waited with image n has come to in the end.
Served(v, n) == seen[v] # << >> /\ seen[v][Len(seen[v])] > n
CutOff(v, n) == pc[v] = "done" /\ frame[v] \in Unsavable /\ frame[v] > n

\* An image that is set while a viewer waits gets to it, or a newer one does: no
\* viewer is passed over however many there are.  Only two things come between:
\* the viewer leaves, or the newer image it was woken for is one that JPEG cannot
\* save, which ends its stream (do_GET, wait_new_value).  An image that is set
\* while a viewer is being written to may never get to it.
Delivered ==
  \A v \in Viewer : pc[v] = "wait" /\ value > slept[v] ~>
    v \in gone \/ Served(v, slept[v]) \/ CutOff(v, slept[v])

\* stop() returns, whether it comes before serve_forever has begun or while it
\* polls, and however many threads call it: it waits for nothing but run().
StopReturns == \A s \in Stopper : stop[s] = "wait" ~> stop[s] = "returned"

\* The socket is closed only when serve_forever has ended, which would fail on
\* it otherwise: shutdown() comes before server_close().
ClosedAfterEnd == srv # "failed" /\ (~ listening => srv = "done")
=============================================================================
