----------------------------- MODULE V4LCapture -----------------------------
(***************************************************************************)
(* V4LCameraCapture of actfw_core (capture.py) and the classes Video,      *)
(* VideoBuffer and VideoStream it is built on (v4l2/video.py): from the    *)
(* constructor to the end of run().  Every call of the driver may fail.    *)
(* How the constructor chooses the format is FormatLookup's.               *)
(*                                                                         *)
(* A definition that stands before another one and is named after it and a *)
(* slip is a mistake the code could contain.  It is no part of the         *)
(* specification.                                                          *)
(***************************************************************************)
EXTENDS CaptureState

\* os.open is tried three times while the device is busy.
Open ==
  /\ pc = "new"
  /\ \/ pc' = "setup" /\ opened' = TRUE /\ UNCHANGED tries
     \/ tries < 2 /\ tries' = tries + 1 /\ UNCHANGED <<pc, opened>>
     \/ pc' = "raised" /\ UNCHANGED <<tries, opened>>
  /\ UNCHANGED <<running, raising, streaming, camera, taken, last>>

\* An exception in the constructor leaves the device open.
Try(from, to) ==
  /\ Goto(from, to) \/ Goto(from, "raised")
  /\ UNCHANGED <<program, camera, taken, last>>

\* query_capability, lookup_config, set_format and set_framerate.
Setup == Try("setup", "request")

\* REQBUFS, then QUERYBUF and mmap of every buffer.
RequestBuffers == Try("request", "queue")

\* QBUF of every buffer; then the constructor returns.
QueueBuffer ==
  /\ \/ /\ Goto("queue", "queue")
        /\ \E b \in In("program") : Move({b}, "waiting")
     \/ /\ Goto("queue", "start")
        /\ In("program") = {}
        /\ UNCHANGED place
     \/ /\ Goto("queue", "raised")
        /\ UNCHANGED place
  /\ UNCHANGED <<program, picture, clock, taken, last>>

StartStreaming ==
  /\ \/ Goto("start", "check") /\ streaming' = TRUE
     \/ Goto("start", "raised") /\ UNCHANGED streaming
  /\ UNCHANGED <<running, raising, tries, opened, camera, taken, last>>

\* `while self._is_running()'.
CheckRunning ==
  /\ Goto("check", IF running THEN "wait" ELSE "unmap")
  /\ UNCHANGED <<program, camera, taken, last>>

\* select, and DQBUF of the buffer that was filled first.
DequeueBuffer ==
  /\ Goto("wait", "convert")
  /\ \E b \in In("ready") :
       /\ IsOldest(b, In("ready"))
       /\ Move({b}, "program")
       /\ taken' = {b}
  /\ UNCHANGED <<program, picture, clock, last>>

RaisesFrom(at) ==
  /\ pc \in at
  /\ pc' = "unmap"
  /\ raising' = TRUE
  /\ UNCHANGED <<running, process, camera, taken, last>>

\* The slip: select waits without a timeout.
CaptureWaits == RaisesFrom({"requeue"})

\* `Capture timeout' after five seconds with nothing ready; DQBUF and QBUF may fail
\* at any time.
CaptureRaises == RaisesFrom({"wait", "requeue"})

Convert ==
  /\ Goto("convert", "requeue")
  /\ \E b \in taken : last' = picture[b]
  /\ UNCHANGED <<program, camera, taken>>

RequeueFrom(from, to) ==
  /\ Goto(from, to)
  /\ Move(taken, "waiting")
  /\ UNCHANGED <<program, picture, clock, last>>

\* The slip: the buffer is queued again before its picture has been read.
RequeueEarly ==
  \/ RequeueFrom("convert", "convert") /\ UNCHANGED taken
  \/ RequeueFrom("requeue", "check") /\ taken' = {}

\* QBUF, and the outlet of the frame.
Requeue == RequeueFrom("requeue", "check") /\ taken' = {}

UnmapThen(to) ==
  /\ Goto("unmap", to) \/ Goto("unmap", "broken")
  /\ UNCHANGED <<program, camera, taken, last>>

\* The slip: an exception leaves before the stream is stopped.
UnmapReraises == UnmapThen(IF raising THEN "raised" ELSE "stop")

\* VideoStream.__exit__ unmaps every buffer; an munmap that fails raises, and the
\* streaming goes on.
Unmap == UnmapThen("stop")

\* STREAMOFF gives all the buffers back.
StopStreaming ==
  /\ \/ /\ Goto("stop", IF raising THEN "raised" ELSE "close")
        /\ streaming' = FALSE
        /\ Move(Buffer, "program")
     \/ /\ Goto("stop", "broken")
        /\ UNCHANGED <<streaming, place>>
  /\ UNCHANGED <<running, raising, tries, opened, picture, clock, taken, last>>

\* video.close() is reached only when nothing was raised.
CloseVideo ==
  /\ Goto("close", "returned")
  /\ opened' = FALSE
  /\ UNCHANGED <<running, raising, tries, streaming, camera, taken, last>>

Program ==
  \/ Open \/ Setup \/ RequestBuffers \/ QueueBuffer \/ StartStreaming
  \/ CheckRunning \/ DequeueBuffer \/ CaptureRaises \/ Convert \/ Requeue
  \/ Unmap \/ StopStreaming \/ CloseVideo

Next == Program \/ Expose \/ Stop \/ Ended

Spec == Init /\ [][Next]_shared
=============================================================================
