-------------------------- MODULE LibcameraCapture --------------------------
(***************************************************************************)
(* LibcameraCapture of actfw_core (libcamera_capture.py), from the         *)
(* constructor to the end of run().  A buffer stands for its request: the  *)
(* two stay together.  What libcamera does with a request is modelled from *)
(* how the code uses it.                                                   *)
(***************************************************************************)
EXTENDS CaptureState

\* The firmware and the pixel format are checked, then the camera is acquired.
Acquire ==
  /\ \/ Goto("new", "setup") /\ opened' = TRUE
     \/ Goto("new", "raised") /\ UNCHANGED opened
  /\ UNCHANGED <<running, raising, tries, streaming, camera, taken, last>>

\* generate_configuration, validate and configure: an exception leaves the camera
\* acquired.
Configure ==
  /\ Goto("setup", "allocate") \/ Goto("setup", "raised")
  /\ UNCHANGED <<program, camera, taken, last>>

\* An exception in run() goes through `finally'.
Raises(from) ==
  /\ Goto(from, "stop")
  /\ raising' = TRUE

\* allocate, and create_request and add_buffer for each buffer.
Allocate ==
  /\ \/ Goto("allocate", "start") /\ UNCHANGED raising
     \/ Raises("allocate")
  /\ UNCHANGED <<running, process, camera, taken, last>>

Start ==
  /\ \/ Goto("start", "submit") /\ streaming' = TRUE /\ UNCHANGED raising
     \/ Raises("start") /\ UNCHANGED streaming
  /\ UNCHANGED <<running, tries, opened, camera, taken, last>>

\* queue_request for each request, while the camera already works; `taken' has those
\* that are done.
Submit ==
  /\ \/ /\ Goto("submit", "submit")
        /\ \E b \in Buffer \ taken : Move({b}, "waiting") /\ taken' = taken \cup {b}
        /\ UNCHANGED raising
     \/ /\ Goto("submit", "check")
        /\ taken = Buffer
        /\ taken' = {}
        /\ UNCHANGED <<raising, place>>
     \/ /\ Raises("submit")
        /\ taken' = {}
        /\ UNCHANGED place
  /\ UNCHANGED <<running, process, picture, clock, last>>

\* `while self._is_running()'.
CheckRunning ==
  /\ Goto("check", IF running THEN "wait" ELSE "stop")
  /\ UNCHANGED <<program, camera, taken, last>>

\* select reports an event; get_ready_requests takes all that are ready.
GetReadyRequests ==
  /\ Goto("wait", "handle")
  /\ In("ready") # {}
  /\ taken' = In("ready")
  /\ Move(In("ready"), "program")
  /\ UNCHANGED <<program, picture, clock, last>>

\* Nothing for a second.
CaptureTimeout ==
  /\ Raises("wait")
  /\ In("ready") = {}
  /\ UNCHANGED <<running, process, camera, taken, last>>

\* The buffer of the next request is mapped, copied and given out.
HandleRequest ==
  /\ Goto("handle", "reuse")
  /\ \E b \in taken : IsOldest(b, taken) /\ last' = picture[b]
  /\ UNCHANGED <<program, camera, taken>>

\* An assertion, mmap or _strip_stride_padding raises: the requests that were taken
\* are not queued again.
HandleRaises ==
  /\ Raises("handle")
  /\ taken # {}
  /\ taken' = {}
  /\ UNCHANGED <<running, process, camera, last>>

\* reuse and queue_request, whose result is ignored: a request that is refused is
\* never seen again.
Reuse ==
  /\ Goto("reuse", "handle")
  /\ \E b \in taken :
       /\ IsOldest(b, taken)
       /\ taken' = taken \ {b}
       /\ Move({b}, "waiting") \/ UNCHANGED place
  /\ UNCHANGED <<program, picture, clock, last>>

Handled ==
  /\ Goto("handle", "check")
  /\ taken = {}
  /\ UNCHANGED <<program, camera, taken, last>>

\* `finally': camera.stop() cancels what is queued, camera.release() gives it back.
StopCamera ==
  /\ Goto("stop", "release")
  /\ streaming' = FALSE
  /\ Move(Buffer, "program")
  /\ UNCHANGED <<running, raising, tries, opened, picture, clock, taken, last>>

ReleaseCamera ==
  /\ Goto("release", IF raising THEN "raised" ELSE "returned")
  /\ opened' = FALSE
  /\ UNCHANGED <<running, raising, tries, streaming, camera, taken, last>>

Program ==
  \/ Acquire \/ Configure \/ Allocate \/ Start \/ Submit \/ CheckRunning
  \/ GetReadyRequests \/ CaptureTimeout \/ HandleRequest \/ HandleRaises \/ Reuse
  \/ Handled \/ StopCamera \/ ReleaseCamera

Next == Program \/ Expose \/ Stop \/ Ended

Spec == Init /\ [][Next]_shared
=============================================================================
