---------------------------- MODULE CaptureState ----------------------------
(***************************************************************************)
(* What the captures of actfw_core have in common: the thread of a capture *)
(* task, the buffers that go round between it and a camera, and the stop   *)
(* of the task by another thread.  V4LCapture, LibcameraCapture and        *)
(* UnicamCapture extend this module with what their code does.             *)
(*                                                                         *)
(* A frame is the number of the picture that the camera took.  The pads of *)
(* a capture throw old items away, so that an outlet does not wait: it is  *)
(* part of the action that makes the frame.                                *)
(***************************************************************************)
EXTENDS Naturals

CONSTANTS
  Buffer,     \* the buffers that frames are read from
  MaxPicture  \* bound: the pictures the camera takes

VARIABLES
  pc,         \* where the constructor or run() is
  running,    \* Task.running
  raising,    \* an exception is on its way out of run()
  tries,      \* the retries of the constructor
  opened,     \* the device is open, the camera is acquired
  streaming,  \* the camera takes pictures
  place,      \* where each buffer is
  picture,    \* the picture in each buffer
  clock,      \* the last picture taken
  taken,      \* the buffers taken from the camera and not handled yet
  last        \* history: the picture given out last

camera == <<place, picture, clock>>
process == <<tries, opened, streaming>>
program == <<running, raising, process>>
shared == <<pc, program, camera, taken, last>>

Places == {"program", "waiting", "ready"}

TypeOK ==
  /\ running \in BOOLEAN
  /\ raising \in BOOLEAN
  /\ tries \in 0 .. 2
  /\ opened \in BOOLEAN
  /\ streaming \in BOOLEAN
  /\ place \in [Buffer -> Places]
  /\ picture \in [Buffer -> Nat]
  /\ clock \in Nat
  /\ taken \subseteq Buffer
  /\ last \in Nat

Init ==
  /\ pc = "new"
  /\ running = TRUE
  /\ raising = FALSE
  /\ tries = 0
  /\ opened = FALSE
  /\ streaming = FALSE
  /\ place = [b \in Buffer |-> "program"]
  /\ picture = [b \in Buffer |-> 0]
  /\ clock = 0
  /\ taken = {}
  /\ last = 0

\* Before the constructor has returned there is no task to stop.
Constructing == pc \in {"new", "setup", "request", "queue"}
RunIsOver == pc \in {"returned", "raised", "broken"}

Goto(from, to) == pc = from /\ pc' = to

Move(B, to) == place' = [b \in Buffer |-> IF b \in B THEN to ELSE place[b]]

In(where) == {b \in Buffer : place[b] = where}

\* The camera hands buffers over in the order in which it has filled them.
IsOldest(b, B) == b \in B /\ \A c \in B : picture[b] <= picture[c]

\* A picture is taken: it goes to a buffer that waits for one, or is lost.
Expose ==
  /\ streaming
  /\ clock < MaxPicture
  /\ clock' = clock + 1
  /\ \/ /\ In("waiting") = {}
        /\ UNCHANGED <<place, picture>>
     \/ \E b \in In("waiting") :
          /\ place' = [place EXCEPT ![b] = "ready"]
          /\ picture' = [picture EXCEPT ![b] = clock']
  /\ UNCHANGED <<pc, program, taken, last>>

\* Task.stop, by another thread.
Stop ==
  /\ ~ Constructing
  /\ running
  /\ running' = FALSE
  /\ UNCHANGED <<pc, raising, process, camera, taken, last>>

Ended == RunIsOver /\ UNCHANGED shared

Ring == INSTANCE CaptureRing WITH
          owner <- [b \in Buffer |-> IF place[b] = "program" THEN "program" ELSE "camera"]

-----------------------------------------------------------------------------
(* Properties *)

\* Whatever the stack and whatever fails, the capture implements CaptureRing: it
\* never reads a buffer the camera may write, gives out no picture twice and none
\* older than the last (capture, _handle_camera_event, __produce_image_from_isp).
BuffersGoRound == Ring!Spec
=============================================================================
