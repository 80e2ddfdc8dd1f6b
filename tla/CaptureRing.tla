---------------------------- MODULE CaptureRing ----------------------------
(***************************************************************************)
(* What every capture of actfw_core promises of the frames it gives out,   *)
(* whatever its camera stack: the buffers go round between the program and *)
(* the camera, each has one owner, only the camera writes a buffer it has  *)
(* and the program reads one it has, and each frame is newer than the one  *)
(* before it.  V4LCapture, LibcameraCapture and UnicamCapture implement it *)
(* (CaptureState has the mapping).                                         *)
(***************************************************************************)
EXTENDS Naturals

CONSTANT Buffer

VARIABLES
  owner,     \* who has each buffer
  picture,   \* the number of the picture in it, 0 if there is none
  last       \* the number of the picture given out last

vars == <<owner, picture, last>>

Init ==
  /\ owner = [b \in Buffer |-> "program"]
  /\ picture = [b \in Buffer |-> 0]
  /\ last = 0

\* The program queues buffers, one or all of them.
Lend(B) ==
  /\ \A b \in B : owner[b] = "program"
  /\ owner' = [b \in Buffer |-> IF b \in B THEN "camera" ELSE owner[b]]
  /\ UNCHANGED <<picture, last>>

\* The camera writes a picture that is newer than all there are.
Fill(b) ==
  /\ owner[b] = "camera"
  /\ picture' = [picture EXCEPT ![b] = picture'[b]]
  /\ \A c \in Buffer : picture'[b] > picture[c]
  /\ UNCHANGED <<owner, last>>

\* The program takes buffers out, one, several or all of them.
TakeBack(B) ==
  /\ owner' = [b \in Buffer |-> IF b \in B THEN "program" ELSE owner[b]]
  /\ UNCHANGED <<picture, last>>

\* It gives out what it reads in a buffer.
Show(b) ==
  /\ owner[b] = "program"
  /\ picture[b] > last
  /\ last' = picture[b]
  /\ UNCHANGED <<owner, picture>>

Next ==
  \/ \E b \in Buffer : Fill(b) \/ Show(b)
  \/ \E B \in SUBSET Buffer : Lend(B) \/ TakeBack(B)

Spec == Init /\ [][Next]_vars
=============================================================================
