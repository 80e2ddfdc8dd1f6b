--------------------------- MODULE CapturesProofs ---------------------------
(***************************************************************************)
(* The captures of actfw_core, for any number of buffers and of pictures:  *)
(* UnicamCapture, V4LCapture and LibcameraCapture implement CaptureRing;   *)
(* what is left when they are over; and what their constructors compute.   *)
(***************************************************************************)
EXTENDS MCCaptures, RationalProofs, Sequences

-----------------------------------------------------------------------------
(* UnicamCapture: the pictures go through two devices and keep their order *)

\* A picture between the receiver and the ISP, one that is to become a frame.
Underway(r) == rawPlace[r] \in {"unicam_ready", "isp_waiting"}

ClockIsLatest ==
  /\ last <= clock
  /\ \A b \in Buffer : picture[b] <= clock
  /\ \A r \in Raw : rawPicture[r] <= clock

\* What is ready is newer than what was given out, and told apart.
ReadyIsNewer ==
  /\ \A b \in Buffer : place[b] = "ready" => picture[b] > last
  /\ \A b, c \in Buffer : place[b] = "ready" /\ place[c] = "ready" /\ b # c =>
       picture[b] # picture[c]

\* What is underway is newer than all that the ISP has made frames of, and what is
\* still with the receiver newer than what the ISP has.
UnderwayIsNewer ==
  /\ \A r \in Raw : Underway(r) =>
       rawPicture[r] > last /\ \A b \in Buffer : rawPicture[r] > picture[b]
  /\ \A r, s \in Raw : Underway(r) /\ Underway(s) /\ r # s => rawPicture[r] # rawPicture[s]
  /\ \A r, s \in Raw : rawPlace[r] = "unicam_ready" /\ rawPlace[s] = "isp_waiting" =>
       rawPicture[r] > rawPicture[s]

\* The buffer that is being read is the program's; before it was read its picture is
\* the oldest that is still to be given out.
InHand ==
  /\ pc \in {"convert", "requeue"} => \A b \in taken : place[b] = "program"
  /\ pc = "convert" => \A b \in taken :
       /\ picture[b] > last
       /\ \A c \in Buffer : place[c] = "ready" => picture[c] > picture[b]
       /\ \A r \in Raw : Underway(r) => rawPicture[r] > picture[b]

RawTypeOK ==
  /\ TypeOK
  /\ rawPlace \in [Raw -> RawPlaces]
  /\ rawPicture \in [Raw -> Nat]

\* Before run() no device has a buffer.
NoneLent == pc \in {"new", "setup", "request", "enqueue"} => \A b \in Buffer : place[b] = "program"

IInv == RawTypeOK /\ ClockIsLatest /\ ReadyIsNewer /\ UnderwayIsNewer /\ InHand

-----------------------------------------------------------------------------

LEMMA InitIInv == UnicamInit => IInv
<1> SUFFICES ASSUME UnicamInit PROVE IInv
  OBVIOUS
<1> USE DEF UnicamInit, Init
<1>1. TypeOK
  <2>1. place \in [Buffer -> Places] /\ picture \in [Buffer -> Nat]
    BY DEF Places
  <2>2. running \in BOOLEAN /\ raising \in BOOLEAN /\ opened \in BOOLEAN /\ streaming \in BOOLEAN
    BY Zenon
  <2>3. tries \in 0 .. 2 /\ clock \in Nat /\ taken \subseteq Buffer /\ last \in Nat
    BY SMT
  <2> QED BY <2>1, <2>2, <2>3 DEF TypeOK
<1>2. RawTypeOK
  BY <1>1 DEF RawTypeOK, RawPlaces
<1>3. ClockIsLatest /\ ReadyIsNewer
  BY DEF ClockIsLatest, ReadyIsNewer
<1>4. UnderwayIsNewer /\ InHand
  BY DEF UnderwayIsNewer, Underway, InHand
<1> QED BY <1>2, <1>3, <1>4 DEF IInv

\* A step that takes no picture, makes and gives out no frame keeps the invariant if
\* nothing more is ready or underway than before, in no other order.
LEMMA Keeping ==
  ASSUME IInv, RawTypeOK', InHand',
         UNCHANGED <<picture, clock, last, rawPicture>>,
         \A b \in Buffer : place'[b] = "ready" => place[b] = "ready",
         \A r \in Raw : Underway(r)' => Underway(r),
         \A r, s \in Raw : rawPlace'[r] = "unicam_ready" /\ rawPlace'[s] = "isp_waiting" =>
           rawPicture[r] > rawPicture[s]
  PROVE  IInv'
<1>1. ClockIsLatest'
  BY DEF IInv, ClockIsLatest
<1>2. ReadyIsNewer'
  BY DEF IInv, ReadyIsNewer
<1>3. UnderwayIsNewer'
  BY DEF IInv, UnderwayIsNewer
<1> QED BY <1>1, <1>2, <1>3 DEF IInv

\* One that leaves the DMA buffers alone, too.
LEMMA KeepingRaws ==
  ASSUME IInv, TypeOK', InHand',
         UNCHANGED <<picture, clock, last, rawPicture, rawPlace>>,
         \A b \in Buffer : place'[b] = "ready" => place[b] = "ready"
  PROVE  IInv'
<1>1. RawTypeOK'
  BY DEF IInv, RawTypeOK
<1>2. \A r \in Raw : Underway(r)' => Underway(r)
  BY DEF Underway
<1>3. \A r, s \in Raw : rawPlace'[r] = "unicam_ready" /\ rawPlace'[s] = "isp_waiting" =>
        rawPicture[r] > rawPicture[s]
  BY DEF IInv, UnderwayIsNewer
<1> QED BY <1>1, <1>2, <1>3, Keeping

LEMMA MoveType ==
  ASSUME TypeOK, NEW B, NEW to \in Places, Move(B, to)
  PROVE  /\ place' \in [Buffer -> Places]
         /\ \A b \in Buffer : place'[b] = IF b \in B THEN to ELSE place[b]
BY DEF TypeOK, Move

\* A DMA buffer goes on, or is dropped when QBUF raises.
LEMMA PassKeeps ==
  ASSUME IInv, NEW device, NEW from, NEW to \in RawPlaces, Pass(device, from, to),
         \/ from = "unicam_ready" /\ to = "isp_waiting"
         \/ from = "isp_ready" /\ to = "unicam_waiting"
  PROVE  IInv'
<1> USE DEF camera, process
<1>1. /\ UNCHANGED <<place, picture, clock, taken, last, rawPicture, running, process>>
      /\ pc = "handle" /\ pc' \in {"handle", "raised"}
  BY DEF Pass, Turn
<1>2. InHand'
  BY <1>1 DEF InHand
<1>3. TypeOK'
  <2>1. raising' \in BOOLEAN
    BY DEF Pass, IInv, RawTypeOK, TypeOK
  <2> QED BY <1>1, <2>1 DEF IInv, RawTypeOK, TypeOK
<1>4. CASE UNCHANGED rawPlace
  BY <1>1, <1>2, <1>3, <1>4, KeepingRaws
<1>5. CASE \E r \in RawIn(from) : /\ IsOldestRaw(r, RawIn(from))
                                  /\ \/ rawPlace' = [rawPlace EXCEPT ![r] = to]
                                     \/ rawPlace' = [rawPlace EXCEPT ![r] = "program"]
  <2>1. PICK r \in RawIn(from) : /\ IsOldestRaw(r, RawIn(from))
                                 /\ \/ rawPlace' = [rawPlace EXCEPT ![r] = to]
                                    \/ rawPlace' = [rawPlace EXCEPT ![r] = "program"]
    BY <1>5
  <2>2. r \in Raw /\ rawPlace[r] = from
    BY DEF RawIn
  <2>3. /\ rawPlace' \in [Raw -> RawPlaces]
        /\ rawPlace'[r] \in {to, "program"}
        /\ \A s \in Raw : s # r => rawPlace'[s] = rawPlace[s]
    BY <2>1, <2>2 DEF IInv, RawTypeOK, RawPlaces
  <2>4. RawTypeOK'
    BY <1>1, <1>3, <2>3 DEF IInv, RawTypeOK
  <2>5. \A s \in Raw : Underway(s)' => Underway(s)
    BY <2>2, <2>3 DEF Underway
  <2>6. ASSUME NEW s \in Raw, NEW t \in Raw,
               rawPlace'[s] = "unicam_ready", rawPlace'[t] = "isp_waiting"
        PROVE  rawPicture[s] > rawPicture[t]
    <3>1. s # r /\ rawPlace[s] = "unicam_ready"
      BY <2>3, <2>6
    <3>2. rawPicture[s] \in Nat /\ rawPicture[t] \in Nat
      BY DEF IInv, RawTypeOK
    <3>3. CASE t # r
      BY <2>3, <2>6, <3>1, <3>3 DEF IInv, UnderwayIsNewer
    <3>4. CASE t = r
      <4>1. from = "unicam_ready"
        BY <2>3, <2>6, <3>4
      <4>2. rawPicture[r] <= rawPicture[s]
        BY <2>1, <3>1, <4>1 DEF IsOldestRaw, RawIn
      <4>3. rawPicture[r] # rawPicture[s]
        BY <2>2, <3>1, <4>1 DEF IInv, UnderwayIsNewer, Underway
      <4> QED BY <3>2, <3>4, <4>2, <4>3
    <3> QED BY <3>3, <3>4
  <2> QED BY <1>1, <1>2, <2>4, <2>5, <2>6, Keeping
<1> QED BY <1>4, <1>5 DEF Pass

LEMMA StepIInv == IInv /\ [Next]_vars => IInv'
<1> SUFFICES ASSUME IInv, [Next]_vars PROVE IInv'
  OBVIOUS
<1> USE DEF program, process, camera, raws
<1>1. CASE OpenDevices
  <2>1. TypeOK'
    <3>1. opened' \in BOOLEAN
      BY <1>1, Zenon DEF OpenDevices
    <3> QED BY <1>1, <3>1 DEF OpenDevices, IInv, RawTypeOK, TypeOK
  <2>2. UNCHANGED <<place, picture, clock, taken, last, raws>> /\ pc' \notin {"convert", "requeue"}
    BY <1>1 DEF OpenDevices, Goto
  <2>3. InHand'
    BY <2>2 DEF InHand
  <2> QED BY <2>1, <2>2, <2>3, KeepingRaws
<1>2. CASE SetupPipeline \/ RequestBuffer \/ CheckRunning \/ Select \/ AllHandled
  <2>1. /\ UNCHANGED <<program, place, picture, clock, taken, last, raws>>
        /\ pc' \notin {"convert", "requeue"}
    BY <1>2 DEF SetupPipeline, RequestBuffer, CheckRunning, Select, AllHandled, Goto
  <2>2. TypeOK'
    BY <2>1 DEF IInv, RawTypeOK, TypeOK
  <2>3. InHand'
    BY <2>1 DEF InHand
  <2> QED BY <2>1, <2>2, <2>3, KeepingRaws
<1>3. CASE QueueAllBuffers
  <2>1. /\ UNCHANGED <<program, picture, clock, taken, last, rawPicture>>
        /\ pc' \notin {"convert", "requeue"}
    BY <1>3 DEF QueueAllBuffers, Goto
  <2>2. InHand'
    BY <2>1 DEF InHand
  <2>3. CASE UNCHANGED <<place, rawPlace>>
    <3>1. TypeOK'
      BY <2>1, <2>3 DEF IInv, RawTypeOK, TypeOK
    <3> QED BY <2>1, <2>2, <2>3, <3>1, KeepingRaws
  <2>4. CASE Move(Buffer, "waiting") /\ rawPlace' = [r \in Raw |-> "unicam_waiting"]
    <3>1. /\ place' \in [Buffer -> Places]
          /\ \A b \in Buffer : place'[b] = "waiting"
      BY <2>4, MoveType DEF IInv, RawTypeOK, Places
    <3>2. RawTypeOK'
      BY <2>1, <2>4, <3>1 DEF IInv, RawTypeOK, TypeOK, RawPlaces
    <3>3. \A r \in Raw : rawPlace'[r] = "unicam_waiting"
      BY <2>4
    <3>4. \A r \in Raw : ~ Underway(r)'
      BY <3>3 DEF Underway
    <3> QED BY <2>1, <2>2, <3>1, <3>2, <3>3, <3>4, Keeping
  <2> QED BY <1>3, <2>3, <2>4 DEF QueueAllBuffers
<1>4. CASE StartStreaming
  <2>1. /\ UNCHANGED <<running, raising, tries, opened, place, picture, clock, taken, last, raws>>
        /\ pc' \notin {"convert", "requeue"}
    BY <1>4 DEF StartStreaming, Goto
  <2>2. streaming' \in BOOLEAN
    BY <1>4, Zenon DEF StartStreaming
  <2>3. TypeOK'
    BY <2>1, <2>2 DEF IInv, RawTypeOK, TypeOK
  <2>4. InHand'
    BY <2>1 DEF InHand
  <2> QED BY <2>1, <2>3, <2>4, KeepingRaws
<1>5. CASE SelectTimeout
  <2>1. /\ UNCHANGED <<running, process, place, picture, clock, taken, last, raws>>
        /\ pc' \notin {"convert", "requeue"} /\ raising' = TRUE
    BY <1>5 DEF SelectTimeout, Goto
  <2>2. TypeOK'
    BY <2>1 DEF IInv, RawTypeOK, TypeOK
  <2>3. InHand'
    BY <2>1 DEF InHand
  <2> QED BY <2>1, <2>2, <2>3, KeepingRaws
<1>6. CASE Unicam2Isp
  BY <1>6, PassKeeps DEF Unicam2Isp, RawPlaces
<1>7. CASE Isp2Unicam
  BY <1>7, PassKeeps DEF Isp2Unicam, RawPlaces
<1>8. CASE DequeueImage
  <2>1. PICK b \in In("ready") : IsOldest(b, In("ready")) /\ Move({b}, "program") /\ taken' = {b}
    BY <1>8 DEF DequeueImage
  <2>2. b \in Buffer /\ place[b] = "ready" /\ UNCHANGED <<program, picture, clock, last, raws>>
    BY <1>8 DEF DequeueImage, In
  <2>3. /\ place' \in [Buffer -> Places]
        /\ \A c \in Buffer : place'[c] = IF c = b THEN "program" ELSE place[c]
    BY <2>1, MoveType DEF IInv, RawTypeOK, Places
  <2>4. TypeOK'
    BY <2>1, <2>2, <2>3 DEF IInv, RawTypeOK, TypeOK
  <2>5. picture[b] > last /\ \A r \in Raw : Underway(r) => rawPicture[r] > picture[b]
    BY <2>2 DEF IInv, ReadyIsNewer, UnderwayIsNewer
  <2>6. \A c \in Buffer : place'[c] = "ready" => picture[c] > picture[b]
    <3> SUFFICES ASSUME NEW c \in Buffer, place'[c] = "ready" PROVE picture[c] > picture[b]
      OBVIOUS
    <3>1. c # b /\ place[c] = "ready"
      BY <2>3
    <3>2. picture[b] <= picture[c]
      BY <2>1, <3>1 DEF IsOldest, In
    <3>3. picture[b] # picture[c]
      BY <2>2, <3>1 DEF IInv, ReadyIsNewer
    <3> QED BY <2>2, <3>2, <3>3 DEF IInv, RawTypeOK, TypeOK
  <2>7. InHand'
    BY <2>1, <2>2, <2>3, <2>5, <2>6 DEF InHand, Underway
  <2> QED BY <2>2, <2>3, <2>4, <2>7, KeepingRaws
<1>9. CASE ProduceImage
  <2>1. PICK b \in taken : last' = picture[b]
    BY <1>9 DEF ProduceImage
  <2>2. /\ pc = "convert" /\ pc' = "requeue"
        /\ UNCHANGED <<program, place, picture, clock, taken, raws>>
    BY <1>9 DEF ProduceImage, Goto
  <2>3. b \in Buffer /\ picture[b] \in Nat
    BY <2>1 DEF IInv, RawTypeOK, TypeOK
  <2>4. RawTypeOK'
    BY <2>1, <2>2, <2>3 DEF IInv, RawTypeOK, TypeOK
  <2>5. ReadyIsNewer' /\ ClockIsLatest'
    BY <2>1, <2>2, <2>3 DEF IInv, InHand, ReadyIsNewer, ClockIsLatest
  <2>6. UnderwayIsNewer'
    BY <2>1, <2>2, <2>3 DEF IInv, InHand, UnderwayIsNewer, Underway
  <2>7. InHand'
    BY <2>2 DEF IInv, InHand
  <2> QED BY <2>4, <2>5, <2>6, <2>7 DEF IInv
<1>10. CASE RequeueImage
  <2>1. /\ Move(taken, "waiting") /\ pc' = "handle" /\ taken' = {}
        /\ UNCHANGED <<program, picture, clock, last, raws>>
    BY <1>10 DEF RequeueImage, Goto
  <2>2. /\ place' \in [Buffer -> Places]
        /\ \A b \in Buffer : place'[b] = "ready" => place[b] = "ready"
    BY <2>1, MoveType DEF IInv, RawTypeOK, Places
  <2>3. TypeOK'
    BY <2>1, <2>2 DEF IInv, RawTypeOK, TypeOK
  <2>4. InHand'
    BY <2>1 DEF InHand
  <2> QED BY <2>1, <2>2, <2>3, <2>4, KeepingRaws
<1>11. CASE AdjustSettingFromIsp \/ ReceiveUnicamMeta
  <2>1. UNCHANGED <<pc, program, place, picture, clock, taken, last, raws>>
    BY <1>11 DEF AdjustSettingFromIsp, ReceiveUnicamMeta, UseMetadata
  <2>2. TypeOK' /\ InHand'
    BY <2>1 DEF IInv, RawTypeOK, TypeOK, InHand, Underway
  <2> QED BY <2>1, <2>2, KeepingRaws
<1>12. CASE HandlerRaises
  <2>1. /\ UNCHANGED <<running, process, place, picture, clock, last, raws>>
        /\ pc' = "raised" /\ raising' = TRUE /\ taken' = {}
    BY <1>12 DEF HandlerRaises, Goto
  <2>2. TypeOK'
    BY <2>1 DEF IInv, RawTypeOK, TypeOK
  <2>3. InHand'
    BY <2>1 DEF InHand
  <2> QED BY <2>1, <2>2, <2>3, KeepingRaws
<1>13. CASE ExposeRaw
  <2>1. UNCHANGED <<pc, program, place, picture, taken, last>> /\ clock' = clock + 1
    BY <1>13 DEF ExposeRaw
  <2>2. TypeOK' /\ ReadyIsNewer'
    BY <2>1 DEF IInv, RawTypeOK, TypeOK, ReadyIsNewer
  <2>3. CASE UNCHANGED raws
    <3>1. RawTypeOK' /\ ClockIsLatest'
      BY <2>1, <2>2, <2>3 DEF IInv, RawTypeOK, TypeOK, ClockIsLatest
    <3>2. UnderwayIsNewer' /\ InHand'
      BY <2>1, <2>3 DEF IInv, UnderwayIsNewer, InHand, Underway
    <3> QED BY <2>2, <3>1, <3>2 DEF IInv
  <2>4. CASE \E r \in RawIn("unicam_waiting") :
               /\ rawPlace' = [rawPlace EXCEPT ![r] = "unicam_ready"]
               /\ rawPicture' = [rawPicture EXCEPT ![r] = clock']
    <3>1. PICK r \in RawIn("unicam_waiting") :
               /\ rawPlace' = [rawPlace EXCEPT ![r] = "unicam_ready"]
               /\ rawPicture' = [rawPicture EXCEPT ![r] = clock']
      BY <2>4
    <3>2. r \in Raw /\ rawPlace[r] = "unicam_waiting"
      BY DEF RawIn
    <3>3. /\ rawPlace' \in [Raw -> RawPlaces] /\ rawPicture' \in [Raw -> Nat]
          /\ rawPlace'[r] = "unicam_ready" /\ rawPicture'[r] = clock + 1
          /\ \A s \in Raw : s # r => rawPlace'[s] = rawPlace[s] /\ rawPicture'[s] = rawPicture[s]
      <4>1. clock \in Nat /\ rawPlace \in [Raw -> RawPlaces] /\ rawPicture \in [Raw -> Nat]
        BY DEF IInv, RawTypeOK, TypeOK
      <4>2. "unicam_ready" \in RawPlaces /\ clock' \in Nat
        BY <2>1, <4>1 DEF RawPlaces
      <4> QED BY <2>1, <3>1, <3>2, <4>1, <4>2
    <3>4. RawTypeOK'
      BY <2>2, <3>3 DEF RawTypeOK
    <3>5. /\ clock \in Nat /\ last \in Nat /\ last <= clock
          /\ \A b \in Buffer : picture[b] \in Nat /\ picture[b] <= clock
          /\ \A s \in Raw : rawPicture[s] \in Nat /\ rawPicture[s] <= clock
      BY DEF IInv, RawTypeOK, TypeOK, ClockIsLatest
    <3>6. ClockIsLatest'
      <4>1. \A s \in Raw : rawPicture'[s] <= clock + 1
        BY <3>3, <3>5
      <4> QED BY <2>1, <3>5, <4>1 DEF ClockIsLatest
    <3>7. UnderwayIsNewer'
      <4>1. \A s \in Raw : Underway(s)' =>
              rawPicture'[s] > last /\ \A b \in Buffer : rawPicture'[s] > picture[b]
        BY <3>3, <3>5 DEF IInv, UnderwayIsNewer, Underway
      <4>2. \A s, t \in Raw : Underway(s)' /\ Underway(t)' /\ s # t =>
              rawPicture'[s] # rawPicture'[t]
        <5>1. \A s \in Raw : s # r => rawPicture'[s] # rawPicture'[r]
          BY <3>3, <3>5
        <5>2. \A s, t \in Raw : s # r /\ t # r /\ Underway(s)' /\ Underway(t)' /\ s # t =>
                rawPicture'[s] # rawPicture'[t]
          BY <3>3 DEF IInv, UnderwayIsNewer, Underway
        <5> QED BY <5>1, <5>2
      <4>3. \A s, t \in Raw : rawPlace'[s] = "unicam_ready" /\ rawPlace'[t] = "isp_waiting" =>
              rawPicture'[s] > rawPicture'[t]
        BY <3>3, <3>5 DEF IInv, UnderwayIsNewer
      <4> QED BY <2>1, <4>1, <4>2, <4>3 DEF UnderwayIsNewer
    <3>8. InHand'
      <4>1. taken \subseteq Buffer
        BY DEF IInv, RawTypeOK, TypeOK
      <4> QED BY <2>1, <3>3, <3>5, <4>1 DEF IInv, InHand, Underway
    <3> QED BY <2>2, <3>4, <3>6, <3>7, <3>8 DEF IInv
  <2> QED BY <1>13, <2>3, <2>4 DEF ExposeRaw
<1>14. CASE IspProcess
  <2>1. PICK r \in RawIn("isp_waiting") :
             /\ IsOldestRaw(r, RawIn("isp_waiting"))
             /\ rawPlace' = [rawPlace EXCEPT ![r] = "isp_ready"]
             /\ \/ UNCHANGED <<place, picture>>
                \/ \E b \in In("waiting") : /\ place' = [place EXCEPT ![b] = "ready"]
                                            /\ picture' = [picture EXCEPT ![b] = rawPicture[r]]
    BY <1>14 DEF IspProcess
  <2>2. UNCHANGED <<pc, program, clock, taken, last, rawPicture>>
    BY <1>14 DEF IspProcess
  <2>3. r \in Raw /\ rawPlace[r] = "isp_waiting" /\ Underway(r)
    BY DEF RawIn, Underway
  <2>4. /\ rawPlace' \in [Raw -> RawPlaces]
        /\ rawPlace'[r] = "isp_ready"
        /\ \A s \in Raw : s # r => rawPlace'[s] = rawPlace[s]
    BY <2>1, <2>3 DEF IInv, RawTypeOK, RawPlaces
  <2>5. \A s \in Raw : Underway(s)' => s # r /\ Underway(s)
    BY <2>4 DEF Underway
  <2>6. \A s, t \in Raw : rawPlace'[s] = "unicam_ready" /\ rawPlace'[t] = "isp_waiting" =>
          rawPicture[s] > rawPicture[t]
    BY <2>4 DEF IInv, UnderwayIsNewer
  <2>7. CASE UNCHANGED <<place, picture>>
    <3>1. RawTypeOK'
      BY <2>2, <2>4, <2>7 DEF IInv, RawTypeOK, TypeOK
    <3>2. InHand'
      BY <2>2, <2>5, <2>7 DEF IInv, InHand
    <3> QED BY <2>2, <2>5, <2>6, <2>7, <3>1, <3>2, Keeping
  <2>8. CASE \E b \in In("waiting") : /\ place' = [place EXCEPT ![b] = "ready"]
                                      /\ picture' = [picture EXCEPT ![b] = rawPicture[r]]
    <3>1. PICK b \in In("waiting") : /\ place' = [place EXCEPT ![b] = "ready"]
                                     /\ picture' = [picture EXCEPT ![b] = rawPicture[r]]
      BY <2>8
    <3>2. b \in Buffer /\ place[b] = "waiting"
      BY DEF In
    <3>3. rawPicture[r] \in Nat /\ rawPicture[r] > last /\ rawPicture[r] <= clock
          /\ \A c \in Buffer : rawPicture[r] > picture[c]
      BY <2>3 DEF IInv, RawTypeOK, ClockIsLatest, UnderwayIsNewer
    <3>4. /\ place' \in [Buffer -> Places] /\ picture' \in [Buffer -> Nat]
          /\ place'[b] = "ready" /\ picture'[b] = rawPicture[r]
          /\ \A c \in Buffer : c # b => place'[c] = place[c] /\ picture'[c] = picture[c]
      BY <3>1, <3>2, <3>3 DEF IInv, RawTypeOK, TypeOK, Places
    <3>5. RawTypeOK'
      BY <2>2, <2>4, <3>4 DEF IInv, RawTypeOK, TypeOK
    <3>6. ClockIsLatest'
      BY <2>2, <3>3, <3>4 DEF IInv, ClockIsLatest
    <3>7. ReadyIsNewer'
      <4>1. \A c \in Buffer : place'[c] = "ready" => picture'[c] > last
        BY <3>3, <3>4 DEF IInv, ReadyIsNewer
      <4>2. \A c \in Buffer : c # b => picture'[c] # picture'[b]
        <5>1. \A c \in Buffer : picture[c] \in Nat
          BY DEF IInv, RawTypeOK, TypeOK
        <5> QED BY <3>3, <3>4, <5>1
      <4>3. \A c, d \in Buffer : c # b /\ d # b /\ place'[c] = "ready" /\ place'[d] = "ready"
                /\ c # d => picture'[c] # picture'[d]
        BY <3>4 DEF IInv, ReadyIsNewer
      <4>4. \A c, d \in Buffer : place'[c] = "ready" /\ place'[d] = "ready" /\ c # d =>
              picture'[c] # picture'[d]
        BY <4>2, <4>3
      <4> QED BY <2>2, <4>1, <4>4 DEF ReadyIsNewer
    <3>8. \A s \in Raw : Underway(s)' => rawPicture[s] > rawPicture[r]
      <4> SUFFICES ASSUME NEW s \in Raw, Underway(s)' PROVE rawPicture[s] > rawPicture[r]
        OBVIOUS
      <4>1. s # r /\ Underway(s)
        BY <2>5
      <4>2. CASE rawPlace[s] = "unicam_ready"
        BY <2>3, <4>2 DEF IInv, UnderwayIsNewer
      <4>3. CASE rawPlace[s] = "isp_waiting"
        <5>1. rawPicture[r] <= rawPicture[s]
          BY <2>1, <4>3 DEF IsOldestRaw, RawIn
        <5>2. rawPicture[r] # rawPicture[s]
          BY <2>3, <4>1 DEF IInv, UnderwayIsNewer
        <5>3. rawPicture[r] \in Nat /\ rawPicture[s] \in Nat
          BY <2>3 DEF IInv, RawTypeOK
        <5> QED BY <5>1, <5>2, <5>3
      <4> QED BY <4>1, <4>2, <4>3 DEF Underway
    <3>9. UnderwayIsNewer'
      <4>1. \A s \in Raw : Underway(s)' =>
              rawPicture[s] > last /\ \A c \in Buffer : rawPicture[s] > picture'[c]
        BY <2>5, <3>4, <3>8 DEF IInv, UnderwayIsNewer
      <4>2. \A s, t \in Raw : Underway(s)' /\ Underway(t)' /\ s # t =>
              rawPicture[s] # rawPicture[t]
        BY <2>5 DEF IInv, UnderwayIsNewer
      <4> QED BY <2>2, <2>6, <4>1, <4>2 DEF UnderwayIsNewer
    <3>10. InHand'
      <4>1. \A c \in taken : place[c] = "program" => c \in Buffer /\ c # b
        BY <3>2 DEF IInv, RawTypeOK, TypeOK
      <4>2. pc = "convert" => \A c \in taken : rawPicture[r] > picture[c]
        BY <2>3 DEF IInv, InHand
      <4> QED BY <2>2, <2>5, <3>4, <4>1, <4>2 DEF IInv, InHand
    <3> QED BY <3>5, <3>6, <3>7, <3>9, <3>10 DEF IInv
  <2> QED BY <2>1, <2>7, <2>8
<1>15. CASE StopTask
  <2>1. /\ UNCHANGED <<pc, raising, process, place, picture, clock, taken, last, raws>>
        /\ running' = FALSE
    BY <1>15 DEF StopTask, Stop
  <2>2. TypeOK' /\ InHand'
    BY <2>1 DEF IInv, RawTypeOK, TypeOK, InHand, Underway
  <2> QED BY <2>1, <2>2, KeepingRaws
<1>16. CASE AllEnded \/ UNCHANGED vars
  <2>1. UNCHANGED <<pc, program, place, picture, clock, taken, last, raws>>
    BY <1>16 DEF AllEnded, Ended, vars, shared
  <2>2. TypeOK' /\ InHand'
    BY <2>1 DEF IInv, RawTypeOK, TypeOK, InHand, Underway
  <2> QED BY <2>1, <2>2, KeepingRaws
<1> QED
  BY <1>1, <1>2, <1>3, <1>4, <1>5, <1>6, <1>7, <1>8, <1>9, <1>10, <1>11, <1>12, <1>13,
     <1>14, <1>15, <1>16 DEF Next, Program

LEMMA StepNoneLent == NoneLent /\ [Next]_vars => NoneLent'
<1> SUFFICES ASSUME NoneLent, [Next]_vars PROVE NoneLent'
  OBVIOUS
<1> USE DEF NoneLent, program, process, camera, raws
<1>1. CASE IspProcess
  BY <1>1 DEF IspProcess, In
<1>2. CASE OpenDevices \/ SetupPipeline \/ RequestBuffer \/ QueueAllBuffers \/ StartStreaming
  BY <1>2 DEF OpenDevices, SetupPipeline, RequestBuffer, QueueAllBuffers, StartStreaming, Goto
<1>3. CASE CheckRunning \/ Select \/ SelectTimeout \/ DequeueImage \/ ProduceImage
             \/ RequeueImage \/ HandlerRaises \/ AllHandled
  BY <1>3 DEF CheckRunning, Select, SelectTimeout, DequeueImage, ProduceImage, RequeueImage,
              HandlerRaises, AllHandled, Goto
<1>4. CASE Unicam2Isp \/ Isp2Unicam \/ AdjustSettingFromIsp \/ ReceiveUnicamMeta
  BY <1>4 DEF Unicam2Isp, Isp2Unicam, Pass, Turn, AdjustSettingFromIsp, ReceiveUnicamMeta,
              UseMetadata
<1>5. CASE ExposeRaw \/ StopTask \/ AllEnded \/ UNCHANGED vars
  BY <1>5 DEF ExposeRaw, StopTask, Stop, AllEnded, Ended, vars, shared
<1> QED
  BY <1>1, <1>2, <1>3, <1>4, <1>5 DEF Next, Program

\* IInv holds in every state of a Unicam capture: the refinement and the types rest on
\* it.
THEOREM Invariant == Spec => [](IInv /\ NoneLent)
<1>1. UnicamInit => NoneLent
  BY DEF UnicamInit, Init, NoneLent
<1> QED BY <1>1, InitIInv, StepIInv, StepNoneLent, PTL DEF Spec

StatsTypeOK ==
  /\ stats \in [Metadata -> 0 .. MaxStats]
  /\ todo \subseteq {Device[i] : i \in DOMAIN Device}

LEMMA StepStatsTypeOK ==
  ASSUME MaxStats \in Nat, StatsTypeOK, [Next]_vars PROVE StatsTypeOK'
<1> USE DEF StatsTypeOK
<1>1. \/ UNCHANGED stats
      \/ \E m \in Metadata : Emit(m)
      \/ \E m \in Metadata : stats[m] > 0 /\ stats' = [stats EXCEPT ![m] = @ - 1]
  BY DEF Next, Program, vars, OpenDevices, SetupPipeline, RequestBuffer, QueueAllBuffers,
         StartStreaming, CheckRunning, Select, SelectTimeout, Unicam2Isp, Isp2Unicam, Pass,
         DequeueImage, ProduceImage, RequeueImage, AdjustSettingFromIsp, ReceiveUnicamMeta,
         UseMetadata, Metadata, HandlerRaises, AllHandled, ExposeRaw, IspProcess, StopTask,
         AllEnded
<1>2. stats' \in [Metadata -> 0 .. MaxStats]
  <2>1. CASE UNCHANGED stats
    BY <2>1
  <2>2. CASE \E m \in Metadata : Emit(m)
    BY <2>2 DEF Emit
  <2>3. CASE \E m \in Metadata : stats[m] > 0 /\ stats' = [stats EXCEPT ![m] = @ - 1]
    BY <2>3
  <2> QED BY <1>1, <2>1, <2>2, <2>3
<1>3. todo' \subseteq todo \/ todo' \in {Reported, Reported \cup {"isp_in"}}
  BY DEF Next, Program, vars, OpenDevices, SetupPipeline, RequestBuffer, QueueAllBuffers,
         StartStreaming, CheckRunning, Select, SelectTimeout, Unicam2Isp, Isp2Unicam, Pass,
         DequeueImage, ProduceImage, RequeueImage, AdjustSettingFromIsp, ReceiveUnicamMeta,
         UseMetadata, HandlerRaises, AllHandled, ExposeRaw, IspProcess, StopTask, AllEnded,
         Handled
<1>4. Reported \subseteq {Device[i] : i \in DOMAIN Device}
  BY DEF Reported
<1>5. "isp_in" \in {Device[i] : i \in DOMAIN Device}
  <2>1. 5 \in DOMAIN Device /\ Device[5] = "isp_in"
    BY DEF Device
  <2> QED BY <2>1
<1> QED BY <1>2, <1>3, <1>4, <1>5

\* The variables keep their types, those of the devices, too (UnicamIspCapture).
THEOREM TypeCorrect == ASSUME MaxStats \in Nat PROVE Spec => []UnicamTypeOK
<1>1. UnicamInit => StatsTypeOK
  BY DEF UnicamInit, StatsTypeOK
<1>2. StatsTypeOK /\ [Next]_vars => StatsTypeOK'
  BY StepStatsTypeOK
<1>3. IInv /\ StatsTypeOK => UnicamTypeOK
  BY DEF IInv, RawTypeOK, StatsTypeOK, UnicamTypeOK
<1> QED BY <1>1, <1>2, <1>3, Invariant, PTL DEF Spec

-----------------------------------------------------------------------------
(* UnicamCapture implements CaptureRing *)

\* Moves of buffers are what CaptureRing calls lending and taking back.
LEMMA MoveIsRing ==
  ASSUME TypeOK, NEW B, B \subseteq Buffer, NEW to \in Places, Move(B, to),
         UNCHANGED <<picture, last>>,
         to # "program" => \A b \in B : place[b] = "program"
  PROVE  Ring!Next
<1>1. \A b \in Buffer : place'[b] = IF b \in B THEN to ELSE place[b]
  BY MoveType
<1>2. CASE to = "program"
  <2>1. Ring!TakeBack(B)
    BY <1>1, <1>2 DEF Ring!TakeBack
  <2> QED BY <2>1 DEF Ring!Next
<1>3. CASE to # "program"
  <2>1. Ring!Lend(B)
    BY <1>1, <1>3 DEF Ring!Lend
  <2> QED BY <2>1 DEF Ring!Next
<1> QED BY <1>2, <1>3

LEMMA StepIsRing == IInv /\ NoneLent /\ [Next]_vars => [Ring!Next]_(Ring!vars)
<1> SUFFICES ASSUME IInv, NoneLent, [Next]_vars, ~ UNCHANGED <<place, picture, last>> PROVE Ring!Next
  BY DEF Ring!vars
<1> USE DEF program, process, camera, raws
<1>1. CASE QueueAllBuffers
  <2>1. Move(Buffer, "waiting") /\ UNCHANGED <<picture, last>> /\ pc = "enqueue"
    BY <1>1 DEF QueueAllBuffers, Goto
  <2>2. \A b \in Buffer : place[b] = "program"
    BY <2>1 DEF NoneLent
  <2> QED BY <2>1, <2>2, MoveIsRing DEF Places, IInv, RawTypeOK
<1>2. CASE DequeueImage
  <2>1. PICK b \in In("ready") : Move({b}, "program")
    BY <1>2 DEF DequeueImage
  <2>2. UNCHANGED <<picture, last>>
    BY <1>2 DEF DequeueImage
  <2> QED BY <2>1, <2>2, MoveIsRing DEF In, Places, IInv, RawTypeOK
<1>3. CASE ProduceImage
  <2>1. PICK b \in taken : last' = picture[b]
    BY <1>3 DEF ProduceImage
  <2>2. b \in Buffer /\ place[b] = "program" /\ picture[b] > last /\ UNCHANGED <<place, picture>>
    BY <1>3 DEF ProduceImage, Goto, IInv, InHand, RawTypeOK, TypeOK
  <2>3. Ring!Show(b)
    BY <2>1, <2>2 DEF Ring!Show
  <2> QED BY <2>2, <2>3 DEF Ring!Next
<1>4. CASE RequeueImage
  <2>1. /\ taken \subseteq Buffer /\ \A b \in taken : place[b] = "program"
        /\ Move(taken, "waiting") /\ UNCHANGED <<picture, last>>
    BY <1>4 DEF RequeueImage, Goto, IInv, InHand, RawTypeOK, TypeOK
  <2> QED BY <2>1, MoveIsRing DEF Places, IInv, RawTypeOK
<1>5. CASE IspProcess
  <2>1. PICK r \in RawIn("isp_waiting"), b \in In("waiting") :
             /\ place' = [place EXCEPT ![b] = "ready"]
             /\ picture' = [picture EXCEPT ![b] = rawPicture[r]]
    BY <1>5 DEF IspProcess
  <2>2. b \in Buffer /\ place[b] = "waiting" /\ r \in Raw /\ Underway(r) /\ UNCHANGED last
    BY <1>5 DEF IspProcess, In, RawIn, Underway
  <2>3. \A c \in Buffer : (place'[c] = "program") = (place[c] = "program")
    BY <2>1, <2>2 DEF IInv, RawTypeOK, TypeOK
  <2>4. picture'[b] = rawPicture[r] /\ picture' = [picture EXCEPT ![b] = picture'[b]]
    BY <2>1, <2>2 DEF IInv, RawTypeOK, TypeOK
  <2>5. \A c \in Buffer : picture'[b] > picture[c]
    BY <2>2, <2>4 DEF IInv, UnderwayIsNewer
  <2>6. Ring!Fill(b)
    BY <2>2, <2>3, <2>4, <2>5 DEF Ring!Fill
  <2> QED BY <2>2, <2>6 DEF Ring!Next
<1>6. CASE OpenDevices \/ SetupPipeline \/ RequestBuffer \/ StartStreaming \/ CheckRunning
             \/ Select \/ SelectTimeout \/ HandlerRaises \/ AllHandled
  BY <1>6 DEF OpenDevices, SetupPipeline, RequestBuffer, StartStreaming, CheckRunning, Select,
              SelectTimeout, HandlerRaises, AllHandled
<1>7. CASE Unicam2Isp \/ Isp2Unicam \/ AdjustSettingFromIsp \/ ReceiveUnicamMeta
  BY <1>7 DEF Unicam2Isp, Isp2Unicam, Pass, AdjustSettingFromIsp, ReceiveUnicamMeta, UseMetadata
<1>8. CASE ExposeRaw \/ StopTask \/ AllEnded \/ UNCHANGED vars
  BY <1>8 DEF ExposeRaw, StopTask, Stop, AllEnded, Ended, vars, shared
<1> QED
  BY <1>1, <1>2, <1>3, <1>4, <1>5, <1>6, <1>7, <1>8 DEF Next, Program

LEMMA InitIsRing == UnicamInit => Ring!Init
BY DEF UnicamInit, Init, Ring!Init

\* The capture never reads a buffer the camera may write, gives out no picture twice
\* and none older than the last (UnicamIspCapture.run), for any number of buffers of
\* either kind, whatever is lost and whatever handler raises.
THEOREM BuffersGoRoundHolds == Spec => BuffersGoRound
BY InitIsRing, StepIsRing, Invariant, PTL DEF Spec, BuffersGoRound, Ring!Spec

-----------------------------------------------------------------------------
(* The order of the pictures, in a V4L or a libcamera capture *)

ClockLeads ==
  /\ last <= clock
  /\ \A b \in Buffer : picture[b] <= clock

\* run() has taken buffers it is about to read, and buffers one of which it has read.
Unread == pc \in {"convert", "handle"}
Read == pc \in {"requeue", "reuse"}

\* The buffers that are taken are the program's; their pictures are told apart, still to
\* be given out, all but the last one read, and older than all that are ready.
TakenInOrder ==
  Unread \/ Read =>
    /\ \A b \in taken : place[b] = "program" /\ picture[b] >= last
    /\ Unread => \A b \in taken : picture[b] > last
    /\ \A b, c \in taken : b # c => picture[b] # picture[c]
    /\ \A b \in taken, c \in Buffer : place[c] = "ready" => picture[c] > picture[b]
    /\ pc = "convert" => \A b, c \in taken : b = c

InOrder == TypeOK /\ ClockLeads /\ ReadyIsNewer /\ TakenInOrder

\* libcamera has no buffer before the first request, and then those that were queued.
NotYetLent ==
  /\ pc \in {"new", "setup", "allocate", "start"} =>
       taken = {} /\ \A b \in Buffer : place[b] = "program"
  /\ pc = "submit" => \A b \in Buffer \ taken : place[b] = "program"

LEMMA InitInOrder == Init => InOrder /\ NotYetLent
<1> SUFFICES ASSUME Init PROVE InOrder /\ NotYetLent
  OBVIOUS
<1> USE DEF Init
<1>1. TypeOK
  <2>1. place \in [Buffer -> Places] /\ picture \in [Buffer -> Nat]
    BY DEF Places
  <2>2. running \in BOOLEAN /\ raising \in BOOLEAN /\ opened \in BOOLEAN /\ streaming \in BOOLEAN
    BY Zenon
  <2>3. tries \in 0 .. 2 /\ clock \in Nat /\ taken \subseteq Buffer /\ last \in Nat
    BY SMT
  <2> QED BY <2>1, <2>2, <2>3 DEF TypeOK
<1>2. ClockLeads /\ ReadyIsNewer /\ TakenInOrder
  BY DEF ClockLeads, ReadyIsNewer, TakenInOrder, Unread, Read
<1>3. NotYetLent
  BY DEF NotYetLent
<1> QED BY <1>1, <1>2, <1>3 DEF InOrder

\* A step that takes no picture and gives out nothing keeps the order if no more
\* buffers are ready than before.
LEMMA KeepingOrder ==
  ASSUME InOrder, TypeOK', UNCHANGED <<picture, clock, last>>,
         \A b \in Buffer : place'[b] = "ready" => place[b] = "ready",
         TakenInOrder'
  PROVE  InOrder'
BY DEF InOrder, ClockLeads, ReadyIsNewer, TypeOK

\* One that does not take, read or hand back a buffer, either.
LEMMA KeepingBuffers ==
  ASSUME InOrder, TypeOK', UNCHANGED <<place, picture, clock, taken, last>>,
         UNCHANGED pc \/ ~ (Unread \/ Read)'
  PROVE  InOrder'
<1>1. TakenInOrder'
  BY DEF InOrder, TakenInOrder, Unread, Read
<1> QED BY <1>1, KeepingOrder

\* One that moves buffers away from the camera or to it, when run() has none in hand.
LEMMA MovingKeeps ==
  ASSUME InOrder, NEW B, B \subseteq Buffer, NEW to \in Places, to # "ready", Move(B, to),
         UNCHANGED <<running, raising, tries, opened, picture, clock, last>>,
         streaming' \in BOOLEAN, taken' \subseteq Buffer,
         ~ (Unread \/ Read)'
  PROVE  InOrder'
<1>1. /\ place' \in [Buffer -> Places]
      /\ \A b \in Buffer : place'[b] = "ready" => place[b] = "ready"
  BY MoveType DEF InOrder, Places
<1>2. TypeOK'
  BY <1>1 DEF InOrder, TypeOK
<1>3. TakenInOrder'
  BY DEF TakenInOrder
<1> QED BY <1>1, <1>2, <1>3, KeepingOrder

\* The step that gives out the picture of the oldest buffer in hand.
LEMMA ReadingKeeps ==
  ASSUME InOrder, NEW b \in taken, IsOldest(b, taken), Unread, Read',
         last' = picture[b], UNCHANGED <<program, place, picture, clock, taken>>
  PROVE  InOrder'
<1>1. /\ b \in Buffer /\ picture[b] \in Nat /\ last \in Nat
      /\ \A c \in taken : c \in Buffer /\ picture[c] \in Nat
  BY DEF InOrder, TypeOK
<1>2. TypeOK'
  BY <1>1 DEF InOrder, TypeOK, program, process
<1>3. ClockLeads' /\ ReadyIsNewer'
  BY <1>1 DEF InOrder, ClockLeads, ReadyIsNewer, TakenInOrder
<1>4. ~ Unread'
  BY DEF Unread, Read
<1>5. \A c \in taken : picture[c] >= picture[b]
  BY <1>1 DEF IsOldest
<1>6. TakenInOrder'
  <2>1. \A c \in taken : place[c] = "program"
    BY DEF InOrder, TakenInOrder
  <2>2. \A c, d \in taken : c # d => picture[c] # picture[d]
    BY DEF InOrder, TakenInOrder
  <2>3. \A c \in taken, d \in Buffer : place[d] = "ready" => picture[d] > picture[c]
    BY DEF InOrder, TakenInOrder
  <2>4. pc' # "convert"
    BY <1>4 DEF Unread
  <2> QED BY <1>4, <1>5, <2>1, <2>2, <2>3, <2>4 DEF TakenInOrder
<1> QED BY <1>2, <1>3, <1>6 DEF InOrder

\* A picture is taken.
LEMMA ExposeKeeps == InOrder /\ Expose => InOrder'
<1> SUFFICES ASSUME InOrder, Expose PROVE InOrder'
  OBVIOUS
<1> USE DEF program, process
<1>1. UNCHANGED <<pc, program, taken, last>> /\ clock' = clock + 1
  BY DEF Expose
<1>2. CASE UNCHANGED <<place, picture>>
  <2>1. TypeOK' /\ ClockLeads' /\ ReadyIsNewer'
    BY <1>1, <1>2 DEF InOrder, TypeOK, ClockLeads, ReadyIsNewer
  <2>2. TakenInOrder'
    BY <1>1, <1>2 DEF InOrder, TakenInOrder, Unread, Read
  <2> QED BY <2>1, <2>2 DEF InOrder
<1>3. CASE \E b \in In("waiting") : /\ place' = [place EXCEPT ![b] = "ready"]
                                   /\ picture' = [picture EXCEPT ![b] = clock']
  <2>1. PICK b \in In("waiting") : /\ place' = [place EXCEPT ![b] = "ready"]
                                   /\ picture' = [picture EXCEPT ![b] = clock']
    BY <1>3
  <2>2. b \in Buffer /\ place[b] = "waiting"
    BY DEF In
  <2>3. /\ place' \in [Buffer -> Places] /\ picture' \in [Buffer -> Nat]
        /\ place'[b] = "ready" /\ picture'[b] = clock + 1
        /\ \A c \in Buffer \ {b} : place'[c] = place[c] /\ picture'[c] = picture[c]
    BY <1>1, <2>1, <2>2 DEF InOrder, TypeOK, Places
  <2>4. TypeOK'
    BY <1>1, <2>3 DEF InOrder, TypeOK
  <2>5. /\ clock \in Nat /\ last \in Nat /\ last <= clock
        /\ \A c \in Buffer : picture[c] \in Nat /\ picture[c] <= clock
    BY DEF InOrder, TypeOK, ClockLeads
  <2>6. ClockLeads'
    BY <1>1, <2>3, <2>5 DEF ClockLeads
  <2>7. ReadyIsNewer'
    <3>1. \A c \in Buffer : place'[c] = "ready" => picture'[c] > last
      BY <2>3, <2>5 DEF InOrder, ReadyIsNewer
    <3>2. \A c \in Buffer \ {b} : picture'[c] # picture'[b]
      BY <2>3, <2>5
    <3>3. \A c, d \in Buffer \ {b} :
            place'[c] = "ready" /\ place'[d] = "ready" /\ c # d => picture'[c] # picture'[d]
      BY <2>3 DEF InOrder, ReadyIsNewer
    <3>4. \A c, d \in Buffer :
            place'[c] = "ready" /\ place'[d] = "ready" /\ c # d => picture'[c] # picture'[d]
      BY <3>2, <3>3
    <3> QED BY <1>1, <3>1, <3>4 DEF ReadyIsNewer
  <2>8. TakenInOrder'
    <3> SUFFICES ASSUME Unread \/ Read PROVE TakenInOrder'
      BY <1>1 DEF TakenInOrder, Unread, Read
    <3>1. \A c \in taken : c \in Buffer \ {b} /\ place'[c] = "program" /\ picture'[c] = picture[c]
      BY <2>2, <2>3 DEF InOrder, TakenInOrder, TypeOK
    <3>2. \A c \in taken : picture[c] >= last /\ (Unread => picture[c] > last)
      BY DEF InOrder, TakenInOrder
    <3>3. \A c, d \in taken : (c # d => picture[c] # picture[d]) /\ (pc = "convert" => c = d)
      BY DEF InOrder, TakenInOrder
    <3>4. \A c \in taken, d \in Buffer : place'[d] = "ready" => picture'[d] > picture[c]
      <4>1. \A c \in taken : clock + 1 > picture[c]
        BY <2>5, <3>1
      <4>2. \A c \in taken, d \in Buffer \ {b} : place[d] = "ready" => picture[d] > picture[c]
        BY DEF InOrder, TakenInOrder
      <4> QED BY <2>3, <4>1, <4>2
    <3> QED BY <1>1, <3>1, <3>2, <3>3, <3>4 DEF TakenInOrder, Unread, Read
  <2> QED BY <2>4, <2>6, <2>7, <2>8 DEF InOrder
<1> QED BY <1>2, <1>3 DEF Expose

\* Every step of a V4L capture keeps the order.
LEMMA V4LKeepsOrder == InOrder /\ [V!Next]_shared => InOrder'
<1> SUFFICES ASSUME InOrder, [V!Next]_shared PROVE InOrder'
  OBVIOUS
<1> USE DEF shared, program, process, camera, V!program, V!process, V!camera, V!Goto
<1>1. CASE V!Open
  <2>1. TypeOK'
    <3>1. tries \in 0 .. 2 /\ opened \in BOOLEAN
      BY DEF InOrder, TypeOK
    <3>2. tries' \in 0 .. 2
      BY <1>1, <3>1, SMT DEF V!Open
    <3>3. opened' \in BOOLEAN
      BY <1>1, <3>1, Zenon DEF V!Open
    <3> QED BY <1>1, <3>2, <3>3 DEF V!Open, InOrder, TypeOK
  <2>2. UNCHANGED <<place, picture, clock, taken, last>> /\ ~ (Unread \/ Read)'
    BY <1>1 DEF V!Open, Unread, Read
  <2> QED BY <2>1, <2>2, KeepingBuffers
<1>2. CASE V!Setup \/ V!RequestBuffers
  <2>1. TypeOK' /\ UNCHANGED <<place, picture, clock, taken, last>> /\ ~ (Unread \/ Read)'
    BY <1>2 DEF V!Setup, V!RequestBuffers, V!Try, InOrder, TypeOK, Unread, Read
  <2> QED BY <2>1, KeepingBuffers
<1>3. CASE V!QueueBuffer
  <2>1. UNCHANGED <<program, picture, clock, taken, last>> /\ ~ (Unread \/ Read)'
    BY <1>3 DEF V!QueueBuffer, Unread, Read
  <2>2. TypeOK
    BY DEF InOrder
  <2>3. CASE UNCHANGED place
    <3>1. TypeOK'
      BY <2>1, <2>2, <2>3 DEF TypeOK
    <3> QED BY <2>1, <2>3, <3>1, KeepingBuffers
  <2>4. CASE \E b \in Buffer : Move({b}, "waiting")
    <3>1. PICK b \in Buffer : Move({b}, "waiting")
      BY <2>4
    <3>2. {b} \subseteq Buffer /\ streaming' \in BOOLEAN /\ taken' \subseteq Buffer
      BY <2>1, <2>2 DEF TypeOK
    <3> QED BY <2>1, <3>1, <3>2, MovingKeeps DEF Places
  <2> QED BY <1>3, <2>3, <2>4 DEF V!QueueBuffer, V!Move, V!In, Move
<1>4. CASE V!StartStreaming \/ V!CheckRunning \/ V!CaptureRaises \/ V!Unmap \/ V!CloseVideo
  <2>1. /\ UNCHANGED <<running, tries, place, picture, clock, taken, last>>
        /\ ~ (Unread \/ Read)'
    BY <1>4 DEF V!StartStreaming, V!CheckRunning, V!CaptureRaises, V!RaisesFrom, V!Unmap,
                V!UnmapThen, V!CloseVideo, Unread, Read
  <2>2. /\ UNCHANGED raising \/ raising' = TRUE
        /\ UNCHANGED opened \/ opened' = FALSE
        /\ UNCHANGED streaming \/ streaming' = TRUE
    BY <1>4 DEF V!StartStreaming, V!CheckRunning, V!CaptureRaises, V!RaisesFrom, V!Unmap,
                V!UnmapThen, V!CloseVideo
  <2>3. TypeOK'
    BY <2>1, <2>2 DEF InOrder, TypeOK
  <2> QED BY <2>1, <2>3, KeepingBuffers
<1>5. CASE V!DequeueBuffer
  <2>1. PICK b \in In("ready") : IsOldest(b, In("ready")) /\ Move({b}, "program") /\ taken' = {b}
    BY <1>5 DEF V!DequeueBuffer, V!In, V!IsOldest, V!Move, In, IsOldest, Move
  <2>2. /\ b \in Buffer /\ place[b] = "ready" /\ pc' = "convert"
        /\ UNCHANGED <<program, picture, clock, last>>
    BY <1>5 DEF V!DequeueBuffer, In
  <2>3. /\ place' \in [Buffer -> Places]
        /\ \A c \in Buffer : place'[c] = IF c = b THEN "program" ELSE place[c]
    BY <2>1, MoveType DEF InOrder, Places
  <2>4. TypeOK'
    BY <2>1, <2>2, <2>3 DEF InOrder, TypeOK
  <2>5. picture[b] > last
    BY <2>2 DEF InOrder, ReadyIsNewer
  <2>6. \A c \in Buffer : place'[c] = "ready" => picture[c] > picture[b]
    <3> SUFFICES ASSUME NEW c \in Buffer, place'[c] = "ready" PROVE picture[c] > picture[b]
      OBVIOUS
    <3>1. c # b /\ place[c] = "ready"
      BY <2>3
    <3>2. picture[b] <= picture[c]
      BY <2>1, <3>1 DEF IsOldest, In
    <3>3. picture[b] # picture[c]
      BY <2>2, <3>1 DEF InOrder, ReadyIsNewer
    <3> QED BY <2>2, <3>2, <3>3 DEF InOrder, TypeOK
  <2>7. picture[b] >= last
    BY <2>2, <2>5 DEF InOrder, TypeOK
  <2>8. TakenInOrder'
    BY <2>1, <2>2, <2>3, <2>5, <2>6, <2>7 DEF TakenInOrder, Unread, Read
  <2> QED BY <2>2, <2>3, <2>4, <2>8, KeepingOrder
<1>6. CASE V!Convert
  <2>1. PICK b \in taken : last' = picture[b]
    BY <1>6 DEF V!Convert
  <2>2. Unread /\ Read' /\ UNCHANGED <<program, place, picture, clock, taken>> /\ pc = "convert"
    BY <1>6 DEF V!Convert, Unread, Read
  <2>3. IsOldest(b, taken)
    BY <2>2 DEF InOrder, TakenInOrder, IsOldest, TypeOK
  <2> QED BY <2>1, <2>2, <2>3, ReadingKeeps
<1>7. CASE V!Requeue
  <2>1. /\ Move(taken, "waiting") /\ taken' = {}
        /\ UNCHANGED <<program, picture, clock, last>> /\ ~ (Unread \/ Read)'
    BY <1>7 DEF V!Requeue, V!RequeueFrom, V!Move, Move, Unread, Read
  <2>2. taken \subseteq Buffer /\ streaming' \in BOOLEAN /\ taken' \subseteq Buffer
    BY <2>1 DEF InOrder, TypeOK
  <2> QED BY <2>1, <2>2, MovingKeeps DEF Places
<1>8. CASE V!StopStreaming
  <2>1. /\ UNCHANGED <<running, raising, tries, opened, picture, clock, taken, last>>
        /\ ~ (Unread \/ Read)'
    BY <1>8 DEF V!StopStreaming, Unread, Read
  <2>2. streaming' \in BOOLEAN /\ taken' \subseteq Buffer
    BY <1>8, <2>1 DEF V!StopStreaming, InOrder, TypeOK
  <2>3. CASE UNCHANGED place
    <3>1. TypeOK'
      BY <2>1, <2>2, <2>3 DEF InOrder, TypeOK
    <3> QED BY <2>1, <2>3, <3>1, KeepingBuffers
  <2>4. CASE Move(Buffer, "program")
    BY <2>1, <2>2, <2>4, MovingKeeps DEF Places
  <2> QED BY <1>8, <2>3, <2>4 DEF V!StopStreaming, V!Move, Move
<1>9. CASE V!Expose
  BY <1>9, ExposeKeeps DEF V!Expose, Expose, V!In, In
<1>10. CASE V!Stop
  <2>1. TypeOK' /\ UNCHANGED <<pc, place, picture, clock, taken, last>>
    BY <1>10 DEF V!Stop, InOrder, TypeOK
  <2> QED BY <2>1, KeepingBuffers
<1>11. CASE V!Ended \/ UNCHANGED shared
  <2>1. UNCHANGED shared
    BY <1>11 DEF V!Ended, V!shared
  <2>2. TypeOK' /\ UNCHANGED <<pc, place, picture, clock, taken, last>>
    BY <2>1 DEF InOrder, TypeOK
  <2> QED BY <2>2, KeepingBuffers
<1> QED
  BY <1>1, <1>2, <1>3, <1>4, <1>5, <1>6, <1>7, <1>8, <1>9, <1>10, <1>11
     DEF V!Next, V!Program

\* Every step of a libcamera capture keeps the order and what is still to be queued.
LEMMA LibcameraKeepsOrder ==
  InOrder /\ NotYetLent /\ [L!Next]_shared => InOrder' /\ NotYetLent'
<1> SUFFICES ASSUME InOrder, NotYetLent, [L!Next]_shared PROVE InOrder' /\ NotYetLent'
  OBVIOUS
<1> USE DEF shared, program, process, camera, L!program, L!process, L!camera, L!Goto
<1>1. CASE L!Acquire \/ L!Configure \/ L!Allocate \/ L!Start \/ L!CheckRunning
             \/ L!CaptureTimeout \/ L!Handled \/ L!ReleaseCamera
  <2>1. /\ UNCHANGED <<running, tries, place, picture, clock, taken, last>>
        /\ ~ (Unread \/ Read)'
    BY <1>1 DEF L!Acquire, L!Configure, L!Allocate, L!Start, L!CheckRunning, L!CaptureTimeout,
                L!Handled, L!ReleaseCamera, L!Raises, Unread, Read
  <2>2. /\ UNCHANGED raising \/ raising' = TRUE
        /\ UNCHANGED opened \/ opened' = FALSE \/ opened' = TRUE
        /\ UNCHANGED streaming \/ streaming' = TRUE
    BY <1>1 DEF L!Acquire, L!Configure, L!Allocate, L!Start, L!CheckRunning, L!CaptureTimeout,
                L!Handled, L!ReleaseCamera, L!Raises
  <2>3. TypeOK'
    BY <2>1, <2>2 DEF InOrder, TypeOK
  <2>4. InOrder'
    BY <2>1, <2>3, KeepingBuffers
  <2>5. /\ pc' \in {"setup", "allocate", "start", "submit"} =>
             pc \in {"new", "setup", "allocate", "start"}
        /\ pc' # "new"
    BY <1>1 DEF L!Acquire, L!Configure, L!Allocate, L!Start, L!CheckRunning, L!CaptureTimeout,
                L!Handled, L!ReleaseCamera, L!Raises
  <2>6. NotYetLent'
    BY <2>1, <2>5 DEF NotYetLent
  <2> QED BY <2>4, <2>6
<1>2. CASE L!Submit
  <2>1. UNCHANGED <<running, tries, opened, streaming, picture, clock, last>> /\ pc = "submit"
    BY <1>2 DEF L!Submit, L!Raises
  <2>2. CASE \E b \in Buffer \ taken :
               /\ Move({b}, "waiting") /\ taken' = taken \cup {b}
               /\ pc' = "submit" /\ UNCHANGED raising
    <3>1. PICK b \in Buffer \ taken : Move({b}, "waiting") /\ taken' = taken \cup {b}
      BY <2>2
    <3>2. pc' = "submit" /\ ~ (Unread \/ Read)' /\ UNCHANGED raising
      BY <2>2 DEF Unread, Read
    <3>3. {b} \subseteq Buffer /\ streaming' \in BOOLEAN /\ taken' \subseteq Buffer
      BY <2>1, <3>1 DEF InOrder, TypeOK
    <3>4. InOrder'
      BY <2>1, <3>1, <3>2, <3>3, MovingKeeps DEF Places
    <3>5. \A c \in Buffer \ taken' : place'[c] = "program"
      <4>1. \A c \in Buffer : place'[c] = IF c \in {b} THEN "waiting" ELSE place[c]
        BY <3>1, MoveType DEF InOrder, Places
      <4> QED BY <2>1, <3>1, <4>1 DEF NotYetLent
    <3> QED BY <3>2, <3>4, <3>5 DEF NotYetLent
  <2>3. CASE taken' = {} /\ UNCHANGED place /\ pc' \in {"check", "stop"} /\ raising' \in BOOLEAN
    <3>1. TypeOK'
      BY <2>1, <2>3 DEF InOrder, TypeOK
    <3>2. TakenInOrder'
      BY <2>3 DEF TakenInOrder, Unread, Read
    <3>3. NotYetLent'
      BY <2>3 DEF NotYetLent
    <3> QED BY <2>1, <2>3, <3>1, <3>2, <3>3, KeepingOrder
  <2>4. raising \in BOOLEAN
    BY DEF InOrder, TypeOK
  <2> QED BY <1>2, <2>2, <2>3, <2>4 DEF L!Submit, L!Raises, L!Move, Move
<1>3. CASE L!GetReadyRequests
  <2> DEFINE ready == {c \in Buffer : place[c] = "ready"}
  <2>1. /\ taken' = ready /\ Move(ready, "program") /\ pc' = "handle"
        /\ UNCHANGED <<program, picture, clock, last>>
    BY <1>3 DEF L!GetReadyRequests, L!In, L!Move, Move
  <2>2. /\ place' \in [Buffer -> Places]
        /\ \A c \in Buffer : place'[c] = IF c \in ready THEN "program" ELSE place[c]
    BY <2>1, MoveType DEF InOrder, Places
  <2>3. \A c \in Buffer : place'[c] # "ready"
    BY <2>2
  <2>4. TypeOK'
    BY <2>1, <2>2 DEF InOrder, TypeOK
  <2>5. \A b \in ready : picture[b] > last /\ picture[b] >= last
    BY DEF InOrder, ReadyIsNewer, TypeOK
  <2>6. \A b, c \in ready : b # c => picture[b] # picture[c]
    BY DEF InOrder, ReadyIsNewer
  <2>7. TakenInOrder'
    BY <2>1, <2>2, <2>3, <2>5, <2>6 DEF TakenInOrder, Unread, Read
  <2>8. InOrder'
    BY <2>1, <2>3, <2>4, <2>7, KeepingOrder
  <2>9. NotYetLent'
    BY <2>1 DEF NotYetLent
  <2> QED BY <2>8, <2>9
<1>4. CASE L!HandleRequest
  <2>1. PICK b \in taken : IsOldest(b, taken) /\ last' = picture[b]
    BY <1>4 DEF L!HandleRequest, L!IsOldest, IsOldest
  <2>2. /\ Unread /\ Read' /\ UNCHANGED <<program, place, picture, clock, taken>>
        /\ pc' = "reuse"
    BY <1>4 DEF L!HandleRequest, Unread, Read
  <2>3. InOrder'
    BY <2>1, <2>2, ReadingKeeps
  <2>4. NotYetLent'
    BY <2>2 DEF NotYetLent
  <2> QED BY <2>3, <2>4
<1>5. CASE L!HandleRaises
  <2>1. /\ UNCHANGED <<running, tries, opened, streaming, place, picture, clock, last>>
        /\ taken' = {} /\ raising' = TRUE /\ pc' = "stop"
    BY <1>5 DEF L!HandleRaises, L!Raises
  <2>2. TypeOK'
    BY <2>1 DEF InOrder, TypeOK
  <2>3. TakenInOrder' /\ NotYetLent'
    BY <2>1 DEF TakenInOrder, NotYetLent, Unread, Read
  <2> QED BY <2>1, <2>2, <2>3, KeepingOrder
<1>6. CASE L!Reuse
  <2>1. PICK b \in taken : /\ IsOldest(b, taken)
                           /\ taken' = taken \ {b}
                           /\ Move({b}, "waiting") \/ UNCHANGED place
    BY <1>6 DEF L!Reuse, L!IsOldest, L!Move, IsOldest, Move
  <2>2. UNCHANGED <<program, picture, clock, last>> /\ pc = "reuse" /\ pc' = "handle"
    BY <1>6 DEF L!Reuse
  <2>3. b \in Buffer /\ taken \subseteq Buffer
    BY DEF InOrder, TypeOK
  <2>4. /\ place' \in [Buffer -> Places]
        /\ \A c \in Buffer : c # b => place'[c] = place[c]
        /\ place'[b] # "ready"
    <3>1. CASE Move({b}, "waiting")
      BY <2>3, <3>1, MoveType DEF InOrder, Places
    <3>2. CASE UNCHANGED place
      <4>1. place[b] = "program"
        BY <2>2 DEF InOrder, TakenInOrder, Unread, Read
      <4> QED BY <3>2, <4>1 DEF InOrder, TypeOK
    <3> QED BY <2>1, <3>1, <3>2
  <2>5. TypeOK'
    BY <2>1, <2>2, <2>3, <2>4 DEF InOrder, TypeOK
  <2>6. \A c \in Buffer : place'[c] = "ready" => place[c] = "ready"
    BY <2>4
  <2>7. \A c \in taken \ {b} : place'[c] = "program" /\ picture[c] > last /\ picture[c] >= last
    <3> SUFFICES ASSUME NEW c \in taken, c # b
                 PROVE  place'[c] = "program" /\ picture[c] > last /\ picture[c] >= last
      OBVIOUS
    <3>1. picture[b] >= last /\ picture[c] # picture[b] /\ place[c] = "program"
      BY <2>2 DEF InOrder, TakenInOrder, Unread, Read
    <3>2. picture[b] <= picture[c]
      BY <2>1 DEF IsOldest
    <3>3. picture[b] \in Nat /\ picture[c] \in Nat /\ last \in Nat /\ c \in Buffer
      BY <2>3 DEF InOrder, TypeOK
    <3> QED BY <2>4, <3>1, <3>2, <3>3
  <2>8. /\ \A c, d \in taken : c # d => picture[c] # picture[d]
        /\ \A c \in taken, d \in Buffer : place[d] = "ready" => picture[d] > picture[c]
    BY <2>2 DEF InOrder, TakenInOrder, Unread, Read
  <2>9. TakenInOrder'
    BY <2>1, <2>2, <2>6, <2>7, <2>8 DEF TakenInOrder, Unread, Read
  <2>10. NotYetLent'
    BY <2>2 DEF NotYetLent
  <2> QED BY <2>2, <2>5, <2>6, <2>9, <2>10, KeepingOrder
<1>7. CASE L!StopCamera
  <2>1. /\ UNCHANGED <<running, raising, tries, opened, picture, clock, taken, last>>
        /\ Move(Buffer, "program") /\ ~ (Unread \/ Read)' /\ pc' = "release"
        /\ streaming' = FALSE
    BY <1>7 DEF L!StopCamera, L!Move, Move, Unread, Read
  <2>2. streaming' \in BOOLEAN /\ taken' \subseteq Buffer
    BY <2>1 DEF InOrder, TypeOK
  <2>3. InOrder'
    BY <2>1, <2>2, MovingKeeps DEF Places
  <2>4. NotYetLent'
    BY <2>1 DEF NotYetLent
  <2> QED BY <2>3, <2>4
<1>8. CASE L!Expose
  <2>1. Expose
    BY <1>8 DEF L!Expose, Expose, L!In, In
  <2>2. InOrder'
    BY <2>1, ExposeKeeps
  <2>3. NotYetLent'
    <3>1. \A b \in Buffer : place[b] = "program" => place'[b] = "program"
      BY <2>1 DEF Expose, In, InOrder, TypeOK
    <3>2. UNCHANGED <<pc, taken>>
      BY <2>1 DEF Expose
    <3> QED BY <3>1, <3>2 DEF NotYetLent
  <2> QED BY <2>2, <2>3
<1>9. CASE L!Stop
  <2>1. TypeOK' /\ UNCHANGED <<pc, place, picture, clock, taken, last>>
    BY <1>9 DEF L!Stop, InOrder, TypeOK
  <2> QED BY <2>1, KeepingBuffers DEF NotYetLent
<1>10. CASE L!Ended \/ UNCHANGED shared
  <2>1. UNCHANGED shared
    BY <1>10 DEF L!Ended, L!shared
  <2>2. TypeOK' /\ UNCHANGED <<pc, place, picture, clock, taken, last>>
    BY <2>1 DEF InOrder, TypeOK
  <2> QED BY <2>2, KeepingBuffers DEF NotYetLent
<1> QED
  BY <1>1, <1>2, <1>3, <1>4, <1>5, <1>6, <1>7, <1>8, <1>9, <1>10 DEF L!Next, L!Program

-----------------------------------------------------------------------------
(* The refinement of CaptureRing *)

\* The step that gives out a picture is the abstract one.
LEMMA ReadingIsRing ==
  ASSUME InOrder, NEW b \in taken, Unread, last' = picture[b], UNCHANGED <<place, picture>>
  PROVE  Ring!Next
<1>1. b \in Buffer /\ place[b] = "program" /\ picture[b] > last
  BY DEF InOrder, TakenInOrder, TypeOK
<1>2. Ring!Show(b)
  BY <1>1 DEF Ring!Show
<1> QED BY <1>1, <1>2 DEF Ring!Next

\* The camera's step is the abstract one that fills a buffer.
LEMMA ExposeIsRing ==
  ASSUME InOrder, Expose, ~ UNCHANGED <<place, picture, last>> PROVE Ring!Next
<1>1. PICK b \in In("waiting") : /\ place' = [place EXCEPT ![b] = "ready"]
                                 /\ picture' = [picture EXCEPT ![b] = clock']
  BY DEF Expose
<1>2. b \in Buffer /\ place[b] = "waiting" /\ clock' = clock + 1 /\ UNCHANGED last
  BY DEF Expose, In
<1>3. \A c \in Buffer : (place'[c] = "program") = (place[c] = "program")
  BY <1>1, <1>2 DEF InOrder, TypeOK
<1>4. picture'[b] = clock + 1 /\ picture' = [picture EXCEPT ![b] = picture'[b]]
  BY <1>1, <1>2 DEF InOrder, TypeOK
<1>5. \A c \in Buffer : picture'[b] > picture[c]
  BY <1>4 DEF InOrder, TypeOK, ClockLeads
<1>6. Ring!Fill(b)
  BY <1>2, <1>3, <1>4, <1>5 DEF Ring!Fill
<1> QED BY <1>2, <1>6 DEF Ring!Next

LEMMA V4LIsRing == InOrder /\ [V!Next]_shared => [Ring!Next]_(Ring!vars)
<1> SUFFICES ASSUME InOrder, [V!Next]_shared, ~ UNCHANGED <<place, picture, last>>
             PROVE  Ring!Next
  BY DEF Ring!vars
<1> USE DEF shared, camera, V!camera, V!Goto
<1>1. TypeOK
  BY DEF InOrder
<1>2. CASE V!QueueBuffer
  <2>1. PICK b \in In("program") : Move({b}, "waiting")
    BY <1>2 DEF V!QueueBuffer, V!In, V!Move, In, Move
  <2>2. UNCHANGED <<picture, last>>
    BY <1>2 DEF V!QueueBuffer
  <2> QED BY <1>1, <2>1, <2>2, MoveIsRing DEF In, Places
<1>3. CASE V!DequeueBuffer
  <2>1. PICK b \in In("ready") : Move({b}, "program")
    BY <1>3 DEF V!DequeueBuffer, V!In, V!Move, In, Move
  <2>2. UNCHANGED <<picture, last>>
    BY <1>3 DEF V!DequeueBuffer
  <2> QED BY <1>1, <2>1, <2>2, MoveIsRing DEF In, Places
<1>4. CASE V!Convert
  <2>1. PICK b \in taken : last' = picture[b]
    BY <1>4 DEF V!Convert
  <2>2. Unread /\ UNCHANGED <<place, picture>>
    BY <1>4 DEF V!Convert, Unread
  <2> QED BY <2>1, <2>2, ReadingIsRing
<1>5. CASE V!Requeue
  <2>1. /\ taken \subseteq Buffer /\ \A b \in taken : place[b] = "program"
        /\ Move(taken, "waiting") /\ UNCHANGED <<picture, last>>
    BY <1>5 DEF V!Requeue, V!RequeueFrom, V!Move, Move, InOrder, TypeOK, TakenInOrder, Read
  <2> QED BY <1>1, <2>1, MoveIsRing DEF Places
<1>6. CASE V!StopStreaming
  <2>1. Move(Buffer, "program") /\ UNCHANGED <<picture, last>>
    BY <1>6 DEF V!StopStreaming, V!Move, Move
  <2> QED BY <1>1, <2>1, MoveIsRing DEF Places
<1>7. CASE V!Expose
  <2>1. Expose
    BY <1>7 DEF V!Expose, Expose, V!In, In, program, process, V!program, V!process
  <2> QED BY <2>1, ExposeIsRing
<1>8. CASE V!Open \/ V!Setup \/ V!RequestBuffers \/ V!StartStreaming \/ V!CheckRunning
             \/ V!CaptureRaises \/ V!Unmap \/ V!CloseVideo \/ V!Stop \/ V!Ended
             \/ UNCHANGED shared
  BY <1>8 DEF V!Open, V!Setup, V!RequestBuffers, V!Try, V!StartStreaming, V!CheckRunning,
              V!CaptureRaises, V!RaisesFrom, V!Unmap, V!UnmapThen, V!CloseVideo, V!Stop,
              V!Ended, V!shared
<1> QED BY <1>2, <1>3, <1>4, <1>5, <1>6, <1>7, <1>8 DEF V!Next, V!Program

LEMMA LibcameraIsRing ==
  InOrder /\ NotYetLent /\ [L!Next]_shared => [Ring!Next]_(Ring!vars)
<1> SUFFICES ASSUME InOrder, NotYetLent, [L!Next]_shared, ~ UNCHANGED <<place, picture, last>>
             PROVE  Ring!Next
  BY DEF Ring!vars
<1> USE DEF shared, camera, L!camera, L!Goto
<1>1. TypeOK
  BY DEF InOrder
<1>2. CASE L!Submit
  <2>1. PICK b \in Buffer \ taken : Move({b}, "waiting")
    BY <1>2 DEF L!Submit, L!Move, Move
  <2>2. UNCHANGED <<picture, last>> /\ place[b] = "program"
    BY <1>2 DEF L!Submit, L!Raises, NotYetLent
  <2> QED BY <1>1, <2>1, <2>2, MoveIsRing DEF Places
<1>3. CASE L!GetReadyRequests
  <2>1. Move(In("ready"), "program") /\ UNCHANGED <<picture, last>>
    BY <1>3 DEF L!GetReadyRequests, L!In, L!Move, In, Move
  <2>2. In("ready") \subseteq Buffer
    BY DEF In
  <2> QED BY <1>1, <2>1, <2>2, MoveIsRing DEF Places
<1>4. CASE L!HandleRequest
  <2>1. PICK b \in taken : last' = picture[b]
    BY <1>4 DEF L!HandleRequest
  <2>2. Unread /\ UNCHANGED <<place, picture>>
    BY <1>4 DEF L!HandleRequest, Unread
  <2> QED BY <2>1, <2>2, ReadingIsRing
<1>5. CASE L!Reuse
  <2>1. PICK b \in taken : Move({b}, "waiting")
    BY <1>5 DEF L!Reuse, L!Move, Move
  <2>2. b \in Buffer /\ place[b] = "program" /\ UNCHANGED <<picture, last>>
    BY <1>5 DEF L!Reuse, InOrder, TypeOK, TakenInOrder, Read
  <2> QED BY <1>1, <2>1, <2>2, MoveIsRing DEF Places
<1>6. CASE L!StopCamera
  <2>1. Move(Buffer, "program") /\ UNCHANGED <<picture, last>>
    BY <1>6 DEF L!StopCamera, L!Move, Move
  <2> QED BY <1>1, <2>1, MoveIsRing DEF Places
<1>7. CASE L!Expose
  <2>1. Expose
    BY <1>7 DEF L!Expose, Expose, L!In, In, program, process, L!program, L!process
  <2> QED BY <2>1, ExposeIsRing
<1>8. CASE L!Acquire \/ L!Configure \/ L!Allocate \/ L!Start \/ L!CheckRunning
             \/ L!CaptureTimeout \/ L!HandleRaises \/ L!Handled \/ L!ReleaseCamera
             \/ L!Stop \/ L!Ended \/ UNCHANGED shared
  BY <1>8 DEF L!Acquire, L!Configure, L!Allocate, L!Start, L!CheckRunning, L!CaptureTimeout,
              L!HandleRaises, L!Handled, L!ReleaseCamera, L!Raises, L!Stop, L!Ended, L!shared
<1> QED BY <1>2, <1>3, <1>4, <1>5, <1>6, <1>7, <1>8 DEF L!Next, L!Program

-----------------------------------------------------------------------------
(* All the kinds of captures *)

\* A step of a capture of one kind, or of a computation of a constructor.
LEMMA StepOfKind ==
  ASSUME [AnyNext]_all
  PROVE  /\ kind' = kind
         /\ kind = "v4l" => [V!Next]_shared
         /\ kind = "libcamera" => [L!Next]_shared
         /\ kind = "unicam" => [Next]_vars
         /\ kind \notin Tasks => UNCHANGED shared
<1>1. CASE UNCHANGED all
  BY <1>1 DEF all, unicamOnly, setup, vars, raws
<1>2. CASE AnyNext
  BY <1>2 DEF AnyNext, V4L, Libcamera, As, Compute, Tasks
<1> QED BY <1>1, <1>2

\* What keeps the buffers going round, by the kind of the capture.
RoundInv ==
  /\ kind \in {"v4l", "libcamera"} => InOrder
  /\ kind = "libcamera" => NotYetLent
  /\ kind = "unicam" => IInv /\ NoneLent

LEMMA InitRoundInv == AnyInit => RoundInv
<1> SUFFICES ASSUME AnyInit PROVE RoundInv
  OBVIOUS
<1>1. Init /\ UnicamInit
  BY DEF AnyInit, UnicamInit
<1>2. NoneLent
  BY <1>1 DEF Init, NoneLent
<1> QED BY <1>1, <1>2, InitInOrder, InitIInv DEF RoundInv

LEMMA StepRoundInv == RoundInv /\ [AnyNext]_all => RoundInv'
<1> SUFFICES ASSUME RoundInv, [AnyNext]_all PROVE RoundInv'
  OBVIOUS
<1>1. kind' = kind
  BY StepOfKind
<1>2. CASE kind = "v4l"
  <2>1. InOrder'
    BY <1>2, StepOfKind, V4LKeepsOrder DEF RoundInv
  <2> QED BY <1>1, <1>2, <2>1 DEF RoundInv
<1>3. CASE kind = "libcamera"
  <2>1. InOrder' /\ NotYetLent'
    BY <1>3, StepOfKind, LibcameraKeepsOrder DEF RoundInv
  <2> QED BY <1>1, <1>3, <2>1 DEF RoundInv
<1>4. CASE kind = "unicam"
  <2>1. IInv' /\ NoneLent'
    BY <1>4, StepOfKind, StepIInv, StepNoneLent DEF RoundInv
  <2> QED BY <1>1, <1>4, <2>1 DEF RoundInv
<1> QED BY <1>1, <1>2, <1>3, <1>4 DEF RoundInv

\* RoundInv holds in every state of every capture.
THEOREM RoundInvHolds == AnySpec => []RoundInv
BY InitRoundInv, StepRoundInv, PTL DEF AnySpec

LEMMA StepIsRound == RoundInv /\ [AnyNext]_all => [Ring!Next]_(Ring!vars)
<1> SUFFICES ASSUME RoundInv, [AnyNext]_all PROVE [Ring!Next]_(Ring!vars)
  OBVIOUS
<1>1. CASE kind = "v4l"
  BY <1>1, StepOfKind, V4LIsRing DEF RoundInv
<1>2. CASE kind = "libcamera"
  BY <1>2, StepOfKind, LibcameraIsRing DEF RoundInv
<1>3. CASE kind = "unicam"
  BY <1>3, StepOfKind, StepIsRing DEF RoundInv
<1>4. CASE kind \notin Tasks
  <2>1. UNCHANGED shared
    BY <1>4, StepOfKind
  <2> QED BY <2>1 DEF shared, camera, Ring!vars
<1> QED BY <1>1, <1>2, <1>3, <1>4 DEF Tasks

\* No capture reads a buffer the camera may write, gives out a picture twice or one
\* older than the last, whatever its camera stack is, for any number of buffers and
\* whatever call of the driver fails (V4LCameraCapture.run, LibcameraCapture.run,
\* UnicamIspCapture.run).
THEOREM EveryCaptureGoesRound == AnySpec => BuffersGoRound
<1>1. AnyInit => Ring!Init
  BY DEF AnyInit, UnicamInit, Init, Ring!Init
<1> QED BY <1>1, StepIsRound, RoundInvHolds, PTL DEF AnySpec, BuffersGoRound, Ring!Spec

\* A V4L capture by itself implements CaptureRing and keeps its types
\* (V4LCameraCapture, VideoStream.capture).
THEOREM V4LGoesRound == V!Spec => BuffersGoRound /\ []TypeOK
<1>1. V!Init => Init /\ Ring!Init
  BY DEF V!Init, Init, Ring!Init
<1>2. Init => InOrder
  BY InitInOrder
<1>3. InOrder /\ [V!Next]_(V!shared) => InOrder' /\ [Ring!Next]_(Ring!vars)
  <2>1. UNCHANGED V!shared => UNCHANGED shared
    BY DEF V!shared, V!program, V!process, V!camera, shared, program, process, camera
  <2> QED BY <2>1, V4LKeepsOrder, V4LIsRing
<1>4. InOrder => TypeOK
  BY DEF InOrder
<1> QED BY <1>1, <1>2, <1>3, <1>4, PTL DEF V!Spec, BuffersGoRound, Ring!Spec

\* A libcamera capture by itself does, too (LibcameraCapture,
\* _handle_camera_event).
THEOREM LibcameraGoesRound == L!Spec => BuffersGoRound /\ []TypeOK
<1>1. L!Init => Init /\ Ring!Init
  BY DEF L!Init, Init, Ring!Init
<1>2. Init => InOrder /\ NotYetLent
  BY InitInOrder
<1>3. InOrder /\ NotYetLent /\ [L!Next]_(L!shared) =>
        InOrder' /\ NotYetLent' /\ [Ring!Next]_(Ring!vars)
  <2>1. UNCHANGED L!shared => UNCHANGED shared
    BY DEF L!shared, L!program, L!process, L!camera, shared, program, process, camera
  <2> QED BY <2>1, LibcameraKeepsOrder, LibcameraIsRing
<1>4. InOrder => TypeOK
  BY DEF InOrder
<1> QED BY <1>1, <1>2, <1>3, <1>4, PTL DEF L!Spec, BuffersGoRound, Ring!Spec

-----------------------------------------------------------------------------
(* What is left when a capture is over *)

AllHome == \A b \in Buffer : place[b] = "program"

\* While V4LCameraCapture goes on there is no exception, and after one there is no way
\* round STREAMOFF but through a failure of munmap or of STREAMOFF itself.
V4LOff ==
  /\ pc \in {"new", "setup", "request", "queue", "start", "close", "returned"} =>
       ~ streaming /\ ~ raising
  /\ pc \in {"check", "wait", "convert", "requeue"} => ~ raising
  /\ pc = "raised" => ~ streaming /\ (raising => AllHome)
  /\ pc \in {"new", "setup", "request", "queue", "start", "check", "wait", "convert",
             "requeue", "unmap", "stop", "close", "returned", "raised", "broken"}

\* LibcameraCapture releases the camera only after it has stopped it.
LibcameraOff ==
  /\ pc \in {"new", "setup", "allocate", "start", "submit", "check", "wait", "handle",
             "reuse", "returned"} => ~ raising
  /\ pc \in {"new", "setup", "allocate", "start", "release", "returned", "raised"} =>
       ~ streaming
  /\ pc = "release" \/ (pc = "raised" /\ raising) => AllHome
  /\ pc \in {"new", "setup", "allocate", "start", "submit", "check", "wait", "handle",
             "reuse", "stop", "release", "returned", "raised"}

LEMMA V4LStaysOff == TypeOK /\ V4LOff /\ [V!Next]_shared => V4LOff'
<1> SUFFICES ASSUME TypeOK, V4LOff, [V!Next]_shared PROVE V4LOff'
  OBVIOUS
<1> USE DEF V4LOff, AllHome, shared, program, process, camera, V!program, V!process, V!camera,
            V!Goto
<1>1. CASE V!StopStreaming
  <2>1. CASE pc' = "broken"
    BY <2>1
  <2>2. CASE pc' # "broken"
    <3>1. /\ pc = "stop" /\ pc' = IF raising THEN "raised" ELSE "close"
          /\ streaming' = FALSE /\ Move(Buffer, "program") /\ UNCHANGED raising
      BY <1>1, <2>2 DEF V!StopStreaming, V!Move, Move
    <3>2. \A b \in Buffer : place'[b] = "program"
      BY <3>1, MoveType DEF Places
    <3> QED BY <3>1, <3>2
  <2> QED BY <2>1, <2>2
<1>2. CASE V!Open \/ V!Setup \/ V!RequestBuffers \/ V!StartStreaming \/ V!CheckRunning
  BY <1>2 DEF V!Open, V!Setup, V!RequestBuffers, V!Try, V!StartStreaming, V!CheckRunning
<1>3. CASE V!QueueBuffer
  BY <1>3 DEF V!QueueBuffer
<1>4. CASE V!DequeueBuffer \/ V!Convert \/ V!Requeue
  BY <1>4 DEF V!DequeueBuffer, V!Convert, V!Requeue, V!RequeueFrom
<1>5. CASE V!CaptureRaises \/ V!Unmap \/ V!CloseVideo
  BY <1>5 DEF V!CaptureRaises, V!RaisesFrom, V!Unmap, V!UnmapThen, V!CloseVideo
<1>6. CASE V!Expose
  BY <1>6 DEF V!Expose
<1>7. CASE V!Stop \/ V!Ended \/ UNCHANGED shared
  BY <1>7 DEF V!Stop, V!Ended, V!shared
<1> QED BY <1>1, <1>2, <1>3, <1>4, <1>5, <1>6, <1>7 DEF V!Next, V!Program

LEMMA LibcameraStaysOff == TypeOK /\ LibcameraOff /\ [L!Next]_shared => LibcameraOff'
<1> SUFFICES ASSUME TypeOK, LibcameraOff, [L!Next]_shared PROVE LibcameraOff'
  OBVIOUS
<1> USE DEF LibcameraOff, AllHome, shared, program, process, camera, L!program, L!process,
            L!camera, L!Goto
<1>1. CASE L!StopCamera
  <2>1. /\ pc' = "release" /\ streaming' = FALSE /\ Move(Buffer, "program")
    BY <1>1 DEF L!StopCamera, L!Move, Move
  <2>2. \A b \in Buffer : place'[b] = "program"
    BY <2>1, MoveType DEF Places
  <2> QED BY <2>1, <2>2
<1>2. CASE L!Acquire \/ L!Configure \/ L!Allocate \/ L!Start
  BY <1>2 DEF L!Acquire, L!Configure, L!Allocate, L!Start, L!Raises
<1>3. CASE L!Submit
  BY <1>3 DEF L!Submit, L!Raises
<1>4. CASE L!CheckRunning \/ L!GetReadyRequests \/ L!CaptureTimeout \/ L!HandleRequest
  BY <1>4 DEF L!CheckRunning, L!GetReadyRequests, L!CaptureTimeout, L!HandleRequest, L!Raises
<1>5. CASE L!HandleRaises \/ L!Reuse \/ L!Handled \/ L!ReleaseCamera
  BY <1>5 DEF L!HandleRaises, L!Reuse, L!Handled, L!ReleaseCamera, L!Raises
<1>6. CASE L!Expose
  BY <1>6 DEF L!Expose
<1>7. CASE L!Stop \/ L!Ended \/ UNCHANGED shared
  BY <1>7 DEF L!Stop, L!Ended, L!shared
<1> QED BY <1>1, <1>2, <1>3, <1>4, <1>5, <1>6, <1>7 DEF L!Next, L!Program

OffInv ==
  /\ kind = "v4l" => V4LOff
  /\ kind = "libcamera" => LibcameraOff
  /\ kind \notin Tasks => pc = "new"

\* The camera of a V4L or a libcamera capture does not stream when run() is over, and
\* after an exception all the buffers are the program's (VideoStream.__exit__, the
\* `finally' of LibcameraCapture.run), for any number of buffers.
THEOREM OffWhenOver == AnySpec => []OverIsOff
<1>1. AnyInit => OffInv
  BY DEF AnyInit, UnicamInit, Init, OffInv, V4LOff, LibcameraOff, AllHome
<1>2. RoundInv /\ OffInv /\ [AnyNext]_all => OffInv'
  <2> SUFFICES ASSUME RoundInv, OffInv, [AnyNext]_all PROVE OffInv'
    OBVIOUS
  <2>1. kind' = kind
    BY StepOfKind
  <2>2. CASE kind = "v4l"
    <3>1. V4LOff'
      BY <2>2, StepOfKind, V4LStaysOff DEF RoundInv, OffInv, InOrder
    <3> QED BY <2>1, <2>2, <3>1 DEF OffInv, Tasks
  <2>3. CASE kind = "libcamera"
    <3>1. LibcameraOff'
      BY <2>3, StepOfKind, LibcameraStaysOff DEF RoundInv, OffInv, InOrder
    <3> QED BY <2>1, <2>3, <3>1 DEF OffInv, Tasks
  <2>4. CASE kind = "unicam"
    BY <2>1, <2>4 DEF OffInv, Tasks
  <2>5. CASE kind \notin Tasks
    BY <2>1, <2>5, StepOfKind DEF OffInv, Tasks, shared
  <2> QED BY <2>2, <2>3, <2>4, <2>5 DEF Tasks
<1>3. OffInv => OverIsOff
  <2> SUFFICES ASSUME OffInv, pc \in {"returned", "raised"}, kind # "unicam"
               PROVE  ~ streaming /\ (raising => In("program") = Buffer)
    BY DEF OverIsOff
  <2>1. CASE kind = "v4l"
    BY <2>1 DEF OffInv, V4LOff, AllHome, In
  <2>2. CASE kind = "libcamera"
    BY <2>2 DEF OffInv, LibcameraOff, AllHome, In
  <2> QED BY <2>1, <2>2 DEF OffInv, Tasks
<1> QED BY <1>1, <1>2, <1>3, RoundInvHolds, PTL DEF AnySpec

-----------------------------------------------------------------------------
(* Positions in lists *)

LEMMA FirstOfIs ==
  ASSUME NEW P, P \subseteq Nat, P # {}
  PROVE  S!E!FirstOf(P) \in P /\ \A j \in P : S!E!FirstOf(P) <= j
<1>1. \E i \in P : \A j \in P : i <= j
  BY LeastOf
<1> QED BY <1>1, Zenon DEF S!E!FirstOf

LEMMA LastOfIs ==
  ASSUME NEW n \in Nat, NEW P, P \subseteq 0 .. n, P # {}
  PROVE  S!E!LastOf(P) \in P
<1>1. \E i \in P : \A j \in P : j <= i
  BY GreatestOf
<1> QED BY <1>1, Zenon DEF S!E!LastOf

\* Of the pairs of positions in a set there is one before all the others.
LEMMA EarliestOf ==
  ASSUME NEW P, P \subseteq Nat \X Nat, P # {}
  PROVE  \E at \in P : \A other \in P : S!E!Earlier(at, other)
<1> DEFINE I == {at[1] : at \in P}
<1>1. I \subseteq Nat /\ I # {}
  OBVIOUS
<1>2. PICK i \in I : \A j \in I : i <= j
  BY <1>1, LeastOf
<1> DEFINE J == {at[2] : at \in {o \in P : o[1] = i}}
<1>3. J \subseteq Nat /\ J # {}
  OBVIOUS
<1>4. PICK j \in J : \A k \in J : j <= k
  BY <1>3, LeastOf
<1>5. PICK at \in P : at[1] = i /\ at[2] = j
  OBVIOUS
<1>6. ASSUME NEW other \in P PROVE S!E!Earlier(at, other)
  <2>1. i <= other[1] /\ i \in Nat /\ other[1] \in Nat
    BY <1>1, <1>2
  <2>2. other[1] = i => j <= other[2]
    BY <1>4
  <2> QED BY <1>5, <2>1, <2>2 DEF S!E!Earlier
<1> QED BY <1>6

-----------------------------------------------------------------------------
(* What the host gives *)

Listed(list) == \E n \in Nat : DOMAIN list = 1 .. n

\* A supply as it is read from JSON: its lists are lists.
SupplyListed(supply) ==
  supply # S!E!None =>
    /\ Listed(supply[1])
    /\ \A i \in DOMAIN supply[1] :
         supply[1][i].nodes # S!E!None => Listed(S!E!Nodes(supply, i))

LEMMA FirstCamera ==
  ASSUME NEW supply, SupplyListed(supply), S!E!DeviceSupplyOk(supply), S!E!Cameras(supply) # {}
  PROVE  LET i == S!E!FirstOf(S!E!Cameras(supply)) IN
           /\ i \in S!E!Cameras(supply)
           /\ \A j \in S!E!Cameras(supply) : i <= j
           /\ Listed(S!E!Nodes(supply, i))
           /\ \A j \in DOMAIN S!E!Nodes(supply, i) : S!E!IsStr(S!E!Nodes(supply, i)[j].path)
<1> DEFINE i == S!E!FirstOf(S!E!Cameras(supply))
<1>1. supply # S!E!None /\ S!E!Cameras(supply) \subseteq DOMAIN supply[1]
  BY DEF S!E!DeviceSupplyOk, S!E!Cameras
<1>2. S!E!Cameras(supply) \subseteq Nat
  BY <1>1 DEF SupplyListed, Listed
<1>3. i \in S!E!Cameras(supply) /\ \A j \in S!E!Cameras(supply) : i <= j
  BY <1>2, FirstOfIs
<1>4. supply[1][i].nodes # S!E!None
  BY <1>1, <1>3 DEF S!E!DeviceSupplyOk, S!E!DeviceInfoOk
<1>5. Listed(S!E!Nodes(supply, i))
  BY <1>1, <1>3, <1>4 DEF SupplyListed
<1>6. \A j \in DOMAIN S!E!Nodes(supply, i) : S!E!IsStr(S!E!Nodes(supply, i)[j].path)
  BY <1>1, <1>3 DEF S!E!DeviceSupplyOk, S!E!DeviceInfoOk, S!E!DeviceNodeOk, S!E!Nodes
<1> QED BY <1>3, <1>5, <1>6

\* The program opens the image source of the first camera, or else the default, for
\* every supply and every default (get_camera_device_info, V4LCameraCapture.__init__).
THEOREM DeviceIsChosen ==
  ASSUME NEW supply, NEW default, SupplyListed(supply)
  PROVE  S!E!DeviceChosen(supply, default,
           S!E!CaptureDevice(S!E!GetCameraDeviceInfo(supply, default)))
<1> DEFINE info == S!E!GetCameraDeviceInfo(supply, default)
           cameras == S!E!Cameras(supply)
           out == S!E!CaptureDevice(info)
<1>1. CASE ~ S!E!DeviceSupplyOk(supply) \/ cameras = {}
  <2>1. info.how = "raises" /\ out = info
    BY <1>1 DEF S!E!GetCameraDeviceInfo, S!E!CaptureDevice, S!E!Fails
  <2> QED BY <1>1, <2>1 DEF S!E!DeviceChosen
<1>2. CASE S!E!DeviceSupplyOk(supply) /\ cameras # {}
  <2> DEFINE nodes == S!E!Nodes(supply, S!E!FirstOf(cameras))
             all_nodes == S!E!ToSet(nodes)
             named == {n \in all_nodes : n.label = S!E!Str("image_source")}
  <2>1. all_nodes = {nodes[i] : i \in DOMAIN nodes}
    BY DEF S!E!ToSet
  <2>2. Listed(nodes) /\ \A j \in DOMAIN nodes : S!E!IsStr(nodes[j].path)
    BY <1>2, FirstCamera
  <2>3. PICK n \in Nat : DOMAIN nodes = 1 .. n
    BY <2>2 DEF Listed
  <2>4. S!E!Sources(nodes) = {} <=> named = {}
    BY <2>1 DEF S!E!Sources
  <2>5. S!E!DeviceChosen(supply, default, out) <=>
          IF out.how = "given"
          THEN IF named # {} THEN \E m \in named : m.path = out.value
                             ELSE out.value = default /\ \E m \in all_nodes : m.path = default
          ELSE named = {} /\ \A m \in all_nodes : m.path # default
    BY <1>2, Zenon DEF S!E!DeviceChosen
  <2> HIDE DEF all_nodes
  <2>6. CASE S!E!Sources(nodes) # {}
    <3>1. info = S!E!Given(nodes)
      BY <1>2, <2>6 DEF S!E!GetCameraDeviceInfo
    <3>2. info.how = "given" /\ info.value = nodes
      BY <3>1 DEF S!E!Given
    <3> DEFINE i == S!E!LastOf(S!E!Sources(nodes))
    <3>3. i \in S!E!Sources(nodes)
      <4>1. S!E!Sources(nodes) \subseteq 0 .. n
        BY <2>3 DEF S!E!Sources
      <4> QED BY <2>6, <4>1, LastOfIs
    <3>4. out = S!E!Given(nodes[i].path)
      BY <2>6, <3>2 DEF S!E!CaptureDevice
    <3>5. nodes[i] \in named
      BY <2>1, <3>3 DEF S!E!Sources
    <3> QED BY <2>5, <3>4, <3>5 DEF S!E!Given
  <2>7. CASE S!E!Sources(nodes) = {} /\ default # S!E!None /\ \E i \in DOMAIN nodes : nodes[i].path = default
    <3> DEFINE labelled == S!E!Labelled(nodes, default)
    <3>1. info = S!E!Given(labelled)
      BY <1>2, <2>7 DEF S!E!GetCameraDeviceInfo
    <3>2. info.how = "given" /\ info.value = labelled
      BY <3>1 DEF S!E!Given
    <3>3. /\ DOMAIN labelled = DOMAIN nodes
          /\ \A i \in DOMAIN nodes :
               labelled[i] = IF nodes[i].path = default
                             THEN [path |-> default, label |-> S!E!Str("image_source")] ELSE nodes[i]
      BY DEF S!E!Labelled
    <3>4. \A i \in DOMAIN nodes : nodes[i].label # S!E!Str("image_source")
      BY <2>7 DEF S!E!Sources
    <3>5. S!E!Sources(labelled) # {} /\ \A i \in S!E!Sources(labelled) : labelled[i].path = default
      BY <2>7, <3>3, <3>4 DEF S!E!Sources
    <3> DEFINE i == S!E!LastOf(S!E!Sources(labelled))
    <3>6. i \in S!E!Sources(labelled)
      <4>1. S!E!Sources(labelled) \subseteq 0 .. n
        BY <2>3, <3>3 DEF S!E!Sources
      <4> QED BY <3>5, <4>1, LastOfIs
    <3>7. out = S!E!Given(default)
      BY <3>2, <3>5, <3>6 DEF S!E!CaptureDevice
    <3>8. out.how = "given" /\ out.value = default /\ \E m \in all_nodes : m.path = default
      BY <2>1, <2>7, <3>7 DEF S!E!Given
    <3> QED BY <2>4, <2>5, <2>7, <3>8
  <2>8. CASE /\ S!E!Sources(nodes) = {}
             /\ default = S!E!None \/ \A i \in DOMAIN nodes : nodes[i].path # default
    <3>1. info.how = "raises"
      BY <1>2, <2>8 DEF S!E!GetCameraDeviceInfo, S!E!Fails
    <3>2. out.how # "given"
      BY <3>1 DEF S!E!CaptureDevice
    <3>3. \A i \in DOMAIN nodes : nodes[i].path # default
      BY <2>2, <2>8 DEF S!E!IsStr
    <3>4. \A m \in all_nodes : m.path # default
      BY <2>1, <3>3
    <3> QED BY <2>4, <2>5, <2>8, <3>2, <3>4
  <2> QED BY <2>6, <2>7, <2>8
<1> QED BY <1>1, <1>2

\* A video device is found at the first camera that has one with the port, for every
\* supply (find_usb_camera_device, find_csi_camera_device).
THEOREM DeviceIsFound ==
  ASSUME NEW supply, NEW port, NEW videos, NEW ports, SupplyListed(supply)
  PROVE  S!E!DeviceFound(supply, port, videos, ports,
           S!E!FindSpecificVideoDevice(supply, port, videos, ports))
<1> DEFINE out == S!E!FindSpecificVideoDevice(supply, port, videos, ports)
           nodes(i) == S!E!Nodes(supply, i)
           path(at) == nodes(at[1])[at[2]].path
           found == {at \in S!E!ListVideoDevices(supply, videos) : ports[path(at)] = port}
           with(i) == {n.path : n \in {m \in S!E!ToSet(nodes(i)) : m.path \in videos /\ ports[m.path] = port}}
           having == {i \in S!E!Cameras(supply) : with(i) # {}}
<1>1. CASE ~ S!E!DeviceSupplyOk(supply)
  BY <1>1 DEF S!E!DeviceFound, S!E!FindSpecificVideoDevice
<1>2. CASE S!E!DeviceSupplyOk(supply)
  <2>1. \A i \in S!E!Cameras(supply) : i \in Nat /\ Listed(nodes(i))
    <3>1. supply # S!E!None
      BY <1>2 DEF S!E!DeviceSupplyOk
    <3>2. \A i \in S!E!Cameras(supply) : i \in DOMAIN supply[1] /\ supply[1][i].nodes # S!E!None
      BY <1>2 DEF S!E!Cameras, S!E!DeviceSupplyOk, S!E!DeviceInfoOk
    <3> QED BY <3>1, <3>2 DEF SupplyListed, Listed
  <2>2. \A i \in S!E!Cameras(supply) : \A j \in DOMAIN nodes(i) :
          nodes(i)[j].path \in videos => <<i, j>> \in S!E!ListVideoDevices(supply, videos)
    BY DEF S!E!ListVideoDevices
  <2>3. \A at \in S!E!ListVideoDevices(supply, videos) :
          /\ at = <<at[1], at[2]>>
          /\ at[1] \in S!E!Cameras(supply) /\ at[2] \in DOMAIN nodes(at[1])
          /\ path(at) \in videos
    BY DEF S!E!ListVideoDevices
  <2>4. found \subseteq Nat \X Nat
    BY <2>1, <2>3 DEF Listed
  <2>5. \A i \in S!E!Cameras(supply) : \A p :
          p \in with(i) <=> \E j \in DOMAIN nodes(i) :
                              nodes(i)[j].path = p /\ p \in videos /\ ports[p] = port
    BY DEF S!E!ToSet
  <2>6. S!E!DeviceFound(supply, port, videos, ports, out) <=>
          IF having = {} THEN out = S!E!Given(S!E!None)
          ELSE \E i \in having :
                 /\ \A j \in having : i <= j
                 /\ out.how = "given" /\ out.value \in with(i)
    BY <1>2, Zenon DEF S!E!DeviceFound
  <2>7. out = IF found = {} THEN S!E!Given(S!E!None)
              ELSE S!E!Given(path(CHOOSE at \in found : \A other \in found : S!E!Earlier(at, other)))
    BY <1>2, Zenon DEF S!E!FindSpecificVideoDevice
  <2> HIDE DEF with
  <2>8. \A i \in having : \E at \in found : at[1] = i
    <3> SUFFICES ASSUME NEW i \in having PROVE \E at \in found : at[1] = i
      OBVIOUS
    <3>1. PICK p : p \in with(i)
      OBVIOUS
    <3>2. PICK j \in DOMAIN nodes(i) : nodes(i)[j].path = p /\ p \in videos /\ ports[p] = port
      BY <2>5, <3>1
    <3>3. <<i, j>> \in found
      BY <2>2, <3>2
    <3> QED BY <3>3
  <2>9. \A at \in found : at[1] \in having /\ path(at) \in with(at[1])
    BY <2>3, <2>5
  <2> HIDE DEF found, having, path, out
  <2>10. IF having = {} THEN out = S!E!Given(S!E!None)
         ELSE \E i \in having :
                /\ \A j \in having : i <= j
                /\ out.how = "given" /\ out.value \in with(i)
    <3>1. CASE found = {}
      BY <2>7, <2>8, <3>1
    <3>2. CASE found # {}
      <4>1. \E at \in found : \A other \in found : S!E!Earlier(at, other)
        BY <2>4, <3>2, EarliestOf
      <4>2. PICK at \in found : /\ \A other \in found : S!E!Earlier(at, other)
                                /\ out = S!E!Given(path(at))
        BY <2>7, <3>2, <4>1, Zenon
      <4>3. \A j \in having : at[1] <= j
        <5> SUFFICES ASSUME NEW j \in having PROVE at[1] <= j
          OBVIOUS
        <5>1. PICK other \in found : other[1] = j
          BY <2>8
        <5>2. at[1] \in Nat /\ other[1] \in Nat
          BY <2>4
        <5> QED BY <4>2, <5>1, <5>2 DEF S!E!Earlier
      <4>4. out.how = "given" /\ out.value = path(at)
        BY <4>2 DEF S!E!Given
      <4> QED BY <2>9, <4>3, <4>4
    <3> QED BY <3>1, <3>2
  <2> QED BY <2>6, <2>10 DEF out
<1> QED BY <1>1, <1>2

\* The CSI camera of libcamera is found if there is one (find_csi_camera_index).
THEOREM CsiIsFound ==
  ASSUME NEW cameras, Listed(cameras)
  PROVE  LET out == S!E!FindCsiCameraIndex(cameras) IN
           /\ out = S!E!None => "platform" \notin {cameras[i] : i \in DOMAIN cameras}
           /\ out # S!E!None => cameras[out[1] + 1] = "platform"
<1> DEFINE csi == {i \in DOMAIN cameras : cameras[i] = "platform"}
           out == S!E!FindCsiCameraIndex(cameras)
<1>1. csi \subseteq Nat
  BY DEF Listed
<1>2. CASE csi = {}
  BY <1>2 DEF S!E!FindCsiCameraIndex, S!E!None
<1>3. CASE csi # {}
  <2>1. S!E!FirstOf(csi) \in csi
    BY <1>1, <1>3, FirstOfIs
  <2>2. out = << S!E!FirstOf(csi) - 1 >>
    BY <1>3, Zenon DEF S!E!FindCsiCameraIndex
  <2>3. out[1] + 1 = S!E!FirstOf(csi) /\ out # S!E!None
    BY <1>1, <2>1, <2>2 DEF S!E!None
  <2> QED BY <2>1, <2>3
<1> QED BY <1>2, <1>3

\* A setting is read as the schema has it, for all settings and every schema of the
\* types there are (AppSettings.__getattr__).
THEOREM SettingIsGiven ==
  ASSUME NEW settings, NEW schema, NEW name,
         name \in DOMAIN schema => schema[name].type \in {"number", "integer", "boolean", "string"}
  PROVE  S!E!SettingGiven(settings, schema, name,
           S!E!GetAttr(S!E!GetSettings(<< >>, settings), schema, name))
<1> DEFINE all_settings == S!E!GetSettings(<< >>, settings)
           out == S!E!GetAttr(all_settings, schema, name)
<1>1. /\ DOMAIN all_settings = DOMAIN settings
      /\ \A n \in DOMAIN settings : all_settings[n] = settings[n]
  <2>1. DOMAIN << >> = {}
    OBVIOUS
  <2> QED BY <2>1 DEF S!E!GetSettings
<1> HIDE DEF all_settings
<1>2. CASE name \notin DOMAIN schema
  <2>1. out.how = "raises"
    BY <1>2 DEF S!E!GetAttr, S!E!Fails
  <2> QED BY <1>2, <2>1, Zenon DEF S!E!SettingGiven, all_settings
<1>3. CASE name \in DOMAIN schema /\ name \notin DOMAIN settings
  <2>1. out = S!E!Given(schema[name].default)
    BY <1>1, <1>3 DEF S!E!GetAttr
  <2> QED BY <1>3, <2>1, Zenon DEF S!E!SettingGiven, all_settings
<1>4. CASE name \in DOMAIN schema /\ name \in DOMAIN settings
  <2> DEFINE json == settings[name]
             type == schema[name].type
  <2>1. out = IF S!E!IsInstance(json, S!E!InferType(type))
              THEN S!E!Given(json) ELSE S!E!Given(schema[name].default)
    BY <1>1, <1>4, Zenon DEF S!E!GetAttr
  <2>2. S!E!IsInstance(json, S!E!InferType(type)) <=>
          json # S!E!None /\ json[1] \in S!E!Suitable[type]
    BY <1>4 DEF S!E!IsInstance, S!E!InferType, S!E!Suitable
  <2> QED BY <1>4, <2>1, <2>2, Zenon DEF S!E!SettingGiven, all_settings
<1> QED BY <1>2, <1>3, <1>4

-----------------------------------------------------------------------------
(* The computations of the constructors *)

\* A computation is of one of its inputs, and its result is what it computes.
ComputeInv ==
  kind \notin Tasks =>
    /\ input \in S!Inputs(kind)
    /\ output # << >> => output = <<S!Output(kind, input)>>

\* ComputeInv holds in every state: what holds of the computation for its inputs holds
\* of its result.
THEOREM ComputeInvHolds == AnySpec => []ComputeInv
<1>1. AnyInit => ComputeInv
  BY DEF AnyInit, ComputeInv
<1>2. ComputeInv /\ [AnyNext]_all => ComputeInv'
  <2> SUFFICES ASSUME ComputeInv, [AnyNext]_all PROVE ComputeInv'
    OBVIOUS
  <2>1. kind' = kind
    BY StepOfKind
  <2>2. kind \notin Tasks => \/ UNCHANGED <<input, output>>
                             \/ UNCHANGED input /\ output' = <<S!Output(kind, input)>>
    BY DEF all, setup, AnyNext, V4L, Libcamera, As, Compute, Tasks
  <2> QED BY <2>1, <2>2 DEF ComputeInv
<1> QED BY <1>1, <1>2, PTL DEF AnySpec

LEMMA ListsOfLength ==
  /\ Listed(<< >>)
  /\ \A x : Listed(<<x>>)
  /\ \A x, y : Listed(<<x, y>>)
  /\ \A x, y, z : Listed(<<x, y, z>>)
<1>1. DOMAIN << >> = 1 .. 0
  OBVIOUS
<1>2. \A x : DOMAIN <<x>> = 1 .. 1
  OBVIOUS
<1>3. \A x, y : DOMAIN <<x, y>> = 1 .. 2
  OBVIOUS
<1>4. \A x, y, z : DOMAIN <<x, y, z>> = 1 .. 3
  OBVIOUS
<1>5. 0 \in Nat /\ 1 \in Nat /\ 2 \in Nat /\ 3 \in Nat
  OBVIOUS
<1>6. Listed(<< >>)
  BY <1>1, <1>5 DEF Listed
<1>7. \A x : Listed(<<x>>)
  BY <1>2, <1>5 DEF Listed
<1>8. \A x, y : Listed(<<x, y>>)
  BY <1>3, <1>5 DEF Listed
<1>9. \A x, y, z : Listed(<<x, y, z>>)
  BY <1>4, <1>5 DEF Listed
<1> QED BY <1>6, <1>7, <1>8, <1>9

LEMMA SuppliesListed == \A supply \in S!Supplies : SupplyListed(supply)
<1>1. \A list \in S!NodeLists : Listed(list)
  BY ListsOfLength DEF S!NodeLists
<1>2. \A type, nodes : S!Device(type, nodes).nodes[1] = nodes
  BY DEF S!Device
<1> SUFFICES ASSUME NEW supply \in S!Supplies, supply # S!E!None
             PROVE  /\ Listed(supply[1])
                    /\ \A i \in DOMAIN supply[1] : Listed(supply[1][i].nodes[1])
  BY DEF SupplyListed, S!E!Nodes
<1>3. CASE supply = << << >> >>
  <2>1. supply[1] = << >>
    BY <1>3
  <2> QED BY <2>1, ListsOfLength
<1>4. CASE \E x, y : supply = <<<<S!Device(x, <<y>>)>>>>
  <2>1. PICK x, y : supply = <<<<S!Device(x, <<y>>)>>>>
    BY <1>4
  <2>2. supply[1] = <<S!Device(x, <<y>>)>>
    BY <2>1
  <2> QED BY <1>2, <2>2, ListsOfLength
<1>5. CASE \E a, b \in S!NodeLists :
             supply = <<<<S!Device("speaker", << >>), S!Device("camera", a), S!Device("camera", b)>>>>
  <2>1. PICK a, b \in S!NodeLists :
          supply = <<<<S!Device("speaker", << >>), S!Device("camera", a), S!Device("camera", b)>>>>
    BY <1>5
  <2>2. supply[1] = <<S!Device("speaker", << >>), S!Device("camera", a), S!Device("camera", b)>>
    BY <2>1
  <2> QED BY <1>1, <1>2, <2>2, ListsOfLength
<1>6. \/ supply \in {<< >>, << << >> >>, <<<<S!Device("speaker", <<S!Node("audio0", S!E!None)>>)>>>>}
      \/ \E a, b \in S!NodeLists :
           supply = <<<<S!Device("speaker", << >>), S!Device("camera", a), S!Device("camera", b)>>>>
  BY DEF S!Supplies
<1>7. supply # << >>
  BY DEF S!E!None
<1>8. \/ supply = << << >> >>
      \/ supply = <<<<S!Device("speaker", <<S!Node("audio0", S!E!None)>>)>>>>
      \/ \E a, b \in S!NodeLists :
           supply = <<<<S!Device("speaker", << >>), S!Device("camera", a), S!Device("camera", b)>>>>
  BY <1>6, <1>7
<1> QED
  BY <1>3, <1>4, <1>5, <1>8, Zenon

\* What the program takes from the host is what the host gives: the camera and its
\* node, the device with a port, the settings (get_camera_device_info,
\* _find_specific_video_device, find_csi_camera_index, AppSettings.__getattr__).
THEOREM HostIsUsed == AnySpec => []EnvironmentUsed
<1>1. ComputeInv => EnvironmentUsed
  <2> SUFFICES ASSUME ComputeInv PROVE EnvironmentUsed
    OBVIOUS
  <2>1. ASSUME Done("device")
        PROVE  S!E!DeviceChosen(input.supply, input.default, output[1])
    <3>1. kind = "device" /\ kind \notin Tasks /\ output # << >>
      BY <2>1 DEF Done, Tasks
    <3>2. /\ input \in [supply : S!Supplies, default : {S!E!None, S!E!Str("video1"), S!E!Str("video7")}]
          /\ output = <<S!Output(kind, input)>>
      BY <3>1 DEF ComputeInv, S!Inputs
    <3>3. output[1] = S!E!CaptureDevice(S!E!GetCameraDeviceInfo(input.supply, input.default))
      BY <3>1, <3>2 DEF S!Output
    <3> QED BY <3>2, <3>3, SuppliesListed, DeviceIsChosen
  <2>2. ASSUME Done("search") PROVE S!SearchHolds(input, output[1])
    <3>1. kind = "search" /\ kind \notin Tasks /\ output # << >>
      BY <2>2 DEF Done, Tasks
    <3>2. /\ input \in [supply : S!Supplies, port : {"CSI", "USB"}, ports : S!Ports,
                        cameras : S!LibcameraIds]
          /\ output = <<S!Output(kind, input)>>
      BY <3>1 DEF ComputeInv, S!Inputs
    <3>3. output[1] =
            [video |-> S!E!FindSpecificVideoDevice(input.supply, input.port, S!Videos, input.ports),
             csi |-> S!E!FindCsiCameraIndex(input.cameras)]
      BY <3>1, <3>2 DEF S!Output
    <3>4. /\ output[1].video =
               S!E!FindSpecificVideoDevice(input.supply, input.port, S!Videos, input.ports)
          /\ output[1].csi = S!E!FindCsiCameraIndex(input.cameras)
      BY <3>3
    <3>5. S!E!DeviceFound(input.supply, input.port, S!Videos, input.ports, output[1].video)
      BY <3>2, <3>4, SuppliesListed, DeviceIsFound
    <3>6. Listed(input.cameras)
      <4>1. \A cameras \in S!LibcameraIds : Listed(cameras)
        BY ListsOfLength DEF S!LibcameraIds
      <4> QED BY <3>2, <4>1
    <3> QED BY <3>4, <3>5, <3>6, CsiIsFound DEF S!SearchHolds
  <2>3. ASSUME Done("setting"), NEW n \in DOMAIN output[1]
        PROVE  S!E!SettingGiven(input.given, input.schema, n, output[1][n])
    <3>1. kind = "setting" /\ kind \notin Tasks /\ output # << >>
      BY <2>3 DEF Done, Tasks
    <3>2. output = <<S!Output(kind, input)>> /\ input \in S!Inputs("setting")
      BY <3>1 DEF ComputeInv
    <3>3. output[1] = [m \in {"a", "b"} |->
                         S!E!GetAttr(S!E!GetSettings(<< >>, input.given), input.schema, m)]
      BY <3>1, <3>2 DEF S!Output
    <3>4. \A m \in DOMAIN input.schema : input.schema[m].type \in S!Types
      <4>1. PICK t \in S!Types, v \in S!Values : input.schema = S!Schema(t, v)
        BY <3>2 DEF S!Inputs
      <4> QED BY <4>1 DEF S!Schema
    <3> QED BY <3>3, <3>4, SettingIsGiven DEF S!Types
  <2> QED BY <2>1, <2>2, <2>3 DEF EnvironmentUsed
<1> QED BY <1>1, ComputeInvHolds, PTL


-----------------------------------------------------------------------------
(* What a camera can do *)

\* Numbers as V4L2 has them: no larger than some number, rates positive, and a grid of
\* sizes that ends at the largest one.
IntervalOk(ival, top) ==
  \/ ival.type = "discrete" /\ ival.rate \in 1 .. top
  \/ ival.type \in {"continuous", "stepwise"} /\ ival.min \in 1 .. top /\ ival.max \in 1 .. top

AxisOk(size, a, top) ==
  /\ size.min[a] \in 0 .. top /\ size.max[a] \in 0 .. top
  /\ size.type = "stepwise" =>
       size.step[a] \in Nat \ {0} /\ (size.max[a] - size.min[a]) % size.step[a] = 0

SizeOk(size, top) ==
  /\ \/ size.type = "discrete" /\ size.w \in 0 .. top /\ size.h \in 0 .. top
     \/ size.type \in {"continuous", "stepwise"} /\ AxisOk(size, 1, top) /\ AxisOk(size, 2, top)
  /\ Listed(size.ivals)
  /\ \A m \in DOMAIN size.ivals : IntervalOk(size.ivals[m], top)

CameraOk(cam, top) ==
  /\ Listed(cam)
  /\ \A i \in DOMAIN cam :
       /\ Listed(cam[i].sizes)
       /\ \A k \in DOMAIN cam[i].sizes : SizeOk(cam[i].sizes[k], top)

LEMMA RoundUpIs ==
  ASSUME NEW n \in Nat, NEW min \in Nat, NEW max \in Nat, NEW step \in Nat \ {0},
         min <= n, n <= max, (max - min) % step = 0
  PROVE  /\ S!F!RoundUp(n, min, step, TRUE) \in Int
         /\ n <= S!F!RoundUp(n, min, step, TRUE)
         /\ S!F!RoundUp(n, min, step, TRUE) <= max
         /\ (S!F!RoundUp(n, min, step, TRUE) - min) % step = 0
<1> DEFINE a == n - min + (step - 1)
           q == a \div step
           k == (max - min) \div step
           r == S!F!RoundUp(n, min, step, TRUE)
<1>1. a \in Int /\ max - min \in Int
  OBVIOUS
<1>2. q \in Int /\ (a % step) \in 0 .. step - 1 /\ a = step * q + (a % step)
  BY <1>1, DivMod
<1>3. k \in Int /\ max - min = step * k + 0
  BY <1>1, DivMod
<1>4. r = q * step + min
  BY DEF S!F!RoundUp
<1> HIDE DEF q, k, r
<1>5. n - min <= step * q /\ step * q <= n - min + (step - 1)
  BY <1>2
<1>6. q <= k
  <2>1. step * q < step * k + step
    <3> DEFINE sq == step * q
               sk == step * k
    <3>1. sq \in Int /\ sk \in Int
      BY <1>2, <1>3
    <3>2. max - min = sk
      BY <1>3
    <3>3. sq <= n - min + (step - 1)
      BY <1>5
    <3> HIDE DEF sq, sk
    <3>4. sq < sk + step
      BY <3>1, <3>2, <3>3
    <3> QED BY <3>4 DEF sq, sk
  <2>2. step * q < step * (k + 1)
    BY <1>2, <1>3, <2>1
  <2> DEFINE m == k + 1
  <2>3. m \in Int
    BY <1>3
  <2> HIDE DEF m
  <2>4. step * q < step * m
    BY <2>2 DEF m
  <2>5. q < m
    BY <1>2, <2>3, <2>4
  <2> QED BY <1>2, <1>3, <2>5 DEF m
<1>7. step * q <= step * k
  BY <1>2, <1>3, <1>6
<1>8. r \in Int /\ r = step * q + min
  BY <1>2, <1>4
<1>9. r - min \in Int /\ r - min = step * q + 0 /\ 0 \in 0 .. step - 1
  BY <1>2, <1>8
<1>10. (r - min) % step = 0
  <2> DEFINE x == r - min
  <2>1. x \in Int /\ x = step * q + 0 /\ q \in Int
    BY <1>2, <1>9
  <2> HIDE DEF x, q, r
  <2>2. x % step = 0
    BY <1>9, <2>1, DivUnique
  <2> QED BY <2>2 DEF x
<1>11. n <= r /\ r <= max
  BY <1>2, <1>3, <1>5, <1>7, <1>8
<1> QED BY <1>8, <1>10, <1>11 DEF r

LEMMA SizeMeets ==
  ASSUME NEW top \in Nat, NEW size, SizeOk(size, top), NEW w \in Nat, NEW h \in Nat,
         S!F!Fits(size, w, h)
  PROVE  LET wh == S!F!FitSize(size, w, h) IN
           /\ wh[1] \in 0 .. top /\ wh[2] \in 0 .. top
           /\ w <= wh[1] /\ h <= wh[2]
           /\ S!F!OnGrid(size, wh[1], wh[2])
<1> DEFINE wh == S!F!FitSize(size, w, h)
<1>1. CASE size.type = "discrete"
  <2>1. wh = <<size.w, size.h>>
    BY <1>1 DEF S!F!FitSize, S!F!FitSizeOf
  <2>2. size.w \in 0 .. top /\ size.h \in 0 .. top /\ w <= size.w /\ h <= size.h
    BY <1>1 DEF SizeOk, S!F!Fits
  <2> QED BY <1>1, <2>1, <2>2 DEF S!F!OnGrid
<1>2. CASE size.type # "discrete"
  <2>1. /\ size.type \in {"continuous", "stepwise"}
        /\ AxisOk(size, 1, top) /\ AxisOk(size, 2, top)
    BY <1>2 DEF SizeOk
  <2>2. /\ size.min[1] <= w /\ w <= size.max[1]
        /\ size.min[2] <= h /\ h <= size.max[2]
    BY <1>2 DEF S!F!Fits
  <2>3. CASE size.type = "continuous"
    <3>1. wh = <<w, h>>
      BY <2>3 DEF S!F!FitSize, S!F!FitSizeOf
    <3> QED BY <2>1, <2>2, <2>3, <3>1 DEF S!F!OnGrid, AxisOk
  <2>4. CASE size.type = "stepwise"
    <3> DEFINE x == S!F!RoundUp(w, size.min[1], size.step[1], TRUE)
               y == S!F!RoundUp(h, size.min[2], size.step[2], TRUE)
    <3>1. wh = <<x, y>>
      BY <2>4 DEF S!F!FitSize, S!F!FitSizeOf
    <3>2. /\ size.min[1] \in Nat /\ size.max[1] \in 0 .. top
          /\ size.step[1] \in Nat \ {0} /\ (size.max[1] - size.min[1]) % size.step[1] = 0
          /\ size.min[2] \in Nat /\ size.max[2] \in 0 .. top
          /\ size.step[2] \in Nat \ {0} /\ (size.max[2] - size.min[2]) % size.step[2] = 0
      BY <2>1, <2>4 DEF AxisOk
    <3>3. size.max[1] \in Nat /\ size.max[2] \in Nat
      BY <3>2
    <3>4. x \in Int /\ w <= x /\ x <= size.max[1] /\ (x - size.min[1]) % size.step[1] = 0
      BY <2>2, <3>2, <3>3, RoundUpIs, ZenonT(40)
    <3>5. y \in Int /\ h <= y /\ y <= size.max[2] /\ (y - size.min[2]) % size.step[2] = 0
      BY <2>2, <3>2, <3>3, RoundUpIs, ZenonT(40)
    <3> HIDE DEF x, y
    <3> QED BY <2>2, <2>4, <3>1, <3>2, <3>4, <3>5 DEF S!F!OnGrid
  <2> QED BY <2>1, <2>3, <2>4
<1> QED BY <1>1, <1>2

LEMMA IntervalMeets ==
  ASSUME NEW top \in Nat, NEW ival, IntervalOk(ival, top), NEW rate \in Nat \ {0},
         S!F!Lasts(ival, rate)
  PROVE  LET r == S!F!FitInterval(ival, rate) IN
           /\ r \in 0 .. top
           /\ r # 0 => rate <= r /\ S!F!AtRate(ival, r)
           /\ r = 0 => ival.type = "stepwise" /\ ival.min < ival.max
<1>1. CASE ival.type = "discrete"
  BY <1>1 DEF IntervalOk, S!F!Lasts, S!F!FitInterval, S!F!AtRate
<1>2. CASE ival.type = "continuous"
  BY <1>2 DEF IntervalOk, S!F!Lasts, S!F!FitInterval, S!F!AtRate
<1>3. CASE ival.type = "stepwise"
  BY <1>3 DEF IntervalOk, S!F!Lasts, S!F!FitInterval, S!F!AtRate
<1> QED BY <1>1, <1>2, <1>3 DEF IntervalOk

\* A walk over a stepwise interval that has no end.
Stepwise(cam) ==
  \E f \in S!F!ToSet(cam) : \E s \in S!F!ToSet(f.sizes) : \E v \in S!F!ToSet(s.ivals) :
    v.type = "stepwise" /\ v.min < v.max

LEMMA PlaceIs ==
  ASSUME NEW cam, NEW at, at \in S!F!Places(cam)
  PROVE  /\ at = <<at[1], at[2], at[3]>>
         /\ at[1] \in DOMAIN cam
         /\ at[2] \in DOMAIN cam[at[1]].sizes
         /\ at[3] \in DOMAIN S!F!Size(cam, at).ivals
<1>1. PICK i \in DOMAIN cam : \E k \in DOMAIN cam[i].sizes :
        at \in {<<i, k, m>> : m \in DOMAIN cam[i].sizes[k].ivals}
  BY DEF S!F!Places
<1>2. PICK k \in DOMAIN cam[i].sizes : \E m \in DOMAIN cam[i].sizes[k].ivals :
        at = <<i, k, m>>
  BY <1>1
<1> QED BY <1>2 DEF S!F!Size

LEMMA IsPlace ==
  ASSUME NEW cam, NEW i \in DOMAIN cam, NEW k \in DOMAIN cam[i].sizes,
         NEW m \in DOMAIN cam[i].sizes[k].ivals
  PROVE  <<i, k, m>> \in S!F!Places(cam)
<1>1. <<i, k, m>> \in {<<i, k, n>> : n \in DOMAIN cam[i].sizes[k].ivals}
  OBVIOUS
<1> QED BY <1>1 DEF S!F!Places

LEMMA PartsOk ==
  ASSUME NEW top, NEW cam, CameraOk(cam, top), NEW at, at \in S!F!Places(cam)
  PROVE  /\ SizeOk(S!F!Size(cam, at), top)
         /\ IntervalOk(S!F!Interval(cam, at), top)
         /\ at[1] \in Nat /\ at[2] \in Nat /\ at[3] \in Nat
<1>1. /\ at[1] \in DOMAIN cam /\ at[2] \in DOMAIN cam[at[1]].sizes
      /\ at[3] \in DOMAIN S!F!Size(cam, at).ivals
  BY PlaceIs
<1>2. SizeOk(S!F!Size(cam, at), top)
  BY <1>1 DEF CameraOk, S!F!Size
<1>3. IntervalOk(S!F!Interval(cam, at), top)
  BY <1>1, <1>2 DEF SizeOk, S!F!Interval
<1>4. Listed(cam) /\ Listed(cam[at[1]].sizes) /\ Listed(S!F!Size(cam, at).ivals)
  BY <1>1, <1>2 DEF CameraOk, SizeOk
<1> QED BY <1>1, <1>2, <1>3, <1>4 DEF Listed, S!F!Size

\* The configuration that a request gets at a place.
ConfigAt(cam, at, w, h, rate, pixels) ==
  S!F!Config(pixels, S!F!FitSize(S!F!Size(cam, at), w, h),
             S!F!FitInterval(S!F!Interval(cam, at), rate))

\* It is something the camera offers and no less than the request.
LEMMA ConfigIs ==
  ASSUME NEW top \in Nat, NEW cam, CameraOk(cam, top), NEW w \in Nat, NEW h \in Nat,
         NEW rate \in Nat \ {0}, NEW pixels,
         NEW at, at \in S!F!Candidates(cam, w, h, rate, pixels),
         NEW c, c = ConfigAt(cam, at, w, h, rate, pixels)
  PROVE  /\ c.pixels = pixels
         /\ c.w \in 0 .. top /\ c.h \in 0 .. top /\ c.rate \in 0 .. top
         /\ c.rate # 0 => S!F!Meets(c, w, h, rate) /\ S!F!Offers(cam, c)
         /\ c.rate = 0 => Stepwise(cam)
<1> DEFINE size == S!F!Size(cam, at)
           ival == S!F!Interval(cam, at)
           wh == S!F!FitSize(size, w, h)
           r == S!F!FitInterval(ival, rate)
<1>1. /\ at \in S!F!Places(cam)
      /\ cam[at[1]].pixels = pixels
      /\ S!F!Fits(size, w, h)
      /\ S!F!Lasts(ival, rate)
  BY DEF S!F!Candidates
<1>2. /\ at[1] \in DOMAIN cam /\ at[2] \in DOMAIN cam[at[1]].sizes
      /\ at[3] \in DOMAIN size.ivals
  BY <1>1, PlaceIs
<1>3. SizeOk(size, top) /\ IntervalOk(ival, top)
  BY <1>1, PartsOk
<1>4. /\ wh[1] \in 0 .. top /\ wh[2] \in 0 .. top
      /\ w <= wh[1] /\ h <= wh[2]
      /\ S!F!OnGrid(size, wh[1], wh[2])
  BY <1>1, <1>3, SizeMeets
<1>5. /\ r \in 0 .. top
      /\ r # 0 => rate <= r /\ S!F!AtRate(ival, r)
      /\ r = 0 => ival.type = "stepwise" /\ ival.min < ival.max
  BY <1>1, <1>3, IntervalMeets
<1>6. c.pixels = pixels /\ c.w = wh[1] /\ c.h = wh[2] /\ c.rate = r
  BY DEF ConfigAt, S!F!Config
<1>7. size = cam[at[1]].sizes[at[2]] /\ ival = size.ivals[at[3]]
  BY DEF S!F!Size, S!F!Interval
<1> HIDE DEF size, ival, wh, r
<1>8. ASSUME c.rate # 0 PROVE S!F!Meets(c, w, h, rate) /\ S!F!Offers(cam, c)
  <2>1. S!F!Meets(c, w, h, rate)
    BY <1>4, <1>5, <1>6, <1>8 DEF S!F!Meets
  <2>2. S!F!AtRate(ival, c.rate) /\ S!F!OnGrid(size, c.w, c.h)
    BY <1>4, <1>5, <1>6, <1>8
  <2>3. \E m \in DOMAIN size.ivals : S!F!AtRate(size.ivals[m], c.rate)
    BY <1>2, <1>7, <2>2
  <2>4. S!F!Offers(cam, c)
    BY <1>1, <1>2, <1>6, <1>7, <2>2, <2>3, Zenon DEF S!F!Offers
  <2> QED BY <2>1, <2>4
<1>9. ASSUME c.rate = 0 PROVE Stepwise(cam)
  <2>1. ival.type = "stepwise" /\ ival.min < ival.max
    BY <1>5, <1>6, <1>9
  <2>2. /\ cam[at[1]] \in S!F!ToSet(cam)
        /\ size \in S!F!ToSet(cam[at[1]].sizes)
        /\ ival \in S!F!ToSet(size.ivals)
    BY <1>2, <1>7 DEF S!F!ToSet
  <2> QED BY <2>1, <2>2 DEF Stepwise
<1> QED BY <1>4, <1>5, <1>6, <1>8, <1>9

\* A discrete mode that is no less than the request is one of those it gets.
LEMMA ModeListed ==
  ASSUME NEW cam, NEW w \in Nat, NEW h \in Nat, NEW rate \in Nat \ {0},
         NEW c, c \in S!F!Modes(cam), S!F!Meets(c, w, h, rate)
  PROVE  \E at \in S!F!Candidates(cam, w, h, rate, c.pixels) :
           c = ConfigAt(cam, at, w, h, rate, c.pixels)
<1>1. PICK f \in S!F!ToSet(cam) :
        \E s \in {z \in S!F!ToSet(f.sizes) : z.type = "discrete"} :
          \E v \in {u \in S!F!ToSet(s.ivals) : u.type = "discrete"} :
            c = S!F!Config(f.pixels, <<s.w, s.h>>, v.rate)
  BY DEF S!F!Modes
<1>2. PICK s \in S!F!ToSet(f.sizes) :
        /\ s.type = "discrete"
        /\ \E v \in S!F!ToSet(s.ivals) :
             v.type = "discrete" /\ c = S!F!Config(f.pixels, <<s.w, s.h>>, v.rate)
  BY <1>1
<1>3. PICK v \in S!F!ToSet(s.ivals) :
        v.type = "discrete" /\ c = S!F!Config(f.pixels, <<s.w, s.h>>, v.rate)
  BY <1>2
<1>4. PICK i \in DOMAIN cam : cam[i] = f
  BY DEF S!F!ToSet
<1>5. PICK k \in DOMAIN cam[i].sizes : cam[i].sizes[k] = s
  BY <1>4 DEF S!F!ToSet
<1>6. PICK m \in DOMAIN cam[i].sizes[k].ivals : cam[i].sizes[k].ivals[m] = v
  BY <1>5 DEF S!F!ToSet
<1> DEFINE at == <<i, k, m>>
<1>7. at \in S!F!Places(cam)
  BY IsPlace
<1>8. S!F!Size(cam, at) = s /\ S!F!Interval(cam, at) = v /\ cam[at[1]].pixels = f.pixels
  BY <1>4, <1>5, <1>6 DEF S!F!Size, S!F!Interval
<1>9. c.pixels = f.pixels /\ c.w = s.w /\ c.h = s.h /\ c.rate = v.rate
  BY <1>3 DEF S!F!Config
<1> HIDE DEF at
<1>10. S!F!Fits(s, w, h) /\ S!F!Lasts(v, rate)
  BY <1>2, <1>3, <1>9 DEF S!F!Meets, S!F!Fits, S!F!Lasts
<1>11. at \in S!F!Candidates(cam, w, h, rate, c.pixels)
  BY <1>7, <1>8, <1>9, <1>10, Zenon DEF S!F!Candidates
<1>12. S!F!FitSize(s, w, h) = <<s.w, s.h>> /\ S!F!FitInterval(v, rate) = v.rate
  BY <1>2, <1>3 DEF S!F!FitSize, S!F!FitSizeOf, S!F!FitInterval
<1>13. c = ConfigAt(cam, at, w, h, rate, c.pixels)
  BY <1>3, <1>8, <1>9, <1>12 DEF ConfigAt
<1> QED BY <1>11, <1>13

-----------------------------------------------------------------------------
(* The order of the configurations *)

\* Of tuples of four numbers there is one that no other one is before: the least of
\* the first numbers, of the second ones among those, and so on.
LEMMA LeastTuple ==
  ASSUME NEW T, T # {}, NEW f \in [T -> [1 .. 4 -> Nat]]
  PROVE  \E t \in T : \A u \in T : ~ S!F!Before(f[u], f[t])
<1> DEFINE Least(U, i) == {t \in U : \A u \in U : f[t][i] <= f[u][i]}
<1>1. ASSUME NEW U, U \subseteq T, U # {}, NEW i \in 1 .. 4 PROVE Least(U, i) # {}
  <2> DEFINE N == {f[t][i] : t \in U}
  <2>1. N \subseteq Nat /\ N # {}
    BY <1>1
  <2>2. PICK n \in N : \A j \in N : n <= j
    BY <2>1, LeastOf
  <2>3. PICK t \in U : f[t][i] = n
    OBVIOUS
  <2>4. t \in Least(U, i)
    BY <2>2, <2>3
  <2> QED BY <2>4
<1> DEFINE A == Least(T, 1)
           B == Least(A, 2)
           C == Least(B, 3)
           D == Least(C, 4)
<1>2. A \subseteq T /\ B \subseteq A /\ C \subseteq B /\ D \subseteq C
  OBVIOUS
<1>3. A # {} /\ B # {} /\ C # {} /\ D # {}
  <2> HIDE DEF Least
  <2>1. \A U \in SUBSET T : \A i \in 1 .. 4 : U # {} => Least(U, i) # {}
    BY <1>1
  <2>2. 1 \in 1 .. 4 /\ 2 \in 1 .. 4 /\ 3 \in 1 .. 4 /\ 4 \in 1 .. 4
    OBVIOUS
  <2>3. A \in SUBSET T /\ A # {}
    BY <1>2, <2>1, <2>2
  <2>4. B \in SUBSET T /\ B # {}
    BY <1>2, <2>1, <2>2, <2>3
  <2>5. C \in SUBSET T /\ C # {}
    BY <1>2, <2>1, <2>2, <2>4
  <2> QED BY <2>1, <2>2, <2>3, <2>4, <2>5
<1>7. PICK t \in D : TRUE
  BY <1>3
<1>8. t \in A /\ t \in B /\ t \in C /\ t \in T
  BY <1>2
<1>9. ASSUME NEW u \in T, S!F!Before(f[u], f[t]) PROVE FALSE
  <2>1. \A i \in 1 .. 4 : f[u][i] \in Nat /\ f[t][i] \in Nat
    BY <1>8
  <2>2. PICK i \in 1 .. 4 : f[u][i] < f[t][i] /\ \A j \in 1 .. i - 1 : f[u][j] = f[t][j]
    BY <1>9 DEF S!F!Before
  <2>3. f[t][1] <= f[u][1]
    BY <1>8
  <2>4. ASSUME f[u][1] = f[t][1] PROVE u \in A /\ f[t][2] <= f[u][2]
    BY <1>8, <2>4
  <2>5. ASSUME u \in A, f[u][2] = f[t][2] PROVE u \in B /\ f[t][3] <= f[u][3]
    <3> HIDE DEF A
    <3> QED BY <1>8, <2>5
  <2>6. ASSUME u \in B, f[u][3] = f[t][3] PROVE f[t][4] <= f[u][4]
    <3>1. u \in C
      <4> HIDE DEF A, B
      <4> QED BY <1>8, <2>6
    <3> HIDE DEF A, B, C
    <3> QED BY <1>7, <3>1
  <2>7. CASE i = 1
    BY <2>1, <2>2, <2>3, <2>7
  <2>8. CASE i = 2
    <3>1. f[u][1] = f[t][1]
      BY <2>2, <2>8
    <3> QED BY <2>1, <2>2, <2>4, <2>8, <3>1
  <2>9. CASE i = 3
    <3>1. f[u][1] = f[t][1] /\ f[u][2] = f[t][2]
      BY <2>2, <2>9
    <3>2. f[t][3] <= f[u][3]
      <4> HIDE DEF A, B
      <4> QED BY <2>4, <2>5, <3>1
    <3> QED BY <2>1, <2>2, <2>9, <3>2
  <2>10. CASE i = 4
    <3>1. f[u][1] = f[t][1] /\ f[u][2] = f[t][2] /\ f[u][3] = f[t][3]
      BY <2>2, <2>10
    <3>2. f[t][4] <= f[u][4]
      <4> HIDE DEF A, B
      <4> QED BY <2>4, <2>5, <2>6, <3>1
    <3> QED BY <2>1, <2>2, <2>10, <3>2
  <2>11. i = 1 \/ i = 2 \/ i = 3 \/ i = 4
    OBVIOUS
  <2> QED BY <2>7, <2>8, <2>9, <2>10, <2>11
<1> QED BY <1>8, <1>9

\* A tuple is before another one when its first number is less.
LEMMA FirstDecides ==
  ASSUME NEW c, NEW d, c.w * c.h < d.w * d.h
  PROVE  S!F!Before(S!F!Key(c), S!F!Key(d))
<1> DEFINE s == S!F!Key(c)
           t == S!F!Key(d)
<1>1. DOMAIN s = 1 .. 4 /\ s[1] = c.w * c.h /\ t[1] = d.w * d.h
  BY DEF S!F!Key
<1> HIDE DEF s, t
<1>2. 1 \in DOMAIN s /\ s[1] < t[1] /\ \A j \in 1 .. 1 - 1 : s[j] = t[j]
  BY <1>1
<1>3. S!F!Before(s, t)
  BY <1>2 DEF S!F!Before
<1> QED BY <1>3 DEF s, t

\* Configurations at places of a camera.
ConfigsOk(configs, top) ==
  \A at \in DOMAIN configs :
    /\ at = <<at[1], at[2], at[3]>> /\ at[1] \in Nat /\ at[2] \in Nat /\ at[3] \in Nat
    /\ configs[at].w \in 0 .. top /\ configs[at].h \in 0 .. top /\ configs[at].rate \in 0 .. top

\* The selection takes one of the list: with PROPER no other one has a smaller area, with
\* MAXIMUM none a larger one.
LEMMA SelectIs ==
  ASSUME NEW top \in Nat, NEW configs, ~ S!F!None(configs), ConfigsOk(configs, top),
         NEW selector \in S!F!Selectors
  PROVE  \E at \in DOMAIN configs :
           LET c == S!F!Select(selector, configs) IN
             /\ c = configs[at]
             /\ \A other \in DOMAIN configs :
                  LET d == configs[other] IN
                    /\ selector = "PROPER" => c.w * c.h <= d.w * d.h
                    /\ selector = "MAXIMUM" => c.w * c.h >= d.w * d.h
<1> DEFINE T == DOMAIN configs
           key(t) == S!F!Key(configs[t])
           Chosen(at) == \A other \in T :
             CASE selector = "DEFAULT" -> ~ S!F!Before(other, at)
               [] selector = "PROPER" -> ~ S!F!Before(key(other), key(at))
               [] selector = "MAXIMUM" -> ~ S!F!Before(key(at), key(other))
<1>1. T # {}
  BY DEF S!F!None
<1>2. \A t \in T : /\ DOMAIN key(t) = 1 .. 4
                   /\ key(t)[1] \in 0 .. top * top
                   /\ key(t)[2] \in 0 .. top
                   /\ key(t)[3] \in 0 .. top
                   /\ key(t)[4] \in 0 .. top
  <2> SUFFICES ASSUME NEW t \in T
               PROVE  /\ DOMAIN key(t) = 1 .. 4
                      /\ key(t)[1] \in 0 .. top * top
                      /\ key(t)[2] \in 0 .. top
                      /\ key(t)[3] \in 0 .. top
                      /\ key(t)[4] \in 0 .. top
    OBVIOUS
  <2> DEFINE c == configs[t]
  <2>1. c.w \in 0 .. top /\ c.h \in 0 .. top /\ c.rate \in 0 .. top
    BY DEF ConfigsOk
  <2> DEFINE w == c.w
             h == c.h
  <2>2. w \in 0 .. top /\ h \in 0 .. top
    BY <2>1
  <2> HIDE DEF w, h
  <2>3. w * h \in 0 .. top * top
    <3>1. w * h <= w * top
      BY <2>2
    <3>2. w * top <= top * top
      BY <2>2
    <3>3. w * h \in Int /\ w * top \in Int /\ top * top \in Int /\ 0 <= w * h
      BY <2>2
    <3> QED BY <3>1, <3>2, <3>3
  <2>4. key(t) = <<w * h, c.h, c.w, c.rate>>
    BY DEF S!F!Key, w, h
  <2> QED BY <2>1, <2>3, <2>4
<1> HIDE DEF T, key
<1>3. ASSUME selector = "DEFAULT" PROVE \E at \in T : Chosen(at)
  <2> DEFINE f == [t \in T |-> <<t[1], t[2], t[3], 0>>]
  <2>1. f \in [T -> [1 .. 4 -> Nat]]
    BY DEF ConfigsOk, T
  <2>2. PICK at \in T : \A u \in T : ~ S!F!Before(f[u], f[at])
    BY <1>1, <2>1, LeastTuple
  <2>3. ASSUME NEW u \in T, S!F!Before(u, at) PROVE FALSE
    <3>1. u = <<u[1], u[2], u[3]>> /\ at = <<at[1], at[2], at[3]>>
      BY DEF ConfigsOk, T
    <3>2. DOMAIN u = 1 .. 3 /\ DOMAIN f[u] = 1 .. 4
      BY <3>1
    <3>3. \A j \in 1 .. 3 : f[u][j] = u[j] /\ f[at][j] = at[j]
      BY <3>1
    <3> HIDE DEF f
    <3>4. PICK i \in 1 .. 3 : u[i] < at[i] /\ \A j \in 1 .. i - 1 : u[j] = at[j]
      BY <2>3, <3>2 DEF S!F!Before
    <3>5. i \in 1 .. 4 /\ f[u][i] < f[at][i] /\ \A j \in 1 .. i - 1 : f[u][j] = f[at][j]
      BY <3>3, <3>4
    <3>6. S!F!Before(f[u], f[at])
      BY <3>2, <3>5 DEF S!F!Before
    <3> QED BY <2>2, <3>6
  <2>4. Chosen(at)
    BY <1>3, <2>3
  <2> QED BY <2>4
<1>4. ASSUME selector = "PROPER" PROVE \E at \in T : Chosen(at)
  <2> DEFINE f == [t \in T |-> key(t)]
  <2>1. f \in [T -> [1 .. 4 -> Nat]]
    <3> SUFFICES ASSUME NEW t \in T PROVE key(t) \in [1 .. 4 -> Nat]
      OBVIOUS
    <3>1. key(t) = <<key(t)[1], key(t)[2], key(t)[3], key(t)[4]>>
      BY DEF key, S!F!Key
    <3> QED BY <1>2, <3>1
  <2>2. PICK at \in T : \A u \in T : ~ S!F!Before(f[u], f[at])
    BY <1>1, <2>1, LeastTuple
  <2>3. Chosen(at)
    BY <1>4, <2>2
  <2> QED BY <2>3
<1>5. ASSUME selector = "MAXIMUM" PROVE \E at \in T : Chosen(at)
  <2> DEFINE b == top * top + top
             f == [t \in T |-> [i \in 1 .. 4 |-> b - key(t)[i]]]
  <2>1. ASSUME NEW t \in T, NEW i \in 1 .. 4 PROVE key(t)[i] \in Int /\ key(t)[i] <= b
    <3> DEFINE p == top * top
    <3>1. p \in Nat
      OBVIOUS
    <3>2. key(t)[1] \in 0 .. p
      BY <1>2
    <3> HIDE DEF p
    <3>3. \A x \in 0 .. p : x \in Int /\ x <= p + top
      BY <3>1
    <3>4. \A x \in 0 .. top : x \in Int /\ x <= p + top
      BY <3>1
    <3>5. b = p + top
      BY DEF p
    <3> HIDE DEF b
    <3>6. i = 1 \/ i = 2 \/ i = 3 \/ i = 4
      OBVIOUS
    <3> QED BY <1>2, <3>2, <3>3, <3>4, <3>5, <3>6
  <2>2. b \in Int
    OBVIOUS
  <2> HIDE DEF b
  <2>3. f \in [T -> [1 .. 4 -> Nat]]
    BY <2>1, <2>2
  <2>4. PICK at \in T : \A u \in T : ~ S!F!Before(f[u], f[at])
    BY <1>1, <2>3, LeastTuple
  <2>5. ASSUME NEW u \in T, S!F!Before(key(at), key(u)) PROVE FALSE
    <3>1. PICK i \in 1 .. 4 :
            key(at)[i] < key(u)[i] /\ \A j \in 1 .. i - 1 : key(at)[j] = key(u)[j]
      BY <1>2, <2>5 DEF S!F!Before
    <3>2. \A j \in 1 .. 4 : f[u][j] = b - key(u)[j] /\ f[at][j] = b - key(at)[j]
      OBVIOUS
    <3>3. f[u][i] < f[at][i]
      BY <2>1, <2>2, <3>1, <3>2
    <3>4. \A j \in 1 .. i - 1 : f[u][j] = f[at][j]
      BY <3>1, <3>2
    <3>5. DOMAIN f[u] = 1 .. 4
      OBVIOUS
    <3> HIDE DEF f
    <3>6. S!F!Before(f[u], f[at])
      BY <3>3, <3>4, <3>5 DEF S!F!Before
    <3> QED BY <2>4, <3>6
  <2>6. Chosen(at)
    BY <1>5, <2>5
  <2> QED BY <2>6
<1>6. \E at \in T : Chosen(at)
  BY <1>3, <1>4, <1>5 DEF S!F!Selectors
<1> DEFINE at == CHOOSE t \in T : Chosen(t)
<1>7. at \in T /\ Chosen(at)
  BY <1>6, Zenon
<1>8. S!F!Select(selector, configs) = configs[at]
  BY DEF S!F!Select, T, key
<1> HIDE DEF at
<1>9. ASSUME NEW other \in T
      PROVE  LET c == configs[at]
                 d == configs[other] IN
               /\ selector = "PROPER" => c.w * c.h <= d.w * d.h
               /\ selector = "MAXIMUM" => c.w * c.h >= d.w * d.h
  <2> DEFINE c == configs[at]
             d == configs[other]
             p == c.w * c.h
             q == d.w * d.h
  <2>1. p \in Int /\ q \in Int
    BY <1>7 DEF ConfigsOk, T
  <2>2. selector = "PROPER" => ~ S!F!Before(S!F!Key(d), S!F!Key(c))
    BY <1>7 DEF key
  <2>3. selector = "MAXIMUM" => ~ S!F!Before(S!F!Key(c), S!F!Key(d))
    BY <1>7 DEF key
  <2>4. ~ S!F!Before(S!F!Key(d), S!F!Key(c)) => ~ (q < p)
    BY FirstDecides, Zenon
  <2>5. ~ S!F!Before(S!F!Key(c), S!F!Key(d)) => ~ (p < q)
    BY FirstDecides, Zenon
  <2> HIDE DEF p, q
  <2>6. /\ selector = "PROPER" => p <= q
        /\ selector = "MAXIMUM" => p >= q
    BY <2>1, <2>2, <2>3, <2>4, <2>5
  <2> QED BY <2>6 DEF p, q
<1> QED BY <1>7, <1>8, <1>9 DEF T

-----------------------------------------------------------------------------
(* The format *)

\* A request: sizes and a rate, and the names of formats.
WantOk(want) ==
  /\ want.w \in Nat /\ want.h \in Nat /\ want.rate \in Nat \ {0}
  /\ want.selector \in S!F!Selectors
  /\ \E names : want.fallbacks \in Seq(names)
  /\ want.converts \in BOOLEAN

LEMMA UpToIs ==
  ASSUME NEW n \in Nat, NEW block \in Nat \ {0}
  PROVE  S!F!UpTo(n, block) \in Nat
<1> DEFINE q == (n + block - 1) \div block
<1>1. n + block - 1 \in Int /\ n + block - 1 >= 0
  OBVIOUS
<1>2. q \in Nat
  <2> DEFINE a == n + block - 1
             r == a % block
  <2>1. q \in Int /\ r \in 0 .. block - 1 /\ a = block * q + r
    BY <1>1, DivMod
  <2>2. a \in Int /\ a >= 0
    BY <1>1
  <2> HIDE DEF q, a, r
  <2>3. ASSUME q < 0 PROVE FALSE
    <3>1. block * q <= block * (-1)
      BY <2>1, <2>3
    <3>2. block * q + r < 0
      BY <2>1, <3>1
    <3> QED BY <2>1, <2>2, <3>2
  <2> QED BY <2>1, <2>3
<1> HIDE DEF q
<1>3. q * block \in Nat
  BY <1>2
<1> QED BY <1>3 DEF S!F!UpTo, q

LEMMA AlignedIs ==
  ASSUME NEW driver, NEW w \in Nat, NEW h \in Nat
  PROVE  /\ S!F!Aligned(driver, w, h)[1] \in Nat
         /\ S!F!Aligned(driver, w, h)[2] \in Nat
         /\ S!F!Aligned(driver, w, h) =
              <<S!F!Aligned(driver, w, h)[1], S!F!Aligned(driver, w, h)[2]>>
<1>1. 32 \in Nat \ {0} /\ 16 \in Nat \ {0}
  OBVIOUS
<1>2. S!F!UpTo(w, 32) \in Nat /\ S!F!UpTo(h, 16) \in Nat
  BY <1>1, UpToIs
<1> QED BY <1>2 DEF S!F!Aligned

\* What ConfigIs says of each configuration of a list.
ListRight(list, top, cam, w, h, rate, pixels) ==
  /\ ConfigsOk(list, top)
  /\ \A at \in DOMAIN list :
       /\ list[at].pixels = pixels
       /\ list[at].rate # 0 => S!F!Meets(list[at], w, h, rate) /\ S!F!Offers(cam, list[at])
  /\ S!F!Endless(list) => Stepwise(cam)

LEMMA ListIs ==
  ASSUME NEW top \in Nat, NEW cam, CameraOk(cam, top), NEW w \in Nat, NEW h \in Nat,
         NEW rate \in Nat \ {0}, NEW pixels, NEW expected, NEW converts,
         NEW list, list = S!F!LookupConfig(cam, w, h, rate, pixels, expected, converts)
  PROVE  ListRight(list, top, cam, w, h, rate, pixels)
<1>1. ASSUME NEW at \in DOMAIN list
      PROVE  /\ at \in S!F!Candidates(cam, w, h, rate, pixels)
             /\ list[at] = ConfigAt(cam, at, w, h, rate, pixels)
  BY DEF S!F!LookupConfig, ConfigAt
<1>2. ASSUME NEW at \in DOMAIN list
      PROVE  /\ at = <<at[1], at[2], at[3]>>
             /\ at[1] \in Nat /\ at[2] \in Nat /\ at[3] \in Nat
  <2>1. at \in S!F!Places(cam)
    BY <1>1 DEF S!F!Candidates
  <2> QED BY <2>1, PlaceIs, PartsOk
<1>3. ASSUME NEW at \in DOMAIN list
      PROVE  /\ list[at].pixels = pixels
             /\ list[at].w \in 0 .. top /\ list[at].h \in 0 .. top /\ list[at].rate \in 0 .. top
             /\ list[at].rate # 0 =>
                  S!F!Meets(list[at], w, h, rate) /\ S!F!Offers(cam, list[at])
             /\ list[at].rate = 0 => Stepwise(cam)
  <2> DEFINE c == list[at]
  <2>1. at \in S!F!Candidates(cam, w, h, rate, pixels)
    BY <1>1
  <2>2. c = ConfigAt(cam, at, w, h, rate, pixels)
    BY <1>1
  <2> HIDE DEF c
  <2>3. /\ c.pixels = pixels
        /\ c.w \in 0 .. top /\ c.h \in 0 .. top /\ c.rate \in 0 .. top
        /\ c.rate # 0 => S!F!Meets(c, w, h, rate) /\ S!F!Offers(cam, c)
        /\ c.rate = 0 => Stepwise(cam)
    BY <2>1, <2>2, ConfigIs
  <2> QED BY <2>3 DEF c
<1> QED BY <1>2, <1>3 DEF ConfigsOk, S!F!Endless, ListRight

\* What ChooseConfig takes for a rate: the list of the first format that has one, and of
\* that list the configuration that the selector names.
LEMMA ChoiceIs ==
  ASSUME NEW top \in Nat, NEW cam, CameraOk(cam, top), NEW want, WantOk(want)
  PROVE  S!F!FormatChosen(cam, want, S!F!ChooseConfig(cam, want))
<1> DEFINE rate == IF want.selector = "MAXIMUM" THEN 1 ELSE want.rate
           wh == S!F!Aligned(want.driver, want.w, want.h)
           fmts == <<want.expected>> \o want.fallbacks
           lists == [i \in DOMAIN fmts |->
                       S!F!LookupConfig(cam, wh[1], wh[2], rate, fmts[i], want.expected,
                                        want.converts)]
           found == {i \in DOMAIN fmts : ~ S!F!None(lists[i])}
           first == CHOOSE i \in found : \A j \in found : i <= j
           list == lists[first]
           config == S!F!Select(want.selector, list)
           fit == S!F!Fitting(cam, want)
           out == S!F!ChooseConfig(cam, want)
<1>1. rate \in Nat \ {0}
  BY DEF WantOk
<1>2. wh[1] \in Nat /\ wh[2] \in Nat /\ wh = <<wh[1], wh[2]>>
  BY AlignedIs DEF WantOk
<1>3. /\ DOMAIN fmts = 1 .. Len(want.fallbacks) + 1
      /\ 1 \in DOMAIN fmts /\ fmts[1] = want.expected
      /\ \A k \in DOMAIN want.fallbacks : k + 1 \in DOMAIN fmts /\ fmts[k + 1] = want.fallbacks[k]
  BY DEF WantOk
<1>4. out = IF found = {} THEN S!F!Raises
            ELSE IF S!F!Endless(list) THEN S!F!Loops
            ELSE S!F!Outcome("made", config,
                             S!F!SetFormat(config, wh[1], wh[2], want.selector, want.scales))
  BY Zenon DEF S!F!ChooseConfig
<1>5. \A c \in fit : /\ c \in S!F!Modes(cam)
                     /\ S!F!Meets(c, wh[1], wh[2], rate)
                     /\ \/ c.pixels = want.expected
                        \/ want.converts /\ c.pixels \in S!F!ToSet(want.fallbacks)
  BY DEF S!F!Fitting
<1> HIDE DEF rate, wh, fmts, fit, out
<1>6. ASSUME NEW c \in fit, NEW i \in DOMAIN fmts, c.pixels = fmts[i],
             c.pixels = want.expected \/ want.converts
      PROVE  \E at \in DOMAIN lists[i] : lists[i][at] = c
  <2>1. PICK at \in S!F!Candidates(cam, wh[1], wh[2], rate, c.pixels) :
          c = ConfigAt(cam, at, wh[1], wh[2], rate, c.pixels)
    BY <1>1, <1>2, <1>5, ModeListed
  <2>2. at \in DOMAIN lists[i] /\ lists[i][at] = c
    BY <1>6, <2>1 DEF S!F!LookupConfig, ConfigAt
  <2> QED BY <2>2
<1>7. ASSUME NEW c \in fit, NEW i \in DOMAIN fmts, c.pixels = fmts[i],
             c.pixels = want.expected \/ want.converts
      PROVE  i \in found
  BY <1>6, <1>7 DEF S!F!None
<1>8. ASSUME found = {} PROVE fit = {}
  <2> SUFFICES ASSUME NEW c \in fit PROVE FALSE
    OBVIOUS
  <2>1. CASE c.pixels = want.expected
    BY <1>3, <1>7, <1>8, <2>1
  <2>2. CASE want.converts /\ c.pixels \in S!F!ToSet(want.fallbacks)
    <3>1. PICK k \in DOMAIN want.fallbacks : c.pixels = want.fallbacks[k]
      BY <2>2 DEF S!F!ToSet
    <3>2. k + 1 \in DOMAIN fmts /\ c.pixels = fmts[k + 1]
      BY <1>3, <3>1
    <3> QED BY <1>7, <1>8, <2>2, <3>2
  <2> QED BY <1>5, <2>1, <2>2
<1>9. ASSUME found # {}
      PROVE  first \in found /\ \A j \in found : first <= j
  <2>1. found \subseteq Nat
    BY <1>3 DEF WantOk
  <2> HIDE DEF found
  <2>2. \E i \in found : \A j \in found : i <= j
    BY <1>9, <2>1, LeastOf
  <2> QED BY <2>2, Zenon
<1> HIDE DEF first
<1>10. ASSUME found # {}
       PROVE  /\ first \in DOMAIN fmts /\ ~ S!F!None(list)
              /\ list = S!F!LookupConfig(cam, wh[1], wh[2], rate, fmts[first],
                                         want.expected, want.converts)
  BY <1>9, <1>10
<1> HIDE DEF list
<1>11. ASSUME found # {}
       PROVE  /\ ConfigsOk(list, top)
              /\ \A at \in DOMAIN list :
                   /\ list[at].pixels = fmts[first]
                   /\ list[at].rate # 0 =>
                        S!F!Meets(list[at], wh[1], wh[2], rate) /\ S!F!Offers(cam, list[at])
              /\ S!F!Endless(list) => Stepwise(cam)
  <2> DEFINE w == wh[1]
             h == wh[2]
             pixels == fmts[first]
  <2>1. w \in Nat /\ h \in Nat
    BY <1>2
  <2>2. list = S!F!LookupConfig(cam, w, h, rate, pixels, want.expected, want.converts)
    BY <1>10, <1>11
  <2> HIDE DEF w, h, pixels
  <2>3. ListRight(list, top, cam, w, h, rate, pixels)
    BY <1>1, <2>1, <2>2, ListIs
  <2> QED BY <2>3 DEF w, h, pixels, ListRight
<1>12. CASE found = {}
  <2>1. out = S!F!Raises /\ fit = {}
    BY <1>4, <1>8, <1>12
  <2>2. out.how = "raises"
    BY <2>1 DEF S!F!Raises, S!F!Outcome
  <2> QED BY <2>1, <2>2 DEF S!F!FormatChosen, fit, out
<1>13. CASE found # {} /\ S!F!Endless(list)
  <2>1. out = S!F!Loops /\ Stepwise(cam)
    BY <1>4, <1>11, <1>13
  <2>2. out.how = "endless"
    BY <2>1 DEF S!F!Loops, S!F!Outcome
  <2> QED BY <2>1, <2>2 DEF S!F!FormatChosen, out, Stepwise
<1>14. CASE found # {} /\ ~ S!F!Endless(list)
  <2> DEFINE size == S!F!SetFormat(config, wh[1], wh[2], want.selector, want.scales)
  <2>1. out.how = "made" /\ out.config = config /\ out.size = size
    BY <1>4, <1>14 DEF S!F!Outcome
  <2>2. PICK at \in DOMAIN list :
          /\ config = list[at]
          /\ \A other \in DOMAIN list :
               LET d == list[other] IN
                 /\ want.selector = "PROPER" => config.w * config.h <= d.w * d.h
                 /\ want.selector = "MAXIMUM" => config.w * config.h >= d.w * d.h
    BY <1>10, <1>11, <1>14, SelectIs DEF WantOk
  <2> HIDE DEF config
  <2>3. config.rate # 0
    BY <1>14, <2>2 DEF S!F!Endless
  <2>4. /\ config.pixels = fmts[first]
        /\ S!F!Meets(config, wh[1], wh[2], rate) /\ S!F!Offers(cam, config)
    BY <1>11, <1>14, <2>2, <2>3
  <2>5. ASSUME config.pixels # want.expected, NEW c \in fit, c.pixels = want.expected
        PROVE  FALSE
    <3>1. 1 \in found
      BY <1>3, <1>7, <2>5
    <3>2. first <= 1 /\ first \in DOMAIN fmts
      BY <1>9, <1>10, <3>1
    <3>3. first = 1
      BY <1>3, <3>2 DEF WantOk
    <3> QED BY <1>3, <2>4, <2>5, <3>3
  <2>6. ASSUME NEW c \in fit, c.pixels = config.pixels
        PROVE  /\ want.selector = "PROPER" => config.w * config.h <= c.w * c.h
               /\ want.selector = "MAXIMUM" => config.w * config.h >= c.w * c.h
    <3>1. c.pixels = want.expected \/ want.converts
      BY <1>5
    <3>2. PICK other \in DOMAIN list : list[other] = c
      BY <1>6, <1>10, <1>14, <2>4, <2>6, <3>1 DEF list
    <3> QED BY <2>2, <3>2
  <2>7. size \in {wh, <<config.w, config.h>>}
    BY <1>2 DEF S!F!SetFormat
  <2> HIDE DEF size
  <2> QED
    BY <2>1, <2>4, <2>5, <2>6, <2>7 DEF S!F!FormatChosen, fit, out, wh, rate
<1> QED BY <1>12, <1>13, <1>14

\* Whatever camera and whatever request: what FormatChosen says holds of what the
\* constructor of V4LCameraCapture makes of them (lookup_config).
THEOREM FormatIsChosen ==
  ASSUME NEW top \in Nat, NEW cam, CameraOk(cam, top), NEW want, WantOk(want)
  PROVE  S!F!FormatChosen(cam, want, S!F!Construct(cam, want))
<1> DEFINE small == S!F!LookupConfig(cam, 64, 64, 5, "RGB24", "RGB24", TRUE)
           port == S!F!QueryCapability(want.driver)
           out == S!F!Construct(cam, want)
<1>1. port = "unknown" \/ port = "CSI" => want.driver # "uvcvideo"
  BY Zenon DEF S!F!QueryCapability, S!F!Csi
<1>2. S!F!Refused(want.driver, want.firmware) => want.driver # "uvcvideo"
  BY <1>1 DEF S!F!Refused
<1>3. S!F!Endless(small) => Stepwise(cam)
  <2> DEFINE n == 64
             rate == 5
             pixels == "RGB24"
             converts == TRUE
  <2>1. n \in Nat /\ rate \in Nat \ {0}
    OBVIOUS
  <2>2. small = S!F!LookupConfig(cam, n, n, rate, pixels, pixels, converts)
    OBVIOUS
  <2> HIDE DEF small, n, rate, pixels, converts
  <2>3. ListRight(small, top, cam, n, n, rate, pixels)
    BY <2>1, <2>2, ListIs
  <2> QED BY <2>3 DEF ListRight
<1> HIDE DEF small
<1>4. \/ out = S!F!Raises /\ (S!F!Refused(want.driver, want.firmware) \/ port = "CSI")
      \/ out = S!F!Loops /\ S!F!Endless(small)
      \/ out = S!F!ChooseConfig(cam, want)
  BY Zenon DEF S!F!Construct, small
<1> HIDE DEF out
<1>5. CASE out = S!F!Raises /\ (S!F!Refused(want.driver, want.firmware) \/ port = "CSI")
  <2>1. out.how = "raises" /\ want.driver # "uvcvideo"
    BY <1>1, <1>2, <1>5 DEF S!F!Raises, S!F!Outcome
  <2> QED BY <2>1 DEF S!F!FormatChosen, out
<1>6. CASE out = S!F!Loops /\ S!F!Endless(small)
  <2>1. out.how = "endless" /\ Stepwise(cam)
    BY <1>3, <1>6 DEF S!F!Loops, S!F!Outcome
  <2> QED BY <2>1 DEF S!F!FormatChosen, out, Stepwise
<1>7. CASE out = S!F!ChooseConfig(cam, want)
  BY <1>7, ChoiceIs, Zenon DEF out
<1> QED BY <1>4, <1>5, <1>6, <1>7

\* The cameras and the requests of the run are of that kind.
Largest == 1920

LEMMA DiscreteIsOk ==
  ASSUME NEW w \in 0 .. Largest, NEW h \in 0 .. Largest, NEW rates, Listed(rates),
         \A i \in DOMAIN rates : rates[i] \in 1 .. Largest
  PROVE  SizeOk(S!Discrete(w, h, rates), Largest)
<1> DEFINE size == S!Discrete(w, h, rates)
<1>1. size.type = "discrete" /\ size.w = w /\ size.h = h /\ DOMAIN size.ivals = DOMAIN rates
  BY DEF S!Discrete
<1>2. \A m \in DOMAIN rates : /\ size.ivals[m].type = "discrete"
                              /\ size.ivals[m].rate = rates[m]
  BY DEF S!Discrete
<1>3. Listed(size.ivals)
  BY <1>1 DEF Listed
<1> HIDE DEF size
<1>4. \A m \in DOMAIN size.ivals : IntervalOk(size.ivals[m], Largest)
  <2> SUFFICES ASSUME NEW m \in DOMAIN rates PROVE IntervalOk(size.ivals[m], Largest)
    BY <1>1
  <2>1. size.ivals[m].type = "discrete" /\ size.ivals[m].rate \in 1 .. Largest
    BY <1>2
  <2> QED BY <2>1 DEF IntervalOk
<1> QED BY <1>1, <1>3, <1>4 DEF SizeOk, size

LEMMA RangeIsOk ==
  ASSUME NEW type \in {"continuous", "stepwise"}, NEW rates \in {"continuous", "stepwise"}
  PROVE  SizeOk(S!Range(type, rates), Largest)
<1> DEFINE size == S!Range(type, rates)
           ival == [type |-> rates, min |-> 5, max |-> 60]
<1>1. /\ size.type = type
      /\ size.min[1] = 32 /\ size.min[2] = 16
      /\ size.max[1] = 1920 /\ size.max[2] = 1080
      /\ size.step[1] = 32 /\ size.step[2] = 8
      /\ size.ivals = <<ival>>
  BY DEF S!Range
<1>2. IntervalOk(ival, Largest)
  BY DEF IntervalOk, Largest
<1>3. DOMAIN <<ival>> = 1 .. 1 /\ <<ival>>[1] = ival
  OBVIOUS
<1>4. Listed(<<ival>>)
  BY ListsOfLength
<1> HIDE DEF size, ival
<1>5. Listed(size.ivals) /\ \A m \in DOMAIN size.ivals : IntervalOk(size.ivals[m], Largest)
  BY <1>1, <1>2, <1>3, <1>4
<1>6. (1920 - 32) % 32 = 0 /\ (1080 - 16) % 8 = 0
  OBVIOUS
<1>7. AxisOk(size, 1, Largest) /\ AxisOk(size, 2, Largest)
  BY <1>1, <1>6 DEF AxisOk, Largest
<1> QED BY <1>1, <1>5, <1>7 DEF SizeOk, size

LEMMA CamerasAreOk == \A cam \in S!VideoCameras : CameraOk(cam, Largest)
<1> DEFINE Ok(f) == /\ Listed(f.sizes)
                    /\ \A k \in DOMAIN f.sizes : SizeOk(f.sizes[k], Largest)
<1>1. \A p, s : SizeOk(s, Largest) => Ok(S!Format(p, <<s>>))
  <2> SUFFICES ASSUME NEW p, NEW s, SizeOk(s, Largest) PROVE Ok(S!Format(p, <<s>>))
    OBVIOUS
  <2>1. S!Format(p, <<s>>).sizes = <<s>> /\ DOMAIN <<s>> = 1 .. 1 /\ <<s>>[1] = s
    BY DEF S!Format
  <2> QED BY <2>1, ListsOfLength
<1>2. \A p, s, t : SizeOk(s, Largest) /\ SizeOk(t, Largest) => Ok(S!Format(p, <<s, t>>))
  <2> SUFFICES ASSUME NEW p, NEW s, NEW t, SizeOk(s, Largest), SizeOk(t, Largest)
               PROVE  Ok(S!Format(p, <<s, t>>))
    OBVIOUS
  <2>1. /\ S!Format(p, <<s, t>>).sizes = <<s, t>> /\ DOMAIN <<s, t>> = 1 .. 2
        /\ <<s, t>>[1] = s /\ <<s, t>>[2] = t
    BY DEF S!Format
  <2> QED BY <2>1, ListsOfLength
<1>3. \A p, s, t, u : SizeOk(s, Largest) /\ SizeOk(t, Largest) /\ SizeOk(u, Largest)
                        => Ok(S!Format(p, <<s, t, u>>))
  <2> SUFFICES ASSUME NEW p, NEW s, NEW t, NEW u,
                      SizeOk(s, Largest), SizeOk(t, Largest), SizeOk(u, Largest)
               PROVE  Ok(S!Format(p, <<s, t, u>>))
    OBVIOUS
  <2>1. /\ S!Format(p, <<s, t, u>>).sizes = <<s, t, u>> /\ DOMAIN <<s, t, u>> = 1 .. 3
        /\ <<s, t, u>>[1] = s /\ <<s, t, u>>[2] = t /\ <<s, t, u>>[3] = u
    BY DEF S!Format
  <2> QED BY <2>1, ListsOfLength
<1>4. /\ \A f : Ok(f) => CameraOk(<<f>>, Largest)
      /\ \A f, g : Ok(f) /\ Ok(g) => CameraOk(<<f, g>>, Largest)
      /\ CameraOk(<< >>, Largest)
  <2>1. ASSUME NEW f, Ok(f) PROVE CameraOk(<<f>>, Largest)
    <3>1. DOMAIN <<f>> = 1 .. 1 /\ <<f>>[1] = f
      OBVIOUS
    <3> QED BY <2>1, <3>1, ListsOfLength DEF CameraOk
  <2>2. ASSUME NEW f, NEW g, Ok(f), Ok(g) PROVE CameraOk(<<f, g>>, Largest)
    <3>1. DOMAIN <<f, g>> = 1 .. 2 /\ <<f, g>>[1] = f /\ <<f, g>>[2] = g
      OBVIOUS
    <3> QED BY <2>2, <3>1, ListsOfLength DEF CameraOk
  <2>3. CameraOk(<< >>, Largest)
    BY ListsOfLength DEF CameraOk
  <2> QED BY <2>1, <2>2, <2>3
<1>5. ASSUME NEW r \in 1 .. Largest, NEW q \in 1 .. Largest
      PROVE  /\ Listed(<<r>>) /\ \A i \in DOMAIN <<r>> : <<r>>[i] \in 1 .. Largest
             /\ Listed(<<r, q>>) /\ \A i \in DOMAIN <<r, q>> : <<r, q>>[i] \in 1 .. Largest
  <2>1. \A i \in DOMAIN <<r>> : <<r>>[i] \in 1 .. Largest
    OBVIOUS
  <2>2. \A i \in DOMAIN <<r, q>> : <<r, q>>[i] \in 1 .. Largest
    <3>1. DOMAIN <<r, q>> = 1 .. 2 /\ <<r, q>>[1] = r /\ <<r, q>>[2] = q
      OBVIOUS
    <3>2. \A i \in 1 .. 2 : i = 1 \/ i = 2
      OBVIOUS
    <3> QED BY <3>1, <3>2
  <2> QED BY <2>1, <2>2, ListsOfLength
<1>6. ASSUME NEW w \in 0 .. Largest, NEW h \in 0 .. Largest, NEW r \in 1 .. Largest, NEW q \in 1 .. Largest
      PROVE  SizeOk(S!Discrete(w, h, <<r>>), Largest) /\ SizeOk(S!Discrete(w, h, <<r, q>>), Largest)
  BY <1>5, DiscreteIsOk, Zenon
<1>7. /\ SizeOk(S!Discrete(1280, 720, <<30>>), Largest)
      /\ SizeOk(S!Discrete(640, 480, <<30, 15>>), Largest)
      /\ SizeOk(S!Discrete(800, 600, <<15>>), Largest)
      /\ SizeOk(S!Discrete(1920, 1080, <<15>>), Largest)
      /\ SizeOk(S!Discrete(640, 480, <<30>>), Largest)
  <2> DEFINE w1 == 1280
             h1 == 720
             w2 == 640
             h2 == 480
             w3 == 800
             h3 == 600
             w4 == 1920
             h4 == 1080
             fast == 30
             slow == 15
  <2>1. /\ {w1, w2, w3, w4, h1, h2, h3, h4} \subseteq 0 .. Largest
        /\ {fast, slow} \subseteq 1 .. Largest
    BY DEF Largest
  <2> HIDE DEF w1, w2, w3, w4, h1, h2, h3, h4, fast, slow
  <2>2. /\ SizeOk(S!Discrete(w1, h1, <<fast>>), Largest)
        /\ SizeOk(S!Discrete(w2, h2, <<fast, slow>>), Largest)
        /\ SizeOk(S!Discrete(w3, h3, <<slow>>), Largest)
        /\ SizeOk(S!Discrete(w4, h4, <<slow>>), Largest)
        /\ SizeOk(S!Discrete(w2, h2, <<fast>>), Largest)
    BY <1>6, <2>1
  <2> QED BY <2>2 DEF w1, w2, w3, w4, h1, h2, h3, h4, fast, slow
<1>8. /\ SizeOk(S!Range("continuous", "continuous"), Largest)
      /\ SizeOk(S!Range("stepwise", "continuous"), Largest)
      /\ SizeOk(S!Range("stepwise", "stepwise"), Largest)
  BY RangeIsOk
<1> HIDE DEF Ok
<1>9. /\ Ok(S!Usb[1]) /\ Ok(S!Usb[2])
      /\ S!Usb = <<S!Usb[1], S!Usb[2]>> /\ Tail(S!Usb) = <<S!Usb[2]>>
  BY <1>1, <1>3, <1>7 DEF S!Usb
<1>10. CameraOk(S!Usb, Largest) /\ CameraOk(Tail(S!Usb), Largest)
  <2>1. PICK f, g : Ok(f) /\ Ok(g) /\ S!Usb = <<f, g>> /\ Tail(S!Usb) = <<g>>
    BY <1>9
  <2> QED BY <1>4, <2>1, Zenon
<1>11. /\ CameraOk(<<S!Format("RGB24", <<S!Range("continuous", "continuous")>>)>>, Largest)
       /\ CameraOk(<<S!Format("RGB24", <<S!Range("stepwise", "continuous"),
                                         S!Discrete(640, 480, <<30>>)>>)>>, Largest)
       /\ CameraOk(<<S!Format("RGB24", <<S!Range("stepwise", "stepwise")>>)>>, Largest)
       /\ CameraOk(<<S!Format("YUYV", <<S!Range("stepwise", "stepwise")>>)>>, Largest)
  BY <1>1, <1>2, <1>4, <1>7, <1>8
<1> DEFINE a == <<S!Format("RGB24", <<S!Range("continuous", "continuous")>>)>>
           b == <<S!Format("RGB24", <<S!Range("stepwise", "continuous"),
                                      S!Discrete(640, 480, <<30>>)>>)>>
           c == <<S!Format("RGB24", <<S!Range("stepwise", "stepwise")>>)>>
           d == <<S!Format("YUYV", <<S!Range("stepwise", "stepwise")>>)>>
<1>12. S!VideoCameras = {<< >>, S!Usb, Tail(S!Usb), a, b, c, d}
  BY DEF S!VideoCameras
<1>13. CameraOk(a, Largest) /\ CameraOk(b, Largest) /\ CameraOk(c, Largest) /\ CameraOk(d, Largest)
  BY <1>11
<1> HIDE DEF a, b, c, d
<1> QED BY <1>4, <1>10, <1>12, <1>13

LEMMA WantsAreOk == \A want \in S!VideoWants : WantOk(want)
<1>1. << >> \in Seq({"YUYV"}) /\ <<"YUYV">> \in Seq({"YUYV"})
  OBVIOUS
<1> SUFFICES ASSUME NEW want \in S!VideoWants PROVE WantOk(want)
  OBVIOUS
<1>2. want.w \in {500, 640, 1280} /\ want.h \in {480} /\ want.rate \in {5, 15, 30}
  BY DEF S!VideoWants
<1>3. want.w \in Nat /\ want.h \in Nat /\ want.rate \in Nat \ {0}
  BY <1>2
<1>4. /\ want.selector \in S!F!Selectors /\ want.converts \in BOOLEAN
      /\ want.expected \in {"RGB24"} /\ want.fallbacks \in {<< >>, <<"YUYV">>}
  BY DEF S!VideoWants
<1>5. want.fallbacks \in Seq({"YUYV"})
  BY <1>1, <1>4
<1> QED BY <1>3, <1>4, <1>5 DEF WantOk

\* The format that the constructor of V4LCameraCapture chooses is what FormatChosen says
\* (V4LCameraCapture.__init__, lookup_config, set_format).
THEOREM FormatIsTheOneAskedFor == AnySpec => []FormatChosen
<1>1. ComputeInv => FormatChosen
  <2> SUFFICES ASSUME ComputeInv, Done("format")
               PROVE  S!F!FormatChosen(input.camera, input.want, output[1])
    BY DEF FormatChosen
  <2>1. kind = "format" /\ kind \notin Tasks /\ output # << >>
    BY DEF Done, Tasks
  <2>2. /\ input \in [camera : S!VideoCameras, want : S!VideoWants]
        /\ output = <<S!Output(kind, input)>>
    BY <2>1 DEF ComputeInv, S!Inputs
  <2>3. output[1] = S!F!Construct(input.camera, input.want)
    BY <2>1, <2>2 DEF S!Output
  <2>4. Largest \in Nat /\ CameraOk(input.camera, Largest) /\ WantOk(input.want)
    BY <2>2, CamerasAreOk, WantsAreOk DEF Largest
  <2> QED BY <2>3, <2>4, FormatIsChosen
<1> QED BY <1>1, ComputeInvHolds, PTL

-----------------------------------------------------------------------------
(* Setting controls *)

Devices(D, Vals) ==
  [D -> [kind : S!Kinds, type : Vals, readonly : BOOLEAN, default : Vals, value : Vals]]

LEMMA WrittenIs ==
  ASSUME NEW D, NEW Vals, NEW device \in Devices(D, Vals), NEW id \in D, NEW value \in Vals
  PROVE  /\ S!Written(device, id, value) \in Devices(D, Vals)
         /\ \A other \in D \ {id} : S!Written(device, id, value)[other] = device[other]
         /\ S!Written(device, id, value)[id].kind = device[id].kind
         /\ S!Written(device, id, value)[id].value =
              IF S!Settable(device[id]) /\ ~ S!Fixed(device[id]) THEN value ELSE device[id].value
<1> DEFINE after == [device EXCEPT ![id].value = value]
           c == [device[id] EXCEPT !.value = value]
<1>1. device \in [D -> [kind : S!Kinds, type : Vals, readonly : BOOLEAN, default : Vals, value : Vals]]
  BY DEF Devices
<1>2. device[id] \in [kind : S!Kinds, type : Vals, readonly : BOOLEAN, default : Vals, value : Vals]
  BY <1>1
<1>3. /\ c \in [kind : S!Kinds, type : Vals, readonly : BOOLEAN, default : Vals, value : Vals]
      /\ c.value = value /\ c.kind = device[id].kind
  BY <1>2
<1>4. /\ after \in Devices(D, Vals) /\ after[id] = c
      /\ \A other \in D \ {id} : after[other] = device[other]
  BY <1>1, <1>3 DEF Devices
<1> HIDE DEF after, c
<1>5. S!Written(device, id, value) =
        IF S!Settable(device[id]) /\ ~ S!Fixed(device[id]) THEN after ELSE device
  BY DEF S!Written, after
<1> QED BY <1>3, <1>4, <1>5

\* What a setter does to its own control, and to the others nothing.
LEMMA SetControlIs ==
  ASSUME NEW D, NEW Vals, NEW device \in Devices(D, Vals), NEW id \in D, NEW value \in Vals
  PROVE  LET out == S!SetControl(device, id, value) IN
         /\ out.device \in Devices(D, Vals)
         /\ \A other \in D \ {id} : out.device[other] = device[other]
         /\ out.ok => out.device[id].value = value \/ device[id].kind = "adjusts"
<1> DEFINE after == S!Written(device, id, value)
           told == IF device[id].kind = "adjusts" THEN device[id].value ELSE value
<1>1. /\ after \in Devices(D, Vals)
      /\ \A other \in D \ {id} : after[other] = device[other]
  BY WrittenIs
<1>2. S!SetControl(device, id, value) =
        [ok |-> S!Settable(device[id]) /\ device[id].kind # "hides" /\ after[id].value = told,
         device |-> after]
  BY DEF S!SetControl, S!Result
<1> DEFINE out == S!SetControl(device, id, value)
           fine == S!Settable(device[id]) /\ device[id].kind # "hides" /\ after[id].value = told
<1>4. out = [ok |-> fine, device |-> after] /\ (fine => after[id].value = told)
  BY <1>2
<1> HIDE DEF after, fine, out
<1>3. out.device = after /\ (out.ok => after[id].value = told)
  BY <1>4
<1> HIDE DEF out
<1> QED BY <1>1, <1>3 DEF out

LEMMA SetUncheckedIs ==
  ASSUME NEW D, NEW Vals, NEW device \in Devices(D, Vals), NEW id \in D, NEW value \in Vals
  PROVE  LET out == S!SetUnchecked(device, id, value) IN
         /\ out.device \in Devices(D, Vals)
         /\ \A other \in D \ {id} : out.device[other] = device[other]
         /\ out.ok => out.device[id].value = value \/ device[id].kind \in {"adjusts", "keeps"}
<1> DEFINE after == S!Written(device, id, value)
<1>1. /\ after \in Devices(D, Vals)
      /\ \A other \in D \ {id} : after[other] = device[other]
      /\ after[id].value =
           IF S!Settable(device[id]) /\ ~ S!Fixed(device[id]) THEN value ELSE device[id].value
  BY WrittenIs
<1>2. S!SetUnchecked(device, id, value) = [ok |-> S!Settable(device[id]), device |-> after]
  BY DEF S!SetUnchecked, S!Result
<1> HIDE DEF after
<1> QED BY <1>1, <1>2 DEF S!Fixed

LEMMA SetFlipIs ==
  ASSUME NEW D, NEW Vals, NEW device \in Devices(D, Vals), NEW id \in D, NEW flip \in Vals
  PROVE  LET out == S!SetFlip(device, id, flip) IN
         /\ out.device \in Devices(D, Vals)
         /\ \A other \in D \ {id} : out.device[other] = device[other]
         /\ out.ok => out.device[id].value = flip \/ device[id].kind = "adjusts"
<1>1. CASE device[id].kind \in {"absent", "disabled"}
  <2>1. S!SetFlip(device, id, flip) = [ok |-> FALSE, device |-> device]
    BY <1>1 DEF S!SetFlip, S!Result
  <2> QED BY <2>1
<1>2. CASE device[id].kind \notin {"absent", "disabled"}
  <2>1. S!SetFlip(device, id, flip) = S!SetControl(device, id, flip)
    BY <1>2 DEF S!SetFlip
  <2> DEFINE out == S!SetControl(device, id, flip)
  <2>2. /\ out.device \in Devices(D, Vals)
        /\ \A other \in D \ {id} : out.device[other] = device[other]
        /\ out.ok => out.device[id].value = flip \/ device[id].kind = "adjusts"
    BY SetControlIs
  <2> HIDE DEF out
  <2> QED BY <2>1, <2>2 DEF out
<1> QED BY <1>1, <1>2

LEMMA InitControlsIs ==
  ASSUME NEW D, NEW Vals, NEW device \in Devices(D, Vals), NEW targets
  PROVE  LET out == S!InitControls(device, targets)
             ctrls == {id \in D : /\ device[id].kind # "absent"
                                  /\ targets = {"all"} \/ id \in targets
                                  /\ S!MakeInitializer(id, device[id])} IN
         /\ \A id \in D \ ctrls : out.device[id] = device[id]
         /\ out.ok => \A id \in ctrls :
              out.device[id].value = device[id].default \/ device[id].kind \in {"adjusts", "keeps"}
<1> DEFINE ctrls == {id \in D : /\ device[id].kind # "absent"
                                /\ targets = {"all"} \/ id \in targets
                                /\ S!MakeInitializer(id, device[id])}
           out == S!InitControls(device, targets)
           ok == \A id \in ctrls : S!Settable(device[id])
           after == [id \in D |-> IF ok /\ id \in ctrls /\ ~ S!Fixed(device[id])
                                  THEN [device[id] EXCEPT !.value = device[id].default]
                                  ELSE device[id]]
<1>1. DOMAIN device = D
      /\ \A id \in D : device[id] \in [kind : S!Kinds, type : Vals, readonly : BOOLEAN, default : Vals, value : Vals]
  BY DEF Devices
<1>2. ctrls = {id \in {i \in S!QueryExtControls(device) : targets = {"all"} \/ i \in targets} :
                 S!MakeInitializer(id, device[id])}
  BY <1>1 DEF S!QueryExtControls
<1> HIDE DEF ctrls
<1>3. out = [ok |-> ok, device |-> after]
  BY <1>1, <1>2 DEF S!InitControls, S!Result
<1> HIDE DEF out
<1>4. \A id \in D \ ctrls : after[id] = device[id]
  OBVIOUS
<1>5. ASSUME ok, NEW id \in ctrls
      PROVE  after[id].value = device[id].default \/ device[id].kind \in {"adjusts", "keeps"}
  <2>1. id \in D
    BY DEF ctrls
  <2>2. CASE S!Fixed(device[id])
    BY <2>2 DEF S!Fixed
  <2>3. CASE ~ S!Fixed(device[id])
    <3>1. after[id] = [device[id] EXCEPT !.value = device[id].default]
      BY <1>5, <2>1, <2>3
    <3> QED BY <1>1, <2>1, <3>1
  <2> QED BY <2>2, <2>3
<1> HIDE DEF ok, after
<1> QED BY <1>3, <1>4, <1>5 DEF out, ctrls

LEMMA QuarterTurns ==
  ASSUME NEW r \in Int, r % 90 = 0
  PROVE  ((r \div 90) % 4) * 90 = r % 360
<1> DEFINE q == r \div 90
           a == q \div 4
           b == q % 4
<1>1. q \in Int /\ r = 90 * q
  BY DivMod
<1>2. a \in Int /\ b \in 0 .. 3 /\ q = 4 * a + b
  BY <1>1, DivMod
<1> HIDE DEF q, a, b
<1>3. r = 360 * a + 90 * b /\ 90 * b \in 0 .. 360 - 1
  BY <1>1, <1>2
<1>4. r % 360 = 90 * b
  BY <1>2, <1>3, DivUnique
<1>5. ((r \div 90) % 4) * 90 = b * 90
  BY DEF q, b
<1> QED BY <1>2, <1>4, <1>5

\* The operations that set controls (set_horizontal_flip, set_vertical_flip,
\* set_rotation, init_controls) do what is asked of them, on any device.
THEOREM ControlsAreKept ==
  ASSUME NEW D, NEW Vals, NEW device \in Devices(D, Vals)
  PROVE  /\ \A flip \in Vals : "HFLIP" \in D =>
              S!ControlsHold("hflip", device, flip, S!SetHorizontalFlip(device, flip))
         /\ \A flip \in Vals : "VFLIP" \in D =>
              S!ControlsHold("vflip", device, flip, S!SetVerticalFlip(device, flip))
         /\ \A r \in Int : r % 90 = 0 /\ r % 360 \in Vals /\ "ROTATE" \in D =>
              S!ControlsHold("rotate", device, r, S!SetRotation(device, r))
         /\ \A ms \in Int :
              10 * ms \in Vals /\ "AUTO" \in Vals /\ "MANUAL" \in Vals /\ "EXPOSURE_AUTO" \in D
                /\ "EXPOSURE_ABSOLUTE" \in D =>
              S!ControlsHold("exposure", device, ms, S!SetExposureTime(device, ms))
         /\ \A target : S!ControlsHold("init", device, target, S!InitControls(device, {target}))
<1>1. DOMAIN device = D
  BY DEF Devices
<1>2. ASSUME NEW flip \in Vals, "HFLIP" \in D
      PROVE  S!ControlsHold("hflip", device, flip, S!SetHorizontalFlip(device, flip))
  <2> DEFINE out == S!SetFlip(device, "HFLIP", flip)
             asked == [id \in {"HFLIP"} |-> flip]
  <2>1. /\ \A other \in D \ {"HFLIP"} : out.device[other] = device[other]
        /\ out.ok => out.device["HFLIP"].value = flip \/ device["HFLIP"].kind = "adjusts"
    BY <1>2, SetFlipIs
  <2>2. S!Asked("hflip", device, flip) = asked /\ DOMAIN asked = {"HFLIP"} /\ asked["HFLIP"] = flip
    BY DEF S!Asked
  <2> HIDE DEF out, asked
  <2>3. S!ControlsHold("hflip", device, flip, out)
    BY <1>1, <2>1, <2>2 DEF S!ControlsHold
  <2> QED BY <2>3 DEF out, S!SetHorizontalFlip
<1>3. ASSUME NEW flip \in Vals, "VFLIP" \in D
      PROVE  S!ControlsHold("vflip", device, flip, S!SetVerticalFlip(device, flip))
  <2> DEFINE out == S!SetFlip(device, "VFLIP", flip)
             asked == [id \in {"VFLIP"} |-> flip]
  <2>1. /\ \A other \in D \ {"VFLIP"} : out.device[other] = device[other]
        /\ out.ok => out.device["VFLIP"].value = flip \/ device["VFLIP"].kind = "adjusts"
    BY <1>3, SetFlipIs
  <2>2. S!Asked("vflip", device, flip) = asked /\ DOMAIN asked = {"VFLIP"} /\ asked["VFLIP"] = flip
    BY DEF S!Asked
  <2> HIDE DEF out, asked
  <2>3. S!ControlsHold("vflip", device, flip, out)
    BY <1>1, <2>1, <2>2 DEF S!ControlsHold
  <2> QED BY <2>3 DEF out, S!SetVerticalFlip
<1>4. ASSUME NEW r \in Int, r % 90 = 0, r % 360 \in Vals, "ROTATE" \in D
      PROVE  S!ControlsHold("rotate", device, r, S!SetRotation(device, r))
  <2> DEFINE turn == r % 360
             out == S!SetUnchecked(device, "ROTATE", turn)
             asked == [id \in {"ROTATE"} |-> turn]
  <2>1. S!SetRotation(device, r) = out
    BY <1>4, QuarterTurns DEF S!SetRotation
  <2>2. S!Asked("rotate", device, r) = asked
    BY DEF S!Asked
  <2>3. turn \in Vals
    BY <1>4
  <2> HIDE DEF turn
  <2>4. /\ \A other \in D \ {"ROTATE"} : out.device[other] = device[other]
        /\ out.ok => \/ out.device["ROTATE"].value = turn
                     \/ device["ROTATE"].kind \in {"adjusts", "keeps"}
    BY <1>4, <2>3, SetUncheckedIs
  <2>5. DOMAIN asked = {"ROTATE"} /\ asked["ROTATE"] = turn
    OBVIOUS
  <2> HIDE DEF out, asked
  <2> QED BY <1>1, <2>1, <2>2, <2>4, <2>5 DEF S!ControlsHold
<1>5. ASSUME NEW ms \in Int, 10 * ms \in Vals, "AUTO" \in Vals, "MANUAL" \in Vals,
             "EXPOSURE_AUTO" \in D, "EXPOSURE_ABSOLUTE" \in D
      PROVE  S!ControlsHold("exposure", device, ms, S!SetExposureTime(device, ms))
  <2> DEFINE value == IF ms = 0 THEN "AUTO" ELSE "MANUAL"
             mode == S!SetControl(device, "EXPOSURE_AUTO", value)
             time == S!SetControl(mode.device, "EXPOSURE_ABSOLUTE", 10 * ms)
             out == S!SetExposureTime(device, ms)
  <2>1. value \in Vals
    BY <1>5
  <2>2. out = IF ~ mode.ok \/ ms = 0 THEN mode ELSE time
    BY DEF S!SetExposureTime
  <2>3. value = IF ms = 0 THEN "AUTO" ELSE "MANUAL"
    OBVIOUS
  <2> HIDE DEF value
  <2>4. /\ mode.device \in Devices(D, Vals)
        /\ \A other \in D \ {"EXPOSURE_AUTO"} : mode.device[other] = device[other]
        /\ mode.ok => mode.device["EXPOSURE_AUTO"].value = value \/ device["EXPOSURE_AUTO"].kind = "adjusts"
    BY <1>5, <2>1, SetControlIs
  <2> HIDE DEF mode
  <2>5. /\ \A other \in D \ {"EXPOSURE_ABSOLUTE"} : time.device[other] = mode.device[other]
        /\ time.ok => \/ time.device["EXPOSURE_ABSOLUTE"].value = 10 * ms
                      \/ mode.device["EXPOSURE_ABSOLUTE"].kind = "adjusts"
    BY <1>5, <2>4, SetControlIs
  <2> HIDE DEF time, out
  <2>6. CASE ms = 0
    <3> DEFINE asked == [id \in {"EXPOSURE_AUTO"} |-> "AUTO"]
    <3>1. S!Asked("exposure", device, ms) = asked
      BY <2>6 DEF S!Asked
    <3>2. DOMAIN asked = {"EXPOSURE_AUTO"} /\ asked["EXPOSURE_AUTO"] = "AUTO"
      OBVIOUS
    <3> HIDE DEF asked
    <3> QED BY <1>1, <2>2, <2>3, <2>4, <2>6, <3>1, <3>2 DEF S!ControlsHold, out
  <2>7. CASE ms # 0
    <3> DEFINE asked == [id \in {"EXPOSURE_AUTO", "EXPOSURE_ABSOLUTE"} |->
                           IF id = "EXPOSURE_AUTO" THEN "MANUAL" ELSE 10 * ms]
    <3>1. S!Asked("exposure", device, ms) = asked
      BY <2>7 DEF S!Asked
    <3>2. /\ DOMAIN asked = {"EXPOSURE_AUTO", "EXPOSURE_ABSOLUTE"}
          /\ asked["EXPOSURE_AUTO"] = "MANUAL" /\ asked["EXPOSURE_ABSOLUTE"] = 10 * ms
      OBVIOUS
    <3> HIDE DEF asked
    <3>3. \A id \in D \ DOMAIN asked : out.device[id] = device[id]
      BY <2>2, <2>4, <2>5, <3>2
    <3>4. ASSUME out.ok, NEW id \in DOMAIN asked
          PROVE  out.device[id].value = asked[id] \/ device[id].kind = "adjusts"
      <4>1. mode.ok /\ out = time
        BY <2>2, <2>7, <3>4
      <4>2. CASE id = "EXPOSURE_AUTO"
        <5>1. time.device[id] = mode.device[id]
          BY <1>5, <2>5, <4>2
        <5> QED BY <2>3, <2>4, <2>7, <3>2, <4>1, <4>2, <5>1
      <4>3. CASE id = "EXPOSURE_ABSOLUTE"
        <5>1. mode.device[id] = device[id]
          BY <1>5, <2>4, <4>3
        <5> QED BY <2>5, <3>2, <3>4, <4>1, <4>3, <5>1
      <4> QED BY <3>2, <4>2, <4>3
    <3> QED BY <1>1, <3>1, <3>3, <3>4 DEF S!ControlsHold, out
  <2> QED BY <2>6, <2>7
<1>6. ASSUME NEW target
      PROVE  S!ControlsHold("init", device, target, S!InitControls(device, {target}))
  <2> DEFINE out == S!InitControls(device, {target})
             asked == S!Asked("init", device, target)
             ctrls == {id \in D : /\ device[id].kind # "absent"
                                  /\ {target} = {"all"} \/ id \in {target}
                                  /\ S!MakeInitializer(id, device[id])}
             named == {i \in DOMAIN device : target \in {i, "all"} /\ S!MakeInitializer(i, device[i])}
  <2>1. /\ \A id \in D \ ctrls : out.device[id] = device[id]
        /\ out.ok => \A id \in ctrls :
             out.device[id].value = device[id].default \/ device[id].kind \in {"adjusts", "keeps"}
    BY InitControlsIs
  <2>2. asked = [id \in named |-> device[id].default]
    BY DEF S!Asked
  <2>3. \A id : id \in named => id \in D /\ (id \in ctrls \/ device[id].kind = "absent")
    BY <1>1
  <2>4. \A id : id \in ctrls => id \in named
    BY <1>1
  <2> HIDE DEF out, ctrls, named
  <2>5. DOMAIN asked = named /\ \A id \in named : asked[id] = device[id].default
    BY <2>2
  <2> HIDE DEF asked
  <2>6. S!ControlsHold("init", device, target, out)
    BY <1>1, <2>1, <2>3, <2>4, <2>5 DEF S!ControlsHold, asked
  <2> QED BY <2>6 DEF out
<1> QED BY <1>2, <1>3, <1>4, <1>5, <1>6

-----------------------------------------------------------------------------
(* The sensor: its mode, the part of it, the blanking, exposure and gain *)

LEMMA SameArithmetic ==
  /\ \A n, d : S!Q(n, d) = Q(n, d)
  /\ \A n : S!Abs(n) = Abs(n) /\ S!Int2Q(n) = Int2Q(n)
  /\ \A p, q : S!Mul(p, q) = Mul(p, q) /\ S!Over(p, q) = Over(p, q)
  /\ \A p, q : S!Add(p, q) = Add(p, q) /\ S!Sub(p, q) = Sub(p, q)
  /\ \A p, q : S!Less(p, q) = Less(p, q) /\ S!AtMost(p, q) = AtMost(p, q)
  /\ \A p, q : S!MinQ(p, q) = MinQ(p, q) /\ S!MaxQ(p, q) = MaxQ(p, q)
  /\ \A p : S!Floor(p) = Floor(p)
<1>1. S!Gcd = Gcd
  BY DEF S!Gcd, Gcd
<1>2. \A n : S!Abs(n) = Abs(n) /\ S!Int2Q(n) = Int2Q(n)
  BY DEF S!Abs, Abs, S!Int2Q, Int2Q
<1>3. \A n, d : S!Q(n, d) = Q(n, d)
  BY <1>1, <1>2, Zenon DEF S!Q, Q
<1>4. \A p, q : S!Mul(p, q) = Mul(p, q) /\ S!Over(p, q) = Over(p, q)
  BY <1>3, Zenon DEF S!Mul, S!Over, Mul, Over
<1>5. \A p, q : S!Add(p, q) = Add(p, q) /\ S!Sub(p, q) = Sub(p, q)
  BY <1>3, Zenon DEF S!Add, S!Sub, Add, Sub
<1>6. \A p, q : S!Less(p, q) = Less(p, q) /\ S!AtMost(p, q) = AtMost(p, q)
  BY Zenon DEF S!Less, S!AtMost, Less, AtMost
<1>7. \A p, q : S!MinQ(p, q) = MinQ(p, q) /\ S!MaxQ(p, q) = MaxQ(p, q)
  BY <1>6, Zenon DEF S!MinQ, S!MaxQ, MinQ, MaxQ
<1>8. \A p : S!Floor(p) = Floor(p)
  BY Zenon DEF S!Floor, Floor
<1> QED BY <1>2, <1>3, <1>4, <1>5, <1>6, <1>7, <1>8

\* Rounding goes to a nearest number.
LEMMA RoundedIs ==
  ASSUME NEW a \in Int, NEW b \in Positive
  PROVE  LET n == S!Rounded(Q(a, b)) IN
           n \in Int /\ 2 * (n * b - a) <= b /\ 2 * (a - n * b) <= b
<1> DEFINE n == a \div b
           r == a % b
           q == Q(a, b)
           rest == Sub(q, Int2Q(n))
           m == S!Rounded(q)
<1>1. n \in Int /\ r \in 0 .. b - 1 /\ a = b * n + r
  BY DivMod, Zenon DEF Positive
<1>2. Floor(q) = n
  BY QFloors
<1> HIDE DEF n, r, m
<1>3. rest = Q(r, b)
  <2>1. Int2Q(n) = Q(n, 1) /\ 1 \in Positive
    BY <1>1, IntIsQ DEF Positive
  <2>2. rest = Q(a * 1 - n * b, b * 1)
    BY <1>1, <2>1, QAdds
  <2>3. a * 1 - n * b = r /\ b * 1 = b
    BY <1>1 DEF Positive
  <2> QED BY <2>2, <2>3
<1>4. <<1, 2>> = Q(1, 2) /\ 1 \in Int /\ 2 \in Positive /\ r \in Int
  BY <1>1, HalfIsQ DEF Positive
<1>5. /\ Less(rest, <<1, 2>>) <=> r * 2 < 1 * b
      /\ rest = <<1, 2>> <=> r * 2 = 1 * b
  BY <1>3, <1>4, QCompares
<1>6. m = IF Less(rest, <<1, 2>>) \/ (rest = <<1, 2>> /\ n % 2 = 0) THEN n ELSE n + 1
  BY <1>2, SameArithmetic, Zenon DEF S!Rounded, m
<1> HIDE DEF rest, q
<1>7. CASE m = n /\ 2 * r <= b
  <2>1. m * b - a = -r /\ a - m * b = r
    BY <1>1, <1>7 DEF Positive
  <2> QED BY <1>1, <1>7, <2>1 DEF m, q, Positive
<1>8. CASE m = n + 1 /\ 2 * r >= b
  <2>1. m * b - a = b - r /\ a - m * b = r - b
    BY <1>1, <1>8 DEF Positive
  <2> QED BY <1>1, <1>8, <2>1 DEF m, q, Positive
<1>9. (m = n /\ 2 * r <= b) \/ (m = n + 1 /\ 2 * r >= b)
  <2>1. b \in Int /\ r \in Int
    BY <1>1 DEF Positive
  <2>2. CASE r * 2 < 1 * b
    BY <1>5, <1>6, <2>1, <2>2
  <2>3. CASE r * 2 = 1 * b
    BY <1>5, <1>6, <2>1, <2>3
  <2>4. CASE r * 2 > 1 * b
    BY <1>5, <1>6, <2>1, <2>4
  <2> QED BY <2>1, <2>2, <2>3, <2>4
<1> QED BY <1>7, <1>8, <1>9

\* One side of the mode is scaled to another side's ratio, which it contains.
LEMMA SideIs ==
  ASSUME NEW w \in Positive, NEW x \in Positive, NEW h \in Positive, NEW y \in Positive,
         h * x <= y * w
  PROVE  LET n == S!Rounded(Mul(Int2Q(h), Q(x, w))) IN
           /\ n \in 0 .. y
           /\ 2 * (n * w - h * x) <= w /\ 2 * (h * x - n * w) <= w
           /\ h = w => n = x
<1> DEFINE n == S!Rounded(Mul(Int2Q(h), Q(x, w)))
           a == h * x
           m == n * w
           z == y * w
<1>1. h \in Int /\ x \in Int /\ y \in Int /\ w \in Int /\ 1 \in Positive /\ a \in Int
  BY DEF Positive
<1>2. Mul(Int2Q(h), Q(x, w)) = Q(a, w)
  <2>1. Mul(Q(h, 1), Q(x, w)) = Q(h * x, 1 * w)
    BY <1>1, QAdds
  <2>2. Int2Q(h) = Q(h, 1) /\ 1 * w = w
    BY <1>1, IntIsQ
  <2> QED BY <2>1, <2>2
<1>3. n \in Int /\ 2 * (m - a) <= w /\ 2 * (a - m) <= w
  BY <1>1, <1>2, RoundedIs
<1> HIDE DEF n
<1>4. a <= z /\ z \in Int /\ m \in Int /\ a > 0 /\ w > 0
  BY <1>1, <1>3 DEF Positive
<1>5. m < z + w /\ m > -w
  <2> HIDE DEF m, z, a
  <2> QED BY <1>1, <1>3, <1>4
<1>6. n < y + 1 /\ n > -1
  <2>1. n * w < (y + 1) * w /\ n * w > (-1) * w
    BY <1>1, <1>3, <1>5
  <2> QED BY <1>1, <1>3, <2>1 DEF Positive
<1>7. ASSUME h = w PROVE n = x
  <2>1. m - a = w * (n - x)
    BY <1>1, <1>3, <1>7
  <2>2. n - x \in Int /\ 2 * (w * (n - x)) <= w /\ 2 * (w * (x - n)) <= w
    BY <1>1, <1>3, <2>1
  <2>3. ~ (n - x >= 1) /\ ~ (n - x <= -1)
    BY <1>1, <1>3, <2>2 DEF Positive
  <2> QED BY <1>1, <1>3, <2>3
<1>8. n \in 0 .. y
  BY <1>1, <1>3, <1>6
<1> QED BY <1>3, <1>7, <1>8 DEF n

LEMMA MiddleIs ==
  ASSUME NEW x \in Nat, NEW n \in 0 .. x
  PROVE  LET left == (x - n) \div 2 IN
           left \in Int /\ 0 <= left /\ left + n <= x /\ x - (2 * left + n) \in {0, 1}
<1> DEFINE left == (x - n) \div 2
           r == (x - n) % 2
<1>1. left \in Int /\ r \in 0 .. 1 /\ x - n = 2 * left + r
  BY DivMod
<1> HIDE DEF left, r
<1>2. 0 <= left /\ left + n <= x /\ x - (2 * left + n) \in {0, 1}
  BY <1>1
<1> QED BY <1>1, <1>2 DEF left

\* The part of a mode that becomes the frame, for frames and modes of any size.
CropRight(c, w, h, mode) ==
  /\ 0 <= c.left /\ c.left + c.w <= mode.w /\ mode.w - (2 * c.left + c.w) \in {0, 1}
  /\ 0 <= c.top /\ c.top + c.h <= mode.h /\ mode.h - (2 * c.top + c.h) \in {0, 1}
  /\ c.w = mode.w \/ c.h = mode.h
  /\ 2 * S!Abs(c.w * h - c.h * w) <= w + h

LEMMA CropIs ==
  ASSUME NEW w \in Positive, NEW h \in Positive, NEW mode,
         mode.w \in Positive, mode.h \in Positive
  PROVE  CropRight(S!CalcCropSize(w, h, mode), w, h, mode)
<1> DEFINE x == mode.w
           y == mode.h
           scale == MinQ(Q(y, h), Q(x, w))
           cw == S!Rounded(Mul(Int2Q(w), scale))
           ch == S!Rounded(Mul(Int2Q(h), scale))
           c == S!CalcCropSize(w, h, mode)
<1>1. c.left = (x - cw) \div 2 /\ c.top = (y - ch) \div 2 /\ c.w = cw /\ c.h = ch
  BY SameArithmetic DEF S!CalcCropSize, S!Rect
<1>2. x \in Positive /\ y \in Positive /\ w \in Int /\ h \in Int /\ x \in Nat /\ y \in Nat
  BY DEF Positive
<1> HIDE DEF x, y, c
<1>3. /\ cw \in 0 .. x /\ ch \in 0 .. y
      /\ cw = x \/ ch = y
      /\ 2 * (cw * h - ch * w) <= w + h /\ 2 * (ch * w - cw * h) <= w + h
  <2>1. Less(Q(x, w), Q(y, h)) <=> x * h < y * w
    BY <1>2, QCompares
  <2>2. CASE x * h < y * w
    <3>1. scale = Q(x, w)
      BY <2>1, <2>2 DEF MinQ
    <3>2. h * x <= y * w /\ w * x <= x * w
      BY <1>2, <2>2
    <3>3. cw \in 0 .. x /\ cw = x
      BY <1>2, <3>1, <3>2, SideIs
    <3>4. ch \in 0 .. y /\ 2 * (ch * w - h * x) <= w /\ 2 * (h * x - ch * w) <= w
      BY <1>2, <3>1, <3>2, SideIs
    <3> HIDE DEF cw, ch
    <3>5. cw * h = h * x /\ w <= w + h
      BY <1>2, <3>3 DEF Positive
    <3> DEFINE a == h * x
               b == ch * w
    <3>6. a \in Int /\ b \in Int /\ 2 * (b - a) <= w /\ 2 * (a - b) <= w /\ cw * h = a
      BY <1>2, <3>4, <3>5
    <3>7. 2 * (a - b) <= w + h /\ 2 * (b - a) <= w + h
      BY <1>2, <3>5, <3>6
    <3> QED BY <3>3, <3>4, <3>6, <3>7
  <2>3. CASE ~ (x * h < y * w)
    <3>1. scale = Q(y, h)
      BY <2>1, <2>3 DEF MinQ
    <3>2. w * y <= x * h /\ h * y <= y * h
      BY <1>2, <2>3
    <3>3. ch \in 0 .. y /\ ch = y
      BY <1>2, <3>1, <3>2, SideIs
    <3>4. cw \in 0 .. x /\ 2 * (cw * h - w * y) <= h /\ 2 * (w * y - cw * h) <= h
      BY <1>2, <3>1, <3>2, SideIs
    <3> HIDE DEF cw, ch
    <3>5. ch * w = w * y /\ h <= w + h
      BY <1>2, <3>3 DEF Positive
    <3> DEFINE a == cw * h
               b == w * y
    <3>6. a \in Int /\ b \in Int /\ 2 * (b - a) <= h /\ 2 * (a - b) <= h /\ ch * w = b
      BY <1>2, <3>4, <3>5
    <3>7. 2 * (a - b) <= w + h /\ 2 * (b - a) <= w + h
      BY <1>2, <3>5, <3>6
    <3> QED BY <3>3, <3>4, <3>6, <3>7
  <2> QED BY <2>2, <2>3
<1> HIDE DEF cw, ch
<1>4. 2 * S!Abs(cw * h - ch * w) <= w + h
  <2> DEFINE a == cw * h
             b == ch * w
  <2>1. a \in Int /\ b \in Int
    BY <1>2, <1>3
  <2> HIDE DEF a, b
  <2>2. 2 * (a - b) <= w + h /\ 2 * (b - a) <= w + h
    BY <1>3 DEF a, b
  <2>3. 2 * S!Abs(a - b) <= w + h
    BY <1>2, <2>1, <2>2 DEF S!Abs
  <2> QED BY <2>3 DEF a, b
<1>5. /\ 0 <= c.left /\ c.left + c.w <= x /\ x - (2 * c.left + c.w) \in {0, 1}
      /\ 0 <= c.top /\ c.top + c.h <= y /\ y - (2 * c.top + c.h) \in {0, 1}
  BY <1>1, <1>2, <1>3, MiddleIs
<1>6. (c.w = x \/ c.h = y) /\ 2 * S!Abs(c.w * h - c.h * w) <= w + h
  BY <1>1, <1>3, <1>4
<1>7. CropRight(c, w, h, mode)
  BY <1>5, <1>6 DEF x, y, CropRight
<1> QED BY <1>7 DEF c

\* The blanking and the exposure: whole lines, as many as there is time for.
LEMMA LinesAre ==
  ASSUME NEW n \in Nat, NEW line \in Positive
  PROVE  LET k == n \div line IN k \in Int /\ k * line <= n /\ n < (k + 1) * line
<1> DEFINE k == n \div line
           r == n % line
<1>1. k \in Int /\ r \in 0 .. line - 1 /\ n = line * k + r
  <2>1. line \in Nat \ {0} /\ n \in Int
    BY DEF Positive
  <2> QED BY <2>1, DivMod, Zenon
<1> HIDE DEF k, r
<1>2. (k + 1) * line = line * k + line /\ k * line = line * k
  BY <1>1 DEF Positive
<1>3. k * line <= n /\ n < (k + 1) * line
  BY <1>1, <1>2 DEF Positive
<1> QED BY <1>1, <1>3 DEF k

\* What is whole and fits is what the quotient is not short of.
LEMMA LinesFit ==
  ASSUME NEW n \in Nat, NEW line \in Positive, NEW k \in Int
  PROVE  n \div line \in Int /\ (k * line <= n <=> k <= n \div line)
<1> DEFINE q == n \div line
<1>1. q \in Int /\ q * line <= n /\ n < (q + 1) * line
  BY LinesAre
<1> HIDE DEF q
<1>2. line \in Nat /\ line > 0
  BY DEF Positive
<1>3. ASSUME k <= q PROVE k * line <= n
  <2>1. k * line <= q * line
    BY <1>1, <1>2, <1>3
  <2> QED BY <1>1, <1>2, <2>1
<1>4. ASSUME q + 1 <= k PROVE ~ (k * line <= n)
  <2>1. (q + 1) * line <= k * line
    BY <1>1, <1>2, <1>4
  <2>2. (q + 1) * line \in Int /\ k * line \in Int
    BY <1>1, <1>2
  <2> QED BY <1>1, <2>1, <2>2
<1>5. k <= q \/ q + 1 <= k
  BY <1>1
<1>6. k * line <= n <=> k <= q
  BY <1>1, <1>3, <1>4, <1>5
<1> QED BY <1>1, <1>6 DEF q

\* A gain of the sensors of Sony: what the code is short of `top'.
LEMMA SonyGainFits ==
  ASSUME NEW top \in Positive, NEW a \in Positive, NEW b \in Positive, b <= a,
         NEW k \in Int, k < top
  PROVE  LET code == Floor(Sub(Int2Q(top), Over(Int2Q(top), Q(a, b)))) IN
           /\ code \in Int
           /\ AtMost(Q(top, top - k), Q(a, b)) <=> k <= code
<1> DEFINE n == top * a - top * b
<1>1. /\ 1 \in Positive /\ top \in Int /\ top * b \in Int /\ n \in Int /\ a \in Int /\ b \in Int
      /\ top - k \in Positive
  BY DEF Positive
<1>2. n \in Nat
  <2>1. top * b <= top * a
    BY DEF Positive
  <2> QED BY <1>1, <2>1
<1>3. Floor(Sub(Int2Q(top), Over(Int2Q(top), Q(a, b)))) = n \div a
  <2>1. Over(Int2Q(top), Q(a, b)) = Q(top * b, a)
    <3>1. Over(Q(top, 1), Q(a, b)) = Q(top * b, 1 * a)
      BY <1>1, QDivides
    <3>2. Q(top, 1) = Int2Q(top) /\ 1 * a = a
      BY <1>1, IntIsQ
    <3> QED BY <3>1, <3>2
  <2>2. Sub(Int2Q(top), Q(top * b, a)) = Q(n, a)
    <3>1. Sub(Q(top, 1), Q(top * b, a)) = Q(top * a - (top * b) * 1, 1 * a)
      BY <1>1, QAdds
    <3>2. Q(top, 1) = Int2Q(top) /\ 1 * a = a /\ (top * b) * 1 = top * b
      BY <1>1, IntIsQ
    <3> QED BY <3>1, <3>2
  <2> QED BY <1>1, <2>1, <2>2, QFloors
<1>4. AtMost(Q(top, top - k), Q(a, b)) <=> top * b <= a * (top - k)
  BY <1>1, AtMostQ
<1>5. top * b <= a * (top - k) <=> k * a <= n
  <2>1. a * (top - k) = top * a - k * a
    BY <1>1
  <2>2. top * a \in Int /\ k * a \in Int
    BY <1>1
  <2> QED BY <1>1, <2>1, <2>2
<1> HIDE DEF n
<1>6. n \div a \in Int /\ (k * a <= n <=> k <= n \div a)
  BY <1>2, LinesFit
<1> QED BY <1>3, <1>4, <1>5, <1>6

\* The codes of the gains up to the one that was asked are those up to the code that is
\* computed.  A gain is at least one: that it is cut off is a floor only of such a one.
LEMMA GainFits ==
  ASSUME NEW sensor \in {"imx219", "imx708", "ov5647"},
         NEW a \in Positive, NEW b \in Positive, b <= a, NEW k \in Int,
         sensor = "imx219" => k < 256, sensor = "imx708" => k < 1024
  PROVE  LET code == S!GainCode(sensor, Q(a, b)) IN
           /\ code \in Int
           /\ S!AtMost(S!GainOf(sensor, k), Q(a, b)) <=> k <= code
<1>1. CASE sensor = "imx219"
  <2> DEFINE top == 256
             code == Floor(Sub(Int2Q(top), Over(Int2Q(top), Q(a, b))))
  <2>1. S!GainCode(sensor, Q(a, b)) = code
    BY <1>1, SameArithmetic DEF S!GainCode
  <2>2. top \in Positive /\ k < top
    BY <1>1 DEF Positive
  <2>3. S!GainOf(sensor, k) = Q(top, top - k)
    BY <1>1, SameArithmetic DEF S!GainOf
  <2> HIDE DEF top
  <2>4. code \in Int /\ (AtMost(Q(top, top - k), Q(a, b)) <=> k <= code)
    BY <2>2, SonyGainFits
  <2> HIDE DEF code
  <2> QED BY <2>1, <2>3, <2>4, SameArithmetic
<1>2. CASE sensor = "imx708"
  <2> DEFINE top == 1024
             code == Floor(Sub(Int2Q(top), Over(Int2Q(top), Q(a, b))))
  <2>1. S!GainCode(sensor, Q(a, b)) = code
    BY <1>2, SameArithmetic DEF S!GainCode
  <2>2. top \in Positive /\ k < top
    BY <1>2 DEF Positive
  <2>3. S!GainOf(sensor, k) = Q(top, top - k)
    BY <1>2, SameArithmetic DEF S!GainOf
  <2> HIDE DEF top
  <2>4. code \in Int /\ (AtMost(Q(top, top - k), Q(a, b)) <=> k <= code)
    BY <2>2, SonyGainFits
  <2> HIDE DEF code
  <2> QED BY <2>1, <2>3, <2>4, SameArithmetic
<1>3. CASE sensor = "ov5647"
  <2> DEFINE code == (16 * a) \div b
  <2>1. S!GainCode(sensor, Q(a, b)) = Floor(Mul(Int2Q(16), Q(a, b)))
    BY <1>3, SameArithmetic DEF S!GainCode
  <2>2. S!GainOf(sensor, k) = Q(k, 16)
    BY <1>3, SameArithmetic DEF S!GainOf
  <2>3. /\ 1 \in Positive /\ 16 \in Positive /\ 16 \in Int /\ a \in Int /\ 16 * a \in Int
        /\ 16 * a \in Nat /\ b \in Int
    BY DEF Positive
  <2>4. Floor(Mul(Int2Q(16), Q(a, b))) = code
    <3>1. Mul(Q(16, 1), Q(a, b)) = Q(16 * a, 1 * b)
      BY <2>3, QAdds
    <3>2. Q(16, 1) = Int2Q(16) /\ 1 * b = b
      BY <2>3, IntIsQ DEF Positive
    <3> QED BY <2>3, <3>1, <3>2, QFloors
  <2>5. code \in Int /\ (k * b <= 16 * a <=> k <= code)
    BY <2>3, LinesFit
  <2> HIDE DEF code
  <2>6. AtMost(Q(k, 16), Q(a, b)) <=> k * b <= a * 16
    BY <2>3, AtMostQ
  <2>7. a * 16 = 16 * a
    BY <2>3
  <2> QED BY <2>1, <2>2, <2>4, <2>5, <2>6, <2>7, SameArithmetic
<1> QED BY <1>1, <1>2, <1>3

\* What a sensor makes of a value that it does not refuse.
LEMMA HeldIs ==
  ASSUME NEW cam, NEW range, range[1] \in Int, range[2] \in Int, range[1] <= range[2],
         NEW asked \in Int
  PROVE  LET got == S!SetExtControl(cam, range, asked)
             n == got.value IN
           /\ n \in range[1] .. range[2]
           /\ got.ok => /\ n <= asked \/ (cam.clamps /\ n = range[1])
                        /\ ~ (n + 1 <= asked) \/ (cam.clamps /\ n = range[2])
<1> DEFINE lo == range[1]
           hi == range[2]
           got == S!SetExtControl(cam, range, asked)
           n == got.value
<1>1. n = (IF asked < lo THEN lo ELSE IF asked > hi THEN hi ELSE asked)
  BY DEF S!SetExtControl
<1>2. got.ok <=> cam.clamps \/ n = asked
  BY DEF S!SetExtControl
<1>3. lo \in Int /\ hi \in Int /\ lo <= hi
  OBVIOUS
<1> HIDE DEF n, got, lo, hi
<1>4. n \in lo .. hi
  BY <1>1, <1>3
<1>5. n <= asked \/ n = lo
  BY <1>1, <1>3
<1>6. ~ (n + 1 <= asked) \/ n = hi
  BY <1>1, <1>3
<1>7. ASSUME got.ok
      PROVE  /\ n <= asked \/ (cam.clamps /\ n = lo)
             /\ ~ (n + 1 <= asked) \/ (cam.clamps /\ n = hi)
  <2>1. CASE n = asked
    BY <2>1
  <2>2. CASE cam.clamps
    BY <1>5, <1>6, <2>2
  <2> QED BY <1>2, <1>7, <2>1, <2>2
<1> QED BY <1>4, <1>7 DEF n, got, lo, hi

LEMMA FlipsAre ==
  ASSUME NEW D, NEW Vals, NEW device \in Devices(D, Vals), "HFLIP" \in D, "VFLIP" \in D,
         BOOLEAN \subseteq Vals, NEW sensor \in {"imx219", "imx708", "ov5647"},
         NEW v, v \in BOOLEAN, NEW h, h \in BOOLEAN,
         NEW there, there = S!SetFlips(sensor, device, v, h), there.ok,
         NEW bus, bus = S!BusFormat(sensor, v, h)
  PROVE  \/ \E id \in {"VFLIP", "HFLIP"} : device[id].kind = "adjusts"
         \/ bus = S!Seen(sensor, there.device["VFLIP"].value, there.device["HFLIP"].value)
<1> DEFINE up == IF S!Imx(sensor) THEN ~ v ELSE v
           side == IF S!Imx(sensor) THEN ~ h ELSE h
           first == S!SetFlip(device, "VFLIP", up)
           second == S!SetFlip(first.device, "HFLIP", side)
           flips == S!SetFlips(sensor, device, v, h)
<1>1. up \in BOOLEAN /\ side \in BOOLEAN /\ up \in Vals /\ side \in Vals
  BY DEF S!Imx
<1>2. flips = IF ~ first.ok THEN first ELSE second
  BY DEF S!SetFlips, S!SetVerticalFlip, S!SetHorizontalFlip
<1>3. S!BusFormat(sensor, v, h) = S!Seen(sensor, up, side)
  <2> USE DEF S!BusFormat, S!Seen, S!Native, S!Upside, S!Mirror, S!Imx
  <2>1. CASE v = TRUE /\ h = TRUE
    BY <2>1
  <2>2. CASE v = TRUE /\ h = FALSE
    BY <2>2
  <2>3. CASE v = FALSE /\ h = TRUE
    BY <2>3
  <2>4. CASE v = FALSE /\ h = FALSE
    BY <2>4
  <2> QED BY <2>1, <2>2, <2>3, <2>4
<1> HIDE DEF up, side
<1>4. /\ first.device \in Devices(D, Vals)
      /\ \A other \in D \ {"VFLIP"} : first.device[other] = device[other]
      /\ first.ok => first.device["VFLIP"].value = up \/ device["VFLIP"].kind = "adjusts"
  BY <1>1, SetFlipIs
<1> HIDE DEF first
<1>5. /\ \A other \in D \ {"HFLIP"} : second.device[other] = first.device[other]
      /\ second.ok => second.device["HFLIP"].value = side \/ first.device["HFLIP"].kind = "adjusts"
  BY <1>1, <1>4, SetFlipIs
<1> HIDE DEF second, flips
<1> SUFFICES ASSUME flips.ok, \A id \in {"VFLIP", "HFLIP"} : device[id].kind # "adjusts"
             PROVE  flips.device["VFLIP"].value = up /\ flips.device["HFLIP"].value = side
  BY <1>3 DEF flips
<1>6. first.ok /\ flips = second
  BY <1>2
<1>7. "VFLIP" \in D \ {"HFLIP"} /\ "HFLIP" \in D \ {"VFLIP"}
  OBVIOUS
<1>8. second.device["VFLIP"] = first.device["VFLIP"] /\ first.device["HFLIP"] = device["HFLIP"]
  BY <1>4, <1>5, <1>7
<1> QED BY <1>4, <1>5, <1>6, <1>8

ModeOk(mode) == mode.w \in Positive /\ mode.h \in Positive /\ mode.h >= 480

LEMMA ModesAreOk ==
  /\ \A i \in DOMAIN S!V2Modes : ModeOk(S!V2Modes[i])
  /\ DOMAIN S!V2Modes = 1 .. 4 /\ DOMAIN S!V3Modes = 1 .. 3
  /\ \A i \in DOMAIN S!V3Modes : ModeOk(S!V3Modes[i])
  /\ ModeOk(S!V1Modes[1])
<1>1. \A w, h, scale, x, y :
        w \in Positive /\ h \in Positive /\ h >= 480 => ModeOk(S!Mode(w, h, scale, x, y))
  BY DEF S!Mode, ModeOk
<1>2. {480, 640, 864, 1080, 1232, 1296, 1536, 1640, 1920, 1944, 2304, 2464, 2592, 3280, 4608} \subseteq Positive
  BY DEF Positive
<1>3. /\ DOMAIN S!V2Modes = 1 .. 4
      /\ ModeOk(S!V2Modes[1]) /\ ModeOk(S!V2Modes[2]) /\ ModeOk(S!V2Modes[3]) /\ ModeOk(S!V2Modes[4])
  BY <1>1, <1>2 DEF S!V2Modes
<1>4. /\ DOMAIN S!V3Modes = 1 .. 3
      /\ ModeOk(S!V3Modes[1]) /\ ModeOk(S!V3Modes[2]) /\ ModeOk(S!V3Modes[3])
  BY <1>1, <1>2 DEF S!V3Modes
<1>5. ModeOk(S!V1Modes[1])
  BY <1>1, <1>2 DEF S!V1Modes
<1>6. (\A i \in 1 .. 4 : i = 1 \/ i = 2 \/ i = 3 \/ i = 4) /\ \A i \in 1 .. 3 : i = 1 \/ i = 2 \/ i = 3
  OBVIOUS
<1> QED BY <1>3, <1>4, <1>5, <1>6

\* What is asked of a capture: a frame of some size, at some rate, a gain of at least one.
SensorWantOk(want) ==
  /\ want.sensor \in {"imx219", "imx708", "ov5647"}
  /\ want.w \in Positive /\ want.h \in Positive /\ want.fps \in Positive
  /\ want.shutter \in Nat
  /\ want.vflip \in BOOLEAN /\ want.hflip \in BOOLEAN /\ want.agc \in BOOLEAN
  /\ want.gain \in Reduced /\ want.gain \in PositiveRat /\ want.gain[2] <= want.gain[1]

\* What a sensor has: ranges that are not empty - an exposure fits into the shortest frame
\* of each mode - and a gain short of the infinite one.
SensorOk(sensor, cam) ==
  /\ cam.hblank \in Nat /\ cam.rate \in Nat
  /\ cam.vblank[1] \in Int /\ cam.vblank[2] \in Int /\ cam.vblank[1] <= cam.vblank[2]
  /\ cam.exposure[1] \in Int /\ cam.exposure[2] \in Int
  /\ cam.exposure[1] + cam.exposure[2] <= 480 + cam.vblank[1]
  /\ cam.gain[1] \in Int /\ cam.gain[2] \in Int /\ cam.gain[1] <= cam.gain[2]
  /\ sensor = "imx219" => cam.gain[2] < 255
  /\ sensor = "imx708" => cam.gain[2] < 1023

Fixed(want) ==
  /\ want.unicam = << >> /\ want.sensor = "imx219" /\ want.fps > 40
  /\ want.w <= 1280 /\ want.h <= 720 /\ S!IsWide(want.w, want.h)

LEMMA SizeIs ==
  ASSUME NEW want, SensorWantOk(want), S!SelectSize(want) # S!Raised
  PROVE  LET size == S!SelectSize(want) IN
           /\ ModeOk(size.mode)
           /\ want.unicam = << >> =>
                size.crop = IF Fixed(want) THEN S!Rect(180, 256, 1280, 720)
                            ELSE S!CalcCropSize(want.w, want.h, size.mode)
<1> DEFINE size == S!SelectSize(want)
           w == want.w
           h == want.h
           known == {i \in DOMAIN S!V2Modes : <<S!V2Modes[i].w, S!V2Modes[i].h>> = want.unicam}
<1>1. w \in Int /\ h \in Int /\ want.fps \in Int
  BY DEF SensorWantOk, Positive
<1>2. \A mode, crop : S!Chosen(mode, crop).mode = mode /\ S!Chosen(mode, crop).crop = crop
  BY DEF S!Chosen
<1>3. CASE want.unicam # << >>
  <2>1. want.crop # << >> /\ known # {} /\ size = S!Chosen(S!V2Modes[CHOOSE i \in known : TRUE], want.crop[1])
    BY <1>3 DEF S!SelectSize
  <2>2. (CHOOSE i \in known : TRUE) \in DOMAIN S!V2Modes
    BY <2>1
  <2>3. PICK i \in DOMAIN S!V2Modes : size = S!Chosen(S!V2Modes[i], want.crop[1])
    BY <2>1, <2>2, Zenon
  <2> HIDE DEF size
  <2> QED BY <1>2, <1>3, <2>3, ModesAreOk DEF size
<1>4. CASE want.unicam = << >>
  <2>1. want.crop = << >>
    BY <1>4 DEF S!SelectSize
  <2>2. CASE want.sensor = "imx219"
    <3>1. size = S!AutoSizeImx219(w, h, want.fps)
      BY <1>4, <2>1, <2>2 DEF S!SelectSize
    <3>2. CASE Fixed(want)
      <4>1. size = S!Chosen(S!V2Modes[3], S!Rect(180, 256, 1280, 720))
        BY <1>1, <3>1, <3>2 DEF S!AutoSizeImx219, Fixed
      <4> HIDE DEF size
      <4> QED BY <1>2, <3>2, <4>1, ModesAreOk DEF size
    <3>3. CASE ~ Fixed(want)
      <4>1. \E i \in {1, 3, 4} : size = S!Chosen(S!V2Modes[i], S!CalcCropSize(w, h, S!V2Modes[i]))
        BY <1>1, <1>4, <2>2, <3>1, <3>3 DEF S!AutoSizeImx219, S!WholeMode, Fixed
      <4> HIDE DEF size
      <4> QED BY <1>2, <3>3, <4>1, ModesAreOk DEF size
    <3> QED BY <3>2, <3>3
  <2>3. CASE want.sensor # "imx219"
    <3>1. ~ Fixed(want)
      BY <2>3 DEF Fixed
    <3>2. CASE want.sensor = "imx708"
      <4>1. size = S!AutoSizeImx708(w, h, want.fps)
        BY <1>4, <2>1, <3>2 DEF S!SelectSize
      <4>2. \E i \in {1, 2, 3} : size = S!Chosen(S!V3Modes[i], S!CalcCropSize(w, h, S!V3Modes[i]))
        BY <1>1, <4>1 DEF S!AutoSizeImx708, S!WholeMode
      <4> HIDE DEF size
      <4> QED BY <1>2, <3>1, <4>2, ModesAreOk DEF size
    <3>3. CASE want.sensor # "imx708"
      <4>1. size = S!Chosen(S!V1Modes[1], S!CalcCropSize(w, h, S!V1Modes[1]))
        BY <1>4, <2>1, <2>3, <3>3 DEF S!SelectSize, S!WholeMode
      <4> HIDE DEF size
      <4> QED BY <1>2, <3>1, <4>1, ModesAreOk DEF size
    <3> QED BY <3>2, <3>3
  <2> QED BY <2>2, <2>3
<1> QED BY <1>3, <1>4

LEMMA WideIs == S!IsWide(1280, 720)
<1> DEFINE d == 9 * 720
<1>1. 9 * 1280 - 16 * 720 = 0 /\ d \in Positive
  BY DEF Positive
<1> HIDE DEF d
<1>2. S!IsWide(1280, 720) <=> Less(Q(0, d), <<1, 20>>)
  BY <1>1, SameArithmetic DEF S!IsWide, Abs, d
<1>3. PICK x \in Int, y \in Positive, g \in Positive : Q(0, d) = <<x, y>> /\ 0 = g * x
  BY <1>1, QParts
<1>4. x = 0
  BY <1>3 DEF Positive
<1> QED BY <1>2, <1>3, <1>4 DEF Less, Positive

\* A pipeline that is set up has its colours, its part of the mode and its flips as they
\* were asked, whatever the sensor's driver does of a flip, and has of the frame lengths,
\* the exposures and the gains that the sensor can do the one next to what was asked: the
\* last that is not more, or on a sensor that clamps the one at the end of its range, with
\* any ranges of the sensor and any frame, rate, shutter time and gain (__setup_pipeline).
THEOREM SensorIsSetUp ==
  ASSUME NEW want, SensorWantOk(want),
         NEW D, NEW Vals, NEW cam, cam.controls \in Devices(D, Vals), "HFLIP" \in D, "VFLIP" \in D,
         BOOLEAN \subseteq Vals, SensorOk(want.sensor, cam)
  PROVE  S!SensorSetUp(want, cam, S!SetupPipeline(want, cam))
<1> DEFINE size == S!SelectSize(want)
           flips == S!SetFlips(want.sensor, cam.controls, want.vflip, want.hflip)
           out == S!SetupPipeline(want, cam)
           m == size.mode
           c == size.crop
           line == m.w + cam.hblank
           frame == (cam.rate * 100000) \div want.fps
           light == want.shutter * cam.rate
           blank == S!SetUnicamFps(m, cam, want.fps)
           code == S!ExposureCode(m, cam, want.shutter)
           sony == S!GainCode(want.sensor, want.gain)
           vblank == S!SetExtControl(cam, cam.vblank, blank)
           lines == m.h + vblank.value
           range == S!ExposureRange(cam, lines)
           exposure == S!SetExtControl(cam, range, code)
           gain == S!SetExtControl(cam, cam.gain, sony)
<1> SUFFICES ASSUME out.how = "ready" PROVE S!SensorSetUp(want, cam, out)
  BY DEF S!SensorSetUp
<1>1. /\ size # S!Raised /\ flips.ok /\ vblank.ok
      /\ want.agc => exposure.ok /\ gain.ok
      /\ out = [how |-> "ready", mode |-> m, crop |-> c, controls |-> flips.device,
                bus |-> S!BusFormat(want.sensor, want.vflip, want.hflip),
                lines |-> lines,
                light |-> IF want.agc THEN <<exposure.value, gain.value>> ELSE << >>]
  <2> HIDE DEF size, flips, vblank, range, exposure, gain
  <2> QED BY DEF S!SetupPipeline, S!Raised, size, flips, vblank, range, exposure, gain
<1>2. /\ ModeOk(m)
      /\ want.unicam = << >> =>
           c = IF Fixed(want) THEN S!Rect(180, 256, 1280, 720)
               ELSE S!CalcCropSize(want.w, want.h, m)
  BY <1>1, SizeIs
<1>3. /\ out.mode = m /\ out.crop = c /\ out.controls = flips.device
      /\ out.bus = S!BusFormat(want.sensor, want.vflip, want.hflip)
      /\ out.lines = lines
      /\ want.agc => out.light[1] = exposure.value /\ out.light[2] = gain.value
      /\ blank = frame \div line - m.h
      /\ code = light \div (10 * line)
  <2> HIDE DEF size, flips, vblank, range, exposure, gain
  <2> QED BY <1>1 DEF S!SetUnicamFps, S!ExposureCode
<1>3a. /\ vblank.ok
       /\ want.agc => exposure.ok /\ gain.ok
  BY <1>1
<1> HIDE DEF vblank, exposure, gain
<1>4. \/ \E id \in {"VFLIP", "HFLIP"} : cam.controls[id].kind = "adjusts"
      \/ out.bus = S!Seen(want.sensor, out.controls["VFLIP"].value, out.controls["HFLIP"].value)
  <2> DEFINE device == cam.controls
             sensor == want.sensor
             v == want.vflip
             h == want.hflip
             there == S!SetFlips(sensor, device, v, h)
             bus == S!BusFormat(sensor, v, h)
  <2>1. /\ device \in Devices(D, Vals) /\ sensor \in {"imx219", "imx708", "ov5647"}
        /\ v \in BOOLEAN /\ h \in BOOLEAN
    BY DEF SensorWantOk
  <2>2. there.ok /\ out.controls = there.device /\ out.bus = bus
    BY <1>1, <1>3
  <2> HIDE DEF device, sensor, v, h, out
  <2>3. \/ \E id \in {"VFLIP", "HFLIP"} : device[id].kind = "adjusts"
        \/ bus = S!Seen(sensor, there.device["VFLIP"].value, there.device["HFLIP"].value)
    BY <2>1, <2>2, FlipsAre
  <2> HIDE DEF there, bus
  <2>4. \/ \E id \in {"VFLIP", "HFLIP"} : device[id].kind = "adjusts"
        \/ out.bus = S!Seen(sensor, out.controls["VFLIP"].value, out.controls["HFLIP"].value)
    BY <2>2, <2>3
  <2> QED BY <2>4 DEF device, sensor, out
<1> HIDE DEF flips, out
<1>5. /\ m.w \in Positive /\ m.h \in Positive /\ m.w \in Nat /\ m.h \in Nat
      /\ want.w \in Positive /\ want.h \in Positive
  BY <1>2 DEF ModeOk, SensorWantOk, Positive
<1>6. line \in Positive /\ 10 * line \in Positive
  BY <1>5 DEF Positive, SensorOk
<1>7. frame \in Nat /\ light \in Nat
  <2> DEFINE p == cam.rate * 100000
  <2>1. p \in Nat /\ want.fps \in Positive /\ want.shutter \in Nat
    BY DEF SensorWantOk, SensorOk
  <2> HIDE DEF p
  <2>2. p \div want.fps \in Nat
    <3> DEFINE f == want.fps
               k == p \div f
    <3>1. k \in Int /\ p < (k + 1) * f /\ f \in Positive
      BY <2>1, LinesAre
    <3> HIDE DEF f, k
    <3>2. ~ (k + 1 <= 0)
      BY <2>1, <3>1 DEF Positive
    <3> QED BY <3>1, <3>2 DEF f, k
  <2>3. want.shutter * cam.rate \in Nat
    BY <2>1 DEF SensorOk
  <2> QED BY <2>2, <2>3 DEF p
<1>8. want.unicam = << >> =>
        /\ 0 <= c.left /\ c.left + c.w <= m.w /\ m.w - (2 * c.left + c.w) \in {0, 1}
        /\ 0 <= c.top /\ c.top + c.h <= m.h /\ m.h - (2 * c.top + c.h) \in {0, 1}
        /\ Fixed(want) \/ c.w = m.w \/ c.h = m.h
        /\ IF Fixed(want) THEN S!IsWide(c.w, c.h)
                          ELSE 2 * S!Abs(c.w * want.h - c.h * want.w) <= want.w + want.h
  <2> SUFFICES ASSUME want.unicam = << >>
               PROVE  /\ 0 <= c.left /\ c.left + c.w <= m.w /\ m.w - (2 * c.left + c.w) \in {0, 1}
                      /\ 0 <= c.top /\ c.top + c.h <= m.h /\ m.h - (2 * c.top + c.h) \in {0, 1}
                      /\ Fixed(want) \/ c.w = m.w \/ c.h = m.h
                      /\ IF Fixed(want) THEN S!IsWide(c.w, c.h)
                         ELSE 2 * S!Abs(c.w * want.h - c.h * want.w) <= want.w + want.h
    OBVIOUS
  <2>1. CASE ~ Fixed(want)
    <3>1. c = S!CalcCropSize(want.w, want.h, m)
      BY <1>2, <2>1
    <3> HIDE DEF c, m
    <3>2. CropRight(S!CalcCropSize(want.w, want.h, m), want.w, want.h, m)
      BY <1>5, CropIs
    <3> QED BY <2>1, <3>1, <3>2 DEF CropRight
  <2>2. CASE Fixed(want)
    <3>1. c = S!Rect(180, 256, 1280, 720)
      BY <1>2, <2>2
    <3>2. c.left = 180 /\ c.top = 256 /\ c.w = 1280 /\ c.h = 720
      BY <3>1 DEF S!Rect
    <3>3. m.w = 1640 /\ m.h = 1232
      <4>1. want.crop = << >>
        BY <1>1 DEF S!SelectSize
      <4>2. size = S!AutoSizeImx219(want.w, want.h, want.fps)
        BY <2>2, <4>1 DEF S!SelectSize, Fixed
      <4>3. want.fps \in Int
        BY DEF SensorWantOk, Positive
      <4>4. size = S!Chosen(S!V2Modes[3], S!Rect(180, 256, 1280, 720))
        BY <2>2, <4>2, <4>3 DEF S!AutoSizeImx219, Fixed
      <4> QED BY <4>4 DEF S!Chosen, S!V2Modes, S!Mode
    <3> HIDE DEF c, m
    <3> QED BY <2>2, <3>2, <3>3, WideIs
  <2> QED BY <2>1, <2>2
<1> HIDE DEF line, frame, light, size, blank, code, sony, lines, range
<1>9. S!Nearest(lines, <<m.h + cam.vblank[1], m.h + cam.vblank[2]>>,
                lines * line <= frame, (lines + 1) * line <= frame, cam.clamps)
  <2> DEFINE n == vblank.value
  <2>1. frame \div line \in Int /\ m.h \in Int
    BY <1>5, <1>6, <1>7, LinesFit
  <2>2. blank \in Int
    BY <1>3, <2>1
  <2>3. /\ n \in cam.vblank[1] .. cam.vblank[2]
        /\ n <= blank \/ (cam.clamps /\ n = cam.vblank[1])
        /\ ~ (n + 1 <= blank) \/ (cam.clamps /\ n = cam.vblank[2])
    <3> DEFINE blanks == cam.vblank
    <3>1. blanks[1] \in Int /\ blanks[2] \in Int /\ blanks[1] <= blanks[2]
      BY DEF SensorOk
    <3>2. vblank = S!SetExtControl(cam, blanks, blank)
      BY DEF vblank
    <3> HIDE DEF blanks
    <3>3. /\ n \in blanks[1] .. blanks[2]
          /\ n <= blank \/ (cam.clamps /\ n = blanks[1])
          /\ ~ (n + 1 <= blank) \/ (cam.clamps /\ n = blanks[2])
      BY <1>3a, <2>2, <3>1, <3>2, HeldIs
    <3> QED BY <3>3 DEF blanks
  <2> HIDE DEF n
  <2>4. lines = m.h + n
    BY DEF lines, n
  <2>5. n \in Int /\ lines \in Int /\ lines + 1 \in Int /\ cam.vblank[1] \in Int /\ cam.vblank[2] \in Int
    BY <1>5, <2>3, <2>4 DEF SensorOk
  <2>6. /\ lines * line <= frame <=> lines <= frame \div line
        /\ (lines + 1) * line <= frame <=> lines + 1 <= frame \div line
    BY <1>6, <1>7, <2>5, LinesFit
  <2>7. (lines <= frame \div line <=> n <= blank) /\ (lines + 1 <= frame \div line <=> n + 1 <= blank)
    BY <1>3, <2>1, <2>4, <2>5
  <2>8. lines \in m.h + cam.vblank[1] .. m.h + cam.vblank[2]
    BY <2>1, <2>3, <2>4, <2>5
  <2>9. /\ lines * line <= frame \/ (cam.clamps /\ lines = m.h + cam.vblank[1])
        /\ ~ ((lines + 1) * line <= frame) \/ (cam.clamps /\ lines = m.h + cam.vblank[2])
    BY <2>3, <2>4, <2>6, <2>7
  <2> QED BY <2>8, <2>9 DEF S!Nearest
<1>10. lines \in Int /\ lines >= 480 + cam.vblank[1]
  <2>1. lines \in m.h + cam.vblank[1] .. m.h + cam.vblank[2]
    BY <1>9 DEF S!Nearest
  <2>2. m.h \in Int /\ m.h >= 480 /\ cam.vblank[1] \in Int /\ cam.vblank[2] \in Int
    BY <1>2, <1>5 DEF ModeOk, SensorOk
  <2> QED BY <2>1, <2>2
<1>11. want.agc =>
         LET e == exposure.value IN
           S!Nearest(e, range, 10 * (e * line) <= light, 10 * ((e + 1) * line) <= light, cam.clamps)
  <2> SUFFICES ASSUME want.agc
               PROVE  LET e == exposure.value IN
                        S!Nearest(e, range, 10 * (e * line) <= light, 10 * ((e + 1) * line) <= light,
                                  cam.clamps)
    OBVIOUS
  <2> DEFINE e == exposure.value
  <2>1. code \in Int
    BY <1>3, <1>6, <1>7, LinesFit
  <2>2. range[1] \in Int /\ range[2] \in Int /\ range[1] <= range[2]
    BY <1>10 DEF range, S!ExposureRange, SensorOk
  <2>3. /\ e \in range[1] .. range[2]
        /\ e <= code \/ (cam.clamps /\ e = range[1])
        /\ ~ (e + 1 <= code) \/ (cam.clamps /\ e = range[2])
    BY <1>3a, <2>1, <2>2, HeldIs DEF exposure
  <2> HIDE DEF e
  <2>4. e \in Int /\ e + 1 \in Int
    BY <2>2, <2>3
  <2>5. /\ e * (10 * line) <= light <=> e <= code
        /\ (e + 1) * (10 * line) <= light <=> e + 1 <= code
    BY <1>3, <1>6, <1>7, <2>4, LinesFit
  <2>6. e * (10 * line) = 10 * (e * line) /\ (e + 1) * (10 * line) = 10 * ((e + 1) * line)
    BY <1>6, <2>4 DEF Positive
  <2>7. /\ 10 * (e * line) <= light \/ (cam.clamps /\ e = range[1])
        /\ ~ (10 * ((e + 1) * line) <= light) \/ (cam.clamps /\ e = range[2])
    BY <2>3, <2>5, <2>6
  <2> QED BY <2>3, <2>7 DEF S!Nearest, e
<1>12. want.agc =>
         LET g == gain.value IN
           S!Nearest(g, cam.gain, S!AtMost(S!GainOf(want.sensor, g), want.gain),
                     S!AtMost(S!GainOf(want.sensor, g + 1), want.gain), cam.clamps)
  <2> SUFFICES ASSUME want.agc
               PROVE  LET g == gain.value IN
                        S!Nearest(g, cam.gain, S!AtMost(S!GainOf(want.sensor, g), want.gain),
                                  S!AtMost(S!GainOf(want.sensor, g + 1), want.gain), cam.clamps)
    OBVIOUS
  <2> DEFINE g == gain.value
             sensor == want.sensor
  <2>1. PICK a \in Positive, b \in Positive : want.gain = Q(a, b) /\ b <= a
    BY DEF SensorWantOk, Reduced, PositiveRat, Rat, Positive
  <2>2. sensor \in {"imx219", "imx708", "ov5647"}
    BY DEF SensorWantOk
  <2>3. sony \in Int
    <3>1. S!GainCode(sensor, Q(a, b)) \in Int
      <4>1. 0 \in Int /\ 0 < 256 /\ 0 < 1024
        OBVIOUS
      <4> HIDE DEF sensor
      <4> QED BY <2>1, <2>2, <4>1, GainFits
    <3> QED BY <2>1, <3>1 DEF sony
  <2>4. /\ g \in cam.gain[1] .. cam.gain[2]
        /\ g <= sony \/ (cam.clamps /\ g = cam.gain[1])
        /\ ~ (g + 1 <= sony) \/ (cam.clamps /\ g = cam.gain[2])
    <3> DEFINE gains == cam.gain
    <3>1. gains[1] \in Int /\ gains[2] \in Int /\ gains[1] <= gains[2]
      BY DEF SensorOk
    <3>2. gain = S!SetExtControl(cam, gains, sony)
      BY DEF gain
    <3> HIDE DEF gains
    <3>3. /\ g \in gains[1] .. gains[2]
          /\ g <= sony \/ (cam.clamps /\ g = gains[1])
          /\ ~ (g + 1 <= sony) \/ (cam.clamps /\ g = gains[2])
      BY <1>3a, <2>3, <3>1, <3>2, HeldIs
    <3> QED BY <3>3 DEF gains
  <2>5. /\ g \in Int /\ g + 1 \in Int
        /\ sensor = "imx219" => g < 256 /\ g + 1 < 256
        /\ sensor = "imx708" => g < 1024 /\ g + 1 < 1024
    BY <2>4 DEF SensorOk
  <2> HIDE DEF g, sensor
  <2>6. S!AtMost(S!GainOf(sensor, g), Q(a, b)) <=> g <= S!GainCode(sensor, Q(a, b))
    BY <2>1, <2>2, <2>5, GainFits
  <2>7. S!AtMost(S!GainOf(sensor, g + 1), Q(a, b)) <=> g + 1 <= S!GainCode(sensor, Q(a, b))
    BY <2>1, <2>2, <2>5, GainFits
  <2>8. S!GainCode(sensor, Q(a, b)) = sony
    BY <2>1 DEF sony, sensor
  <2>9. /\ S!AtMost(S!GainOf(sensor, g), want.gain) \/ (cam.clamps /\ g = cam.gain[1])
        /\ ~ S!AtMost(S!GainOf(sensor, g + 1), want.gain) \/ (cam.clamps /\ g = cam.gain[2])
    BY <2>1, <2>4, <2>6, <2>7, <2>8
  <2> QED BY <2>4, <2>9 DEF S!Nearest, g, sensor
<1>13. \A n : S!Lines(n, m, cam) = n * line
  BY DEF S!Lines, line
<1>14. /\ S!Nearest(out.lines, <<m.h + cam.vblank[1], m.h + cam.vblank[2]>>,
                    S!Lines(out.lines, m, cam) <= (cam.rate * 100000) \div want.fps,
                    S!Lines(out.lines + 1, m, cam) <= (cam.rate * 100000) \div want.fps, cam.clamps)
       /\ want.agc =>
            LET e == out.light[1]
                g == out.light[2] IN
              /\ S!Nearest(e, S!ExposureRange(cam, out.lines),
                           10 * S!Lines(e, m, cam) <= want.shutter * cam.rate,
                           10 * S!Lines(e + 1, m, cam) <= want.shutter * cam.rate, cam.clamps)
              /\ S!Nearest(g, cam.gain, S!AtMost(S!GainOf(want.sensor, g), want.gain),
                           S!AtMost(S!GainOf(want.sensor, g + 1), want.gain), cam.clamps)
  BY <1>3, <1>9, <1>11, <1>12, <1>13 DEF frame, light, range
<1> HIDE DEF m, c
<1>15. /\ out.mode = m /\ out.crop = c
       /\ (\E id \in {"VFLIP", "HFLIP"} : cam.controls[id].kind = "adjusts")
            \/ out.bus = S!Seen(want.sensor, out.controls["VFLIP"].value, out.controls["HFLIP"].value)
  BY <1>3, <1>4
<1>16. want.unicam = << >> =>
        /\ 0 <= c.left /\ c.left + c.w <= m.w /\ m.w - (2 * c.left + c.w) \in {0, 1}
        /\ 0 <= c.top /\ c.top + c.h <= m.h /\ m.h - (2 * c.top + c.h) \in {0, 1}
        /\ Fixed(want) \/ c.w = m.w \/ c.h = m.h
        /\ IF Fixed(want) THEN S!IsWide(c.w, c.h)
                          ELSE 2 * S!Abs(c.w * want.h - c.h * want.w) <= want.w + want.h
  BY <1>8
<1>17. Fixed(want) <=>
         /\ want.unicam = << >> /\ want.sensor = "imx219" /\ want.fps > 40
         /\ want.w <= 1280 /\ want.h <= 720 /\ S!IsWide(want.w, want.h)
  BY DEF Fixed
<1> QED BY <1>14, <1>15, <1>16, <1>17 DEF S!SensorSetUp

-----------------------------------------------------------------------------
(* Lens shading *)

LEMMA IntsCompare ==
  ASSUME NEW a \in Int, NEW b \in Int
  PROVE  /\ Int2Q(a) \in Rat
         /\ AtMost(Int2Q(a), Int2Q(b)) <=> a <= b
         /\ Less(Int2Q(a), Int2Q(b)) <=> a < b
<1>1. Int2Q(a) = <<a, 1>> /\ Int2Q(b) = <<b, 1>> /\ 1 \in Positive
  BY DEF Int2Q, Positive
<1> QED BY <1>1 DEF AtMost, Less, Rat

LEMMA Extremes ==
  ASSUME NEW p \in Rat, NEW q \in Rat
  PROVE  /\ MinQ(p, q) \in Rat /\ AtMost(MinQ(p, q), p) /\ AtMost(MinQ(p, q), q)
         /\ MaxQ(p, q) \in Rat /\ AtMost(p, MaxQ(p, q)) /\ AtMost(q, MaxQ(p, q))
<1>1. /\ AtMost(p, p) /\ AtMost(q, q)
      /\ Less(q, p) <=> ~ AtMost(p, q)
      /\ Less(p, q) <=> ~ AtMost(q, p)
      /\ AtMost(p, q) \/ AtMost(q, p)
  BY AtMostOrder
<1> QED BY <1>1, Zenon DEF MinQ, MaxQ

\* A mean lies between what it is the mean of.
LEMMA MeanIs ==
  ASSUME NEW a \in Int, NEW b \in Int, NEW d \in Positive, NEW e \in 0 .. d
  PROVE  LET mean == Q(a * (d - e) + b * e, d) IN
           /\ AtMost(MinQ(Int2Q(a), Int2Q(b)), mean)
           /\ AtMost(mean, MaxQ(Int2Q(a), Int2Q(b)))
           /\ e = d => mean = Int2Q(b)
<1> DEFINE s == a * (d - e)
           t == b * e
           n == s + t
           mean == Q(n, d)
           low == MinQ(Int2Q(a), Int2Q(b))
           high == MaxQ(Int2Q(a), Int2Q(b))
<1>1. d \in Int /\ e \in Int /\ n \in Int /\ 1 \in Positive /\ d - e \in Int
  BY DEF Positive
<1>2. Int2Q(a) = Q(a, 1) /\ Int2Q(b) = Q(b, 1) /\ mean \in Rat
  BY <1>1, IntIsQ, QIs
<1>3. /\ AtMost(Int2Q(a), mean) <=> a * d <= n
      /\ AtMost(mean, Int2Q(a)) <=> n <= a * d
      /\ AtMost(Int2Q(b), mean) <=> b * d <= n
      /\ AtMost(mean, Int2Q(b)) <=> n <= b * d
  <2>1. n * 1 = n
    BY <1>1
  <2> HIDE DEF n
  <2> QED BY <1>1, <1>2, <2>1, AtMostQ
<1>4. /\ a <= b => a * d <= n /\ n <= b * d
      /\ b <= a => b * d <= n /\ n <= a * d
  <2> DEFINE f == d - e
             ae == a * e
             af == a * f
             be == b * e
             bf == b * f
  <2>1. /\ ae \in Int /\ af \in Int /\ be \in Int /\ bf \in Int
        /\ a * d = af + ae /\ b * d = bf + be /\ n = af + be
    BY <1>1
  <2>2. e >= 0 /\ f >= 0
    BY <1>1
  <2>3. /\ a <= b => ae <= be /\ af <= bf
        /\ b <= a => be <= ae /\ bf <= af
    BY <1>1, <2>2
  <2> HIDE DEF ae, af, be, bf, n, f
  <2> QED BY <2>1, <2>3
<1>5. low \in Rat /\ high \in Rat /\ Int2Q(a) \in Rat /\ Int2Q(b) \in Rat
      /\ AtMost(low, Int2Q(a)) /\ AtMost(low, Int2Q(b))
      /\ AtMost(Int2Q(a), high) /\ AtMost(Int2Q(b), high)
  BY IntsCompare, Extremes
<1> HIDE DEF low, high, mean, n
<1>6. AtMost(low, mean) /\ AtMost(mean, high)
  <2>1. CASE a <= b
    <3>1. AtMost(Int2Q(a), mean) /\ AtMost(mean, Int2Q(b))
      BY <1>3, <1>4, <2>1
    <3> QED BY <1>2, <1>5, <3>1, AtMostOrder
  <2>2. CASE b <= a
    <3>1. AtMost(Int2Q(b), mean) /\ AtMost(mean, Int2Q(a))
      BY <1>3, <1>4, <2>2
    <3> QED BY <1>2, <1>5, <3>1, AtMostOrder
  <2> QED BY <2>1, <2>2
<1>7. ASSUME e = d PROVE mean = Int2Q(b)
  <2>1. n * 1 = b * d
    BY <1>1, <1>7 DEF n
  <2> QED BY <1>1, <1>2, <2>1, QIsCanonical DEF mean
<1> QED BY <1>6, <1>7 DEF low, high, mean, n

\* Calibrations as the tuning files list them, by rising colour temperature.
Rising(cals) ==
  /\ cals \in Seq([ct : Nat, level : Nat])
  /\ \A i, j \in DOMAIN cals : i < j => cals[i].ct < cals[j].ct

\* The table for a temperature is that of the calibration it is at, or lies between those
\* of its neighbours, or is the last one beyond them, for any calibrations that rise
\* (__get_cal_table).
THEOREM CalTableIsBetween ==
  ASSUME NEW cals, Rising(cals), NEW ct \in Nat
  PROVE  S!CalTableBetween(ct, cals, S!GetCalTable(ct, cals))
<1> DEFINE final == Len(cals)
           level == S!GetCalTable(ct, cals)
           next(i) == IF i = Len(cals) THEN cals[i] ELSE cals[i + 1]
<1>1. /\ final \in Nat /\ DOMAIN cals = 1 .. final
      /\ \A i \in 1 .. final : cals[i].ct \in Nat /\ cals[i].level \in Nat
      /\ \A i, j \in 1 .. final : i < j => cals[i].ct < cals[j].ct
      /\ cals # << >> => final # 0
  <2>1. cals \in Seq([ct : Nat, level : Nat])
    BY DEF Rising
  <2>2. \A i \in 1 .. final : cals[i].ct \in Nat /\ cals[i].level \in Nat
    <3> DEFINE R == [ct : Nat, level : Nat]
    <3>1. \A c \in R : c.ct \in Nat /\ c.level \in Nat
      OBVIOUS
    <3>2. cals \in Seq(R)
      BY <2>1
    <3> HIDE DEF R
    <3>3. \A i \in 1 .. final : cals[i] \in R
      BY <3>2
    <3> QED BY <3>1, <3>3
  <2>3. final \in Nat /\ DOMAIN cals = 1 .. final /\ (cals # << >> => final # 0)
    BY <2>1
  <2> QED BY <2>2, <2>3 DEF Rising
<1>2. \A a, b \in Int : AtMost(MinQ(Int2Q(a), Int2Q(b)), Int2Q(a))
                     /\ AtMost(MinQ(Int2Q(a), Int2Q(b)), Int2Q(b))
                     /\ AtMost(Int2Q(a), MaxQ(Int2Q(a), Int2Q(b)))
                     /\ AtMost(Int2Q(b), MaxQ(Int2Q(a), Int2Q(b)))
  BY IntsCompare, Extremes
<1> HIDE DEF final
<1> SUFFICES ASSUME final # 0, NEW i \in 1 .. final, cals[i].ct <= ct,
                    ct <= next(i).ct \/ next(i) = cals[i]
             PROVE  /\ AtMost(MinQ(Int2Q(cals[i].level), Int2Q(next(i).level)), level)
                    /\ AtMost(level, MaxQ(Int2Q(cals[i].level), Int2Q(next(i).level)))
                    /\ ct = cals[i].ct => level = Int2Q(cals[i].level)
  BY <1>1, SameArithmetic DEF S!CalTableBetween, final
<1>3. next(i).level \in Nat /\ next(i).ct \in Nat /\ cals[i].level \in Int /\ next(i).level \in Int
  <2>1. CASE i = final
    BY <1>1, <2>1 DEF final
  <2>2. CASE i # final
    <3>1. i + 1 \in 1 .. final
      BY <1>1, <2>2
    <3>2. next(i) = cals[i + 1]
      BY <2>2 DEF final
    <3> QED BY <1>1, <3>1, <3>2
  <2> QED BY <2>1, <2>2
<1>4. CASE level = Int2Q(cals[i].level) \/ (level = Int2Q(next(i).level) /\ ct # cals[i].ct)
  BY <1>2, <1>3, <1>4
<1>5. i < final => next(i) = cals[i + 1] /\ i + 1 \in 1 .. final /\ cals[i].ct < cals[i + 1].ct
  <2> SUFFICES ASSUME i < final PROVE next(i) = cals[i + 1] /\ i + 1 \in 1 .. final /\ cals[i].ct < cals[i + 1].ct
    OBVIOUS
  <2>1. i # final /\ i + 1 \in 1 .. final /\ i < i + 1
    BY <1>1
  <2>2. next(i) = cals[i + 1]
    BY <2>1 DEF final
  <2> QED BY <1>1, <2>1, <2>2
<1> HIDE DEF level, next
<1>6. i = final \/ (i < final /\ ct <= cals[i + 1].ct)
  <2>1. CASE i # final
    <3>1. i < final
      BY <1>1, <2>1
    <3>2. next(i) # cals[i]
      BY <1>1, <1>5, <3>1
    <3> QED BY <1>5, <3>1, <3>2
  <2> QED BY <2>1
<1>7. CASE ct <= cals[1].ct
  <2>1. level = Int2Q(cals[1].level)
    BY <1>7, SameArithmetic DEF S!GetCalTable, level, final
  <2>2. i = 1
    <3>1. 1 \in 1 .. final /\ (i # 1 => 1 < i)
      BY <1>1
    <3>2. 1 < i => cals[1].ct < cals[i].ct
      BY <1>1, <3>1
    <3> QED BY <1>1, <1>7, <3>1, <3>2
  <2> QED BY <1>4, <2>1, <2>2
<1>8. CASE ~ (ct <= cals[1].ct) /\ cals[final].ct <= ct
  <2>1. level = Int2Q(cals[final].level)
    BY <1>8, SameArithmetic DEF S!GetCalTable, level, final
  <2>2. CASE i = final
    BY <1>4, <2>1, <2>2
  <2>3. CASE i < final
    <3>1. final \in 1 .. final /\ i + 1 <= final /\ i + 1 \in 1 .. final
      BY <1>1, <2>3
    <3>2. i + 1 < final => cals[i + 1].ct < cals[final].ct
      BY <1>1, <3>1
    <3>3. i + 1 = final
      BY <1>1, <1>5, <1>6, <1>8, <2>3, <3>1, <3>2
    <3>4. ct # cals[i].ct /\ level = Int2Q(next(i).level)
      BY <1>1, <1>5, <1>8, <2>1, <2>3, <3>1, <3>3
    <3> QED BY <1>4, <3>4
  <2> QED BY <1>6, <2>2, <2>3
<1>9. CASE ~ (ct <= cals[1].ct) /\ ~ (cals[final].ct <= ct)
  <2> DEFINE P == {k \in 1 .. final - 1 : /\ cals[k + 1].ct >= ct
                                         /\ \A j \in 1 .. k - 1 : cals[j + 1].ct < ct}
             at == CHOOSE k \in 1 .. final - 1 : /\ cals[k + 1].ct >= ct
                                                /\ \A j \in 1 .. k - 1 : cals[j + 1].ct < ct
             a == cals[at]
             b == cals[at + 1]
             d == b.ct - a.ct
             e == ct - a.ct
  <2>1. i < final
    BY <1>1, <1>6, <1>9
  <2>2. \A j \in 1 .. i - 1 : cals[j + 1].ct <= cals[i].ct
    <3> SUFFICES ASSUME NEW j \in 1 .. i - 1 PROVE cals[j + 1].ct <= cals[i].ct
      OBVIOUS
    <3>1. j + 1 \in 1 .. final /\ (j + 1 = i \/ j + 1 < i)
      BY <1>1
    <3> QED BY <1>1, <3>1
  <2>3. \E k \in 1 .. final - 1 : /\ cals[k + 1].ct >= ct
                                 /\ \A j \in 1 .. k - 1 : cals[j + 1].ct < ct
    <3>1. CASE cals[i].ct < ct
      <4>1. i \in 1 .. final - 1
        BY <1>1, <2>1
      <4>2. ASSUME NEW j \in 1 .. i - 1 PROVE cals[j + 1].ct < ct
        <5>1. j + 1 \in 1 .. final /\ cals[j + 1].ct <= cals[i].ct
          BY <1>1, <2>2
        <5> QED BY <1>1, <3>1, <5>1
      <4>3. cals[i + 1].ct >= ct
        BY <1>1, <1>5, <1>6, <2>1
      <4> QED BY <4>1, <4>2, <4>3
    <3>2. CASE cals[i].ct = ct
      <4>1. i # 1
        BY <1>1, <1>9, <3>2
      <4>2. i - 1 \in 1 .. final - 1 /\ (i - 1) + 1 = i
        BY <1>1, <4>1
      <4>3. ASSUME NEW j \in 1 .. (i - 1) - 1 PROVE cals[j + 1].ct < ct
        <5>1. j + 1 \in 1 .. final /\ j + 1 < i
          BY <1>1
        <5> QED BY <1>1, <3>2, <5>1
      <4> QED BY <1>1, <3>2, <4>2, <4>3
    <3> QED BY <1>1, <3>1, <3>2
  <2>4. /\ at \in 1 .. final - 1 /\ cals[at + 1].ct >= ct
        /\ \A j \in 1 .. at - 1 : cals[j + 1].ct < ct
    BY <2>3, Zenon
  <2>5. level = Q(a.level * (b.ct - ct) + b.level * (ct - a.ct), b.ct - a.ct)
    BY <1>9, SameArithmetic DEF S!GetCalTable, level, final
  <2> HIDE DEF at
  <2>6. at \in 1 .. final /\ at + 1 \in 1 .. final /\ at < at + 1
    BY <1>1, <2>4
  <2>7. a.ct < ct /\ ct <= b.ct /\ a.ct \in Nat /\ b.ct \in Nat /\ a.level \in Int /\ b.level \in Int
    <3>1. CASE at = 1
      BY <1>1, <1>9, <2>4, <2>6, <3>1
    <3>2. CASE at # 1
      <4>1. at - 1 \in 1 .. at - 1 /\ (at - 1) + 1 = at
        BY <2>6, <3>2
      <4>2. cals[(at - 1) + 1].ct < ct
        BY <2>4, <4>1
      <4>3. cals[at].ct < ct
        BY <4>1, <4>2
      <4> QED BY <1>1, <2>4, <2>6, <4>3
    <3> QED BY <3>1, <3>2
  <2>8. d \in Positive /\ e \in 0 .. d /\ d - e = b.ct - ct
    BY <2>7 DEF Positive
  <2> HIDE DEF a, b
  <2>9. /\ AtMost(MinQ(Int2Q(a.level), Int2Q(b.level)), level)
        /\ AtMost(level, MaxQ(Int2Q(a.level), Int2Q(b.level)))
        /\ e = d => level = Int2Q(b.level)
    <3>1. level = Q(a.level * (d - e) + b.level * e, d)
      BY <2>5, <2>8
    <3> HIDE DEF d, e
    <3> QED BY <2>7, <2>8, <3>1, MeanIs
  <2>10. CASE i = at
    <3>1. cals[i] = a /\ next(i) = b
      BY <1>5, <2>1, <2>10 DEF a, b
    <3> QED BY <2>7, <2>9, <3>1
  <2>11. CASE i > at
    <3>1. at + 1 <= i
      BY <2>6, <2>11
    <3>2. at + 1 < i => cals[at + 1].ct < cals[i].ct
      BY <1>1, <2>6
    <3>3. i = at + 1 /\ ct = b.ct
      BY <1>1, <2>6, <2>7, <3>1, <3>2 DEF b
    <3>4. level = Int2Q(cals[i].level)
      BY <2>7, <2>9, <3>3 DEF b
    <3> QED BY <1>4, <3>4
  <2>12. CASE i < at
    <3>1. i + 1 <= at /\ i + 1 \in 1 .. final
      BY <1>1, <2>6, <2>12
    <3>2. cals[i + 1].ct <= a.ct
      <4>1. i + 1 < at => cals[i + 1].ct < cals[at].ct
        BY <1>1, <2>6, <3>1
      <4> QED BY <1>1, <2>6, <2>7, <3>1, <4>1 DEF a
    <3> QED BY <1>1, <1>6, <2>1, <2>7, <3>1, <3>2
  <2> QED BY <2>6, <2>10, <2>11, <2>12
<1> QED BY <1>7, <1>8, <1>9

\* A point is mixed of the two cells next to it.
Mixes(a, p, b, q, m, r) ==
  Add(Mul(Q(a, p), Sub(Int2Q(1), Q(r, m))), Mul(Q(b, q), Q(r, m)))
    = Q((a * q) * (m - r) + (b * p) * r, (p * q) * m)

LEMMA MixIs ==
  ASSUME NEW a \in Int, NEW p \in Positive, NEW b \in Int, NEW q \in Positive,
         NEW m \in Positive, NEW r \in Int
  PROVE  Mixes(a, p, b, q, m, r)
<1>1. 1 \in Positive /\ 1 \in Int /\ m \in Int /\ m - r \in Int
  BY DEF Positive
<1>2. Sub(Int2Q(1), Q(r, m)) = Q(m - r, m)
  <2>1. Sub(Q(1, 1), Q(r, m)) = Q(1 * m - r * 1, 1 * m)
    BY <1>1, QAdds
  <2>2. 1 * m - r * 1 = m - r /\ 1 * m = m
    BY <1>1
  <2>3. Int2Q(1) = Q(1, 1)
    BY <1>1, IntIsQ
  <2> QED BY <2>1, <2>2, <2>3
<1>3. ASSUME NEW s \in Int
      PROVE  Add(Mul(Q(a, p), Q(s, m)), Mul(Q(b, q), Q(r, m)))
               = Q((a * q) * s + (b * p) * r, (p * q) * m)
  <2> DEFINE left == a * s
             right == b * r
             pm == p * m
             qm == q * m
             u == (a * q) * s
             v == (b * p) * r
             k == (p * q) * m
  <2>1. /\ left \in Int /\ right \in Int /\ pm \in Positive /\ qm \in Positive
        /\ k \in Positive /\ u \in Int /\ v \in Int
    BY DEF Positive
  <2>2. left * qm = m * u /\ right * pm = m * v /\ pm * qm = m * k
    BY DEF Positive
  <2>3. Mul(Q(a, p), Q(s, m)) = Q(left, pm)
    BY QAdds
  <2>4. Mul(Q(b, q), Q(r, m)) = Q(right, qm)
    BY QAdds
  <2> HIDE DEF left, right, pm, qm, u, v, k
  <2>5. Add(Q(left, pm), Q(right, qm)) = Q(left * qm + right * pm, pm * qm)
    BY <2>1, QAdds
  <2>6. m * u + m * v = m * (u + v) /\ u + v \in Int
    BY <2>1 DEF Positive
  <2>7. Q(m * (u + v), m * k) = Q(u + v, k)
    BY <2>1, <2>6, QScales
  <2>8. Add(Mul(Q(a, p), Q(s, m)), Mul(Q(b, q), Q(r, m))) = Q(u + v, k)
    BY <2>2, <2>3, <2>4, <2>5, <2>6, <2>7
  <2> QED BY <2>8 DEF u, v, k
<1> QED BY <1>1, <1>2, <1>3 DEF Mixes

\* The two cells, and the part of the second one, of a point at x / m.
CellsRight(c, n, m, x, k, r) ==
  /\ k \in -1 .. n - 1 /\ r \in 0 .. m - 1 /\ x = m * k + r
  /\ c.lo = (IF k < 0 THEN 0 ELSE k) /\ c.hi = (IF k + 1 < n THEN k + 1 ELSE n - 1)
  /\ c.f = Q(r, m)
  /\ S!InTable(c, n)

LEMMA CellsAre ==
  ASSUME NEW n \in Positive, NEW m \in Positive, NEW x \in Int, -m <= x, x < n * m
  PROVE  CellsRight(S!Cells(Q(x, m), n), n, m, x, x \div m, x % m)
<1> DEFINE k == x \div m
           r == x % m
           c == S!Cells(Q(x, m), n)
<1>1. k \in Int /\ r \in 0 .. m - 1 /\ x = m * k + r
  <2>1. m \in Nat \ {0}
    BY DEF Positive
  <2> QED BY <2>1, DivMod, Zenon
<1>2. Floor(Q(x, m)) = k
  BY QFloors
<1> HIDE DEF k, r
<1>3. m \in Int /\ n \in Int /\ m > 0 /\ n > 0 /\ r \in Int /\ r >= 0 /\ r < m
  BY <1>1 DEF Positive
<1>4. k >= -1
  <2>1. m * k + r >= -m
    BY <1>1
  <2>2. ~ (k <= -2)
    <3> SUFFICES ASSUME k <= -2 PROVE FALSE
      OBVIOUS
    <3>1. m * k <= m * (-2)
      BY <1>1, <1>3
    <3>2. m * k \in Int /\ m * (-2) = -m - m
      BY <1>1, <1>3
    <3> QED BY <1>3, <2>1, <3>1, <3>2
  <2> QED BY <1>1, <2>2
<1>5. k < n
  <2>1. m * k <= x
    <3>1. m * k \in Int
      BY <1>1, <1>3
    <3> QED BY <1>1, <1>3, <3>1
  <2>2. m * k < m * n
    <3>1. n * m = m * n /\ m * n \in Int /\ m * k \in Int
      BY <1>1, <1>3
    <3> QED BY <2>1, <3>1
  <2> QED BY <1>1, <1>3, <2>2
<1>6. Sub(Q(x, m), Int2Q(k)) = Q(r, m)
  <2>1. 1 \in Positive /\ Int2Q(k) = Q(k, 1)
    BY <1>1, IntIsQ DEF Positive
  <2>2. Sub(Q(x, m), Q(k, 1)) = Q(x * 1 - k * m, m * 1)
    BY <1>1, <2>1, QAdds
  <2>3. x * 1 - k * m = r /\ m * 1 = m
    BY <1>1, <1>3
  <2> QED BY <2>1, <2>2, <2>3
<1>7. /\ c.lo = (IF k < 0 THEN 0 ELSE k) /\ c.hi = (IF k + 1 < n THEN k + 1 ELSE n - 1)
      /\ c.f = Q(r, m)
  BY <1>2, <1>6, SameArithmetic DEF S!Cells
<1> HIDE DEF c
<1>8. k \in -1 .. n - 1
  BY <1>1, <1>3, <1>4, <1>5
<1>9. S!InTable(c, n)
  BY <1>3, <1>7, <1>8 DEF S!InTable
<1>10. CellsRight(c, n, m, x, k, r)
  BY <1>1, <1>7, <1>8, <1>9 DEF CellsRight
<1> QED BY <1>10 DEF c, k, r

\* A point of the ramp is its own place, or the nearest place of the ramp.
LEMMA RampIs ==
  ASSUME NEW n \in Positive, NEW m \in Positive, NEW x \in Int, -m <= x, x < n * m
  PROVE  LET c == S!Cells(Q(x, m), n) IN
           S!InTable(c, n) /\ S!Mix(S!Ramp(n), c) = S!Clamped(Q(x, m), n)
<1> DEFINE k == x \div m
           r == x % m
           c == S!Cells(Q(x, m), n)
           lo == IF k < 0 THEN 0 ELSE k
           hi == IF k + 1 < n THEN k + 1 ELSE n - 1
           top == n - 1
           mix == S!Mix(S!Ramp(n), c)
           clamped == S!Clamped(Q(x, m), n)
<1>1. /\ k \in -1 .. n - 1 /\ r \in 0 .. m - 1 /\ x = m * k + r
      /\ c.lo = lo /\ c.hi = hi /\ c.f = Q(r, m) /\ S!InTable(c, n)
  <2>1. CellsRight(c, n, m, x, k, r)
    BY CellsAre
  <2> QED BY <2>1 DEF CellsRight
<1> HIDE DEF k, r, c
<1>2. /\ m \in Int /\ n \in Int /\ m > 0 /\ n > 0 /\ r \in Int /\ r >= 0 /\ r < m
      /\ k \in Int /\ k >= -1 /\ k < n /\ top \in Int /\ 1 \in Positive /\ 0 \in Int
  BY <1>1 DEF Positive
<1>3. lo \in 0 .. n - 1 /\ hi \in 0 .. n - 1
  BY <1>2
<1> HIDE DEF lo, hi
<1>4. mix = Q(lo * (m - r) + hi * r, m)
  <2>1. S!Ramp(n)[lo] = Int2Q(lo) /\ S!Ramp(n)[hi] = Int2Q(hi)
    BY <1>3, SameArithmetic DEF S!Ramp
  <2>2. mix = Add(Mul(Int2Q(lo), Sub(Int2Q(1), Q(r, m))), Mul(Int2Q(hi), Q(r, m)))
    BY <1>1, <2>1, SameArithmetic, Zenon DEF S!Mix
  <2>3. Int2Q(lo) = Q(lo, 1) /\ Int2Q(hi) = Q(hi, 1)
    BY <1>3, IntIsQ
  <2>4. Add(Mul(Q(lo, 1), Sub(Int2Q(1), Q(r, m))), Mul(Q(hi, 1), Q(r, m)))
          = Q((lo * 1) * (m - r) + (hi * 1) * r, (1 * 1) * m)
    <3>1. Mixes(lo, 1, hi, 1, m, r)
      BY <1>2, <1>3, MixIs
    <3> QED BY <3>1 DEF Mixes
  <2>5. lo * 1 = lo /\ hi * 1 = hi /\ (1 * 1) * m = m
    BY <1>2, <1>3
  <2> QED BY <2>2, <2>3, <2>4, <2>5
<1>5. clamped = MaxQ(Int2Q(0), MinQ(Q(x, m), Int2Q(top)))
  BY SameArithmetic, Zenon DEF S!Clamped
<1>6. /\ Int2Q(0) = Q(0, 1) /\ Int2Q(top) = Q(top, 1)
      /\ Less(Q(top, 1), Q(x, m)) <=> top * m < x * 1
      /\ Less(Q(0, 1), Q(x, m)) <=> 0 * m < x * 1
      /\ Less(Q(0, 1), Q(top, 1)) <=> 0 * 1 < top * 1
      /\ Q(x, m) = Q(0, 1) <=> x * 1 = 0 * m
      /\ Q(x, m) = Q(top, 1) <=> x * 1 = top * m
  BY <1>2, IntIsQ, QCompares
<1>7. x * 1 = x /\ 0 * m = 0 /\ 0 * 1 = 0 /\ top * 1 = top /\ top * m \in Int
  BY <1>2
<1> HIDE DEF mix, clamped
<1>8. CASE k = -1
  <2>1. lo = 0 /\ hi = 0
    BY <1>2, <1>8 DEF lo, hi
  <2>2. 0 * (m - r) + 0 * r = 0 /\ 0 * 1 = 0 * m
    BY <1>2
  <2>3. mix = Q(0, 1)
    BY <1>2, <1>4, <2>1, <2>2, QIsCanonical
  <2>4. x < 0 /\ 0 <= top * m
    <3>1. m * k = -m
      BY <1>2, <1>8
    <3>2. x < 0
      BY <1>1, <1>2, <3>1
    <3> QED BY <1>2, <3>2
  <2>5. MinQ(Q(x, m), Int2Q(top)) = Q(x, m)
    BY <1>6, <1>7, <2>4 DEF MinQ
  <2>6. MaxQ(Int2Q(0), Q(x, m)) = Q(0, 1)
    BY <1>6, <1>7, <2>4 DEF MaxQ
  <2> QED BY <1>1, <1>5, <2>3, <2>5, <2>6 DEF c, mix, clamped
<1>9. CASE k = top
  <2>1. lo = top /\ hi = top
    BY <1>2, <1>9 DEF lo, hi
  <2>2. top * (m - r) + top * r = top * m
    BY <1>2
  <2>3. mix = Q(top, 1)
    <3>1. (top * m) * 1 = top * m
      BY <1>2
    <3>2. Q(top * m, m) = Q(top, 1)
      BY <1>2, <1>7, <3>1, QIsCanonical
    <3> QED BY <1>4, <2>1, <2>2, <3>2
  <2>4. top * m <= x
    <3>1. m * top = top * m
      BY <1>2
    <3> QED BY <1>1, <1>2, <1>9, <1>7, <3>1
  <2>5. MinQ(Q(x, m), Int2Q(top)) = Q(top, 1)
    <3>1. CASE top * m < x
      BY <1>6, <1>7, <3>1 DEF MinQ
    <3>2. CASE top * m = x
      BY <1>6, <1>7, <3>2 DEF MinQ
    <3> QED BY <1>7, <2>4, <3>1, <3>2
  <2>6. MaxQ(Int2Q(0), Q(top, 1)) = Q(top, 1)
    <3>1. CASE top = 0
      BY <1>6, <3>1 DEF MaxQ
    <3>2. CASE top > 0
      BY <1>6, <1>7, <3>2 DEF MaxQ
    <3> QED BY <1>2, <3>1, <3>2
  <2> QED BY <1>1, <1>5, <2>3, <2>5, <2>6 DEF c, mix, clamped
<1>10. CASE k >= 0 /\ k < top
  <2>1. lo = k /\ hi = k + 1
    BY <1>2, <1>10 DEF lo, hi
  <2>2. k * (m - r) + (k + 1) * r = x
    <3>1. k * (m - r) = k * m - k * r /\ (k + 1) * r = k * r + r /\ k * m = m * k
      BY <1>2
    <3>2. k * m \in Int /\ k * r \in Int
      BY <1>2
    <3> QED BY <1>1, <1>2, <3>1, <3>2
  <2>3. mix = Q(x, m)
    BY <1>4, <2>1, <2>2
  <2>4. 0 <= x /\ x <= top * m
    <3>1. m * k >= 0 /\ m * (k + 1) <= m * top
      BY <1>2, <1>10
    <3>2. m * (k + 1) = m * k + m /\ m * top = top * m /\ m * k \in Int
      BY <1>2
    <3> QED BY <1>1, <1>2, <1>7, <3>1, <3>2
  <2>5. MinQ(Q(x, m), Int2Q(top)) = Q(x, m)
    BY <1>6, <1>7, <2>4 DEF MinQ
  <2>6. MaxQ(Int2Q(0), Q(x, m)) = Q(x, m)
    <3>1. CASE x = 0
      BY <1>6, <1>7, <3>1 DEF MaxQ
    <3>2. CASE x > 0
      BY <1>6, <1>7, <3>2 DEF MaxQ
    <3> QED BY <2>4, <3>1, <3>2
  <2> QED BY <1>1, <1>5, <2>3, <2>5, <2>6 DEF c, mix, clamped
<1> QED BY <1>2, <1>8, <1>9, <1>10

\* One half of a cell less, and a step more.
LEMMA HalfLess ==
  ASSUME NEW a \in Int, NEW s \in Positive
  PROVE  Sub(Q(a, 2 * s), <<1, 2>>) = Q(a - s, 2 * s)
<1> DEFINE d == 2 * s
<1>1. 2 \in Positive /\ d \in Positive /\ s \in Int /\ d \in Int /\ a - s \in Int
  BY DEF Positive
<1>2. a * 2 - 1 * d = 2 * (a - s) /\ d * 2 = 2 * d
  BY <1>1
<1> HIDE DEF d
<1>3. Sub(Q(a, d), Q(1, 2)) = Q(a * 2 - 1 * d, d * 2)
  BY <1>1, QAdds
<1>4. Q(2 * (a - s), 2 * d) = Q(a - s, d)
  BY <1>1, QScales
<1> QED BY <1>2, <1>3, <1>4, HalfIsQ DEF d

LEMMA StepMore ==
  ASSUME NEW a \in Int, NEW b \in Int, NEW s \in Positive
  PROVE  Add(Q(a, 2 * s), Q(b, s)) = Q(a + 2 * b, 2 * s)
<1> DEFINE d == 2 * s
           e == a + 2 * b
<1>1. d \in Positive /\ s \in Int /\ d \in Int /\ e \in Int
  BY DEF Positive
<1>2. a * s + b * d = s * e /\ d * s = s * d
  <2>1. b * d = s * (2 * b)
    BY <1>1
  <2>2. a * s = s * a /\ s * (a + 2 * b) = s * a + s * (2 * b) /\ d * s = s * d
    BY <1>1
  <2> QED BY <2>1, <2>2
<1> HIDE DEF d, e
<1>3. Add(Q(a, d), Q(b, s)) = Q(a * s + b * d, d * s)
  BY <1>1, QAdds
<1>4. Q(s * e, s * d) = Q(e, d)
  BY <1>1, QScales
<1> QED BY <1>2, <1>3, <1>4 DEF d, e

\* Where the first cell of a mode begins.
LEMMA StartIs ==
  ASSUME NEW n \in Positive, NEW sensor \in Positive, NEW size \in Positive,
         NEW scale \in Positive, NEW crop \in Nat
  PROVE  /\ S!Start(sensor, size, scale, crop, n)
              = Q((size * scale + 2 * (crop * n)) - sensor, 2 * sensor)
         /\ S!Inc(sensor, size, scale) = Q(size * scale, sensor)
<1> DEFINE P == size * scale
           cn == crop * n
           d == 2 * sensor
<1>1. /\ P \in Positive /\ cn \in Int /\ d \in Positive /\ P \in Int /\ 1 \in Positive
      /\ 1 \in Int /\ 2 \in Positive /\ sensor \in Int /\ d \in Int
      /\ P + 2 * cn \in Int
  BY DEF Positive
<1>2. S!Scale(sensor, size, scale) = Q(sensor, P)
  BY SameArithmetic DEF S!Scale
<1>3. /\ S!Start(sensor, size, scale, crop, n)
           = Sub(Add(Over(Q(1, 2), Q(sensor, P)), Q(cn, sensor)), <<1, 2>>)
      /\ S!Inc(sensor, size, scale) = Over(Q(1, 1), Q(sensor, P))
  BY <1>1, <1>2, SameArithmetic, HalfIsQ, IntIsQ DEF S!Start, S!Inc
<1> HIDE DEF P, cn
<1>4. Over(Q(1, 2), Q(sensor, P)) = Q(P, 2 * sensor) /\ Over(Q(1, 1), Q(sensor, P)) = Q(P, sensor)
  <2>1. /\ Over(Q(1, 2), Q(sensor, P)) = Q(1 * P, 2 * sensor)
        /\ Over(Q(1, 1), Q(sensor, P)) = Q(1 * P, 1 * sensor)
    BY <1>1, QDivides
  <2>2. 1 * P = P /\ 1 * sensor = sensor
    BY <1>1
  <2> QED BY <2>1, <2>2
<1>5. Add(Q(P, 2 * sensor), Q(cn, sensor)) = Q(P + 2 * cn, 2 * sensor)
  BY <1>1, StepMore
<1>6. Sub(Q(P + 2 * cn, 2 * sensor), <<1, 2>>) = Q((P + 2 * cn) - sensor, 2 * sensor)
  BY <1>1, HalfLess
<1>7. /\ S!Start(sensor, size, scale, crop, n) = Q((P + 2 * cn) - sensor, 2 * sensor)
      /\ S!Inc(sensor, size, scale) = Q(P, sensor)
  BY <1>3, <1>4, <1>5, <1>6
<1> QED BY <1>7, Zenon DEF P, cn

\* The table of a mode is that of the sensor at the same places, for every mode that lies
\* on its sensor (__resample_cal_table).
THEOREM AxisIsResampled ==
  ASSUME NEW n \in Positive, NEW sensor \in Positive, NEW size \in Positive,
         NEW scale \in Positive, NEW crop \in Nat, crop + size * scale <= sensor
  PROVE  S!AxisShaded(n, sensor, size, scale, crop,
                      S!ResampleCalTable(S!Ramp(n), n, sensor, size, scale, crop))
<1> DEFINE P == size * scale
           cn == crop * n
           d == 2 * sensor
           s0 == (P + 2 * cn) - sensor
           start == S!Start(sensor, size, scale, crop, n)
           inc == S!Inc(sensor, size, scale)
           table == S!ResampleCalTable(S!Ramp(n), n, sensor, size, scale, crop)
<1>1. /\ P \in Positive /\ cn \in Nat /\ d \in Positive /\ P \in Int /\ P > 0 /\ cn \in Int
      /\ sensor \in Int /\ d \in Int /\ n \in Int /\ n > 0 /\ s0 \in Int /\ sensor > 0 /\ crop \in Int
  BY DEF Positive
<1>2. start = Q(s0, 2 * sensor) /\ inc = Q(P, sensor)
  BY StartIs
<1> SUFFICES ASSUME NEW i \in 0 .. n - 1
             PROVE  table[i] = S!Clamped(S!MiddleOf(i, n, sensor, size, scale, crop), n)
  BY DEF S!AxisShaded
<1> DEFINE x == s0 + 2 * (i * P)
           point == Add(start, Mul(Int2Q(i), inc))
<1>3. i \in Int /\ i >= 0 /\ i <= n - 1 /\ i * P \in Int /\ x \in Int
  BY <1>1
<1> HIDE DEF start, inc
<1>4. point = Q(x, d)
  <2>1. Mul(Q(i, 1), Q(P, sensor)) = Q(i * P, 1 * sensor)
    BY <1>1, <1>3, QAdds DEF Positive
  <2>2. Int2Q(i) = Q(i, 1) /\ 1 * sensor = sensor
    BY <1>1, <1>3, IntIsQ
  <2> DEFINE ip == i * P
  <2>3. ip \in Int
    BY <1>3
  <2> HIDE DEF ip, s0
  <2>4. Add(Q(s0, 2 * sensor), Q(ip, sensor)) = Q(s0 + 2 * ip, 2 * sensor)
    BY <1>1, <2>3, StepMore
  <2> QED BY <1>2, <2>1, <2>2, <2>4 DEF ip
<1>5. S!MiddleOf(i, n, sensor, size, scale, crop) = Q(x, d)
  <2> DEFINE a == P + 2 * cn + 2 * (i * P)
             whole == n * crop * 2 * n + (2 * i + 1) * size * scale * n
             depth == 2 * n * sensor
  <2>1. whole = n * a
    <3>1. n * crop * 2 * n = n * (2 * cn)
      BY <1>1
    <3>2. (2 * i + 1) * size * scale * n = n * ((2 * i + 1) * P)
      <4>1. size \in Int /\ scale \in Int
        BY DEF Positive
      <4>2. 2 * i + 1 \in Int
        BY <1>3
      <4> DEFINE j == 2 * i + 1
      <4> HIDE DEF j
      <4>3. j \in Int => j * size * scale * n = n * (j * (size * scale))
        BY <1>1, <4>1
      <4> QED BY <4>2, <4>3 DEF j
    <3>3. (2 * i + 1) * P = P + 2 * (i * P)
      BY <1>1, <1>3
    <3>4. n * a = n * (2 * cn) + n * (P + 2 * (i * P))
      BY <1>1, <1>3
    <3> QED BY <3>1, <3>2, <3>3, <3>4
  <2>2. depth = n * d
    BY <1>1
  <2>3. a \in Int /\ x = a - sensor
    BY <1>1, <1>3
  <2>4. S!MiddleOf(i, n, sensor, size, scale, crop) = Sub(Q(whole, depth), <<1, 2>>)
    BY SameArithmetic DEF S!MiddleOf
  <2> HIDE DEF a, whole, depth, d, x
  <2>5. Q(n * a, n * d) = Q(a, d)
    BY <1>1, <2>3, QScales
  <2>6. Sub(Q(a, 2 * sensor), <<1, 2>>) = Q(a - sensor, 2 * sensor)
    BY <2>3, HalfLess
  <2> QED BY <2>1, <2>2, <2>3, <2>4, <2>5, <2>6 DEF d
<1>6. -d <= x /\ x < n * d
  <2>1. i * P >= 0 /\ cn >= 0
    BY <1>1, <1>3
  <2>2. -d <= x
    BY <1>1, <1>3, <2>1
  <2>3. i * P <= (n - 1) * P
    BY <1>1, <1>3
  <2>4. x <= 2 * (n * P) - P + 2 * cn - sensor
    <3>1. (n - 1) * P = n * P - P /\ n * P \in Int
      BY <1>1
    <3> QED BY <1>1, <1>3, <2>3, <3>1
  <2>5. n * P + cn <= n * sensor
    <3>1. n * (crop + P) <= n * sensor
      BY <1>1
    <3>2. n * (crop + P) = cn + n * P /\ n * P \in Int /\ n * sensor \in Int
      BY <1>1
    <3> QED BY <1>1, <3>1, <3>2
  <2>6. n * d = 2 * (n * sensor) /\ n * sensor \in Int /\ n * P \in Int
    BY <1>1
  <2> HIDE DEF x, d, P, cn
  <2> QED BY <1>1, <1>3, <2>2, <2>4, <2>5, <2>6
<1>7. table[i] = IF S!InTable(S!Cells(point, n), n) THEN S!Mix(S!Ramp(n), S!Cells(point, n)) ELSE <<0, 0>>
  BY SameArithmetic, Zenon DEF S!ResampleCalTable, S!Sampled, start, inc
<1> HIDE DEF table, point, x, d
<1>8. /\ S!InTable(S!Cells(Q(x, d), n), n)
      /\ S!Mix(S!Ramp(n), S!Cells(Q(x, d), n)) = S!Clamped(Q(x, d), n)
  BY <1>1, <1>3, <1>6, RampIs
<1> QED BY <1>4, <1>5, <1>7, <1>8

LEMMA CellSizesAre ==
  /\ DOMAIN S!CellSizes = 1 .. 5 /\ Len(S!CellSizes) = 5
  /\ S!CellSizes[1] = 16 /\ S!CellSizes[2] = 32 /\ S!CellSizes[3] = 64
  /\ S!CellSizes[4] = 128 /\ S!CellSizes[5] = 256
BY DEF S!CellSizes

\* Cells of one size cover a side.
LEMMA CellsCover ==
  ASSUME NEW n \in Positive, NEW cell \in Positive
  PROVE  LET k == (n + cell - 1) \div cell IN k \in Positive /\ n <= k * cell
<1> DEFINE k == (n + cell - 1) \div cell
           top == n + cell - 1
<1>1. top \in Nat /\ n > 0 /\ n \in Int /\ cell \in Int /\ cell > 0
  BY DEF Positive
<1>2. k \in Int /\ top < (k + 1) * cell
  BY <1>1, LinesAre
<1> HIDE DEF k
<1>3. (k + 1) * cell = k * cell + cell /\ k * cell \in Int
  BY <1>1, <1>2
<1>4. n <= k * cell
  BY <1>1, <1>2, <1>3
<1>5. ~ (k <= 0)
  <2>1. k <= 0 => k * cell <= 0
    BY <1>1, <1>2
  <2> QED BY <1>1, <1>3, <1>4, <2>1
<1> QED BY <1>2, <1>4, <1>5 DEF k, Positive

\* A side of at most so many cells.
LEMMA FewCells ==
  ASSUME NEW n \in Positive, NEW cell \in Positive, NEW many \in Nat, n <= many * cell
  PROVE  (n + cell - 1) \div cell <= many
<1> DEFINE k == (n + cell - 1) \div cell
           top == n + cell - 1
<1>1. top \in Nat /\ n > 0 /\ n \in Int /\ cell \in Int /\ cell > 0
  BY DEF Positive
<1>2. k \in Int /\ k * cell <= top
  BY <1>1, LinesAre
<1> HIDE DEF k
<1>3. ~ (k >= many + 1)
  <2>1. k >= many + 1 => k * cell >= (many + 1) * cell
    BY <1>1, <1>2
  <2>2. (many + 1) * cell = many * cell + cell /\ many * cell \in Int /\ k * cell \in Int
    BY <1>1, <1>2
  <2> QED BY <1>1, <1>2, <2>1, <2>2
<1> QED BY <1>2, <1>3 DEF k

\* The grid of a picture that the largest cells cover.
LEMMA GridIs ==
  ASSUME NEW m, m.w \in Positive, m.h \in Positive, m.w <= 63 * 256, m.h <= 48 * 256
  PROVE  LET grid == S!ApplyLsTables(m.w, m.h) IN
           S!GridFits(m, grid) /\ grid.w \in Nat /\ grid.w >= 2
<1> DEFINE w == m.w
           h == m.h
           G(i) == S!Grid(w, h, S!CellSizes[i])
           fits == {i \in DOMAIN S!CellSizes : G(i).w < 65 /\ G(i).h <= 49}
           least == IF fits = {} THEN Len(S!CellSizes)
                    ELSE CHOOSE i \in fits : \A j \in fits : i <= j
           grid == S!ApplyLsTables(w, h)
           cell == S!CellSizes[least]
<1>1. \A i \in 1 .. 5 : S!CellSizes[i] \in Positive
  BY CellSizesAre DEF Positive
<1>2. \A c : /\ S!Grid(w, h, c).cell = c
             /\ S!Grid(w, h, c).w = (w + c - 1) \div c + 1
             /\ S!Grid(w, h, c).h = (h + c - 1) \div c + 1
  BY DEF S!Grid
<1>3. fits \subseteq 1 .. 5 /\ 5 \in fits
  <2> DEFINE large == S!CellSizes[5]
  <2>1. large \in Positive /\ 63 \in Nat /\ 48 \in Nat
    BY <1>1
  <2>2. w <= 63 * large /\ h <= 48 * large
    BY CellSizesAre
  <2> HIDE DEF large
  <2>3. (w + large - 1) \div large <= 63 /\ (h + large - 1) \div large <= 48
    BY <2>1, <2>2, FewCells
  <2>4. (w + large - 1) \div large \in Int /\ (h + large - 1) \div large \in Int
    BY <2>1, CellsCover DEF Positive
  <2>5. G(5).w < 65 /\ G(5).h <= 49
    BY <1>2, <2>3, <2>4 DEF large
  <2> QED BY <2>5, CellSizesAre
<1>4. least \in fits /\ \A j \in fits : least <= j
  <2>1. \E i \in fits : \A j \in fits : i <= j
    BY <1>3, LeastOf
  <2> HIDE DEF fits
  <2> QED BY <1>3, <2>1
<1>5. grid = G(least)
  BY DEF S!ApplyLsTables
<1> HIDE DEF least, grid
<1>6. least \in 1 .. 5 /\ cell \in Positive /\ G(least).w < 65 /\ G(least).h <= 49
  BY <1>1, <1>3, <1>4
<1>7. /\ grid.cell = cell
      /\ grid.w = (w + cell - 1) \div cell + 1
      /\ grid.h = (h + cell - 1) \div cell + 1
  BY <1>2, <1>5
<1> DEFINE a == (w + cell - 1) \div cell
           b == (h + cell - 1) \div cell
<1>8. a \in Positive /\ w <= a * cell /\ b \in Positive /\ h <= b * cell
  BY <1>6, CellsCover
<1>9. grid.w < 65 /\ grid.h <= 49
  BY <1>5, <1>6
<1>10. cell > 16 => LET finer == S!Grid(w, h, cell \div 2) IN finer.w > 64 \/ finer.h > 49
  <2> SUFFICES ASSUME cell > 16
               PROVE  S!Grid(w, h, cell \div 2).w > 64 \/ S!Grid(w, h, cell \div 2).h > 49
    OBVIOUS
  <2>1. least # 1
    BY CellSizesAre
  <2>2. least - 1 \in 1 .. 5 /\ cell \div 2 = S!CellSizes[least - 1]
    BY <1>6, <2>1, CellSizesAre
  <2>3. ~ (least <= least - 1)
    BY <1>6
  <2>4. least - 1 \notin fits
    BY <1>4, <2>3
  <2>5. ~ (G(least - 1).w < 65 /\ G(least - 1).h <= 49)
    BY <2>2, <2>4, CellSizesAre
  <2> DEFINE c == S!CellSizes[least - 1]
  <2>6. c \in Positive
    BY <1>1, <2>2
  <2>7. (w + c - 1) \div c \in Int /\ (h + c - 1) \div c \in Int
    BY <2>6, CellsCover DEF Positive
  <2>8. S!Grid(w, h, c).w \in Int /\ S!Grid(w, h, c).h \in Int
    BY <1>2, <2>7
  <2>9. ~ (S!Grid(w, h, c).w < 65 /\ S!Grid(w, h, c).h <= 49)
    BY <2>5
  <2> HIDE DEF c
  <2>10. S!Grid(w, h, c).w > 64 \/ S!Grid(w, h, c).h > 49
    BY <2>8, <2>9
  <2> QED BY <2>2, <2>10 DEF c
<1> HIDE DEF a, b, cell, fits
<1>11. /\ (grid.w - 1) * grid.cell >= w /\ (grid.h - 1) * grid.cell >= h
       /\ grid.w \in Int /\ grid.h \in Int /\ grid.w > 1 /\ grid.h > 0
  <2>1. grid.w = a + 1 /\ grid.h = b + 1
    BY <1>7 DEF a, b
  <2>2. a \in Int /\ b \in Int /\ a > 0 /\ b > 0 /\ cell \in Int /\ w \in Int /\ h \in Int
    BY <1>6, <1>8 DEF Positive
  <2>3. grid.w - 1 = a /\ grid.h - 1 = b
    BY <2>1, <2>2
  <2>4. a * cell >= w /\ b * cell >= h
    BY <1>8, <2>2
  <2> HIDE DEF w, h
  <2>5. a + 1 > 1 /\ b + 1 > 0 /\ a + 1 \in Int /\ b + 1 \in Int
    BY <2>2
  <2> QED BY <1>7, <2>1, <2>3, <2>4, <2>5
<1>12. 4 * 2 * grid.w * grid.h <= S!MaxLsGridSize
  <2> DEFINE gw == grid.w
             gh == grid.h
  <2>1. gw \in 1 .. 64 /\ gh \in 1 .. 49
    BY <1>9, <1>11
  <2> HIDE DEF gw, gh
  <2>2. gw * gh <= 64 * gh
    BY <2>1
  <2>3. 4 * 2 * gw * gh = 8 * (gw * gh) /\ gw * gh \in Int
    BY <2>1
  <2>4. 4 * 2 * gw * gh <= 32768
    BY <2>1, <2>2, <2>3
  <2> QED BY <2>4 DEF gw, gh, S!MaxLsGridSize
<1>13. grid.w <= 64 /\ grid.h <= 49
  BY <1>9, <1>11
<1> HIDE DEF grid
<1>14. grid = S!ApplyLsTables(m.w, m.h)
  BY DEF grid
<1>15. S!GridFits(m, grid)
  BY <1>7, <1>10, <1>11, <1>12, <1>13, Zenon DEF S!GridFits, w, h
<1>16. grid.w \in Nat /\ grid.w >= 2
  BY <1>11
<1> QED BY <1>14, <1>15, <1>16

\* A gain from one on that the ISP can hold.
Gain(a, b) == a \in Positive /\ b \in Positive /\ b <= a /\ 2048 * a + b < 32768 * b

\* The values the ISP can hold.
Held(s) == s \in Int /\ 1024 <= s /\ s <= 16383

\* The value of the ISP for a gain.
LEMMA StepOf ==
  ASSUME NEW a, NEW b, Gain(a, b)
  PROVE  Held(Floor(Add(Mul(Int2Q(1024), Q(a, b)), <<1, 2>>)))
<1> DEFINE top == 2048 * a + b
           whole == b * 2
           k == top \div whole
<1>1. a \in Int /\ b \in Int /\ a > 0 /\ b > 0 /\ 1 \in Positive /\ 2 \in Positive /\ 1 \in Int
      /\ 1024 \in Int /\ top \in Nat /\ whole \in Positive
      /\ a \in Positive /\ b \in Positive /\ b <= a /\ 2048 * a + b < 32768 * b
  BY DEF Gain, Positive
<1>2. Mul(Int2Q(1024), Q(a, b)) = Q(1024 * a, b)
  <2>1. Mul(Q(1024, 1), Q(a, b)) = Q(1024 * a, 1 * b)
    BY <1>1, QAdds
  <2> QED BY <1>1, <2>1, IntIsQ
<1>3. Add(Q(1024 * a, b), Q(1, 2)) = Q(top, whole)
  <2> DEFINE n == 1024 * a
  <2>1. n \in Int /\ n * 2 + 1 * b = top
    BY <1>1
  <2> HIDE DEF n, top
  <2>2. Add(Q(n, b), Q(1, 2)) = Q(n * 2 + 1 * b, b * 2)
    BY <1>1, <2>1, QAdds
  <2> QED BY <2>1, <2>2 DEF n
<1>4. Floor(Q(top, whole)) = k
  <2>1. top \in Int /\ whole \in Positive
    BY <1>1
  <2> HIDE DEF top, whole
  <2> QED BY <2>1, QFloors
<1>5. k \in Int /\ k * whole <= top /\ top < (k + 1) * whole
  <2> HIDE DEF top, whole
  <2> QED BY <1>1, LinesAre
<1> HIDE DEF k
<1>6. ~ (k <= 1023)
  <2> SUFFICES ASSUME k <= 1023 PROVE FALSE
    OBVIOUS
  <2>1. (k + 1) * whole <= 1024 * whole
    BY <1>1, <1>5
  <2>2. (k + 1) * whole \in Int /\ 1024 * whole = 2048 * b
    BY <1>1, <1>5
  <2> QED BY <1>1, <1>5, <2>1, <2>2
<1>7. ~ (k >= 16384)
  <2> SUFFICES ASSUME k >= 16384 PROVE FALSE
    OBVIOUS
  <2>1. k * whole >= 16384 * whole
    BY <1>1, <1>5
  <2>2. k * whole \in Int /\ 16384 * whole = 32768 * b
    BY <1>1, <1>5
  <2> QED BY <1>1, <1>5, <2>1, <2>2
<1>8. Held(k)
  BY <1>5, <1>6, <1>7 DEF Held
<1>9. <<1, 2>> = Q(1, 2)
  BY HalfIsQ
<1> HIDE DEF top, whole
<1>10. Floor(Add(Mul(Int2Q(1024), Q(a, b)), <<1, 2>>)) = k
  BY <1>2, <1>3, <1>4, <1>9
<1> QED BY <1>8, <1>10

Gains(n, table) == \A i \in 0 .. n - 1 : \E a, b \in Positive : table[i] = Q(a, b) /\ Gain(a, b)

LEMMA SumsStay ==
  ASSUME NEW x \in Int, NEW y \in Int, NEW s \in Int, NEW t \in Int, s <= x, t <= y,
         2048 * x < 32767 * s, 2048 * y <= 32767 * t
  PROVE  s + t <= x + y /\ 2048 * (x + y) + (s + t) < 32768 * (s + t)
OBVIOUS

\* What is mixed of two gains is one.
LEMMA MixedGain ==
  ASSUME NEW a, NEW p, Gain(a, p), NEW b, NEW q, Gain(b, q),
         NEW m \in Positive, NEW r \in 0 .. m - 1
  PROVE  Gain((a * q) * (m - r) + (b * p) * r, (p * q) * m)
<1> DEFINE s == m - r
           aq == a * q
           bp == b * p
           pq == p * q
           n == aq * s + bp * r
           d == pq * m
<1>1. /\ m \in Int /\ m > 0 /\ r \in Int /\ r >= 0 /\ s \in Int /\ s > 0 /\ m = s + r
      /\ a \in Int /\ b \in Int /\ p \in Int /\ q \in Int /\ p > 0 /\ q > 0 /\ a > 0 /\ b > 0
  BY DEF Positive, Gain
<1>2. aq \in Int /\ bp \in Int /\ pq \in Int /\ pq > 0
  BY <1>1
<1>3. pq <= aq /\ 2048 * aq < 32767 * pq
  <2>1. p <= a /\ 2048 * a < 32767 * p
    BY <1>1 DEF Gain
  <2>2. p * q <= a * q /\ (2048 * a) * q < (32767 * p) * q
    BY <1>1, <2>1
  <2>3. (2048 * a) * q = 2048 * (a * q) /\ (32767 * p) * q = 32767 * (p * q)
    BY <1>1
  <2> QED BY <2>2, <2>3
<1>4. pq <= bp /\ 2048 * bp < 32767 * pq
  <2>1. q <= b /\ 2048 * b < 32767 * q
    BY <1>1 DEF Gain
  <2>2. q * p <= b * p /\ (2048 * b) * p < (32767 * q) * p /\ q * p = p * q
    BY <1>1, <2>1
  <2>3. (2048 * b) * p = 2048 * (b * p) /\ (32767 * q) * p = 32767 * (q * p)
    BY <1>1
  <2> QED BY <2>2, <2>3
<1> HIDE DEF s, aq, bp, pq
<1>5. /\ pq * s <= aq * s /\ pq * r <= bp * r
      /\ (2048 * aq) * s < (32767 * pq) * s /\ (2048 * bp) * r <= (32767 * pq) * r
  BY <1>1, <1>2, <1>3, <1>4
<1>6. /\ pq * s \in Int /\ aq * s \in Int /\ pq * r \in Int /\ bp * r \in Int
      /\ (2048 * aq) * s = 2048 * (aq * s) /\ (32767 * pq) * s = 32767 * (pq * s)
      /\ (2048 * bp) * r = 2048 * (bp * r) /\ (32767 * pq) * r = 32767 * (pq * r)
      /\ d = pq * s + pq * r /\ d > 0
  BY <1>1, <1>2
<1>7. d <= n /\ 2048 * n + d < 32768 * d
  BY <1>5, <1>6, SumsStay
<1>8. n \in Int /\ d \in Int /\ n > 0
  BY <1>6, <1>7
<1> HIDE DEF n, d
<1>9. Gain(n, d)
  BY <1>6, <1>7, <1>8 DEF Positive, Gain
<1> QED BY <1>9 DEF n, d, s, aq, bp, pq

\* The points of the grid hold the gains of a table, as values the ISP can hold, for
\* every table of gains from 1 to less than 16 (__populate_ls_table).
THEOREM PointsHoldTheGains ==
  ASSUME NEW n \in Positive, NEW table, Gains(n, table), NEW count \in Nat, count >= 2
  PROVE  S!PointsHold(table, n, count, S!PopulateLsTable(table, n, count))
<1> DEFINE m == count - 1
           d == 2 * m
           points == S!PopulateLsTable(table, n, count)
           at == S!Sampled(table, n, <<-1, 2>>, Q(n, m), count)
           Step(q) == Floor(Add(Mul(Int2Q(1024), q), <<1, 2>>))
           X(i) == 2 * (i * n) - m
           Cell(i) == S!Cells(Q(X(i), d), n)
           K(i) == X(i) \div d
           R(i) == X(i) % d
<1>1. /\ m \in Positive /\ d \in Positive /\ m \in Int /\ d \in Int /\ m > 0 /\ d = 2 * m
      /\ n \in Int /\ n > 0 /\ count \in Int /\ count = m + 1 /\ 1 \in Positive /\ 2 \in Positive
  BY DEF Positive
<1> HIDE DEF m, d
<1>2. ASSUME NEW i \in 0 .. count - 1
      PROVE  /\ i \in Int /\ X(i) \in Int /\ -d <= X(i) /\ X(i) < n * d
             /\ Add(<<-1, 2>>, Mul(Int2Q(i), Q(n, m))) = Q(X(i), d)
  <2> DEFINE ni == i * n
  <2>1. i \in Int /\ 0 <= i /\ i <= m /\ ni \in Int /\ X(i) \in Int
    BY <1>1
  <2>2. 0 <= ni /\ ni <= m * n /\ m * n \in Int /\ n * d = 2 * (m * n)
    BY <1>1, <2>1
  <2>3. Mul(Int2Q(i), Q(n, m)) = Q(ni, m)
    <3>1. Mul(Q(i, 1), Q(n, m)) = Q(i * n, 1 * m)
      BY <1>1, <2>1, QAdds
    <3>2. Int2Q(i) = Q(i, 1) /\ 1 * m = m
      BY <1>1, <2>1, IntIsQ
    <3> QED BY <3>1, <3>2
  <2>4. <<-1, 2>> = Q(-1, 2)
    BY HalfIsQ
  <2> HIDE DEF ni
  <2>5. Add(Q(-1, 2), Q(ni, m)) = Q((-1) * m + ni * 2, 2 * m)
    BY <1>1, <2>1, QAdds
  <2>6. (-1) * m + ni * 2 = X(i) /\ -d <= X(i) /\ X(i) < n * d
    <3>1. X(i) = 2 * ni - m
      BY DEF ni
    <3> QED BY <1>1, <2>1, <2>2, <3>1
  <2> QED BY <1>1, <2>1, <2>3, <2>4, <2>5, <2>6
<1> HIDE DEF X
<1>3. ASSUME NEW i \in 0 .. count - 1
      PROVE  /\ K(i) \in -1 .. n - 1 /\ R(i) \in 0 .. d - 1 /\ X(i) = d * K(i) + R(i)
             /\ Cell(i).lo = (IF K(i) < 0 THEN 0 ELSE K(i))
             /\ Cell(i).hi = (IF K(i) + 1 < n THEN K(i) + 1 ELSE n - 1)
             /\ Cell(i).f = Q(R(i), d)
             /\ S!InTable(Cell(i), n)
  <2> DEFINE x == X(i)
  <2>1. x \in Int /\ -d <= x /\ x < n * d
    BY <1>2
  <2> HIDE DEF x
  <2>2. CellsRight(S!Cells(Q(x, d), n), n, d, x, x \div d, x % d)
    BY <1>1, <2>1, CellsAre
  <2>3. CellsRight(Cell(i), n, d, X(i), K(i), R(i))
    BY <2>2 DEF x
  <2> QED BY <2>3 DEF CellsRight
<1>4. ASSUME NEW i \in 0 .. count - 1
      PROVE  at[i] = Add(Mul(table[Cell(i).lo], Sub(Int2Q(1), Q(R(i), d))),
                         Mul(table[Cell(i).hi], Q(R(i), d)))
  <2> DEFINE x == Add(<<-1, 2>>, Mul(Int2Q(i), Q(n, m)))
  <2>1. at[i] = IF S!InTable(S!Cells(x, n), n) THEN S!Mix(table, S!Cells(x, n)) ELSE <<0, 0>>
    BY SameArithmetic, Zenon DEF S!Sampled
  <2>2. x = Q(X(i), d)
    BY <1>2
  <2> HIDE DEF x, at
  <2>3. at[i] = S!Mix(table, Cell(i))
    BY <1>3, <2>1, <2>2
  <2>4. S!Mix(table, Cell(i)) = Add(Mul(table[Cell(i).lo], Sub(Int2Q(1), Cell(i).f)),
                                    Mul(table[Cell(i).hi], Cell(i).f))
    BY SameArithmetic, Zenon DEF S!Mix
  <2> QED BY <1>3, <2>3, <2>4
<1>5. DOMAIN points = 0 .. count - 1
      /\ \A i \in 0 .. count - 1 :
           points[i] = IF at[i] = <<0, 0>> THEN -1
                       ELSE IF Step(at[i]) < 16383 THEN Step(at[i]) ELSE 16383
  <2>1. \A q : S!Floor(S!Add(S!Mul(S!Int2Q(1024), q), <<1, 2>>)) = Step(q)
    BY SameArithmetic
  <2>2. at = S!Sampled(table, n, <<-1, 2>>, S!Q(n, count - 1), count)
    BY SameArithmetic DEF m
  <2>3. points = [i \in 0 .. count - 1 |->
                    IF at[i] = <<0, 0>> THEN -1
                    ELSE IF S!Floor(S!Add(S!Mul(S!Int2Q(1024), at[i]), <<1, 2>>)) < 16383
                         THEN S!Floor(S!Add(S!Mul(S!Int2Q(1024), at[i]), <<1, 2>>)) ELSE 16383]
    <3> HIDE DEF at
    <3> QED BY <2>2 DEF S!PopulateLsTable
  <2> HIDE DEF points, at, Step
  <2> QED BY <2>1, <2>3
<1> HIDE DEF points, at, Cell, K, R, Step
<1>6. ASSUME NEW i \in 0 .. count - 1
      PROVE  /\ Cell(i).lo \in 0 .. n - 1 /\ Cell(i).hi \in 0 .. n - 1 /\ R(i) \in 0 .. d - 1
             /\ K(i) \in Int
  BY <1>1, <1>3 DEF S!InTable
<1>7. ASSUME NEW i \in 0 .. count - 1
      PROVE  /\ points[i] = Step(at[i]) /\ Held(points[i])
             /\ \A j \in 0 .. n - 1 :
                  Cell(i).lo = j /\ (R(i) = 0 \/ Cell(i).hi = j) => at[i] = table[j]
  <2> DEFINE r == R(i)
             lo == Cell(i).lo
             hi == Cell(i).hi
  <2>1. PICK a \in Positive, p \in Positive : table[lo] = Q(a, p) /\ Gain(a, p)
    BY <1>6 DEF Gains
  <2>2. PICK b \in Positive, q \in Positive : table[hi] = Q(b, q) /\ Gain(b, q)
    BY <1>6 DEF Gains
  <2> DEFINE num == (a * q) * (d - r) + (b * p) * r
             den == (p * q) * d
  <2>3. r \in 0 .. d - 1 /\ r \in Int
    BY <1>1, <1>6
  <2> HIDE DEF r, lo, hi
  <2>4. Gain(num, den) /\ num \in Positive /\ den \in Positive
    <3>1. Gain(num, den)
      BY <1>1, <2>1, <2>2, <2>3, MixedGain
    <3> HIDE DEF num, den
    <3> QED BY <3>1 DEF Gain
  <2>5. at[i] = Q(num, den)
    <3>1. at[i] = Add(Mul(Q(a, p), Sub(Int2Q(1), Q(r, d))), Mul(Q(b, q), Q(r, d)))
      BY <1>4, <2>1, <2>2 DEF r, lo, hi
    <3>2. Add(Mul(Q(a, p), Sub(Int2Q(1), Q(r, d))), Mul(Q(b, q), Q(r, d)))
            = Q((a * q) * (d - r) + (b * p) * r, (p * q) * d)
      <4>1. a \in Int /\ b \in Int
        BY DEF Positive
      <4>2. d \in Positive /\ r \in Int
        BY <1>1, <2>3
      <4> HIDE DEF num, den
      <4>3. Mixes(a, p, b, q, d, r)
        BY <4>1, <4>2, MixIs
      <4> QED BY <4>3 DEF Mixes
    <3> QED BY <3>1, <3>2
  <2>6. \A j \in 0 .. n - 1 : lo = j /\ (r = 0 \/ hi = j) => at[i] = table[j]
    <3> SUFFICES ASSUME r = 0 \/ hi = lo PROVE at[i] = Q(a, p)
      BY <2>1
    <3>1. num * p = a * den
      <4>1. CASE r = 0
        <5>1. num = (a * q) * d
          BY <1>1, <2>1, <2>2, <4>1 DEF Positive
        <5>2. ((a * q) * d) * p = a * ((p * q) * d)
          BY <1>1 DEF Positive
        <5> QED BY <5>1, <5>2
      <4>2. CASE hi = lo
        <5>1. Q(a, p) = Q(b, q)
          BY <2>1, <2>2, <4>2
        <5>2. b * p = a * q
          BY <5>1, QCompares DEF Positive
        <5>3. num = (a * q) * d
          <6> DEFINE y == a * q
          <6>1. y \in Int /\ num = y * (d - r) + y * r
            BY <5>2 DEF Positive
          <6> HIDE DEF y
          <6>2. y * (d - r) + y * r = y * d
            BY <1>1, <2>3, <6>1
          <6> QED BY <6>1, <6>2 DEF y
        <5>4. ((a * q) * d) * p = a * ((p * q) * d)
          BY <1>1 DEF Positive
        <5> QED BY <5>3, <5>4
      <4> QED BY <4>1, <4>2
    <3>2. num \in Int /\ den \in Positive /\ a \in Int
      BY <2>4 DEF Positive
    <3> HIDE DEF num, den
    <3> QED BY <2>5, <3>1, <3>2, QIsCanonical
  <2> HIDE DEF num, den
  <2>7. at[i] # <<0, 0>>
    <3>1. num \in Int
      BY <2>4 DEF Positive
    <3>2. Q(num, den) \in Rat
      BY <2>4, <3>1, QIs
    <3>3. <<0, 0>> \notin Rat
      BY DEF Rat, Positive
    <3> QED BY <2>5, <3>2, <3>3
  <2>8. Held(Step(Q(num, den)))
    BY <2>4, StepOf DEF Step
  <2>9. points[i] = Step(at[i]) /\ Held(points[i])
    <3> DEFINE step == Step(at[i])
    <3>1. points[i] = IF step < 16383 THEN step ELSE 16383
      BY <1>5, <2>7
    <3>2. Held(step)
      BY <2>5, <2>8
    <3> HIDE DEF step
    <3>3. points[i] = step
      BY <3>1, <3>2 DEF Held
    <3> QED BY <3>2, <3>3 DEF step
  <2>10. \A j \in 0 .. n - 1 :
           Cell(i).lo = j /\ (R(i) = 0 \/ Cell(i).hi = j) => at[i] = table[j]
    BY <2>6 DEF r, lo, hi
  <2> QED BY <2>9, <2>10
<1>8. points[0] = Step(table[0])
  <2>1. 0 \in 0 .. count - 1 /\ 0 \in 0 .. n - 1
    BY <1>1
  <2>2. X(0) = -m
    BY <1>1 DEF X
  <2>3. K(0) = -1
    <3>1. /\ K(0) \in Int /\ R(0) >= 0 /\ R(0) < d /\ R(0) \in Int /\ K(0) >= -1
          /\ -m = d * K(0) + R(0)
      BY <1>1, <1>3, <1>6, <2>1, <2>2
    <3>2. K(0) >= 0 => d * K(0) >= 0
      BY <1>1, <3>1
    <3>3. d * K(0) \in Int
      BY <1>1, <3>1
    <3> QED BY <1>1, <3>1, <3>2, <3>3
  <2>4. Cell(0).lo = 0 /\ Cell(0).hi = 0
    BY <1>1, <1>3, <2>1, <2>3
  <2> QED BY <1>7, <2>1, <2>4
<1>9. ASSUME NEW i \in 0 .. count - 1, NEW j \in 0 .. n - 1,
             2 * i * n = (2 * j + 1) * (count - 1)
      PROVE  points[i] = Step(table[j])
  <2>1. X(i) = d * j + 0
    <3>1. 2 * i * n = 2 * (i * n) /\ (2 * j + 1) * m = 2 * (j * m) + m /\ d * j = 2 * (j * m)
          /\ j * m \in Int /\ i * n \in Int
      BY <1>1
    <3>2. count - 1 = m
      BY DEF m
    <3> QED BY <1>1, <1>9, <3>1, <3>2 DEF X
  <2>2. d \in Nat \ {0} /\ 0 \in 0 .. d - 1 /\ j \in Int /\ X(i) \in Int
    BY <1>1, <1>2 DEF Positive
  <2>3. K(i) = j /\ R(i) = 0
    BY <2>1, <2>2, DivUnique DEF K, R
  <2>4. Cell(i).lo = j
    BY <1>3, <2>3
  <2> QED BY <1>7, <2>3, <2>4
<1>10. \A q : S!Floor(S!Add(S!Mul(S!Int2Q(1024), q), <<1, 2>>)) = Step(q)
  BY SameArithmetic DEF Step
<1>11. /\ \A i \in DOMAIN points : Held(points[i])
       /\ \A i \in DOMAIN points : \A j \in 0 .. n - 1 :
            2 * i * n = (2 * j + 1) * (count - 1) => points[i] = Step(table[j])
  <2>1. \A i \in DOMAIN points : i \in 0 .. count - 1
    BY <1>5
  <2>2. \A i \in DOMAIN points : Held(points[i])
    BY <1>7, <2>1
  <2>3. ASSUME NEW i \in DOMAIN points, NEW j \in 0 .. n - 1,
               2 * i * n = (2 * j + 1) * (count - 1)
        PROVE  points[i] = Step(table[j])
    BY <1>9, <2>1, <2>3
  <2> QED BY <2>2, <2>3
<1>12. \A i \in DOMAIN points : 1024 <= points[i] /\ points[i] <= 16383
  BY <1>11 DEF Held
<1>13. points[0] = S!Floor(S!Add(S!Mul(S!Int2Q(1024), table[0]), <<1, 2>>))
  BY <1>8, <1>10
<1>14. \A i \in DOMAIN points : \A j \in 0 .. n - 1 :
         2 * i * n = (2 * j + 1) * (count - 1) =>
           points[i] = S!Floor(S!Add(S!Mul(S!Int2Q(1024), table[j]), <<1, 2>>))
  BY <1>10, <1>11
<1>15. S!PointsHold(table, n, count, points)
  BY <1>5, <1>12, <1>13, <1>14 DEF S!PointsHold
<1> QED BY <1>15 DEF points

-----------------------------------------------------------------------------
(* The set-ups of a run are among those that the lemmas are about *)

ControlValues == BOOLEAN \cup Int \cup {"BOOLEAN", "MENU", "INTEGER", "AUTO", "MANUAL"}

LEMMA ControlsAreDevices ==
  /\ S!Devices \subseteq Devices(S!Ids, ControlValues)
  /\ \A kind_ \in S!Kinds : S!Flippable(kind_) \in Devices({"HFLIP", "VFLIP"}, ControlValues)
<1>1. ASSUME NEW id, NEW k \in S!Kinds, NEW readonly \in BOOLEAN
      PROVE  S!Control(id, k, readonly)
               \in [kind : S!Kinds, type : ControlValues, readonly : BOOLEAN,
                    default : ControlValues, value : ControlValues]
  <2>1. /\ {"BOOLEAN", "MENU", "INTEGER", "AUTO", "MANUAL"} \subseteq ControlValues
        /\ BOOLEAN \subseteq ControlValues /\ 0 \in ControlValues /\ 90 \in ControlValues
    BY DEF ControlValues
  <2>2. TRUE \in ControlValues /\ FALSE \in ControlValues
    BY <2>1
  <2> QED BY <2>1, <2>2 DEF S!Control
<1>2. "works" \in S!Kinds
  BY DEF S!Kinds
<1>3. ASSUME NEW device \in S!Devices PROVE device \in Devices(S!Ids, ControlValues)
  <2>1. PICK other \in S!Ids, k \in S!Kinds, j \in S!Kinds, readonly \in BOOLEAN :
          device = [id \in S!Ids |-> S!Control(id, IF id = other THEN k ELSE j,
                                               readonly /\ id = other)]
    BY DEF S!Devices
  <2>2. ASSUME NEW id \in S!Ids
        PROVE  S!Control(id, IF id = other THEN k ELSE j, readonly /\ id = other)
                 \in [kind : S!Kinds, type : ControlValues, readonly : BOOLEAN,
                      default : ControlValues, value : ControlValues]
    <3> DEFINE kind_ == IF id = other THEN k ELSE j
               readonly_ == readonly /\ id = other
    <3>1. kind_ \in S!Kinds /\ readonly_ \in BOOLEAN
      OBVIOUS
    <3> HIDE DEF kind_, readonly_
    <3>2. S!Control(id, kind_, readonly_)
            \in [kind : S!Kinds, type : ControlValues, readonly : BOOLEAN,
                 default : ControlValues, value : ControlValues]
      BY <1>1, <3>1
    <3> QED BY <3>2 DEF kind_, readonly_
  <2> QED BY <2>1, <2>2, Zenon DEF Devices
<1>4. ASSUME NEW k \in S!Kinds
      PROVE  S!Flippable(k) \in Devices({"HFLIP", "VFLIP"}, ControlValues)
  <2>1. S!Flippable(k) =
          [id \in {"HFLIP", "VFLIP"} |-> S!Control(id, IF id = "HFLIP" THEN k ELSE "works", FALSE)]
    BY DEF S!Flippable, S!Bool
  <2>2. ASSUME NEW id \in {"HFLIP", "VFLIP"}
        PROVE  S!Control(id, IF id = "HFLIP" THEN k ELSE "works", FALSE)
                 \in [kind : S!Kinds, type : ControlValues, readonly : BOOLEAN,
                      default : ControlValues, value : ControlValues]
    <3> DEFINE kind_ == IF id = "HFLIP" THEN k ELSE "works"
               readonly_ == FALSE
    <3>1. kind_ \in S!Kinds /\ readonly_ \in BOOLEAN
      BY <1>2
    <3> HIDE DEF kind_, readonly_
    <3>2. S!Control(id, kind_, readonly_)
            \in [kind : S!Kinds, type : ControlValues, readonly : BOOLEAN,
                 default : ControlValues, value : ControlValues]
      BY <1>1, <3>1
    <3> QED BY <3>2 DEF kind_, readonly_
  <2> QED BY <2>1, <2>2, Zenon DEF Devices
<1> QED BY <1>3, <1>4

LEMMA OrdersAreKept ==
  ASSUME NEW device \in S!Devices, NEW order \in S!Orders
  PROVE  S!ControlsHold(order[1], device, order[2], S!Ordered(device, order))
<1> DEFINE D == S!Ids
           Vals == ControlValues
<1>1. device \in Devices(D, Vals)
  BY ControlsAreDevices
<1>2. /\ "HFLIP" \in D /\ "VFLIP" \in D /\ "ROTATE" \in D
      /\ "EXPOSURE_AUTO" \in D /\ "EXPOSURE_ABSOLUTE" \in D
  BY DEF S!Ids
<1>3. "AUTO" \in Vals /\ "MANUAL" \in Vals /\ TRUE \in Vals /\ FALSE \in Vals /\ \A i \in Int : i \in Vals
  BY DEF ControlValues
<1> HIDE DEF D, Vals
<1>4. CASE \E op \in {"hflip", "vflip"} : \E flip \in BOOLEAN : order = <<op, flip>>
  <2>1. PICK op \in {"hflip", "vflip"}, flip \in BOOLEAN : order = <<op, flip>>
    BY <1>4
  <2>2. order[1] = op /\ order[2] = flip /\ flip \in Vals
    BY <1>3, <2>1
  <2>3. CASE op = "hflip"
    <3>1. S!Ordered(device, order) = S!SetHorizontalFlip(device, flip)
      BY <2>2, <2>3 DEF S!Ordered
    <3> QED BY <1>1, <1>2, <2>2, <2>3, <3>1, ControlsAreKept
  <2>4. CASE op = "vflip"
    <3>1. S!Ordered(device, order) = S!SetVerticalFlip(device, flip)
      BY <2>2, <2>4 DEF S!Ordered
    <3> QED BY <1>1, <1>2, <2>2, <2>4, <3>1, ControlsAreKept
  <2> QED BY <2>3, <2>4
<1>5. CASE \E r \in {0, 90, 270, 450} : order = <<"rotate", r>>
  <2>1. PICK r \in {0, 90, 270, 450} : order = <<"rotate", r>>
    BY <1>5
  <2>2. order[1] = "rotate" /\ order[2] = r /\ r \in Int /\ r % 90 = 0 /\ r % 360 \in Vals
    BY <1>3, <2>1
  <2>3. S!Ordered(device, order) = S!SetRotation(device, r)
    BY <2>2 DEF S!Ordered
  <2> QED BY <1>1, <1>2, <2>2, <2>3, ControlsAreKept
<1>6. CASE \E ms \in {0, 9, 20} : order = <<"exposure", ms>>
  <2>1. PICK ms \in {0, 9, 20} : order = <<"exposure", ms>>
    BY <1>6
  <2>2. order[1] = "exposure" /\ order[2] = ms /\ ms \in Int /\ 10 * ms \in Vals
    BY <1>3, <2>1
  <2>3. S!Ordered(device, order) = S!SetExposureTime(device, ms)
    BY <2>2 DEF S!Ordered
  <2> QED BY <1>1, <1>2, <1>3, <2>2, <2>3, ControlsAreKept
<1>7. CASE \E what : order = <<"init", what>>
  <2>1. PICK what : order = <<"init", what>>
    BY <1>7
  <2>2. order[1] = "init" /\ order[2] = what
    BY <2>1
  <2>3. S!Ordered(device, order) = S!InitControls(device, {what})
    BY <2>2 DEF S!Ordered
  <2> QED BY <1>1, <2>2, <2>3, ControlsAreKept
<1>8. \/ \E op \in {"hflip", "vflip"} : \E flip \in BOOLEAN : order = <<op, flip>>
      \/ \E r \in {0, 90, 270, 450} : order = <<"rotate", r>>
      \/ \E ms \in {0, 9, 20} : order = <<"exposure", ms>>
      \/ \E what : order = <<"init", what>>
  BY DEF S!Orders
<1> QED BY <1>4, <1>5, <1>6, <1>7, <1>8

LEMMA SensorsAreOk ==
  ASSUME NEW want \in S!SensorWants, NEW cam \in S!Sensors
  PROVE  S!SensorSetUp(want, cam, S!SetupPipeline(want, cam))
<1>1. SensorWantOk(want)
  <2>1. /\ want.sensor \in DOMAIN S!SensorSize /\ want.w \in {640, 800, 1280, 1920}
        /\ want.h \in {480, 600, 720, 1080} /\ want.fps \in {15, 45, 60}
        /\ want.vflip \in BOOLEAN /\ want.hflip \in BOOLEAN /\ want.agc \in BOOLEAN
        /\ want.shutter \in {10000, 40000} /\ want.gain \in {<<1, 1>>, <<8, 3>>}
    BY DEF S!SensorWants
  <2>2. want.sensor \in {"imx219", "imx708", "ov5647"}
    BY <2>1 DEF S!SensorSize
  <2>3. want.w \in Positive /\ want.h \in Positive /\ want.fps \in Positive /\ want.shutter \in Nat
    BY <2>1 DEF Positive
  <2>4. want.gain \in Reduced /\ want.gain \in PositiveRat /\ want.gain[2] <= want.gain[1]
    <3>1. <<1, 1>> \in Reduced /\ <<8, 3>> \in Reduced
      <4>1. <<1, 1>> = Q(1, 1)
        BY IntIsQ DEF Int2Q
      <4>2. <<8, 3>> = Q(8, 3)
        <5>1. Gcd[<<8, 3>>] = Gcd[<<3, 2>>] /\ Gcd[<<3, 2>>] = Gcd[<<2, 1>>]
          <6>1. 8 % 3 = 2 /\ 3 % 2 = 1
            OBVIOUS
          <6>2. /\ Gcd[<<8, 3>>] = IF 3 = 0 THEN 8 ELSE Gcd[<<3, 8 % 3>>]
                /\ Gcd[<<3, 2>>] = IF 2 = 0 THEN 3 ELSE Gcd[<<2, 3 % 2>>]
            BY GcdDef
          <6> QED BY <6>1, <6>2
        <5>2. Gcd[<<2, 1>>] = 1
          <6>1. 2 % 1 = 0
            OBVIOUS
          <6>2. Gcd[<<2, 1>>] = Gcd[<<1, 2 % 1>>]
            BY GcdDef
          <6>3. Gcd[<<1, 0>>] = 1
            BY GcdOfZero
          <6> QED BY <6>1, <6>2, <6>3
        <5>3. Gcd[<<8, 3>>] = 1
          BY <5>1, <5>2
        <5> QED BY <5>3 DEF Q, Abs
      <4>3. 1 \in Positive /\ 3 \in Positive /\ 1 \in Int /\ 8 \in Int
        BY DEF Positive
      <4> QED BY <4>1, <4>2, <4>3, QIsReduced
    <3>2. <<1, 1>> \in PositiveRat /\ <<8, 3>> \in PositiveRat
      BY DEF PositiveRat, Rat, Positive
    <3> QED BY <2>1, <3>1, <3>2
  <2> QED BY <2>1, <2>2, <2>3, <2>4 DEF SensorWantOk
<1>2. /\ cam.controls \in {S!Flippable(k) : k \in {"works", "keeps", "absent", "adjusts"}}
      /\ cam.hblank \in {168, 400} /\ cam.rate \in {1824}
      /\ \/ cam.vblank = <<4, 30000>> /\ cam.exposure = <<1, 4>> /\ cam.gain = <<0, 232>>
         \/ cam.vblank = <<32, 500>> /\ cam.exposure = <<20, 20>> /\ cam.gain = <<16, 128>>
  BY DEF S!Sensors
<1>3. SensorOk(want.sensor, cam)
  <2>1. cam.hblank \in Nat /\ cam.rate \in Nat
    BY <1>2
  <2>2. CASE cam.vblank = <<4, 30000>> /\ cam.exposure = <<1, 4>> /\ cam.gain = <<0, 232>>
    BY <2>1, <2>2 DEF SensorOk
  <2>3. CASE cam.vblank = <<32, 500>> /\ cam.exposure = <<20, 20>> /\ cam.gain = <<16, 128>>
    BY <2>1, <2>3 DEF SensorOk
  <2> QED BY <1>2, <2>2, <2>3
<1> DEFINE D == {"HFLIP", "VFLIP"}
<1>4. "HFLIP" \in D /\ "VFLIP" \in D /\ BOOLEAN \subseteq ControlValues
  BY DEF ControlValues
<1>5. cam.controls \in Devices(D, ControlValues)
  <2>1. PICK k \in {"works", "keeps", "absent", "adjusts"} : cam.controls = S!Flippable(k)
    BY <1>2
  <2>2. k \in S!Kinds
    BY <2>1 DEF S!Kinds
  <2> QED BY <2>1, <2>2, ControlsAreDevices
<1> HIDE DEF D
<1> QED BY <1>1, <1>3, <1>4, <1>5, SensorIsSetUp

\* A mode that lies on its sensor and that the cells of the ISP cover.
Lies(m, size) ==
  /\ m.w \in Positive /\ m.h \in Positive /\ m.scale \in Positive /\ m.x \in Nat /\ m.y \in Nat
  /\ m.x + m.w * m.scale <= size[1] /\ m.y + m.h * m.scale <= size[2]
  /\ m.w <= 63 * 256 /\ m.h <= 48 * 256
  /\ size[1] \in Positive /\ size[2] \in Positive

LEMMA ModesLie == \A at \in S!SensorModes : Lies(at.mode, S!SensorSize[at.sensor])
<1>1. \A w, h, scale, x, y :
        LET m == S!Mode(w, h, scale, x, y) IN
          m.w = w /\ m.h = h /\ m.scale = scale /\ m.x = x /\ m.y = y
  BY DEF S!Mode
<1>2. /\ S!SensorSize["ov5647"] = <<2592, 1944>> /\ S!SensorSize["imx219"] = <<3280, 2464>>
      /\ S!SensorSize["imx708"] = <<4608, 2592>>
  BY DEF S!SensorSize
<1>3. ASSUME NEW i \in DOMAIN S!V1Modes PROVE Lies(S!V1Modes[i], <<2592, 1944>>)
  <2>1. i \in 1 .. 4
    BY DEF S!V1Modes
  <2>2. i = 1 \/ i = 2 \/ i = 3 \/ i = 4
    BY <2>1
  <2> QED BY <1>1, <2>2 DEF S!V1Modes, Lies, Positive
<1>4. ASSUME NEW i \in DOMAIN S!V2Modes PROVE Lies(S!V2Modes[i], <<3280, 2464>>)
  <2>1. i \in 1 .. 4
    BY DEF S!V2Modes
  <2>2. i = 1 \/ i = 2 \/ i = 3 \/ i = 4
    BY <2>1
  <2> QED BY <1>1, <2>2 DEF S!V2Modes, Lies, Positive
<1>5. ASSUME NEW i \in DOMAIN S!V3Modes PROVE Lies(S!V3Modes[i], <<4608, 2592>>)
  <2>1. i \in 1 .. 3
    BY DEF S!V3Modes
  <2>2. i = 1 \/ i = 2 \/ i = 3
    BY <2>1
  <2> QED BY <1>1, <2>2 DEF S!V3Modes, Lies, Positive
<1> SUFFICES ASSUME NEW at \in S!SensorModes PROVE Lies(at.mode, S!SensorSize[at.sensor])
  OBVIOUS
<1>6. \/ \E i \in DOMAIN S!V1Modes : at.sensor = "ov5647" /\ at.mode = S!V1Modes[i]
      \/ \E i \in DOMAIN S!V2Modes : at.sensor = "imx219" /\ at.mode = S!V2Modes[i]
      \/ \E i \in DOMAIN S!V3Modes : at.sensor = "imx708" /\ at.mode = S!V3Modes[i]
  BY DEF S!SensorModes
<1> QED BY <1>2, <1>3, <1>4, <1>5, <1>6

\* From one to less than two.
LEMMA VignetteGains == \A n \in Positive : Gains(n, S!Vignette(n))
<1> SUFFICES ASSUME NEW n \in Positive, NEW i \in 0 .. n - 1
             PROVE  \E a, b \in Positive : S!Vignette(n)[i] = Q(a, b) /\ Gain(a, b)
  BY DEF Gains
<1> DEFINE a == n + Abs(2 * i - n + 1)
<1>1. n \in Int /\ n > 0 /\ i \in Int /\ 0 <= i /\ i <= n - 1
  BY DEF Positive
<1>2. Abs(2 * i - n + 1) \in 0 .. n - 1
  BY <1>1 DEF Abs
<1>3. a \in Int /\ n <= a /\ a < 2 * n
  BY <1>1, <1>2
<1>4. S!Vignette(n)[i] = Q(a, n)
  BY SameArithmetic DEF S!Vignette
<1> HIDE DEF a
<1>5. Gain(a, n)
  BY <1>1, <1>3 DEF Gain, Positive
<1> QED BY <1>4, <1>5 DEF Gain

PrefixOf(part, s, k, R) ==
  /\ part \in Seq(R) /\ DOMAIN part = 1 .. k
  /\ \A i \in 1 .. k : part[i] = s[i]

LEMMA PrefixIs ==
  ASSUME NEW R, NEW s \in Seq(R), NEW k \in 0 .. Len(s)
  PROVE  PrefixOf(SubSeq(s, 1, k), s, k, R)
<1>1. SubSeq(s, 1, k) \in Seq(R)
  OBVIOUS
<1>2. DOMAIN SubSeq(s, 1, k) = 1 .. k
  OBVIOUS
<1>3. ASSUME NEW i \in 1 .. k PROVE SubSeq(s, 1, k)[i] = s[i]
  OBVIOUS
<1> QED BY <1>1, <1>2, <1>3 DEF PrefixOf

LEMMA CalibrationsRise == \A k \in {0, 1, 3} : Rising(SubSeq(S!Calibrations, 1, k))
<1> DEFINE c == S!Calibrations
           R == [ct : Nat, level : Nat]
<1>1. /\ Len(c) = 3 /\ c \in Seq(R)
      /\ c[1].ct = 3000 /\ c[2].ct = 4000 /\ c[3].ct = 6000
  BY DEF S!Calibrations
<1> HIDE DEF c, R
<1> SUFFICES ASSUME NEW k \in {0, 1, 3} PROVE Rising(SubSeq(c, 1, k))
  BY DEF c
<1> DEFINE part == SubSeq(c, 1, k)
<1>2. part \in Seq(R) /\ DOMAIN part = 1 .. k /\ \A i \in 1 .. k : part[i] = c[i]
  <2>1. k \in 0 .. Len(c)
    BY <1>1
  <2>2. PrefixOf(part, c, k, R)
    <3>1. c \in Seq(R)
      BY <1>1
    <3> HIDE DEF part
    <3>2. part = SubSeq(c, 1, k)
      BY DEF part
    <3> QED BY <2>1, <3>1, <3>2, PrefixIs, Zenon
  <2> QED BY <2>2 DEF PrefixOf
<1>3. ASSUME NEW i \in 1 .. k, NEW j \in 1 .. k, i < j PROVE part[i].ct < part[j].ct
  <2>1. (i = 1 /\ j = 2) \/ (i = 1 /\ j = 3) \/ (i = 2 /\ j = 3)
    BY <1>3
  <2> QED BY <1>1, <1>2, <2>1
<1> QED BY <1>2, <1>3 DEF Rising, R

LEMMA ShadesAreOk ==
  ASSUME NEW in, in.at \in S!SensorModes, in.ct \in Nat, in.known \in {0, 1, 3}
  PROVE  S!ShadingHolds(in, S!Shade(in))
<1> DEFINE m == in.at.mode
           size == S!SensorSize[in.at.sensor]
           w == S!LsTableW
           h == S!LsTableH
           cals == SubSeq(S!Calibrations, 1, in.known)
           grid == S!ApplyLsTables(m.w, m.h)
           out == S!Shade(in)
<1>1. w \in Positive /\ h \in Positive
  BY DEF S!LsTableW, S!LsTableH, Positive
<1>2. /\ out.level = S!GetCalTable(in.ct, cals)
      /\ out.columns = S!ResampleCalTable(S!Ramp(w), w, size[1], m.w, m.scale, m.x)
      /\ out.rows = S!ResampleCalTable(S!Ramp(h), h, size[2], m.h, m.scale, m.y)
      /\ out.grid = grid
      /\ out.points = S!PopulateLsTable(S!Vignette(w), w, grid.w)
  BY DEF S!Shade
<1>3. Lies(m, size)
  BY ModesLie
<1>4. Rising(cals)
  BY CalibrationsRise
<1> HIDE DEF m, size, w, h, cals, grid, out
<1>5. S!CalTableBetween(in.ct, cals, out.level)
  BY <1>2, <1>4, CalTableIsBetween
<1>6. S!AxisShaded(w, size[1], m.w, m.scale, m.x, out.columns)
  BY <1>1, <1>2, <1>3, AxisIsResampled DEF Lies
<1>7. S!AxisShaded(h, size[2], m.h, m.scale, m.y, out.rows)
  BY <1>1, <1>2, <1>3, AxisIsResampled DEF Lies
<1>8. S!GridFits(m, grid) /\ grid.w \in Nat /\ grid.w >= 2
  BY <1>3, GridIs DEF Lies, grid
<1>9. S!PointsHold(S!Vignette(w), w, grid.w, out.points)
  <2> DEFINE table == S!Vignette(w)
             count == grid.w
  <2>1. Gains(w, table) /\ count \in Nat /\ count >= 2
    BY <1>1, <1>8, VignetteGains
  <2>2. out.points = S!PopulateLsTable(table, w, count)
    BY <1>2
  <2> HIDE DEF table, count
  <2>3. S!PointsHold(table, w, count, out.points)
    BY <1>1, <2>1, <2>2, PointsHoldTheGains
  <2> QED BY <2>3 DEF table, count
<1> QED BY <1>2, <1>5, <1>6, <1>7, <1>8, <1>9 DEF S!ShadingHolds, m, size, w, h, cals, out

\* What the constructors order of a device is what SetUpHolds says: a control that is set or
\* reset keeps the others and reads back, the sensor and the nodes of the ISP agree on the
\* frame, its exposure and its gain, and the lens is shaded as it is calibrated
\* (V4LCameraCapture.set_*, UnicamIspCapture.__setup_pipeline, __populate_ls_table).
THEOREM SetUpIsRight == AnySpec => []SetUpHolds
<1>1. ComputeInv => SetUpHolds
  <2>1. ASSUME ComputeInv, Done("controls")
        PROVE  S!ControlsHold(input.order[1], input.device, input.order[2], output[1])
    <3>1. kind = "controls" /\ kind \notin Tasks /\ output # << >>
      BY <2>1 DEF Done, Tasks
    <3>2. /\ input \in [device : S!Devices, order : S!Orders]
          /\ output = <<S!Output(kind, input)>>
      BY <2>1, <3>1 DEF ComputeInv, S!Inputs
    <3>3. output[1] = S!Ordered(input.device, input.order)
      BY <3>1, <3>2 DEF S!Output
    <3>4. input.device \in S!Devices /\ input.order \in S!Orders
      BY <3>2
    <3> QED BY <3>3, <3>4, OrdersAreKept
  <2>2. ASSUME ComputeInv, Done("sensor")
        PROVE  S!SensorSetUp(input.want, input.camera, output[1])
    <3>1. kind = "sensor" /\ kind \notin Tasks /\ output # << >>
      BY <2>2 DEF Done, Tasks
    <3>2. /\ input \in [want : S!SensorWants, camera : S!Sensors]
          /\ output = <<S!Output(kind, input)>>
      BY <2>2, <3>1 DEF ComputeInv, S!Inputs
    <3>3. output[1] = S!SetupPipeline(input.want, input.camera)
      BY <3>1, <3>2 DEF S!Output
    <3>4. input.want \in S!SensorWants /\ input.camera \in S!Sensors
      BY <3>2
    <3> QED BY <3>3, <3>4, SensorsAreOk
  <2>3. ASSUME ComputeInv, Done("shading")
        PROVE  S!ShadingHolds(input, output[1])
    <3>1. kind = "shading" /\ kind \notin Tasks /\ output # << >>
      BY <2>3 DEF Done, Tasks
    <3>2. /\ input \in [at : S!SensorModes, ct : {2500, 3000, 3700, 6000, 7000},
                        known : {0, 1, 3}]
          /\ output = <<S!Output(kind, input)>>
      BY <2>3, <3>1 DEF ComputeInv, S!Inputs
    <3>3. output[1] = S!Shade(input)
      BY <3>1, <3>2 DEF S!Output
    <3>4. input.at \in S!SensorModes /\ input.ct \in Nat /\ input.known \in {0, 1, 3}
      BY <3>2
    <3> QED BY <3>3, <3>4, ShadesAreOk
  <2> QED BY <2>1, <2>2, <2>3 DEF SetUpHolds
<1> QED BY <1>1, ComputeInvHolds, PTL

-----------------------------------------------------------------------------
(* Contrast *)

\* ContrastCurve as MCSetup uses it computes what RationalProofs says of it.
LEMMA SameCurveArithmetic ==
  /\ \A n, d : S!C!Q(n, d) = Q(n, d)
  /\ \A n : S!C!Int2Q(n) = Int2Q(n)
  /\ \A p, q : S!C!Mul(p, q) = Mul(p, q) /\ S!C!Over(p, q) = Over(p, q)
  /\ \A p, q : S!C!Add(p, q) = Add(p, q) /\ S!C!Sub(p, q) = Sub(p, q)
  /\ \A p, q : S!C!Less(p, q) = Less(p, q) /\ S!C!AtMost(p, q) = AtMost(p, q)
  /\ \A p, q : S!C!MinQ(p, q) = MinQ(p, q) /\ S!C!MaxQ(p, q) = MaxQ(p, q)
  /\ \A p : S!C!Floor(p) = Floor(p)
<1>1. S!C!Gcd = Gcd
  BY DEF S!C!Gcd, Gcd
<1>2. \A n : S!C!Abs(n) = Abs(n) /\ S!C!Int2Q(n) = Int2Q(n)
  BY DEF S!C!Abs, Abs, S!C!Int2Q, Int2Q
<1>3. \A n, d : S!C!Q(n, d) = Q(n, d)
  BY <1>1, <1>2, Zenon DEF S!C!Q, Q
<1>4. \A p, q : S!C!Mul(p, q) = Mul(p, q) /\ S!C!Over(p, q) = Over(p, q)
  BY <1>3, Zenon DEF S!C!Mul, S!C!Over, Mul, Over
<1>5. \A p, q : S!C!Add(p, q) = Add(p, q) /\ S!C!Sub(p, q) = Sub(p, q)
  BY <1>3, Zenon DEF S!C!Add, S!C!Sub, Add, Sub
<1>6. \A p, q : S!C!Less(p, q) = Less(p, q) /\ S!C!AtMost(p, q) = AtMost(p, q)
  BY Zenon DEF S!C!Less, S!C!AtMost, Less, AtMost
<1>7. \A p, q : S!C!MinQ(p, q) = MinQ(p, q) /\ S!C!MaxQ(p, q) = MaxQ(p, q)
  BY <1>6, Zenon DEF S!C!MinQ, S!C!MaxQ, MinQ, MaxQ
<1>8. \A p : S!C!Floor(p) = Floor(p)
  BY Zenon DEF S!C!Floor, Floor
<1> QED BY <1>2, <1>3, <1>4, <1>5, <1>6, <1>7, <1>8

LEMMA SameCurve ==
  /\ \A c, x : S!C!FindSpan(c, x) = FindSpan(c, x)
  /\ \A c, x : S!C!EvalGammaCurve(c, x) = EvalGammaCurve(c, x)
  /\ \A c : S!C!Increasing(c) = Increasing(c)
<1>1. \A c, x : S!C!FindSpan(c, x) = FindSpan(c, x)
  BY Zenon DEF S!C!FindSpan, FindSpan, S!C!Less, Less, S!C!AtMost, AtMost
<1>2. \A c, x : S!C!EvalGammaCurve(c, x) = EvalGammaCurve(c, x)
  BY <1>1, SameCurveArithmetic, Zenon DEF S!C!EvalGammaCurve, EvalGammaCurve
<1>3. \A c : S!C!Increasing(c) = Increasing(c)
  BY Zenon DEF S!C!Increasing, Increasing, S!C!Less, Less, S!C!AtMost, AtMost
<1> QED BY <1>1, <1>2, <1>3

LEMMA SameComposition ==
  \A one, other : S!C!ComposeGammaCurve(one, other) = ComposeGammaCurve(one, other)
<1>1. \A one, other, span, at : S!C!Reached(one, other, span, at) = Reached(one, other, span, at)
  BY SameCurveArithmetic, Zenon DEF S!C!Reached, Reached
<1>2. \A one, other, span, at : S!C!Up(one, other, span, at) = Up(one, other, span, at)
  BY Zenon DEF S!C!Up, Up, S!C!AtMost, AtMost
<1>3. \A one, other, span, at : S!C!Down(one, other, span, at) = Down(one, other, span, at)
  <2>1. \A p, q : S!C!AtMost(p, q) <=> AtMost(p, q)
    BY DEF S!C!AtMost, AtMost
  <2>2. \A one, other, span, at : S!C!Up(one, other, span, at) <=> Up(one, other, span, at)
    BY <1>2
  <2> QED BY <2>1, <2>2 DEF S!C!Down, Down
<1>4. \A r, other, x, y : S!C!Longer(r, other, x, y) = Longer(r, other, x, y)
  BY SameCurve, Zenon DEF S!C!Longer, Longer, S!C!Less, Less
<1>5. \A one, other : S!C!ComposeStates(one, other) = ComposeStates(one, other)
  BY Zenon DEF S!C!ComposeStates, ComposeStates, S!C!Point, Point
<1>6. \A one, other, s : S!C!ComposeStep(one, other, s) = ComposeStep(one, other, s)
  BY <1>1, <1>2, <1>3, <1>4, SMT DEF S!C!ComposeStep, ComposeStep
<1>7. \A one, other : S!C!ComposeFrom(one, other) = ComposeFrom(one, other)
  <2> SUFFICES ASSUME NEW one, NEW other PROVE S!C!ComposeFrom(one, other) = ComposeFrom(one, other)
    OBVIOUS
  <2> DEFINE X == ComposeStates(one, other)
             There(g, s) == IF s.span = Len(one) THEN s.result
                            ELSE IF S!C!Down(one, other, s.span, s.at) /\ s.at = Len(other) THEN << >>
                            ELSE g[S!C!ComposeStep(one, other, s)]
             Here(g, s) == IF s.span = Len(one) THEN s.result
                           ELSE IF Down(one, other, s.span, s.at) /\ s.at = Len(other) THEN << >>
                           ELSE g[ComposeStep(one, other, s)]
  <2>1. S!C!ComposeFrom(one, other) = CHOOSE g : g = [s \in X |-> There(g, s)]
    BY <1>5, Zenon DEF S!C!ComposeFrom
  <2>2. ComposeFrom(one, other) = CHOOSE g : g = [s \in X |-> Here(g, s)]
    BY Zenon DEF ComposeFrom
  <2>3. \A g, s : There(g, s) = Here(g, s)
    BY <1>3, <1>6
  <2> HIDE DEF X, There, Here
  <2>4. \A g : [s \in X |-> There(g, s)] = [s \in X |-> Here(g, s)]
    BY <2>3
  <2>5. \A g : (g = [s \in X |-> There(g, s)]) <=> (g = [s \in X |-> Here(g, s)])
    BY <2>4
  <2>6. (CHOOSE g : g = [s \in X |-> There(g, s)]) = (CHOOSE g : g = [s \in X |-> Here(g, s)])
    BY <2>5
  <2> QED BY <2>1, <2>2, <2>6
<1> QED BY <1>7, SameCurve, Zenon DEF S!C!ComposeGammaCurve, ComposeGammaCurve

LEMMA SameStretch ==
  /\ \A h : S!C!HistogramCumulative(h) = HistogramCumulative(h)
  /\ \A c, q : S!C!CumulativeQuantile(c, q) = CumulativeQuantile(c, q)
  /\ \A h, cfg : S!C!ComputeStretchCurve(h, cfg) = ComputeStretchCurve(h, cfg)
<1>1. \A h : S!C!HistogramCumulative(h) = HistogramCumulative(h)
  BY Zenon DEF S!C!HistogramCumulative, HistogramCumulative
<1>2. \A c, items : S!C!Bisect(c, items) = Bisect(c, items)
  BY Zenon DEF S!C!Bisect, Bisect
<1>3. \A c, q : S!C!CumulativeQuantile(c, q) = CumulativeQuantile(c, q)
  BY <1>2, SameCurveArithmetic, SMT DEF S!C!CumulativeQuantile, CumulativeQuantile
<1>4. \A c, x, y : S!C!Extended(c, x, y) = Extended(c, x, y)
  BY Zenon DEF S!C!Extended, Extended, S!C!Less, Less
<1>5. \A h, cfg : S!C!ComputeStretchCurve(h, cfg) = ComputeStretchCurve(h, cfg)
  BY <1>1, <1>3, <1>4, SameCurveArithmetic, SMT DEF S!C!ComputeStretchCurve, ComputeStretchCurve
<1> QED BY <1>1, <1>3, <1>5

LEMMA SameContrast ==
  /\ \A h, g, cfg, contrast, brightness, xs :
       S!C!ContrastControl(h, g, cfg, contrast, brightness, xs) =
         ContrastControl(h, g, cfg, contrast, brightness, xs)
  /\ \A h, g, cfg, levels : S!C!CurvesRight(h, g, cfg, levels) = CurvesRight(h, g, cfg, levels)
<1>1. \A c, contrast, brightness, top :
        S!C!Adjusted(c, contrast, brightness, top) = Adjusted(c, contrast, brightness, top)
  BY SameCurveArithmetic, ZenonT(40) DEF S!C!Adjusted, Adjusted
<1>2. \A c, xs, top : S!C!FillInContrastStatus(c, xs, top) = FillInContrastStatus(c, xs, top)
  BY SameCurve, SameCurveArithmetic, Zenon DEF S!C!FillInContrastStatus, FillInContrastStatus
<1>3. \A h, bins : S!C!Pixels(h, bins) = Pixels(h, bins)
  BY Zenon DEF S!C!Pixels, Pixels
<1>4. \A h, items : S!C!QuantileBin(h, items) = QuantileBin(h, items)
  BY Zenon DEF S!C!QuantileBin, QuantileBin, S!C!Pixels, Pixels, S!C!Cardinality, Cardinality
<1>5. \A h, g, cfg, contrast, brightness, xs :
       S!C!ContrastControl(h, g, cfg, contrast, brightness, xs) =
         ContrastControl(h, g, cfg, contrast, brightness, xs)
  BY <1>1, <1>2, SameStretch, SameComposition, SameCurveArithmetic, SMT
     DEF S!C!ContrastControl, ContrastControl
<1>6. \A set : S!C!Cardinality(set) = Cardinality(set)
  BY Zenon DEF S!C!Cardinality, Cardinality
<1>7. \A h, g, cfg, levels : S!C!CurvesRight(h, g, cfg, levels) = CurvesRight(h, g, cfg, levels)
  BY <1>3, <1>4, <1>6, SameCurve, SameStretch, SameComposition, SameCurveArithmetic, SMT
     DEF S!C!CurvesRight, CurvesRight
<1> QED BY <1>5, <1>7

LEMMA ThreeHalves == <<3, 2>> \in Reduced /\ AtMost(Zero, <<3, 2>>)
<1>1. 3 % 2 = 1 /\ 2 % 1 = 0
  OBVIOUS
<1>2. Gcd[<<3, 2>>] = 1
  <2>1. Gcd[<<3, 2>>] = Gcd[<<2, 3 % 2>>]
    BY GcdDef
  <2>2. Gcd[<<2, 1>>] = Gcd[<<1, 2 % 1>>]
    BY GcdDef
  <2>3. Gcd[<<1, 0>>] = 1
    BY GcdOfZero
  <2> QED BY <1>1, <2>1, <2>2, <2>3
<1>3. Abs(3) = 3 /\ Abs(2) = 2
  BY DEF Abs
<1>4. Q(3, 2) = <<3, 2>>
  <2>1. Q(3, 2) = <<(1 * 3) \div 1, (1 * 2) \div 1>>
    BY <1>2, <1>3 DEF Q
  <2> QED BY <2>1
<1> QED BY <1>4 DEF Reduced, Rat, Positive, AtMost, Zero, Int2Q

LEMMA WholeIsReduced == \A n \in Int : <<n, 1>> \in Reduced
BY IntReduced DEF Int2Q

\* The inputs of the runs are histograms, sensors and configurations.
LEMMA StretchesAreContrasts == \A cfg \in S!Stretches : Contrast(cfg)
<1> DEFINE cr1 == [lo_level |-> <<1, 16>>, lo_max |-> <<2, 1>>, hi_level |-> <<15, 16>>, hi_max |-> <<4, 1>>]
           cr2 == [lo_level |-> <<1, 16>>, lo_max |-> <<2, 1>>, hi_level |-> <<15, 16>>,
                   hi_max |-> <<4, 1>>, hi_histogram |-> <<3, 4>>]
           cr3 == [ce_enable |-> FALSE]
<1>1. S!Stretches = {S!C!Configured(cr1, 16), S!C!Configured(cr2, 16), S!C!Configured(cr3, 16)}
  BY DEF S!Stretches, S!Top
<1>2. /\ Part(<<1, 100>>) /\ Part(<<95, 100>>) /\ Part(<<3, 4>>) /\ Part(<<1, 16>>) /\ Part(<<15, 16>>)
      /\ Part(<<1, 64>>) /\ Part(<<19, 20>>)
  BY DEF Part, Rat, Positive
<1>3. <<2, 1>> \in Reduced /\ <<4, 1>> \in Reduced /\ Int2Q(0) \in Reduced /\ Q(16, 128) \in Reduced
  <2>1. 16 \in Int /\ 128 \in Positive
    BY DEF Positive
  <2> QED BY <2>1, WholeIsReduced, QIsReduced DEF Int2Q
<1>4. S!C!Q(16, 128) = Q(16, 128) /\ S!C!Int2Q(0) = Int2Q(0)
  BY SameCurveArithmetic
<1>5. 16 \in Nat \ {0}
  OBVIOUS
<1>6. Contrast(S!C!Configured(cr1, 16))
  <2> DEFINE c == S!C!Configured(cr1, 16)
  <2>1. /\ c.top = 16 /\ c.loHist = <<1, 100>> /\ c.hiHist = <<95, 100>> /\ c.loLevel = <<1, 16>>
        /\ c.hiLevel = <<15, 16>> /\ c.loMax = <<2, 1>> /\ c.hiMax = <<4, 1>>
    BY DEF S!C!Configured
  <2> HIDE DEF c
  <2>2. Contrast(c)
    BY <1>2, <1>3, <1>5, <2>1 DEF Contrast
  <2> QED BY <2>2 DEF c
<1>7. Contrast(S!C!Configured(cr2, 16))
  <2> DEFINE c == S!C!Configured(cr2, 16)
  <2>1. /\ c.top = 16 /\ c.loHist = <<3, 4>> /\ c.hiHist = <<3, 4>> /\ c.loLevel = <<1, 16>>
        /\ c.hiLevel = <<15, 16>> /\ c.loMax = <<2, 1>> /\ c.hiMax = <<4, 1>>
    BY DEF S!C!Configured
  <2> HIDE DEF c
  <2>2. Contrast(c)
    BY <1>2, <1>3, <1>5, <2>1 DEF Contrast
  <2> QED BY <2>2 DEF c
<1>8. Contrast(S!C!Configured(cr3, 16))
  <2> DEFINE c == S!C!Configured(cr3, 16)
  <2>1. /\ c.top = 16 /\ c.loHist = <<1, 100>> /\ c.hiHist = <<95, 100>> /\ c.loLevel = <<1, 64>>
        /\ c.hiLevel = <<19, 20>> /\ c.loMax = S!C!Q(16, 128) /\ c.hiMax = S!C!Int2Q(0)
    BY DEF S!C!Configured
  <2> HIDE DEF c
  <2>2. Contrast(c)
    BY <1>2, <1>3, <1>4, <1>5, <2>1 DEF Contrast
  <2> QED BY <2>2 DEF c
<1> QED BY <1>1, <1>6, <1>7, <1>8

LEMMA GammasAreSensors == \A g \in S!Gammas : Sensor(g)
<1> DEFINE P(x, y) == <<<<x, 1>>, <<y, 1>>>>
           g1 == <<P(0, 0), P(4, 9), P(16, 16)>>
           g2 == <<P(0, 0), P(2, 5), P(8, 12), P(16, 16)>>
<1>1. S!Gammas = {g1, g2}
  BY DEF S!Gammas
<1>2. ASSUME NEW x \in Int, NEW y \in Int PROVE P(x, y) \in Points
  BY WholeIsReduced DEF Points
<1>3. Sensor(g1)
  <2>1. P(0, 0) \in Points /\ P(4, 9) \in Points /\ P(16, 16) \in Points
    BY <1>2
  <2>2. g1 \in Seq(Points) /\ Len(g1) = 3 /\ g1[1] = P(0, 0) /\ g1[2] = P(4, 9) /\ g1[3] = P(16, 16)
    <3> HIDE DEF P
    <3> QED BY <2>1
  <2> HIDE DEF g1
  <2>3. Increasing(g1)
    <3>1. 1 .. Len(g1) - 1 = {1, 2} /\ 1 + 1 = 2 /\ 2 + 1 = 3
      BY <2>2
    <3>2. Less(g1[1][1], g1[2][1]) /\ AtMost(g1[1][2], g1[2][2]) /\ Less(g1[2][1], g1[3][1]) /\ AtMost(g1[2][2], g1[3][2])
      BY <2>2 DEF Less, AtMost
    <3> QED BY <3>1, <3>2 DEF Increasing
  <2>4. AtMost(g1[1][1], Zero) /\ AtMost(Zero, g1[Len(g1)][1])
    BY <2>2 DEF AtMost, Zero, Int2Q
  <2> QED BY <2>2, <2>3, <2>4 DEF Sensor, Curve
<1>4. Sensor(g2)
  <2>1. P(0, 0) \in Points /\ P(2, 5) \in Points /\ P(8, 12) \in Points /\ P(16, 16) \in Points
    BY <1>2
  <2>2. g2 \in Seq(Points) /\ Len(g2) = 4 /\ g2[1] = P(0, 0) /\ g2[2] = P(2, 5) /\ g2[3] = P(8, 12) /\ g2[4] = P(16, 16)
    <3> HIDE DEF P
    <3> QED BY <2>1
  <2> HIDE DEF g2
  <2>3. Increasing(g2)
    <3>1. 1 .. Len(g2) - 1 = {1, 2, 3} /\ 1 + 1 = 2 /\ 2 + 1 = 3 /\ 3 + 1 = 4
      BY <2>2
    <3>2. /\ Less(g2[1][1], g2[2][1]) /\ AtMost(g2[1][2], g2[2][2])
          /\ Less(g2[2][1], g2[3][1]) /\ AtMost(g2[2][2], g2[3][2])
          /\ Less(g2[3][1], g2[4][1]) /\ AtMost(g2[3][2], g2[4][2])
      BY <2>2 DEF Less, AtMost
    <3> QED BY <3>1, <3>2 DEF Increasing
  <2>4. AtMost(g2[1][1], Zero) /\ AtMost(Zero, g2[Len(g2)][1])
    BY <2>2 DEF AtMost, Zero, Int2Q
  <2> QED BY <2>2, <2>3, <2>4 DEF Sensor, Curve
<1> QED BY <1>1, <1>3, <1>4

LEMMA StepsGrow == Growing(S!Steps)
<1>1. S!Steps = <<0, 1, 2, 4, 8, 12>>
  BY DEF S!Steps
<1> QED BY <1>1 DEF Growing

LEMMA HistogramOfFour == \A h \in [1 .. 4 -> 0 .. 2] : Histogram(h)
<1> SUFFICES ASSUME NEW h \in [1 .. 4 -> 0 .. 2] PROVE Histogram(h)
  OBVIOUS
<1>1. h \in Seq(Nat)
  <2>1. h = [i \in 1 .. 4 |-> h[i]] /\ \A i \in 1 .. 4 : h[i] \in Nat
    OBVIOUS
  <2>2. [i \in 1 .. 4 |-> h[i]] \in Seq(Nat)
    BY <2>1
  <2> QED BY <2>1, <2>2
<1>2. Len(h) = 4
  OBVIOUS
<1> QED BY <1>1, <1>2 DEF Histogram

\* The contrast of every run: a quantile lies in its bin, the curves that stretch and compose
\* rise, the composed curve is at every level the composition of the two, and the ISP is given
\* levels that rise up to the greatest (UnicamIspCapture.__contrast_control).
THEOREM ContrastIsRight == AnySpec => []ContrastRight
<1>1. ComputeInv => ContrastRight
  <2>1. ASSUME ComputeInv, Done("contrast")
        PROVE  S!C!CurvesRight(input.histogram, input.gamma, input.cfg, output[1])
    <3>1. kind = "contrast" /\ kind \notin Tasks /\ output # << >>
      BY <2>1 DEF Done, Tasks
    <3>2. /\ input \in [histogram : [1 .. 4 -> 0 .. 2] \ {<<0, 0, 0, 0>>}, gamma : S!Gammas,
                        cfg : S!Stretches, contrast : {<<1, 1>>, <<3, 2>>},
                        brightness : {<<-2, 1>>, <<0, 1>>}]
          /\ output = <<S!Output(kind, input)>>
      BY <2>1, <3>1 DEF ComputeInv, S!Inputs
    <3>3. output[1] = S!C!ContrastControl(input.histogram, input.gamma, input.cfg, input.contrast,
                                          input.brightness, S!Steps)
      BY <3>1, <3>2 DEF S!Output
    <3>4. /\ input.histogram \in [1 .. 4 -> 0 .. 2] /\ input.gamma \in S!Gammas /\ input.cfg \in S!Stretches
          /\ input.contrast \in {<<1, 1>>, <<3, 2>>} /\ input.brightness \in {<<-2, 1>>, <<0, 1>>}
      BY <3>2
    <3> DEFINE h == input.histogram
               g == input.gamma
               cfg == input.cfg
               c == input.contrast
               b == input.brightness
    <3>5. Histogram(h) /\ Sensor(g) /\ Contrast(cfg) /\ Growing(S!Steps)
      BY <3>4, HistogramOfFour, GammasAreSensors, StretchesAreContrasts, StepsGrow
    <3>6. c \in Reduced /\ AtMost(Zero, c) /\ b \in Reduced
      <4>1. <<1, 1>> \in Reduced /\ <<-2, 1>> \in Reduced /\ <<0, 1>> \in Reduced
        BY WholeIsReduced
      <4>2. AtMost(Zero, <<1, 1>>)
        BY DEF AtMost, Zero, Int2Q
      <4> QED BY <3>4, <4>1, <4>2, ThreeHalves
    <3> HIDE DEF h, g, cfg, c, b
    <3>7. CurvesRight(h, g, cfg, ContrastControl(h, g, cfg, c, b, S!Steps))
      BY <3>5, <3>6, CurvesAreRight
    <3>8. S!C!ContrastControl(h, g, cfg, c, b, S!Steps) = ContrastControl(h, g, cfg, c, b, S!Steps)
      BY SameContrast
    <3>9. S!C!CurvesRight(h, g, cfg, ContrastControl(h, g, cfg, c, b, S!Steps))
      BY <3>7, SameContrast
    <3> QED BY <3>3, <3>8, <3>9 DEF h, g, cfg, c, b
  <2> QED BY <2>1 DEF ContrastRight
<1> QED BY <1>1, ComputeInvHolds, PTL
=============================================================================
