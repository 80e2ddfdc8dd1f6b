--------------------------- MODULE UnicamCapture ---------------------------
(***************************************************************************)
(* UnicamIspCapture of actfw_core (unicam_isp_capture.py) and the class    *)
(* RawVideo it is built on (v4l2/video.py).  Unicam, the receiver of the   *)
(* sensor, fills DMA buffers; run() hands each to the input of the ISP and *)
(* back; the ISP fills the buffers that frames are read from and others    *)
(* with its statistics.  One thread serves all the devices: it selects,    *)
(* and calls a handler for each that is reported.                          *)
(*                                                                         *)
(* The devices are modelled from how the code uses them.  What a handler   *)
(* does with the statistics is ExposureControl's and ContrastCurve's.      *)
(*                                                                         *)
(* A definition that stands before another one and is named after it and a *)
(* slip is a mistake the code could contain.  It is no part of the         *)
(* specification.                                                          *)
(***************************************************************************)
EXTENDS CaptureState

CONSTANTS
  Raw,        \* the DMA buffers
  MaxStats    \* the buffers of each metadata device

VARIABLES
  rawPlace,   \* where each DMA buffer is
  rawPicture, \* the picture in it
  stats,      \* the buffers of metadata that are ready, by device
  todo        \* the devices select has reported and run() has not handled yet

raws == <<rawPlace, rawPicture>>
vars == <<shared, raws, stats, todo>>

\* In the order in which run() handles them.
Device == <<"unicam", "isp_out_high", "isp_out_metadata", "unicam_meta", "isp_in">>

\* The statistics of the ISP and the embedded data of the sensor.
Metadata == {"isp_out_metadata", "unicam_meta"}

RawPlaces == {"program", "unicam_waiting", "unicam_ready", "isp_waiting", "isp_ready"}

UnicamTypeOK ==
  /\ TypeOK
  /\ rawPlace \in [Raw -> RawPlaces]
  /\ rawPicture \in [Raw -> Nat]
  /\ stats \in [Metadata -> 0 .. MaxStats]
  /\ todo \subseteq {Device[i] : i \in DOMAIN Device}

UnicamInit ==
  /\ Init
  /\ rawPlace = [r \in Raw |-> "program"]
  /\ rawPicture = [r \in Raw |-> 0]
  /\ stats = [m \in Metadata |-> 0]
  /\ todo = {}

RawIn(where) == {r \in Raw : rawPlace[r] = where}

IsOldestRaw(r, R) == r \in R /\ \A s \in R : rawPicture[r] <= rawPicture[s]

-----------------------------------------------------------------------------
(* The devices *)

\* Metadata that finds no free buffer is lost.
Emit(m) == stats' = [stats EXCEPT ![m] = IF @ < MaxStats THEN @ + 1 ELSE @]

\* Unicam receives a picture, and embedded data if the autofocus wants it.
ExposeRaw ==
  /\ streaming
  /\ clock < MaxPicture
  /\ clock' = clock + 1
  /\ \/ /\ RawIn("unicam_waiting") = {}
        /\ UNCHANGED raws
     \/ \E r \in RawIn("unicam_waiting") :
          /\ rawPlace' = [rawPlace EXCEPT ![r] = "unicam_ready"]
          /\ rawPicture' = [rawPicture EXCEPT ![r] = clock']
  /\ Emit("unicam_meta") \/ UNCHANGED stats
  /\ UNCHANGED <<pc, program, place, picture, taken, last, todo>>

\* The ISP turns a picture into a frame and statistics, as far as there are buffers.
IspProcess ==
  /\ streaming
  /\ \E r \in RawIn("isp_waiting") :
       /\ IsOldestRaw(r, RawIn("isp_waiting"))
       /\ rawPlace' = [rawPlace EXCEPT ![r] = "isp_ready"]
       /\ \/ /\ In("waiting") = {}
             /\ UNCHANGED <<place, picture>>
          \/ \E b \in In("waiting") :
               /\ place' = [place EXCEPT ![b] = "ready"]
               /\ picture' = [picture EXCEPT ![b] = rawPicture[r]]
  /\ Emit("isp_out_metadata")
  /\ UNCHANGED <<pc, program, clock, taken, last, rawPicture, todo>>

\* What select has to report.  It may report the input of the ISP, which could take
\* a buffer, also when it has none to give back.
HasReady(device) ==
  \/ device = "unicam" /\ RawIn("unicam_ready") # {}
  \/ device = "isp_out_high" /\ In("ready") # {}
  \/ device \in Metadata /\ stats[device] > 0
  \/ device = "isp_in" /\ RawIn("isp_ready") # {}

Reported == {Device[i] : i \in {j \in DOMAIN Device : HasReady(Device[j])}}

-----------------------------------------------------------------------------
(* The constructor *)

\* RawVideo opens each device, and nothing closes those that are open when a later
\* step raises.
OpenDevices ==
  /\ \/ Goto("new", "setup") /\ opened' = TRUE
     \/ Goto("new", "raised") /\ opened' \in BOOLEAN
  /\ UNCHANGED <<running, raising, tries, streaming, camera, taken, last, raws, stats, todo>>

SetupPipeline ==
  /\ Goto("setup", "request") \/ Goto("setup", "raised")
  /\ UNCHANGED <<program, camera, taken, last, raws, stats, todo>>

\* REQBUFS of every device, and EXPBUF of the buffers unicam and the ISP share.
RequestBuffer ==
  /\ Goto("request", "enqueue") \/ Goto("request", "raised")
  /\ UNCHANGED <<program, camera, taken, last, raws, stats, todo>>

-----------------------------------------------------------------------------
(* run *)

\* The buffers go to unicam, to the output of the ISP and to its statistics; the
\* input of the ISP gets none.
QueueAllBuffers ==
  /\ \/ /\ Goto("enqueue", "start")
        /\ Move(Buffer, "waiting")
        /\ rawPlace' = [r \in Raw |-> "unicam_waiting"]
     \/ /\ Goto("enqueue", "raised")
        /\ UNCHANGED <<place, rawPlace>>
  /\ UNCHANGED <<program, picture, clock, taken, last, rawPicture, stats, todo>>

StartStreaming ==
  /\ \/ Goto("start", "check") /\ streaming' = TRUE
     \/ Goto("start", "raised") /\ streaming' \in BOOLEAN
  /\ UNCHANGED <<running, raising, tries, opened, camera, taken, last, raws, stats, todo>>

\* `while self._is_running()'.  Nothing stops the streams at the end of run().
CheckRunning ==
  /\ Goto("check", IF running THEN "select" ELSE "returned")
  /\ UNCHANGED <<program, camera, taken, last, raws, stats, todo>>

Select ==
  /\ Goto("select", "handle")
  /\ todo' \in {Reported, Reported \cup {"isp_in"}}
  /\ todo' # {}
  /\ UNCHANGED <<program, camera, taken, last, raws, stats>>

\* `Capture timeout' when nothing is reported for a second.
SelectTimeout ==
  /\ Goto("select", "raised")
  /\ Reported = {}
  /\ raising' = TRUE
  /\ UNCHANGED <<running, process, camera, taken, last, raws, stats, todo>>

\* The device whose handler run() calls now.
Turn(device) ==
  /\ pc = "handle"
  /\ device \in todo
  /\ \E i \in DOMAIN Device :
       Device[i] = device /\ \A j \in 1 .. i - 1 : Device[j] \notin todo

Handled(device) == todo' = todo \ {device}

\* DQBUF from one device and QBUF to the other; each may raise.  DQBUF gives None
\* when there is nothing.
Pass(device, from, to) ==
  /\ Turn(device)
  /\ \/ /\ RawIn(from) = {}
        /\ Handled(device)
        /\ UNCHANGED <<pc, raising, rawPlace>>
     \/ \E r \in RawIn(from) :
          /\ IsOldestRaw(r, RawIn(from))
          /\ \/ /\ rawPlace' = [rawPlace EXCEPT ![r] = to]
                /\ Handled(device)
                /\ UNCHANGED <<pc, raising>>
             \/ /\ rawPlace' = [rawPlace EXCEPT ![r] = "program"]
                /\ pc' = "raised"
                /\ raising' = TRUE
                /\ todo' = {}
  /\ UNCHANGED <<running, process, camera, taken, last, rawPicture, stats>>

\* The slip: an early return forgets to queue the buffer.
Isp2UnicamDrops == Pass("isp_in", "isp_ready", "program")

Unicam2Isp == Pass("unicam", "unicam_ready", "isp_waiting")
Isp2Unicam == Pass("isp_in", "isp_ready", "unicam_waiting")

\* __produce_image_from_isp: DQBUF ...
DequeueImage ==
  /\ Turn("isp_out_high")
  /\ pc' = "convert"
  /\ \E b \in In("ready") :
       /\ IsOldest(b, In("ready"))
       /\ Move({b}, "program")
       /\ taken' = {b}
  /\ UNCHANGED <<program, picture, clock, last, raws, stats, todo>>

\* ... the frame is made and given out ...
ProduceImage ==
  /\ Goto("convert", "requeue")
  /\ \E b \in taken : last' = picture[b]
  /\ UNCHANGED <<program, camera, taken, raws, stats, todo>>

\* ... QBUF.
RequeueImage ==
  /\ Goto("requeue", "handle")
  /\ Move(taken, "waiting")
  /\ taken' = {}
  /\ Handled("isp_out_high")
  /\ UNCHANGED <<program, picture, clock, last, raws, stats>>

\* A buffer of metadata is taken, used, and queued again.
UseMetadata(m) ==
  /\ Turn(m)
  /\ stats[m] > 0
  /\ stats' = [stats EXCEPT ![m] = @ - 1]
  /\ Handled(m)
  /\ UNCHANGED <<pc, program, camera, taken, last, raws>>

AdjustSettingFromIsp == UseMetadata("isp_out_metadata")
ReceiveUnicamMeta == UseMetadata("unicam_meta")

\* An ioctl, the converter or the control algorithms raise in a handler.
HandlerRaises ==
  /\ Goto("handle", "raised") \/ Goto("convert", "raised") \/ Goto("requeue", "raised")
  /\ pc = "handle" => todo # {}
  /\ raising' = TRUE
  /\ todo' = {}
  /\ taken' = {}
  /\ UNCHANGED <<running, process, camera, last, raws, stats>>

AllHandled ==
  /\ Goto("handle", "check")
  /\ todo = {}
  /\ UNCHANGED <<program, camera, taken, last, raws, stats, todo>>

Program ==
  \/ OpenDevices \/ SetupPipeline \/ RequestBuffer \/ QueueAllBuffers \/ StartStreaming
  \/ CheckRunning \/ Select \/ SelectTimeout \/ Unicam2Isp \/ Isp2Unicam
  \/ DequeueImage \/ ProduceImage \/ RequeueImage \/ AdjustSettingFromIsp
  \/ ReceiveUnicamMeta
  \/ HandlerRaises \/ AllHandled

StopTask == Stop /\ UNCHANGED <<raws, stats, todo>>
AllEnded == Ended /\ UNCHANGED <<raws, stats, todo>>

Next == Program \/ ExposeRaw \/ IspProcess \/ StopTask \/ AllEnded

Spec == UnicamInit /\ [][Next]_vars
=============================================================================
