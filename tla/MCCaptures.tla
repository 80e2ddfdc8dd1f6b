----------------------------- MODULE MCCaptures -----------------------------
(***************************************************************************)
(* One capture task of any of the three kinds, for TLC: the kind is chosen *)
(* at first, and the state of CaptureState is its state; the variables     *)
(* that UnicamCapture adds stay as they are in the other kinds.  Or, as a  *)
(* further kind, one of the computations of the constructors (MCSetup).    *)
(***************************************************************************)
EXTENDS UnicamCapture

CONSTANT CaptureKinds

VARIABLES kind, input, output

V == INSTANCE V4LCapture
L == INSTANCE LibcameraCapture

S == INSTANCE MCSetup

unicamOnly == <<raws, stats, todo>>
setup == <<input, output>>
all == <<kind, shared, unicamOnly, setup>>

Tasks == {"v4l", "libcamera", "unicam"}
AllKinds == Tasks \cup S!Computed
JustWindows == {"window"}

AnyInit ==
  /\ kind \in CaptureKinds
  /\ UnicamInit
  /\ output = << >>
  /\ IF kind \in Tasks THEN input = "none" ELSE input \in S!Inputs(kind)

As(k) == kind = k /\ kind' = k /\ UNCHANGED setup

V4L == As("v4l") /\ UNCHANGED unicamOnly
Libcamera == As("libcamera") /\ UNCHANGED unicamOnly

\* A computation has its result at once.
Compute ==
  /\ kind \notin Tasks
  /\ output' = <<S!Output(kind, input)>>
  /\ UNCHANGED <<kind, shared, unicamOnly, input>>

AnyNext ==
  \/ V4L /\ V!Next
  \/ Libcamera /\ L!Next
  \/ As("unicam") /\ Next
  \/ Compute

\* The thread of the task goes on: every call of a driver returns, every select
\* after its timeout at the latest.  The ISP converts what it is given.
AnyProgram == (V4L /\ V!Program) \/ (Libcamera /\ L!Program) \/ (As("unicam") /\ Program)

AnySpec ==
  /\ AnyInit
  /\ [][AnyNext]_all
  /\ WF_all(AnyProgram)
  /\ WF_all(As("unicam") /\ IspProcess)

-----------------------------------------------------------------------------
(* Properties *)

\* A capture that has been told to stop ends its run, whatever the camera does: it
\* waits for no picture longer than a timeout, and every error ends it too.
StopEndsRun == ~ running ~> RunIsOver

\* A DMA buffer that the ISP was given comes back to unicam, unless the run is over:
\* with every buffer that stays away unicam loses one of its few.
DmaBuffersComeBack ==
  \A r \in Raw : rawPlace[r] = "isp_waiting" ~> rawPlace[r] = "unicam_waiting" \/ RunIsOver

\* When run() is over the camera does not stream any more; after an exception, too,
\* every buffer is the program's again (VideoStream.__exit__, the `finally' of
\* LibcameraCapture.run).  Not so in UnicamIspCapture, which stops nothing, and when
\* munmap or STREAMOFF itself failed.
OverIsOff ==
  pc \in {"returned", "raised"} /\ kind # "unicam" =>
    ~ streaming /\ (raising => In("program") = Buffer)

\* See FormatLookup.
Done(k) == kind = k /\ output # << >>

FormatChosen == Done("format") => S!F!FormatChosen(input.camera, input.want, output[1])

\* See VideoControls, UnicamSetup and LensShading.
SetUpHolds ==
  /\ Done("controls") => S!ControlsHold(input.order[1], input.device, input.order[2], output[1])
  /\ Done("sensor") => S!SensorSetUp(input.want, input.camera, output[1])
  /\ Done("shading") => S!ShadingHolds(input, output[1])

\* See ContrastCurve.
ContrastRight ==
  Done("contrast") => S!C!CurvesRight(input.histogram, input.gamma, input.cfg, output[1])

\* See Environment.
EnvironmentUsed ==
  /\ Done("device") => S!E!DeviceChosen(input.supply, input.default, output[1])
  /\ Done("search") => S!SearchHolds(input, output[1])
  /\ Done("setting") =>
       \A n \in DOMAIN output[1] : S!E!SettingGiven(input.given, input.schema, n, output[1][n])

\* See UnicamSetup.
WholeImageWhole == Done("window") => S!WholeImageWhole(input.want, input.camera, output[1])
=============================================================================
