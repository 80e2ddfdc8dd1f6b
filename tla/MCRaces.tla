------------------------------- MODULE MCRaces -------------------------------
(***************************************************************************)
(* The objects of actfw_core that two threads use without a lock, for TLC: *)
(* a discarding pad, the exposure settings of UnicamIspCapture, the focus  *)
(* windows of AutoFocuserBase.  Which of them it is, is chosen at first;   *)
(* the pad of the others stays as it is at first, their own variables keep *)
(* the value Idle where they are not.                                      *)
(***************************************************************************)
EXTENDS DiscardingPad, Integers, Sequences

CONSTANTS p1, p2, p3, Window, MaxWindows, MaxCalls,
          DoAgc, Shutters, Gains, Wanted, Times, Factors, MaxSet

VARIABLES object, thread, times, app, given, agc, setting, count, target, local, stage, sensor, steady,
          windows, w, sum, kind, next, read, hit

X == INSTANCE ExposureControl WITH pc <- thread, calls <- times

W == INSTANCE FocusWindows WITH pc <- thread, calls <- times

ASSUME WindowsParameters == MaxWindows \in Nat

\* Times, gains and exposures are positive numbers, and the tables of an exposure mode
\* have as many stages and go up.
Exposures == {q \in Int \X Nat : q[1] > 0 /\ q[2] > 0 /\ X!Q(q[1], q[2]) = q}
GoesUp(table) ==
  /\ table \in Seq(Exposures) /\ table # << >>
  /\ \A i, j \in DOMAIN table : i <= j => X!AtMost(table[i], table[j])
ASSUME ExposureParameters ==
  /\ GoesUp(Shutters) /\ GoesUp(Gains) /\ Len(Shutters) = Len(Gains)
  /\ \A q \in Wanted \cup Times \cup Factors : q \in Exposures

\* The values of the run.
ThreePutters == {p1, p2, p3}
ThreeShutters == <<<<1, 1>>, <<4, 1>>, <<6, 1>>>>
ThreeGains == <<<<1, 1>>, <<2, 1>>, <<3, 1>>>>
WantedExposures == {<<1, 2>>, <<3, 2>>, <<5, 1>>, <<10, 1>>, <<25, 1>>}
ManualTimes == {<<2, 1>>, <<8, 1>>}
ManualGains == {<<3, 2>>}

common == <<thread, times, app, given>>
exposureOnly == <<agc, setting, count, target, local, stage, sensor, steady>>
windowsOnly == <<windows, w, sum, kind, next, read, hit>>
all == <<object, vars, common, exposureOnly, windowsOnly>>

Idle == "none"

NoExposure ==
  /\ agc = Idle /\ setting = Idle /\ count = Idle /\ target = Idle
  /\ local = Idle /\ stage = Idle /\ sensor = Idle /\ steady = Idle
NoWindows ==
  /\ windows = Idle /\ w = Idle /\ sum = Idle /\ kind = Idle
  /\ next = Idle /\ read = Idle /\ hit = Idle

AnyInit ==
  /\ Init
  /\ \/ /\ object = "pad"
        /\ NoExposure /\ NoWindows
        /\ thread = Idle /\ times = Idle /\ app = Idle /\ given = Idle
     \/ object = "exposure" /\ X!Init /\ NoWindows
     \/ object = "windows" /\ W!Init /\ NoExposure

Is(o) == object = o /\ object' = o

Exposure == Is("exposure") /\ UNCHANGED <<vars, windowsOnly>>

AnyNext ==
  \/ Is("pad") /\ Next /\ UNCHANGED <<common, exposureOnly, windowsOnly>>
  \/ Exposure /\ X!Next
  \/ Is("windows") /\ W!Next /\ UNCHANGED <<vars, exposureOnly>>

\* set_exposure_settings returns, and the ISP goes on giving statistics.
AnySpec ==
  /\ AnyInit
  /\ [][AnyNext]_all
  /\ WF_all(Exposure /\ X!Caller)
  /\ WF_all(Exposure /\ X!Agc)

-----------------------------------------------------------------------------
(* Properties, besides those of DiscardingPad *)

\* See ExposureControl.
ExposureOnTarget == object = "exposure" => X!ExposureOnTarget
SettingsReachSensor == <>[](object = "exposure" => X!SettingsReach)

\* See FocusWindows.
WindowsSettle == object = "windows" => W!WindowsSettle
=============================================================================
