------------------------------ MODULE AutoFocus ------------------------------
(***************************************************************************)
(* AutoFocuserBase of autofocus.py: the state machine that moves the lens. *)
(* The capture thread feeds it the phase statistics of every frame and,    *)
(* apart from them, the contrast the ISP measured; the application triggers*)
(* scans (auto mode) or places the lens (manual mode) from its own thread. *)
(*                                                                         *)
(* Positions are integers.  What the formulas of the code compute from the *)
(* statistics - a phase shift, an interpolated peak - is any value in the  *)
(* range the formula can yield.  pause_flag, which nothing sets, is left   *)
(* out.  A definition whose comment calls it a slip is a mistake the code  *)
(* could contain and no part of the specification.                         *)
(***************************************************************************)
EXTENDS Integers, Sequences

CONSTANTS
  FocusMin, FocusMax, FocusDefault,   \* RangeDependentParams
  StepCoarse, StepFine, MaxSlew,      \* SpeedDependentParams, as the next line
  StepFrames, PdafSquelch,
  PdafFrames, DropoutFrames,          \* sets: one of each is configured
  SkipFrames,
  ConfEpsilon,                        \* confidence below which phase is doubted
  Confidences, Phases, Contrasts,     \* what the statistics of a frame may say
  Modes,                              \* the modes a focuser is created with
  MapY0, MapSlope, Values,            \* lens settings: the map, and those asked
  MaxCalls                            \* bound on the calls of the application

ASSUME RangeAssumption ==
  /\ {FocusMin, FocusMax, FocusDefault} \subseteq Int
  /\ FocusMin <= FocusDefault /\ FocusDefault <= FocusMax

ASSUME SpeedAssumption ==
  /\ {StepCoarse, StepFine, MaxSlew, StepFrames} \subseteq Nat \ {0}
  /\ {PdafSquelch, SkipFrames, ConfEpsilon, MaxCalls} \subseteq Nat
  /\ PdafFrames \subseteq Nat /\ DropoutFrames \subseteq Nat

ASSUME StatsAssumption ==
  /\ Confidences \subseteq Nat /\ Phases \subseteq Int /\ Contrasts \subseteq Nat

ASSUME MapAssumption ==
  /\ Modes \subseteq {"Manual", "Auto", "Continuous"}
  /\ MapY0 \in Nat /\ MapSlope \in Nat \ {0} /\ Values \subseteq Nat

\* ScanState, with its values: the code compares them
Idle == 0
Trigger == 1
Pdaf == 2
Coarse == 3
Fine == 4
Settle == 5

None == -1          \* no lens setting yet; also the lens position before the first
Unmeasured == 1000000000      \* scan_min_contrast before a scan measures anything

VARIABLES
  mode, pdafFrames, dropoutFrames,    \* fixed when the focuser is created
  af,                                 \* the focuser's fields, by their names
  prev_contrast,                      \* what the ISP measured last
  lensSetting,                        \* afstatus.lensSetting
  lens,                               \* the setting the callback gave the device
  calls, caller,                      \* set_focus_value: calls made, where it is
  beat                                \* flips with every frame

configured == <<mode, pdafFrames, dropoutFrames>>
vars == <<configured, af, prev_contrast, lensSetting, lens, calls, caller, beat>>

Init ==
  /\ mode \in Modes /\ pdafFrames \in PdafFrames /\ dropoutFrames \in DropoutFrames
  /\ af = [scan_state |-> IF mode = "Continuous" THEN Trigger ELSE Idle,
           initted |-> FALSE, ftarget |-> None, fsmooth |-> None,
           skip_count |-> 0, step_count |-> 0, drop_count |-> 0,
           scan_max_contrast |-> 0, scan_min_contrast |-> Unmeasured,
           scan_max_index |-> 0, scan_data |-> <<>>, report_state |-> "Idle"]
  /\ prev_contrast = 0
  /\ lensSetting = None /\ lens = None
  /\ calls = 0 /\ caller = [at |-> "out", value |-> None]
  /\ beat = FALSE

-----------------------------------------------------------------------------
(* The private methods, as functions from the fields before to those after. *)

Clamp(x, low, high) ==
  LET capped == IF x < high THEN x ELSE high
  IN  IF capped > low THEN capped ELSE low

Abs(x) == IF x < 0 THEN -x ELSE x

\* The lens follows the target by at most MaxSlew; the first time it jumps there.
UpdateLensPosition(s) ==
  LET target == IF s.scan_state >= Pdaf THEN Clamp(s.ftarget, FocusMin, FocusMax)
                                        ELSE s.ftarget
  IN  IF s.initted
      THEN [s EXCEPT !.ftarget = target,
                     !.fsmooth = Clamp(target, @ - MaxSlew, @ + MaxSlew)]
      ELSE [s EXCEPT !.ftarget = target, !.fsmooth = target,
                     !.initted = TRUE, !.skip_count = SkipFrames]

StartProgrammedScan(s) ==
  [UpdateLensPosition([s EXCEPT !.ftarget = FocusMin]) EXCEPT
     !.scan_state = Coarse, !.step_count = StepFrames, !.report_state = "Scanning",
     !.scan_max_contrast = 0, !.scan_min_contrast = Unmeasured,
     !.scan_max_index = 0, !.scan_data = <<>>]

\* The slip: the lens is placed anew by every scan.
PlacedAnew(s) == UpdateLensPosition([s EXCEPT !.ftarget = FocusDefault])

Placed(s) ==
  IF s.initted THEN s ELSE UpdateLensPosition([s EXCEPT !.ftarget = FocusDefault])

StartAF(s) ==
  IF dropoutFrames > 0 /\ (mode = "Continuous" \/ pdafFrames > 0)
  THEN [Placed(s) EXCEPT
          !.step_count = IF mode = "Continuous" THEN 0 ELSE pdafFrames,
          !.scan_state = Pdaf, !.scan_data = <<>>, !.drop_count = 0,
          !.report_state = "Scanning"]
  ELSE StartProgrammedScan(s)

\* The slip: the last steps are as large as the others.
Undamped(s, phase) == phase

\* In auto mode the last steps of phase detection are damped, the very last to
\* nothing.
Damped(s, phase) ==
  IF mode = "Continuous" \/ s.step_count >= StepFrames THEN phase
  ELSE (phase * s.step_count) \div StepFrames

\* phase is the shift after the gain and, in continuous mode, the squelch.
DoPDAF(s, phase) ==
  LET shift == Damped(s, phase)
      held  == Clamp(shift, -MaxSlew, MaxSlew)
      close == /\ mode # "Continuous" /\ s.step_count >= StepFrames
               /\ Abs(phase) < PdafSquelch
      stuck == \/ held > shift /\ s.ftarget <= FocusMin
               \/ held < shift /\ s.ftarget >= FocusMax
  IN  [s EXCEPT !.step_count = IF close THEN StepFrames ELSE @,
                !.ftarget = s.fsmooth + held,
                !.report_state = IF held = shift THEN "Focused"
                                 ELSE IF stuck THEN "Failed" ELSE "Scanning"]

StepsLeft(s) == IF s.step_count > 0 THEN s.step_count - 1 ELSE s.step_count

PhaseStep(s, phase) ==
  LET t == DoPDAF(s, phase)
  IN  [t EXCEPT !.step_count = StepsLeft(t),
                !.scan_state = IF t.step_count = 0 /\ mode # "Continuous"
                               THEN Idle ELSE @,
                !.drop_count = 0]

\* contrastRatio is 0.75, its default
Faded(contrast, best) == 4 * contrast < 3 * best

Between(a, b) == IF a <= b THEN a .. b ELSE b .. a

\* find_peak: at the i-th record, or up to half-way to the sharper neighbour
FindPeak(data, i) ==
  LET f == data[i].focus
      towards(j) == {x \in Between(f, data[j].focus) :
                       2 * Abs(x - f) <= Abs(data[j].focus - f)}
      dropLo == data[i].contrast - data[i - 1].contrast
      dropHi == data[i].contrast - data[i + 1].contrast
  IN  IF ~(1 < i /\ i < Len(data)) THEN {f}
      ELSE IF 0 <= dropLo /\ dropLo < dropHi THEN towards(i - 1)
      ELSE IF 0 <= dropHi /\ dropHi < dropLo THEN towards(i + 1)
      ELSE {f}

\* Two phases on a line predict the position in focus: up to three and a half
\* steps back from the target or three steps beyond it.
EarlyTermination(s) ==
  LET last == s.scan_data[Len(s.scan_data)]
  IN  IF s.scan_data = <<>> \/ ~last.sure \/ s.ftarget = last.focus
      THEN {}
      ELSE {[s EXCEPT !.ftarget = s.ftarget + (p * (last.focus - s.ftarget)) \div 2,
                      !.scan_state = Settle,
                      !.step_count = IF mode = "Continuous" THEN 0 ELSE StepFrames]
              : p \in -6 .. 7}

\* The slip: the second sweep is compared with the first.
SharperThanEver(s, contrast) == contrast > s.scan_max_contrast

Sharper(s, contrast) == s.scan_data = <<>> \/ contrast > s.scan_max_contrast

\* The record of this position joins the scan.
Recorded(s, contrast, conf) ==
  [s EXCEPT
     !.scan_max_contrast = IF Sharper(s, contrast) THEN contrast ELSE @,
     !.scan_max_index = IF Sharper(s, contrast) THEN Len(s.scan_data) + 1 ELSE @,
     !.scan_min_contrast = IF contrast < @ THEN contrast ELSE @,
     !.scan_data = Append(@, [focus |-> s.ftarget, contrast |-> contrast,
                              sure |-> conf >= ConfEpsilon])]

\* A new target gets StepFrames to take effect.
Aimed(s) == [s EXCEPT !.step_count = IF s.ftarget = s.fsmooth THEN 0 ELSE StepFrames]

DoScan(s, contrast, conf) ==
  LET r == Recorded(s, contrast, conf)
      peaks == FindPeak(r.scan_data, r.scan_max_index)
      faded == Faded(contrast, r.scan_max_contrast)
  IN  IF r.scan_state = Coarse
      THEN IF r.ftarget >= FocusMax \/ faded
           THEN {Aimed([r EXCEPT !.ftarget = IF peak + 2 * StepFine < @
                                             THEN peak + 2 * StepFine ELSE @,
                                 !.scan_state = Fine, !.scan_data = <<>>])
                   : peak \in peaks}
           ELSE {Aimed([r EXCEPT !.ftarget = @ + StepCoarse])}
      ELSE IF r.ftarget <= FocusMin \/ Len(r.scan_data) >= 5 \/ faded
           THEN {Aimed([r EXCEPT !.ftarget = peak, !.scan_state = Settle])
                   : peak \in peaks}
           ELSE {Aimed([r EXCEPT !.ftarget = @ - StepFine])}

Settled(s, contrast) ==
  [s EXCEPT
     !.report_state = IF /\ ~Faded(contrast, s.scan_max_contrast)
                         /\ 4 * s.scan_min_contrast <= 3 * s.scan_max_contrast
                      THEN "Focused" ELSE "Failed",
     !.scan_state = IF mode = "Continuous" /\ dropoutFrames > 0 THEN Pdaf ELSE Idle,
     !.scan_data = <<>>]

\* The slip: the lost frame is not counted before the test.
LostBefore(s) == s.drop_count = dropoutFrames

DroppedOut(s) == s.drop_count + 1 = dropoutFrames

\* The fields doAF may leave behind, of a frame with this phase and confidence.
DoAF(s, contrast, phase, conf) ==
  IF s.skip_count > 0 THEN {[s EXCEPT !.skip_count = @ - 1]}
  ELSE IF s.scan_state = Pdaf
  THEN IF 4 * conf > (IF s.drop_count # 0 THEN 4 ELSE 1) * ConfEpsilon
       THEN {PhaseStep(s, phase)}
       ELSE IF DroppedOut(s)
            THEN {StartProgrammedScan([s EXCEPT !.drop_count = @ + 1])}
            ELSE {s}
  ELSE IF s.scan_state >= Coarse /\ s.fsmooth = s.ftarget
  THEN IF s.step_count > 0 THEN {[s EXCEPT !.step_count = @ - 1]}
       ELSE IF s.scan_state = Settle THEN {Settled(s, contrast)}
       ELSE DoScan(s, contrast, conf)
              \cup (IF conf >= ConfEpsilon THEN EarlyTermination(s) ELSE {})
  ELSE {s}

\* The map between positions and lens settings (Pwl with one span)
Setting(x) == MapY0 + MapSlope * x
Position(value) == (value - MapY0) \div MapSlope

-----------------------------------------------------------------------------
(* The capture thread. *)

\* __prepare: the whole handling of a frame's phase statistics
Prepare(phase, conf) ==
  /\ LET begun == IF af.scan_state = Trigger THEN StartAF(af) ELSE af
     IN  IF begun.initted
         THEN \E done \in DoAF(begun, prev_contrast, phase, conf) :
                af' = UpdateLensPosition(done)
         ELSE af' = begun
  /\ lensSetting' = IF af'.initted THEN Setting(af'.fsmooth) ELSE None
  /\ lens' = IF af'.initted THEN lensSetting' ELSE lens
  /\ beat' = ~beat
  /\ UNCHANGED <<configured, prev_contrast, calls, caller>>

Frame == \E phase \in Phases, conf \in Confidences : Prepare(phase, conf)

ProcessContrastMetadata ==
  /\ prev_contrast' \in Contrasts
  /\ UNCHANGED <<configured, af, lensSetting, lens, calls, caller, beat>>

-----------------------------------------------------------------------------
(* The application. *)

TriggerScan ==
  /\ mode = "Auto" /\ af.scan_state = Idle
  /\ af' = [af EXCEPT !.scan_state = Trigger]
  /\ UNCHANGED <<configured, prev_contrast, lensSetting, lens, calls, caller, beat>>

\* The slip: only the first call sets the target.
AimedOnce(value) ==
  IF af.initted THEN af ELSE [af EXCEPT !.ftarget = Position(value)]

AimedAt(value) == [af EXCEPT !.ftarget = Position(value)]

\* set_focus_value, in the three steps a frame may come between
SetFocusValue(value) ==
  /\ mode = "Manual" /\ caller.at = "out" /\ calls < MaxCalls
  /\ calls' = calls + 1
  /\ caller' = [at |-> "update", value |-> value]
  /\ lensSetting' = value
  /\ af' = AimedAt(value)
  /\ UNCHANGED <<configured, prev_contrast, lens, beat>>

UpdateOfCaller ==
  /\ caller.at = "update"
  /\ af' = UpdateLensPosition(af)
  /\ caller' = [caller EXCEPT !.at = "callback"]
  /\ UNCHANGED <<configured, prev_contrast, lensSetting, lens, calls, beat>>

CallbackOfCaller ==
  /\ caller.at = "callback"
  /\ lens' = caller.value
  /\ caller' = [caller EXCEPT !.at = "out"]
  /\ UNCHANGED <<configured, af, prev_contrast, lensSetting, calls, beat>>

Next ==
  \/ Frame
  \/ ProcessContrastMetadata
  \/ TriggerScan
  \/ \E value \in Values : SetFocusValue(value)
  \/ UpdateOfCaller
  \/ CallbackOfCaller

\* Frames keep coming, and a call that was begun goes on.
Fairness ==
  /\ WF_vars(Frame)
  /\ WF_vars(UpdateOfCaller) /\ WF_vars(CallbackOfCaller)

Spec == Init /\ [][Next]_vars /\ Fairness
-----------------------------------------------------------------------------
Record == [focus : Int, contrast : Nat, sure : BOOLEAN]

Fields ==
  [scan_state : Idle .. Settle, initted : BOOLEAN, ftarget : Int, fsmooth : Int,
   skip_count : Nat, step_count : Nat, drop_count : Nat,
   scan_max_contrast : Nat, scan_min_contrast : Nat, scan_max_index : Nat,
   scan_data : Seq(Record),
   report_state : {"Idle", "Scanning", "Focused", "Failed"}]

\* The types of the fields of AutoFocuserBase and of the caller's call.
TypeOK ==
  /\ mode \in Modes /\ pdafFrames \in Nat /\ dropoutFrames \in Nat
  /\ af \in Fields
  /\ prev_contrast \in Nat
  /\ lensSetting \in Int /\ lens \in Int
  /\ calls \in 0 .. MaxCalls
  /\ caller \in [at : {"out", "update", "callback"}, value : Int]
  /\ beat \in BOOLEAN

\* Whatever the statistics say, the motor is never sent outside the configured
\* range (manual settings are bounded by the map instead).  The target itself does
\* leave it within a frame; only clamping and the damping of the last phase step
\* bring it back.
LensInRange ==
  af.initted /\ mode # "Manual" => af.fsmooth \in FocusMin .. FocusMax

\* Once placed, the lens itself - the setting its device is given - moves by at most
\* MaxSlew, in the settings' scale, with every frame; a frame that starts a
\* programmed scan moves it twice.  In auto and continuous mode this is so without
\* exception.  In manual mode it is not: the callback of set_focus_value gives the
\* device the value itself, however far it is, and the next frame takes the lens
\* back to the place the focuser has slewed it to (autofocus.py:626-627, __prepare).
\* There the limit holds for a frame that finds the lens in that place.
SlewLimit ==
  [][af.initted /\ (mode = "Manual" => lens = Setting(af.fsmooth) /\ caller' = caller) =>
       LET moves == IF af'.scan_state = Coarse /\ af.scan_state # Coarse THEN 2 ELSE 1
       IN  Abs(lens' - lens) <= moves * MapSlope * MaxSlew]_vars

\* While a scan collects records, what it keeps about them - the best contrast,
\* where it was seen, the least - is of the records of this sweep: find_peak
\* indexes them with it.  scan_data is emptied between the sweeps, the rest not.
PeakIsSharpest ==
  af.scan_state \in {Coarse, Fine} /\ af.scan_data # <<>> =>
    /\ af.scan_max_index \in DOMAIN af.scan_data
    /\ af.scan_data[af.scan_max_index].contrast = af.scan_max_contrast
    /\ \A i \in DOMAIN af.scan_data :
         af.scan_data[i].contrast \in af.scan_min_contrast .. af.scan_max_contrast

\* A scan the application triggered ends, so the next trigger is heeded.
AutoScanEnds == (mode = "Auto" /\ af.scan_state = Trigger) ~> (af.scan_state = Idle)

\* A programmed scan ends in every mode: the lens reaches each of its targets.
ScansEnd ==
  /\ AutoScanEnds
  /\ af.scan_state >= Coarse ~> af.scan_state \in {Idle, Pdaf}

\* The lens ends where the last set_focus_value put it, and get_focus_value says
\* so, though frames in between move it back and slew it there.
ManualArrives ==
  mode = "Manual" => <>[](lens = caller.value /\ lensSetting = caller.value)
=============================================================================
