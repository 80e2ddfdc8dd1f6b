-------------------------- MODULE ExposureControl --------------------------
(***************************************************************************)
(* The exposure of UnicamIspCapture (unicam_isp_capture.py): the thread of *)
(* the capture reads the statistics of the ISP and sets shutter time and   *)
(* gain of the sensor (__adjust_setting_from_isp, __agc), while another    *)
(* thread calls set_exposure_settings.  Neither takes a lock: each read    *)
(* and write of self.shutter_time and self.analogue_gain is a step here.   *)
(*                                                                         *)
(* Times, gains and exposures are rationals in the units of the tables;    *)
(* the exposure that __agc wants is any of Wanted.                         *)
(*                                                                         *)
(* A definition that stands before another one and is named after it and a *)
(* slip is a mistake the code could contain.  It is no part of the         *)
(* specification.                                                          *)
(***************************************************************************)
EXTENDS Rational, Sequences

CONSTANTS
  DoAgc,     \* do_agc may be any of these
  Shutters,  \* the shutter times of the sensor's exposure mode
  Gains,     \* and its gains
  Wanted,    \* bound: what the pictures make the exposures wanted
  Times,     \* bound: the shutter times the application sets
  Factors,   \* bound: the gains it sets
  MaxSet     \* bound: how often it does

Auto == <<0, 0>>   \* Auto.AUTO, which is no number
AgcInterval == 3

VARIABLES
  agc,       \* self.do_agc
  setting,   \* self.shutter_time and self.analogue_gain
  app,       \* where set_exposure_settings is
  given,     \* its arguments
  calls,     \* how often it has been called
  pc,        \* where the capture thread is
  count,     \* self.agc_interval_count
  target,    \* __agc's local variables
  local,
  stage,
  sensor,    \* the shutter time and the gain the sensor has
  steady     \* history: no setting was written since __agc began

caller == <<app, given, calls>>
vars == <<agc, setting, caller, pc, count, target, local, stage, sensor, steady>>

Pair(s, g) == [shutter |-> s, gain |-> g]

\* What __setup_pipeline gives the sensor: the middle of the tables, if at all.
Middle(s) == s[Len(s) \div 2 + 1]
Unset == Pair(Int2Q(0), Int2Q(0))

Settings(auto) == [shutter : Times \cup auto, gain : Factors \cup auto]

\* With agc disabled AUTO is refused.
Allowed == Settings(IF agc THEN {Auto} ELSE {})

Init ==
  /\ agc \in DoAgc
  /\ setting \in Allowed
  /\ app = "idle"
  /\ given = setting
  /\ calls = 0
  /\ pc = "idle"
  /\ count = 0
  /\ target = Int2Q(0)
  /\ local = Unset
  /\ stage = 1
  /\ sensor = IF agc THEN Pair(Middle(Shutters), Middle(Gains)) ELSE Unset
  /\ steady = TRUE

-----------------------------------------------------------------------------
(* set_exposure_settings *)

SetExposureSettings ==
  /\ app = "idle"
  /\ calls < MaxSet
  /\ given' \in Allowed
  /\ calls' = calls + 1
  /\ app' = "shutter"
  /\ UNCHANGED <<agc, setting, pc, count, target, local, stage, sensor, steady>>

Assign(what, next) ==
  /\ app = what
  /\ app' = next
  /\ setting' = [setting EXCEPT ![what] = given[what]]
  /\ steady' = FALSE
  /\ UNCHANGED <<agc, given, calls, pc, count, target, local, stage, sensor>>

Caller == Assign("shutter", "gain") \/ Assign("gain", "idle")

-----------------------------------------------------------------------------
(* The capture thread *)

Unchanged == UNCHANGED <<agc, setting, caller, steady>>

\* Statistics arrive: every fourth time __agc runs.
Adjust(enabled) ==
  /\ pc = "idle"
  /\ enabled
  /\ IF count < AgcInterval THEN count' = count + 1 /\ pc' = pc
                            ELSE count' = 0 /\ pc' = "begin"
  /\ UNCHANGED <<agc, setting, caller, target, local, stage, sensor, steady>>

\* The slip: __agc runs only while it has something to choose.
AdjustAutoOnly == Adjust(agc /\ Auto \in {setting.shutter, setting.gain})

AdjustSettingFromIsp == Adjust(agc)

\* __agc computes the exposure it wants, at most what the sensor can do.
Begin ==
  /\ pc = "begin"
  /\ \E w \in Wanted :
       target' = MinQ(w, Mul(Shutters[Len(Shutters)], Gains[Len(Gains)]))
  /\ pc' = "test gain"
  /\ steady' = TRUE
  /\ UNCHANGED <<agc, setting, caller, count, local, stage, sensor>>

\* `self.gains[0] if self.analogue_gain == Auto.AUTO else self.analogue_gain' reads
\* the attribute twice, and so does the line after it.
Test(from, what, table, again, next) ==
  /\ pc = from
  /\ IF setting[what] = Auto
       THEN local' = [local EXCEPT ![what] = table[1]] /\ pc' = next
       ELSE local' = local /\ pc' = again
  /\ Unchanged /\ UNCHANGED <<count, target, stage, sensor>>

Read(from, what, next) ==
  /\ pc = from
  /\ local' = [local EXCEPT ![what] = setting[what]]
  /\ pc' = next
  /\ Unchanged /\ UNCHANGED <<count, target, stage, sensor>>

\* AUTO in an arithmetic expression raises TypeError.
Compare ==
  /\ pc = "compare"
  /\ stage' = 1
  /\ pc' = IF Auto \in {local.shutter, local.gain} THEN "dead"
           ELSE IF Less(Mul(local.shutter, local.gain), target) THEN "next stage" ELSE "set"
  /\ Unchanged /\ UNCHANGED <<count, target, local, sensor>>

NextStage ==
  /\ pc = "next stage"
  /\ IF stage < Len(Gains) THEN pc' = "stage shutter" /\ stage' = stage + 1
                           ELSE pc' = "set" /\ UNCHANGED stage
  /\ Unchanged /\ UNCHANGED <<count, target, local, sensor>>

\* With the other value fixed, this one goes up to its next stage, or as far as the
\* target asks.
RaiseTo(from, what, other, table, next) ==
  /\ pc = from
  /\ IF setting[what] # Auto
       THEN local' = local /\ pc' = next
       ELSE IF AtMost(target, Mul(table[stage], local[other]))
              THEN local' = [local EXCEPT ![what] = Over(target, local[other])] /\ pc' = "set"
              ELSE local' = [local EXCEPT ![what] = table[stage]] /\ pc' = next
  /\ Unchanged /\ UNCHANGED <<count, target, stage, sensor>>

\* The slip: the manual gain is raised like an automatic one.
RaiseGainAlways ==
  /\ pc = "stage gain"
  /\ IF AtMost(target, Mul(Gains[stage], local.shutter))
       THEN local' = [local EXCEPT !.gain = Over(target, local.shutter)] /\ pc' = "set"
       ELSE local' = [local EXCEPT !.gain = Gains[stage]] /\ pc' = "next stage"
  /\ Unchanged /\ UNCHANGED <<count, target, stage, sensor>>

RaiseShutter == RaiseTo("stage shutter", "shutter", "gain", Shutters, "stage gain")
RaiseGain == RaiseTo("stage gain", "gain", "shutter", Gains, "next stage")

SetUnicamExposure ==
  /\ pc = "set"
  /\ sensor' = local
  /\ pc' = "idle"
  /\ target' = Int2Q(0)
  /\ local' = Unset
  /\ stage' = 1
  /\ Unchanged /\ UNCHANGED count

Agc ==
  \/ AdjustSettingFromIsp \/ Begin
  \/ Test("test gain", "gain", Gains, "read gain", "test shutter")
  \/ Read("read gain", "gain", "test shutter")
  \/ Test("test shutter", "shutter", Shutters, "read shutter", "compare")
  \/ Read("read shutter", "shutter", "compare")
  \/ Compare \/ NextStage \/ RaiseShutter \/ RaiseGain \/ SetUnicamExposure

\* Without agc, or with the capture dead, nothing has to happen.
Rest == (pc = "dead" \/ ~ agc) /\ UNCHANGED vars

Next == SetExposureSettings \/ Caller \/ Agc \/ Rest

Spec == Init /\ [][Next]_vars /\ WF_vars(Caller) /\ WF_vars(Agc)

-----------------------------------------------------------------------------
(* Properties *)

Manual(what) == setting[what] # Auto
Product(e) == Mul(e.shutter, e.gain)

\* What the tables and the manual values allow.
Best(what, table) == IF Manual(what) THEN setting[what] ELSE table[Len(table)]
Least(what, table) == IF Manual(what) THEN setting[what] ELSE table[1]
Clipped(lo, x, hi) == MaxQ(lo, MinQ(x, hi))

\* What __agc sets, if the settings stood still meanwhile: manual values as they
\* are, and the exposure that was wanted as far as the rest can give it.
ExposureOnTarget ==
  pc = "set" /\ steady =>
    /\ \A what \in {"shutter", "gain"} : Manual(what) => local[what] = setting[what]
    /\ Product(local) =
         Clipped(Mul(Least("shutter", Shutters), Least("gain", Gains)), target,
                 Mul(Best("shutter", Shutters), Best("gain", Gains)))

\* A manual value that stays reaches the sensor and stays there, if agc is enabled
\* (set_exposure_settings).  The capture dies instead only when AUTO was set between
\* the two reads of __agc.
AsSet(what) == Manual(what) => sensor[what] = setting[what]

SettingsReach ==
  agc => \/ AsSet("shutter") /\ AsSet("gain")
         \/ pc = "dead" /\ calls > 0

SettingsReachSensor == <>[]SettingsReach
=============================================================================
