--------------------------- MODULE AutoFocusProofs ---------------------------
(***************************************************************************)
(* Proofs about AutoFocus, for every range, speed and statistics: the types*)
(* (TypeCorrect), the record find_peak starts from (PeakIsOfTheSweep), the *)
(* range of the lens (LensStaysInRange), its slew (SlewIsLimited) and the  *)
(* rank that every frame of a scan lowers (ScansAdvance).                  *)
(*                                                                         *)
(* A frame applies up to four of the private methods in turn, so each      *)
(* method has a lemma about the fields it gets and those it returns, and   *)
(* the steps of Next compose the lemmas.                                   *)
(***************************************************************************)
EXTENDS AutoFocus, TLAPS

LensRange == FocusMin .. FocusMax

\* PeakIsSharpest, of any fields
Sweep(s) ==
  s.scan_state \in {Coarse, Fine} /\ s.scan_data # <<>> =>
    /\ s.scan_max_index \in DOMAIN s.scan_data
    /\ s.scan_data[s.scan_max_index].contrast = s.scan_max_contrast
    /\ \A i \in DOMAIN s.scan_data :
         s.scan_data[i].contrast \in s.scan_min_contrast .. s.scan_max_contrast

\* LensInRange with the target, of any fields
Inside(s) == s.initted /\ s.ftarget \in LensRange /\ s.fsmooth \in LensRange

\* What a method may leave: the next update brings the target back.
Recoverable(s) ==
  /\ s.initted /\ s.fsmooth \in LensRange
  /\ s.scan_state >= Pdaf \/ s.ftarget \in LensRange

-----------------------------------------------------------------------------
(* The helpers. *)

\* Clamping yields a number between the bounds, the number itself if it is there.
LEMMA ClampBounds ==
  ASSUME NEW x \in Int, NEW low \in Int, NEW high \in Int, low <= high
  PROVE  /\ Clamp(x, low, high) \in low .. high
         /\ x \in low .. high => Clamp(x, low, high) = x
  BY DEF Clamp

LEMMA ClampInt ==
  ASSUME NEW x \in Int, NEW low \in Int, NEW high \in Int
  PROVE  Clamp(x, low, high) \in Int
  BY DEF Clamp

\* The order of the scan states, and what is no record
LEMMA States ==
  /\ {Idle, Trigger, Pdaf, Coarse, Fine, Settle} \subseteq Idle .. Settle
  /\ Idle .. Settle \subseteq Int
  /\ ~(Idle >= Pdaf) /\ ~(Trigger >= Pdaf) /\ Pdaf >= Pdaf
  /\ Coarse >= Pdaf /\ Fine >= Pdaf /\ Settle >= Pdaf
  BY DEF Idle, Trigger, Pdaf, Coarse, Fine, Settle

LEMMA Distinct ==
  /\ Pdaf \notin {Idle, Trigger, Coarse, Fine, Settle}
  /\ {Idle, Trigger, Settle} \cap {Coarse, Fine} = {}
  BY DEF Idle, Trigger, Pdaf, Coarse, Fine, Settle

LEMMA NoRecords == <<>> \in Seq(Record)
  OBVIOUS

LEMMA UnmeasuredNat == Unmeasured \in Nat
  BY SMT DEF Unmeasured

LEMMA Constants ==
  /\ FocusMin \in Int /\ FocusMax \in Int /\ FocusDefault \in Int
  /\ FocusDefault \in LensRange
  /\ FocusMin <= FocusMax
  /\ StepCoarse \in Nat /\ StepFine \in Nat /\ MaxSlew \in Nat
  /\ StepFrames \in Nat /\ StepFrames > 0
  /\ PdafSquelch \in Nat /\ SkipFrames \in Nat /\ ConfEpsilon \in Nat
  BY RangeAssumption, SpeedAssumption DEF RangeAssumption, SpeedAssumption, LensRange

\* An update changes the position, the target and the skipping only.
LEMMA UpdateFields ==
  ASSUME NEW s \in Fields
  PROVE  LET t == UpdateLensPosition(s)
         IN  /\ t \in Fields /\ t.initted
             /\ t.scan_state = s.scan_state /\ t.scan_data = s.scan_data
             /\ t.scan_max_index = s.scan_max_index
             /\ t.scan_max_contrast = s.scan_max_contrast
             /\ t.scan_min_contrast = s.scan_min_contrast
             /\ t.step_count = s.step_count
<1> DEFINE target == IF s.scan_state >= Pdaf THEN Clamp(s.ftarget, FocusMin, FocusMax)
                                             ELSE s.ftarget
           moved == Clamp(target, s.fsmooth - MaxSlew, s.fsmooth + MaxSlew)
<1>1. target \in Int
  BY Constants, ClampInt DEF Fields
<1>2. moved \in Int
  <2>1. s.fsmooth - MaxSlew \in Int /\ s.fsmooth + MaxSlew \in Int
    BY Constants DEF Fields
  <2> HIDE DEF target
  <2> QED BY <1>1, <2>1, ClampInt
<1>3. UpdateLensPosition(s) =
        IF s.initted THEN [s EXCEPT !.ftarget = target, !.fsmooth = moved]
        ELSE [s EXCEPT !.ftarget = target, !.fsmooth = target,
                       !.initted = TRUE, !.skip_count = SkipFrames]
  BY DEF UpdateLensPosition, Fields
<1> HIDE DEF target, moved
<1> QED BY <1>1, <1>2, <1>3, Constants DEF Fields

\* An update keeps the lens in range, and brings the target there.
LEMMA UpdateInside ==
  ASSUME NEW s \in Fields, Recoverable(s)
  PROVE  Inside(UpdateLensPosition(s))
<1> DEFINE target == IF s.scan_state >= Pdaf THEN Clamp(s.ftarget, FocusMin, FocusMax)
                                             ELSE s.ftarget
           moved == Clamp(target, s.fsmooth - MaxSlew, s.fsmooth + MaxSlew)
<1>1. target \in LensRange
  BY Constants, ClampBounds DEF Fields, Recoverable, LensRange
<1>2. moved \in LensRange
  <2>1. s.fsmooth \in LensRange
    BY DEF Recoverable
  <2> HIDE DEF target
  <2> QED BY <1>1, <2>1, Constants DEF LensRange, Clamp
<1>3. UpdateLensPosition(s) = [s EXCEPT !.ftarget = target, !.fsmooth = moved]
  BY DEF UpdateLensPosition, Fields, Recoverable
<1> HIDE DEF target, moved
<1> QED BY <1>1, <1>2, <1>3 DEF Fields, Inside, Recoverable

\* The first update places the lens at its target.
LEMMA UpdatePlaces ==
  ASSUME NEW s \in Fields, ~s.initted, s.ftarget \in LensRange
  PROVE  Inside(UpdateLensPosition(s))
<1> DEFINE target == IF s.scan_state >= Pdaf THEN Clamp(s.ftarget, FocusMin, FocusMax)
                                             ELSE s.ftarget
<1>1. target \in LensRange
  BY Constants, ClampBounds DEF Fields, LensRange
<1>2. UpdateLensPosition(s) = [s EXCEPT !.ftarget = target, !.fsmooth = target,
                                        !.initted = TRUE, !.skip_count = SkipFrames]
  BY DEF UpdateLensPosition, Fields
<1> HIDE DEF target
<1> QED BY <1>1, <1>2 DEF Fields, Inside

\* An update moves a lens that has a place by no more than MaxSlew.
LEMMA UpdateSlew ==
  ASSUME NEW s \in Fields, s.initted
  PROVE  Abs(UpdateLensPosition(s).fsmooth - s.fsmooth) <= MaxSlew
<1> DEFINE target == IF s.scan_state >= Pdaf THEN Clamp(s.ftarget, FocusMin, FocusMax)
                                             ELSE s.ftarget
           moved == Clamp(target, s.fsmooth - MaxSlew, s.fsmooth + MaxSlew)
<1>1. target \in Int
  BY Constants, ClampInt DEF Fields
<1>2. UpdateLensPosition(s).fsmooth = moved
  BY DEF UpdateLensPosition, Fields
<1>3. s.fsmooth \in Int
  BY DEF Fields
<1> HIDE DEF target
<1> QED BY <1>1, <1>2, <1>3, Constants DEF Clamp, Abs

\* A programmed scan starts with no records, and with the lens in range if it was
\* there or is placed now.
LEMMA ProgrammedScan ==
  ASSUME NEW s \in Fields
  PROVE  LET t == StartProgrammedScan(s)
         IN  /\ t \in Fields /\ t.initted /\ t.scan_state = Coarse /\ Sweep(t)
             /\ t.step_count = StepFrames
             /\ ~s.initted \/ s.fsmooth \in LensRange => Inside(t)
             /\ s.initted => Abs(t.fsmooth - s.fsmooth) <= MaxSlew
<1> DEFINE b == [s EXCEPT !.ftarget = FocusMin]
           u == UpdateLensPosition(b)
           t == StartProgrammedScan(s)
<1>1. b \in Fields /\ b.initted = s.initted /\ b.fsmooth = s.fsmooth
        /\ b.ftarget = FocusMin
  BY Constants DEF Fields
<1>2. u \in Fields /\ u.initted
  BY <1>1, UpdateFields
<1>3. ~s.initted \/ s.fsmooth \in LensRange => Inside(u)
  <2>1. FocusMin \in LensRange
    BY Constants DEF LensRange
  <2> HIDE DEF b
  <2> QED BY <1>1, <2>1, UpdateInside, UpdatePlaces DEF Recoverable
<1>4. s.initted => Abs(u.fsmooth - s.fsmooth) <= MaxSlew
  BY <1>1, UpdateSlew
<1>5. t = [u EXCEPT !.scan_state = Coarse, !.step_count = StepFrames,
                    !.report_state = "Scanning",
                    !.scan_max_contrast = 0, !.scan_min_contrast = Unmeasured,
                    !.scan_max_index = 0, !.scan_data = <<>>]
  BY DEF StartProgrammedScan
<1> HIDE DEF u, t
<1>6. /\ t \in Fields /\ t.initted /\ t.scan_state = Coarse /\ t.scan_data = <<>>
      /\ t.step_count = StepFrames
      /\ t.ftarget = u.ftarget /\ t.fsmooth = u.fsmooth
  BY <1>2, <1>5, Constants, UnmeasuredNat, NoRecords, States DEF Fields
<1>7. Sweep(t)
  BY <1>6 DEF Sweep
<1>8. ~s.initted \/ s.fsmooth \in LensRange => Inside(t)
  BY <1>3, <1>6 DEF Inside
<1>9. s.initted => Abs(t.fsmooth - s.fsmooth) <= MaxSlew
  BY <1>4, <1>6
<1> QED BY <1>6, <1>7, <1>8, <1>9 DEF t

\* So does any scan.
LEMMA ScanStarts ==
  ASSUME NEW s \in Fields, pdafFrames \in Nat
  PROVE  LET t == StartAF(s)
         IN  /\ t \in Fields /\ t.initted /\ t.scan_state \in {Pdaf, Coarse} /\ Sweep(t)
             /\ t.scan_state = Coarse => t.step_count > 0
             /\ ~s.initted \/ Inside(s) => Inside(t)
             /\ s.initted /\ t.scan_state = Pdaf => t.fsmooth = s.fsmooth
             /\ s.initted => Abs(t.fsmooth - s.fsmooth) <= MaxSlew
<1> DEFINE t == StartAF(s)
<1>1. CASE dropoutFrames > 0 /\ (mode = "Continuous" \/ pdafFrames > 0)
  <2> DEFINE p == Placed(s)
             d == [s EXCEPT !.ftarget = FocusDefault]
  <2>1. d \in Fields /\ d.initted = s.initted /\ d.ftarget \in LensRange
    BY Constants DEF Fields, LensRange
  <2>0. p = IF s.initted THEN s ELSE UpdateLensPosition(d)
    BY DEF Placed
  <2>4. t = [p EXCEPT !.step_count = IF mode = "Continuous" THEN 0 ELSE pdafFrames,
                      !.scan_state = Pdaf, !.scan_data = <<>>, !.drop_count = 0,
                      !.report_state = "Scanning"]
    BY <1>1 DEF StartAF
  <2> HIDE DEF d, p, t
  <2>2. p \in Fields /\ p.initted /\ (s.initted => p = s)
    BY <2>0, <2>1, UpdateFields
  <2>3. ~s.initted => Inside(p)
    BY <2>0, <2>1, UpdatePlaces
  <2>5. /\ t \in Fields /\ t.initted /\ t.scan_state = Pdaf
        /\ t.ftarget = p.ftarget /\ t.fsmooth = p.fsmooth
    BY <2>2, <2>4, NoRecords, States DEF Fields
  <2>6. Sweep(t)
    BY <2>5, Distinct DEF Sweep
  <2>7. s.initted => t.fsmooth = s.fsmooth /\ Abs(t.fsmooth - s.fsmooth) <= MaxSlew
    <3>1. s.initted => t.fsmooth = s.fsmooth
      BY <2>2, <2>5
    <3>2. s.fsmooth \in Int
      BY DEF Fields
    <3> QED BY <3>1, <3>2, Constants DEF Abs
  <2>8. ~s.initted \/ Inside(s) => Inside(t)
    BY <2>2, <2>3, <2>5 DEF Inside
  <2> QED BY <2>5, <2>6, <2>7, <2>8, Distinct DEF t
<1>2. CASE ~(dropoutFrames > 0 /\ (mode = "Continuous" \/ pdafFrames > 0))
  <2>1. t = StartProgrammedScan(s)
    BY <1>2 DEF StartAF
  <2>2. Inside(s) => s.fsmooth \in LensRange
    BY DEF Inside
  <2> QED BY <2>1, <2>2, ProgrammedScan, Constants, Distinct
<1> QED BY <1>1, <1>2

-----------------------------------------------------------------------------
(* The handlers of a frame, by the state of the scan. *)

\* A phase step leaves the target out of range only in a state that has it clamped:
\* the step that ends the scan is damped to nothing.
LEMMA PhaseStepRecoverable ==
  ASSUME NEW s \in Fields, NEW phase \in Int, s.initted, s.scan_state = Pdaf
  PROVE  LET t == PhaseStep(s, phase)
         IN  /\ t \in Fields /\ t.initted /\ t.scan_state \in {Pdaf, Idle}
             /\ t.fsmooth = s.fsmooth
             /\ Inside(s) => Recoverable(t)
<1> DEFINE shift == Damped(s, phase)
           held == Clamp(shift, -MaxSlew, MaxSlew)
           close == /\ mode # "Continuous" /\ s.step_count >= StepFrames
                    /\ Abs(phase) < PdafSquelch
           count == IF close THEN StepFrames ELSE s.step_count
           report == DoPDAF(s, phase).report_state
           d == DoPDAF(s, phase)
           t == PhaseStep(s, phase)
<1>1. shift \in Int
  BY Constants DEF Damped, Fields
<1>2. held \in Int
  BY <1>1, Constants, ClampInt
<1>3. count \in Nat
  BY Constants DEF Fields
<1>4. report \in {"Scanning", "Focused", "Failed"}
  BY DEF DoPDAF, Fields
<1>5. d = [s EXCEPT !.step_count = count, !.ftarget = s.fsmooth + held,
                    !.report_state = report]
  BY DEF DoPDAF, Fields
<1>6. count = 0 /\ mode # "Continuous" => held = 0
  <2> SUFFICES ASSUME count = 0, mode # "Continuous" PROVE held = 0
    OBVIOUS
  <2>1. s.step_count = 0
    BY Constants
  <2>2. phase * 0 = 0 /\ 0 \div StepFrames = 0
    BY Constants
  <2>3. shift = 0
    BY <2>1, <2>2, Constants DEF Damped
  <2> QED BY <2>3, Constants DEF Clamp
<1> HIDE DEF shift, held, close, count, report, d
<1>7. /\ d \in Fields /\ d.initted /\ d.fsmooth = s.fsmooth /\ d.step_count = count
      /\ d.ftarget = s.fsmooth + held /\ d.scan_state = Pdaf
  <2>1. s.fsmooth + held \in Int
    BY <1>2 DEF Fields
  <2> QED BY <2>1, <1>3, <1>4, <1>5 DEF Fields
<1>8. t = [d EXCEPT !.step_count = StepsLeft(d),
                    !.scan_state = IF count = 0 /\ mode # "Continuous"
                                   THEN Idle ELSE Pdaf,
                    !.drop_count = 0]
  BY <1>7 DEF PhaseStep, d
<1>9. StepsLeft(d) \in Nat
  BY <1>3, <1>7 DEF StepsLeft
<1> HIDE DEF t
<1>10. /\ t \in Fields /\ t.initted /\ t.fsmooth = d.fsmooth /\ t.ftarget = d.ftarget
       /\ t.scan_state = IF count = 0 /\ mode # "Continuous" THEN Idle ELSE Pdaf
  BY <1>7, <1>8, <1>9, States DEF Fields
<1>11. Inside(s) => Recoverable(t)
  <2>1. s.fsmooth \in Int
    BY DEF Fields
  <2> QED BY <2>1, <1>6, <1>7, <1>10, States DEF Inside, Recoverable
<1> QED BY <1>7, <1>10, <1>11 DEF t

\* A record that joins a sweep is counted in what the scan keeps of it.
LEMMA RecordJoins ==
  ASSUME NEW s \in Fields, NEW contrast \in Nat, NEW conf, Sweep(s),
         s.scan_state \in {Coarse, Fine}
  PROVE  LET r == Recorded(s, contrast, conf)
         IN  /\ r \in Fields /\ r.initted = s.initted /\ r.fsmooth = s.fsmooth
             /\ r.ftarget = s.ftarget /\ r.scan_state = s.scan_state
             /\ r.scan_data # <<>> /\ Sweep(r)
<1> DEFINE best == IF Sharper(s, contrast) THEN contrast ELSE s.scan_max_contrast
           index == IF Sharper(s, contrast) THEN Len(s.scan_data) + 1
                                            ELSE s.scan_max_index
           least == IF contrast < s.scan_min_contrast THEN contrast
                                                      ELSE s.scan_min_contrast
           record == [focus |-> s.ftarget, contrast |-> contrast,
                      sure |-> conf >= ConfEpsilon]
           data == Append(s.scan_data, record)
           r == Recorded(s, contrast, conf)
<1>1. best \in Nat /\ index \in Nat /\ least \in Nat
  BY DEF Fields
<1>2. record \in Record
  BY DEF Record, Fields
<1>3. s.scan_data \in Seq(Record)
  BY DEF Fields
<1>4. /\ data \in Seq(Record) /\ data # <<>> /\ DOMAIN data = 1 .. Len(s.scan_data) + 1
      /\ data[Len(s.scan_data) + 1] = record
      /\ \A i \in DOMAIN s.scan_data : data[i] = s.scan_data[i]
  BY <1>2, <1>3
<1>5. r = [s EXCEPT !.scan_max_contrast = best, !.scan_max_index = index,
                    !.scan_min_contrast = least, !.scan_data = data]
  BY DEF Recorded, Fields
<1> HIDE DEF best, index, least, data, r
<1>6. /\ r \in Fields /\ r.initted = s.initted /\ r.fsmooth = s.fsmooth
      /\ r.ftarget = s.ftarget /\ r.scan_state = s.scan_state
      /\ r.scan_data = data /\ r.scan_max_index = index
      /\ r.scan_max_contrast = best /\ r.scan_min_contrast = least
  BY <1>1, <1>4, <1>5 DEF Fields
<1>7. /\ index \in DOMAIN data /\ data[index].contrast = best
      /\ \A i \in DOMAIN data : data[i].contrast \in least .. best
  <2>1. record.contrast = contrast
    OBVIOUS
  <2> HIDE DEF record
  <2>2. CASE s.scan_data = <<>>
    <3>1. Len(s.scan_data) = 0
      BY <2>2
    <3>2. best = contrast /\ index = 1
      BY <2>2, <3>1 DEF best, index, Sharper
    <3>3. least <= contrast
      BY DEF least, Fields
    <3> QED BY <1>1, <1>4, <2>1, <3>1, <3>2, <3>3
  <2>3. CASE s.scan_data # <<>>
    <3>1. /\ s.scan_max_index \in DOMAIN s.scan_data
          /\ s.scan_data[s.scan_max_index].contrast = s.scan_max_contrast
          /\ \A i \in DOMAIN s.scan_data :
               s.scan_data[i].contrast \in s.scan_min_contrast .. s.scan_max_contrast
      BY <2>3 DEF Sweep
    <3>2. /\ s.scan_max_contrast \in Nat /\ s.scan_min_contrast \in Nat
          /\ DOMAIN s.scan_data = 1 .. Len(s.scan_data) /\ Len(s.scan_data) \in Nat
      BY <1>3 DEF Fields
    <3>3. /\ s.scan_max_contrast <= best /\ contrast <= best
          /\ least <= s.scan_min_contrast /\ least <= contrast
      BY <2>3, <3>2 DEF best, least, Sharper
    <3>4. index \in DOMAIN data /\ data[index].contrast = best
      <4>1. CASE Sharper(s, contrast)
        BY <1>4, <2>1, <3>2, <4>1 DEF best, index
      <4>2. CASE ~Sharper(s, contrast)
        BY <1>4, <3>1, <3>2, <4>2 DEF best, index
      <4> QED BY <4>1, <4>2
    <3>5. ASSUME NEW i \in DOMAIN data PROVE data[i].contrast \in least .. best
      <4>1. CASE i = Len(s.scan_data) + 1
        BY <1>1, <1>4, <2>1, <3>3, <4>1
      <4>2. CASE i \in DOMAIN s.scan_data
        <5>1. data[i] = s.scan_data[i]
          BY <1>4, <4>2
        <5>2. s.scan_data[i].contrast \in s.scan_min_contrast .. s.scan_max_contrast
          BY <3>1, <4>2
        <5> QED BY <1>1, <3>2, <3>3, <5>1, <5>2
      <4> QED BY <1>4, <3>2, <4>1, <4>2
    <3> QED BY <3>4, <3>5
  <2> QED BY <2>2, <2>3
<1> QED BY <1>4, <1>6, <1>7 DEF r, Sweep

\* find_peak of a record of the list is a position.
LEMMA PeakIsPosition ==
  ASSUME NEW data \in Seq(Record), NEW i \in DOMAIN data
  PROVE  FindPeak(data, i) \subseteq Int
<1>1. data[i].focus \in Int
  <2>1. data[i] \in Record
    OBVIOUS
  <2> QED BY <2>1 DEF Record
<1>2. \A a, b : Between(a, b) \subseteq Int
  BY DEF Between
<1> QED BY <1>1, <1>2 DEF FindPeak

\* Aiming sets the waiting time of a new target.
LEMMA AimedFields ==
  ASSUME NEW s \in Fields
  PROVE  LET t == Aimed(s)
         IN  /\ t \in Fields /\ t.initted = s.initted /\ t.fsmooth = s.fsmooth
             /\ t.scan_state = s.scan_state
             /\ Sweep(s) => Sweep(t)
<1> DEFINE count == IF s.ftarget = s.fsmooth THEN 0 ELSE StepFrames
           t == Aimed(s)
<1>1. count \in Nat
  BY Constants
<1>2. t = [s EXCEPT !.step_count = count]
  BY DEF Aimed
<1> HIDE DEF count, t
<1>3. /\ t \in Fields /\ t.initted = s.initted /\ t.fsmooth = s.fsmooth
      /\ t.scan_state = s.scan_state /\ t.scan_data = s.scan_data
      /\ t.scan_max_index = s.scan_max_index
      /\ t.scan_max_contrast = s.scan_max_contrast
      /\ t.scan_min_contrast = s.scan_min_contrast
  BY <1>1, <1>2 DEF Fields
<1> QED BY <1>3 DEF Sweep, t

\* A step of a sweep: on to the next position, to the fine sweep or to the peak.
LEMMA ScanStep ==
  ASSUME NEW s \in Fields, NEW contrast \in Nat, NEW conf, Sweep(s),
         s.scan_state \in {Coarse, Fine}, NEW t \in DoScan(s, contrast, conf)
  PROVE  /\ t \in Fields /\ t.initted = s.initted /\ t.fsmooth = s.fsmooth
         /\ t.scan_state \in {Coarse, Fine, Settle} /\ Sweep(t)
         /\ t.scan_state = Coarse => s.scan_state = Coarse
<1> DEFINE r == Recorded(s, contrast, conf)
           peaks == FindPeak(r.scan_data, r.scan_max_index)
<1>1. /\ r \in Fields /\ r.initted = s.initted /\ r.fsmooth = s.fsmooth
      /\ r.scan_state = s.scan_state /\ r.scan_data # <<>> /\ Sweep(r)
  BY RecordJoins
<1>2. peaks \subseteq Int
  <2>1. r.scan_data \in Seq(Record) /\ r.scan_max_index \in DOMAIN r.scan_data
    BY <1>1 DEF Sweep, Fields
  <2> HIDE DEF r
  <2> QED BY <2>1, PeakIsPosition
<1>3. \/ /\ s.scan_state = Coarse
         /\ \E x \in Int : t = Aimed([r EXCEPT !.ftarget = x, !.scan_state = Fine,
                                               !.scan_data = <<>>])
      \/ \E x \in Int : t = Aimed([r EXCEPT !.ftarget = x, !.scan_state = Settle])
      \/ \E x \in Int : t = Aimed([r EXCEPT !.ftarget = x])
  <2>1. r.ftarget \in Int
    BY <1>1 DEF Fields
  <2>2. CASE \E peak \in peaks :
               /\ s.scan_state = Coarse
               /\ t = Aimed([r EXCEPT !.ftarget = IF peak + 2 * StepFine < @
                                                  THEN peak + 2 * StepFine ELSE @,
                                      !.scan_state = Fine, !.scan_data = <<>>])
    <3> PICK peak \in peaks :
          /\ s.scan_state = Coarse
          /\ t = Aimed([r EXCEPT !.ftarget = IF peak + 2 * StepFine < @
                                             THEN peak + 2 * StepFine ELSE @,
                                 !.scan_state = Fine, !.scan_data = <<>>])
      BY <2>2
    <3> DEFINE x == IF peak + 2 * StepFine < r.ftarget THEN peak + 2 * StepFine
                                                       ELSE r.ftarget
    <3>1. x \in Int
      BY <1>2, <2>1, Constants
    <3>2. t = Aimed([r EXCEPT !.ftarget = x, !.scan_state = Fine, !.scan_data = <<>>])
      OBVIOUS
    <3> HIDE DEF x, r, peaks
    <3> QED BY <3>1, <3>2
  <2>3. CASE \E peak \in peaks : t = Aimed([r EXCEPT !.ftarget = peak,
                                                     !.scan_state = Settle])
    BY <1>2, <2>3
  <2>4. CASE t = Aimed([r EXCEPT !.ftarget = @ + StepCoarse])
    <3>1. r.ftarget + StepCoarse \in Int
      BY <2>1, Constants
    <3> QED BY <2>4, <3>1
  <2>5. CASE t = Aimed([r EXCEPT !.ftarget = @ - StepFine])
    <3>1. r.ftarget - StepFine \in Int
      BY <2>1, Constants
    <3> QED BY <2>5, <3>1
  <2> QED BY <1>1, <2>2, <2>3, <2>4, <2>5 DEF DoScan
<1> HIDE DEF r, peaks
<1>4. ASSUME NEW x \in Int, s.scan_state = Coarse,
             t = Aimed([r EXCEPT !.ftarget = x, !.scan_state = Fine,
                                 !.scan_data = <<>>])
      PROVE  /\ t \in Fields /\ t.initted = s.initted /\ t.fsmooth = s.fsmooth
             /\ t.scan_state = Fine /\ Sweep(t)
  <2> DEFINE b == [r EXCEPT !.ftarget = x, !.scan_state = Fine, !.scan_data = <<>>]
  <2>1. /\ b \in Fields /\ b.initted = s.initted /\ b.fsmooth = s.fsmooth
        /\ b.scan_state = Fine /\ b.scan_data = <<>>
    BY <1>1, States, NoRecords DEF Fields
  <2> HIDE DEF b
  <2>2. Sweep(b)
    BY <2>1 DEF Sweep
  <2>3. t = Aimed(b)
    BY <1>4 DEF b
  <2> QED BY <2>1, <2>2, <2>3, AimedFields
<1>5. ASSUME NEW x \in Int, t = Aimed([r EXCEPT !.ftarget = x, !.scan_state = Settle])
      PROVE  /\ t \in Fields /\ t.initted = s.initted /\ t.fsmooth = s.fsmooth
             /\ t.scan_state = Settle /\ Sweep(t)
  <2> DEFINE b == [r EXCEPT !.ftarget = x, !.scan_state = Settle]
  <2>1. /\ b \in Fields /\ b.initted = s.initted /\ b.fsmooth = s.fsmooth
        /\ b.scan_state = Settle
    BY <1>1, States DEF Fields
  <2> HIDE DEF b
  <2>2. Sweep(b)
    BY <2>1, Distinct DEF Sweep
  <2>3. t = Aimed(b)
    BY <1>5 DEF b
  <2> QED BY <2>1, <2>2, <2>3, AimedFields
<1>6. ASSUME NEW x \in Int, t = Aimed([r EXCEPT !.ftarget = x])
      PROVE  /\ t \in Fields /\ t.initted = s.initted /\ t.fsmooth = s.fsmooth
             /\ t.scan_state = s.scan_state /\ Sweep(t)
  <2> DEFINE b == [r EXCEPT !.ftarget = x]
  <2>1. /\ b \in Fields /\ b.initted = s.initted /\ b.fsmooth = s.fsmooth
        /\ b.scan_state = s.scan_state /\ b.scan_data = r.scan_data
        /\ b.scan_max_index = r.scan_max_index
        /\ b.scan_max_contrast = r.scan_max_contrast
        /\ b.scan_min_contrast = r.scan_min_contrast
    BY <1>1 DEF Fields
  <2> HIDE DEF b
  <2>2. Sweep(b)
    BY <1>1, <2>1 DEF Sweep
  <2>3. t = Aimed(b)
    BY <1>6 DEF b
  <2> QED BY <2>1, <2>2, <2>3, AimedFields
<1> QED BY <1>3, <1>4, <1>5, <1>6, Distinct

\* Early termination leaves the sweep for a target anywhere.
LEMMA TerminationStep ==
  ASSUME NEW s \in Fields, NEW t \in EarlyTermination(s)
  PROVE  /\ t \in Fields /\ t.initted = s.initted /\ t.fsmooth = s.fsmooth
         /\ t.scan_state = Settle /\ Sweep(t)
<1> DEFINE last == s.scan_data[Len(s.scan_data)]
           count == IF mode = "Continuous" THEN 0 ELSE StepFrames
<1>1. /\ s.scan_data # <<>>
      /\ \E p \in -6 .. 7 :
           t = [s EXCEPT !.ftarget = s.ftarget + (p * (last.focus - s.ftarget)) \div 2,
                         !.scan_state = Settle, !.step_count = count]
  BY DEF EarlyTermination
<1>2. PICK p \in -6 .. 7 :
        t = [s EXCEPT !.ftarget = s.ftarget + (p * (last.focus - s.ftarget)) \div 2,
                      !.scan_state = Settle, !.step_count = count]
  BY <1>1
<1>3. s.scan_data \in Seq(Record) /\ s.ftarget \in Int
  BY DEF Fields
<1>4. last \in Record
  BY <1>1, <1>3
<1>5. last.focus \in Int
  BY <1>4 DEF Record
<1> DEFINE x == s.ftarget + (p * (last.focus - s.ftarget)) \div 2
<1>6. x \in Int
  <2> HIDE DEF last
  <2>1. p * (last.focus - s.ftarget) \in Int
    BY <1>3, <1>5
  <2> QED BY <1>3, <2>1
<1>7. count \in Nat
  BY Constants
<1> HIDE DEF x, count, last
<1>8. t = [s EXCEPT !.ftarget = x, !.scan_state = Settle, !.step_count = count]
  BY <1>2 DEF x
<1>9. /\ t \in Fields /\ t.initted = s.initted /\ t.fsmooth = s.fsmooth
      /\ t.scan_state = Settle
  BY <1>6, <1>7, <1>8, States DEF Fields
<1> QED BY <1>9, Distinct DEF Sweep

\* A scan that has settled stays where it is.
LEMMA SettledFields ==
  ASSUME NEW s \in Fields, NEW contrast \in Nat
  PROVE  LET t == Settled(s, contrast)
         IN  /\ t \in Fields /\ t.initted = s.initted /\ t.fsmooth = s.fsmooth
             /\ t.ftarget = s.ftarget /\ t.scan_state \in {Pdaf, Idle} /\ Sweep(t)
<1> DEFINE t == Settled(s, contrast)
<1>1. PICK report \in {"Focused", "Failed"}, state \in {Pdaf, Idle} :
        t = [s EXCEPT !.report_state = report, !.scan_state = state,
                      !.scan_data = <<>>]
  BY DEF Settled
<1> HIDE DEF t
<1>2. /\ t \in Fields /\ t.initted = s.initted /\ t.fsmooth = s.fsmooth
      /\ t.ftarget = s.ftarget /\ t.scan_state = state
  BY <1>1, States, NoRecords DEF Fields
<1> QED BY <1>2, Distinct DEF Sweep, t

\* A frame, between the start of a scan and its update of the lens.
LEMMA FrameStep ==
  ASSUME NEW s \in Fields, NEW contrast \in Nat, NEW phase \in Int, NEW conf \in Nat,
         s.initted, Sweep(s), NEW t \in DoAF(s, contrast, phase, conf)
  PROVE  /\ t \in Fields /\ t.initted /\ Sweep(t)
         /\ Inside(s) => Recoverable(t)
         /\ \/ t.fsmooth = s.fsmooth
            \/ /\ s.scan_state = Pdaf /\ t.scan_state = Coarse
               /\ Abs(t.fsmooth - s.fsmooth) <= MaxSlew
         /\ s.scan_state = Coarse /\ s.step_count > 0 =>
              t.scan_state = Coarse /\ t.fsmooth = s.fsmooth
<1>1. CASE t = s
  BY <1>1, States DEF Inside, Recoverable
<1>2. CASE s.skip_count > 0 /\ t = [s EXCEPT !.skip_count = @ - 1]
  <2>1. s.skip_count - 1 \in Nat
    BY <1>2 DEF Fields
  <2>2. /\ t \in Fields /\ t.initted /\ t.scan_state = s.scan_state
        /\ t.fsmooth = s.fsmooth /\ t.ftarget = s.ftarget
        /\ t.scan_data = s.scan_data /\ t.scan_max_index = s.scan_max_index
        /\ t.scan_max_contrast = s.scan_max_contrast
        /\ t.scan_min_contrast = s.scan_min_contrast
    BY <1>2, <2>1 DEF Fields
  <2> QED BY <2>2 DEF Sweep, Inside, Recoverable
<1>3. CASE s.scan_state = Pdaf /\ t = PhaseStep(s, phase)
  BY <1>3, PhaseStepRecoverable, Distinct DEF Sweep
<1>4. CASE /\ s.scan_state = Pdaf
           /\ t = StartProgrammedScan([s EXCEPT !.drop_count = @ + 1])
  <2> DEFINE b == [s EXCEPT !.drop_count = @ + 1]
  <2>1. s.drop_count + 1 \in Nat
    BY DEF Fields
  <2>2. b \in Fields /\ b.initted /\ b.fsmooth = s.fsmooth
    BY <2>1 DEF Fields
  <2> HIDE DEF b
  <2>3. t = StartProgrammedScan(b)
    BY <1>4 DEF b
  <2>4. /\ t \in Fields /\ t.initted /\ Sweep(t) /\ t.scan_state = Coarse
        /\ s.fsmooth \in LensRange => Inside(t)
        /\ Abs(t.fsmooth - s.fsmooth) <= MaxSlew
    BY <2>2, <2>3, ProgrammedScan
  <2> QED BY <1>4, <2>4, Distinct DEF Inside, Recoverable
<1>5. CASE /\ s.scan_state >= Coarse /\ s.step_count > 0
           /\ t = [s EXCEPT !.step_count = @ - 1]
  <2>1. s.step_count - 1 \in Nat
    BY <1>5 DEF Fields
  <2>2. /\ t \in Fields /\ t.initted /\ t.scan_state = s.scan_state
        /\ t.fsmooth = s.fsmooth /\ t.ftarget = s.ftarget
        /\ t.scan_data = s.scan_data /\ t.scan_max_index = s.scan_max_index
        /\ t.scan_max_contrast = s.scan_max_contrast
        /\ t.scan_min_contrast = s.scan_min_contrast
    BY <1>5, <2>1 DEF Fields
  <2> QED BY <2>2 DEF Sweep, Inside, Recoverable
<1>6. CASE s.scan_state = Settle /\ t = Settled(s, contrast)
  BY <1>6, SettledFields, Distinct DEF Inside, Recoverable
<1>7. CASE /\ s.scan_state \in {Coarse, Fine} /\ ~(s.step_count > 0)
           /\ t \in DoScan(s, contrast, conf) \cup EarlyTermination(s)
  <2>1. /\ t \in Fields /\ t.initted /\ t.fsmooth = s.fsmooth
        /\ t.scan_state \in {Coarse, Fine, Settle} /\ Sweep(t)
    BY <1>7, ScanStep, TerminationStep
  <2> QED BY <1>7, <2>1, States DEF Inside, Recoverable
<1>8. s.scan_state >= Coarse => s.scan_state \in {Coarse, Fine, Settle}
  BY DEF Fields, Coarse, Fine, Settle, Idle
<1> QED BY <1>1, <1>2, <1>3, <1>4, <1>5, <1>6, <1>7, <1>8 DEF DoAF

-----------------------------------------------------------------------------
(* The rank of a programmed scan. *)

\* The sweeps left, with the settling after them
Stage(s) == IF s.scan_state \in {Coarse, Fine, Settle} THEN Settle + 1 - s.scan_state ELSE 0

\* What is left of a sweep: the way to the far end, or records.
Ahead(s) == IF s.scan_state = Coarse THEN FocusMax - s.ftarget
            ELSE IF s.scan_state = Fine THEN 5 - Len(s.scan_data) ELSE 0

\* What the scan waits for before it goes on
Wait(s) == Abs(s.ftarget - s.fsmooth) + s.step_count + s.skip_count

Closer(t, s) ==
  \/ Stage(t) < Stage(s)
  \/ /\ Stage(t) = Stage(s)
     /\ \/ Ahead(t) < Ahead(s)
        \/ Ahead(t) = Ahead(s) /\ Wait(t) < Wait(s)

\* The rank is one of natural numbers, so that it cannot fall for ever.
Ranked(s) == Stage(s) \in Nat /\ Ahead(s) \in Nat /\ Wait(s) \in Nat

\* The fine sweep stops at the fifth record.
FewRecords(s) == s.scan_state = Fine => Len(s.scan_data) <= 4

\* A manual focuser does not scan, and a lens that is scanned with has its place.
ScanInv ==
  /\ mode = "Manual" => af.scan_state = Idle
  /\ af.scan_state >= Pdaf => af.initted
  /\ FewRecords(af)

\* While a programmed scan is on, a frame brings it nearer to its end, and no other step
\* touches it.
AdvanceStep ==
  af.scan_state >= Coarse =>
    Ranked(af) /\ IF beat' # beat THEN Closer(af', af) ELSE af' = af

LEMMA Numbers ==
  /\ Idle = 0 /\ Trigger = 1 /\ Pdaf = 2 /\ Coarse = 3 /\ Fine = 4 /\ Settle = 5
BY DEF Idle, Trigger, Pdaf, Coarse, Fine, Settle

\* The distance of two positions
LEMMA Distance ==
  ASSUME NEW a \in Int, NEW b \in Int
  PROVE  Abs(a - b) \in Nat /\ (Abs(a - b) = 0 <=> a = b)
BY DEF Abs

\* An update brings the lens nearer to a target in range.
LEMMA UpdateNears ==
  ASSUME NEW s \in Fields, Inside(s)
  PROVE  LET u == UpdateLensPosition(s)
         IN  /\ u.ftarget = s.ftarget
             /\ u.skip_count = s.skip_count /\ u.step_count = s.step_count
             /\ Abs(u.ftarget - u.fsmooth) <= Abs(s.ftarget - s.fsmooth)
             /\ s.ftarget # s.fsmooth =>
                  Abs(u.ftarget - u.fsmooth) < Abs(s.ftarget - s.fsmooth)
<1> DEFINE target == IF s.scan_state >= Pdaf THEN Clamp(s.ftarget, FocusMin, FocusMax)
                                             ELSE s.ftarget
           moved == Clamp(target, s.fsmooth - MaxSlew, s.fsmooth + MaxSlew)
           u == UpdateLensPosition(s)
<1>1. /\ s.ftarget \in Int /\ s.fsmooth \in Int /\ s.ftarget \in LensRange
      /\ s.skip_count \in Nat /\ s.step_count \in Nat
  BY DEF Inside, Fields
<1>2. target = s.ftarget
  BY <1>1, Constants, ClampBounds DEF LensRange
<1>3. u = [s EXCEPT !.ftarget = target, !.fsmooth = moved]
  BY DEF UpdateLensPosition, Fields, Inside
<1> HIDE DEF target, u
<1>4. /\ u.ftarget = s.ftarget /\ u.fsmooth = moved
      /\ u.skip_count = s.skip_count /\ u.step_count = s.step_count
  BY <1>2, <1>3 DEF Fields
<1>5. MaxSlew \in Nat /\ MaxSlew > 0
  BY SpeedAssumption DEF SpeedAssumption
<1>6. /\ Abs(s.ftarget - moved) <= Abs(s.ftarget - s.fsmooth)
      /\ s.ftarget # s.fsmooth => Abs(s.ftarget - moved) < Abs(s.ftarget - s.fsmooth)
  BY <1>1, <1>2, <1>5 DEF Clamp, Abs
<1> QED BY <1>4, <1>6 DEF u

\* A sweep goes a step on towards its end, or ends.
LEMMA SweepAdvances ==
  ASSUME NEW s \in Fields, NEW contrast \in Nat, NEW conf, Sweep(s),
         s.scan_state \in {Coarse, Fine}, NEW t \in DoScan(s, contrast, conf)
  PROVE  \/ s.scan_state = Coarse /\ t.scan_state = Fine /\ t.scan_data = <<>>
         \/ /\ s.scan_state = Coarse /\ t.scan_state = Coarse
            /\ s.ftarget < FocusMax /\ t.ftarget = s.ftarget + StepCoarse
         \/ s.scan_state = Fine /\ t.scan_state = Settle
         \/ /\ s.scan_state = Fine /\ t.scan_state = Fine
            /\ Len(t.scan_data) = Len(s.scan_data) + 1 /\ Len(t.scan_data) <= 4
<1> DEFINE r == Recorded(s, contrast, conf)
           peaks == FindPeak(r.scan_data, r.scan_max_index)
<1>1. /\ r \in Fields /\ r.ftarget = s.ftarget /\ r.scan_state = s.scan_state
  BY RecordJoins
<1>2. Len(r.scan_data) = Len(s.scan_data) + 1 /\ Len(r.scan_data) \in Nat
  <2> DEFINE record == [focus |-> s.ftarget, contrast |-> contrast, sure |-> conf >= ConfEpsilon]
  <2>1. r.scan_data = Append(s.scan_data, record)
    BY DEF Recorded, Fields
  <2>2. s.scan_data \in Seq(Record) /\ record \in Record
    BY DEF Fields, Record
  <2> HIDE DEF r, record
  <2> QED BY <2>1, <2>2
<1>3. \A b \in Fields : /\ Aimed(b).scan_state = b.scan_state /\ Aimed(b).scan_data = b.scan_data
                        /\ Aimed(b).ftarget = b.ftarget
  BY DEF Aimed, Fields
<1>4. r.ftarget \in Int /\ s.ftarget \in Int
  BY <1>1 DEF Fields
<1>5. peaks \subseteq Int
  <2>1. r.scan_data \in Seq(Record) /\ r.scan_max_index \in DOMAIN r.scan_data
    BY RecordJoins DEF Sweep, Fields
  <2> HIDE DEF r
  <2> QED BY <2>1, PeakIsPosition
<1>6. CASE s.scan_state = Coarse
  <2>1. CASE \E peak \in peaks :
               t = Aimed([r EXCEPT !.ftarget = IF peak + 2 * StepFine < @
                                               THEN peak + 2 * StepFine ELSE @,
                                   !.scan_state = Fine, !.scan_data = <<>>])
    <3> PICK peak \in peaks :
          t = Aimed([r EXCEPT !.ftarget = IF peak + 2 * StepFine < @
                                          THEN peak + 2 * StepFine ELSE @,
                              !.scan_state = Fine, !.scan_data = <<>>])
      BY <2>1
    <3> DEFINE x == IF peak + 2 * StepFine < r.ftarget THEN peak + 2 * StepFine ELSE r.ftarget
               b == [r EXCEPT !.ftarget = x, !.scan_state = Fine, !.scan_data = <<>>]
    <3>1. x \in Int
      BY <1>4, <1>5, Constants
    <3>2. t = Aimed(b)
      OBVIOUS
    <3> HIDE DEF x, r, peaks
    <3>3. b \in Fields /\ b.scan_state = Fine /\ b.scan_data = <<>>
      BY <1>1, <3>1, States, NoRecords DEF Fields
    <3> HIDE DEF b
    <3> QED BY <1>3, <1>6, <3>2, <3>3
  <2>2. CASE /\ t = Aimed([r EXCEPT !.ftarget = @ + StepCoarse])
             /\ ~ (r.ftarget >= FocusMax)
    <3> DEFINE b == [r EXCEPT !.ftarget = @ + StepCoarse]
    <3>1. r.ftarget + StepCoarse \in Int
      BY <1>4, Constants
    <3> HIDE DEF r
    <3>2. b \in Fields /\ b.scan_state = Coarse /\ b.ftarget = s.ftarget + StepCoarse
      BY <1>1, <1>6, <3>1 DEF Fields
    <3>3. t = Aimed(b)
      BY <2>2
    <3> HIDE DEF b
    <3> QED BY <1>1, <1>3, <1>4, <1>6, <2>2, <3>2, <3>3, Constants
  <2> QED BY <1>1, <1>6, <2>1, <2>2 DEF DoScan
<1>7. CASE s.scan_state = Fine
  <2>0. s.scan_state # Coarse
    BY <1>7, Numbers
  <2>1. CASE \E peak \in peaks : t = Aimed([r EXCEPT !.ftarget = peak, !.scan_state = Settle])
    <3> PICK peak \in peaks : t = Aimed([r EXCEPT !.ftarget = peak, !.scan_state = Settle])
      BY <2>1
    <3> DEFINE b == [r EXCEPT !.ftarget = peak, !.scan_state = Settle]
    <3>1. peak \in Int
      BY <1>5
    <3> HIDE DEF r, peaks
    <3>2. b \in Fields /\ b.scan_state = Settle
      BY <1>1, <3>1, States DEF Fields
    <3> HIDE DEF b
    <3>3. t = Aimed(b)
      BY DEF b
    <3> QED BY <1>3, <1>7, <3>2, <3>3
  <2>2. CASE /\ t = Aimed([r EXCEPT !.ftarget = @ - StepFine])
             /\ ~ (Len(r.scan_data) >= 5)
    <3> DEFINE b == [r EXCEPT !.ftarget = @ - StepFine]
    <3>1. r.ftarget - StepFine \in Int
      BY <1>4, Constants
    <3> HIDE DEF r
    <3>2. b \in Fields /\ b.scan_state = Fine /\ b.scan_data = r.scan_data
      BY <1>1, <1>7, <3>1 DEF Fields
    <3>3. t = Aimed(b)
      BY <2>2
    <3> HIDE DEF b
    <3> QED BY <1>2, <1>3, <1>7, <2>2, <3>2, <3>3
  <2> QED BY <1>1, <1>7, <2>0, <2>1, <2>2 DEF DoScan
<1> QED BY <1>6, <1>7

\* A frame keeps the bound of the records, and begins no scan.
LEMMA FrameKeeps ==
  ASSUME NEW s \in Fields, NEW contrast \in Nat, NEW phase \in Int, NEW conf \in Nat,
         s.initted, Sweep(s), FewRecords(s), NEW t \in DoAF(s, contrast, phase, conf)
  PROVE  FewRecords(t) /\ (s.scan_state = Idle => t.scan_state = Idle)
<1>0. s.scan_state \in Idle .. Settle
  BY DEF Fields
<1>1. CASE t = s
  BY <1>1
<1>2. CASE \/ s.skip_count > 0 /\ t = [s EXCEPT !.skip_count = @ - 1]
           \/ s.scan_state >= Coarse /\ t = [s EXCEPT !.step_count = @ - 1]
  <2>1. t.scan_state = s.scan_state /\ t.scan_data = s.scan_data
    BY <1>2 DEF Fields
  <2> QED BY <2>1 DEF FewRecords
<1>3. CASE s.scan_state = Pdaf /\ t = PhaseStep(s, phase)
  <2>1. t.scan_state \in {Pdaf, Idle}
    BY <1>3, PhaseStepRecoverable
  <2> QED BY <1>3, <2>1, Numbers DEF FewRecords
<1>4. CASE /\ s.scan_state = Pdaf
           /\ t = StartProgrammedScan([s EXCEPT !.drop_count = @ + 1])
  <2> DEFINE b == [s EXCEPT !.drop_count = @ + 1]
  <2>1. s.drop_count + 1 \in Nat
    BY DEF Fields
  <2>2. b \in Fields
    BY <2>1 DEF Fields
  <2> HIDE DEF b
  <2>3. t = StartProgrammedScan(b)
    BY <1>4 DEF b
  <2>4. t.scan_state = Coarse
    BY <2>2, <2>3, ProgrammedScan
  <2> QED BY <1>4, <2>4, Numbers DEF FewRecords
<1>5. CASE s.scan_state = Settle /\ t = Settled(s, contrast)
  <2>1. t.scan_state \in {Pdaf, Idle}
    BY <1>5, SettledFields
  <2> QED BY <1>5, <2>1, Numbers DEF FewRecords
<1>6. CASE s.scan_state \in {Coarse, Fine} /\ t \in DoScan(s, contrast, conf)
  <2>1. Len(<<>>) = 0
    OBVIOUS
  <2> QED BY <1>6, <2>1, SweepAdvances, Numbers DEF FewRecords
<1>7. CASE s.scan_state \in {Coarse, Fine} /\ t \in EarlyTermination(s)
  <2>1. t.scan_state = Settle
    BY <1>7, TerminationStep
  <2> QED BY <1>7, <2>1, Numbers DEF FewRecords
<1>8. s.scan_state >= Coarse => s.scan_state \in {Coarse, Fine, Settle}
  BY <1>0, Numbers
<1> QED BY <1>1, <1>2, <1>3, <1>4, <1>5, <1>6, <1>7, <1>8 DEF DoAF

\* The rank of a lens in range is one of natural numbers.
LEMMA IsRanked ==
  ASSUME NEW s \in Fields, Inside(s), FewRecords(s)
  PROVE  Ranked(s)
<1>1. /\ s.scan_state \in Int /\ s.ftarget \in Int /\ s.fsmooth \in Int /\ s.ftarget <= FocusMax
      /\ s.step_count \in Nat /\ s.skip_count \in Nat /\ s.scan_data \in Seq(Record)
  BY DEF Fields, Inside, LensRange, Idle, Settle
<1>2. Len(s.scan_data) \in Nat
  BY <1>1
<1>3. Wait(s) \in Nat
  <2>1. Abs(s.ftarget - s.fsmooth) \in Nat
    BY <1>1, Distance
  <2> QED BY <1>1, <2>1 DEF Wait
<1>4. Stage(s) \in Nat
  BY <1>1, Numbers DEF Stage
<1>5. Ahead(s) \in Nat
  BY <1>1, <1>2, Constants, Numbers DEF Ahead, FewRecords
<1> QED BY <1>3, <1>4, <1>5 DEF Ranked

\* Waiting: what the methods change is only how long.
LEMMA WaitFalls ==
  ASSUME NEW s \in Fields, Inside(s), NEW t \in Fields, Inside(t),
         t.scan_state = s.scan_state, t.scan_data = s.scan_data,
         t.ftarget = s.ftarget, t.fsmooth = s.fsmooth,
         t.skip_count + t.step_count <= s.skip_count + s.step_count,
         \/ t.skip_count + t.step_count < s.skip_count + s.step_count
         \/ s.ftarget # s.fsmooth
  PROVE  Closer(UpdateLensPosition(t), s)
<1> DEFINE u == UpdateLensPosition(t)
<1>1. /\ u \in Fields /\ u.scan_state = s.scan_state /\ u.scan_data = s.scan_data
      /\ u.ftarget = s.ftarget
      /\ u.skip_count = t.skip_count /\ u.step_count = t.step_count
      /\ Abs(u.ftarget - u.fsmooth) <= Abs(s.ftarget - s.fsmooth)
      /\ s.ftarget # s.fsmooth => Abs(u.ftarget - u.fsmooth) < Abs(s.ftarget - s.fsmooth)
  BY UpdateFields, UpdateNears
<1> HIDE DEF u
<1>2. Stage(u) = Stage(s) /\ Ahead(u) = Ahead(s)
  BY <1>1 DEF Stage, Ahead
<1>3. Wait(u) < Wait(s)
  <2> DEFINE a == Abs(u.ftarget - u.fsmooth)
             b == Abs(s.ftarget - s.fsmooth)
  <2>1. a \in Nat /\ b \in Nat
    BY <1>1, Distance DEF Fields
  <2>2. /\ t.skip_count \in Nat /\ t.step_count \in Nat
        /\ s.skip_count \in Nat /\ s.step_count \in Nat
    BY DEF Fields
  <2>3. a <= b /\ (s.ftarget # s.fsmooth => a < b)
    BY <1>1
  <2>4. Wait(u) = a + t.step_count + t.skip_count /\ Wait(s) = b + s.step_count + s.skip_count
    BY <1>1 DEF Wait
  <2> HIDE DEF a, b
  <2> QED BY <2>1, <2>2, <2>3, <2>4
<1> QED BY <1>2, <1>3 DEF Closer, u

\* A frame brings a programmed scan nearer to its end.
LEMMA FrameCloser ==
  ASSUME NEW s \in Fields, NEW contrast \in Nat, NEW phase \in Int, NEW conf \in Nat,
         Inside(s), Sweep(s), s.scan_state >= Coarse, FewRecords(s),
         NEW t \in DoAF(s, contrast, phase, conf)
  PROVE  Closer(UpdateLensPosition(t), s)
<1> DEFINE u == UpdateLensPosition(t)
<1>1. s.scan_state \in {Coarse, Fine, Settle} /\ s.scan_state # Pdaf
  BY Numbers DEF Fields
<1>2. t \in Fields /\ t.initted /\ Recoverable(t)
  BY FrameStep DEF Inside
<1>3. /\ u \in Fields /\ u.scan_state = t.scan_state /\ u.scan_data = t.scan_data
  BY <1>2, UpdateFields
<1>4. /\ s.skip_count \in Nat /\ s.step_count \in Nat
  BY DEF Fields
<1>5. CASE s.skip_count > 0
  <2>1. t = [s EXCEPT !.skip_count = @ - 1]
    BY <1>5 DEF DoAF
  <2>2. /\ t.scan_state = s.scan_state /\ t.scan_data = s.scan_data
        /\ t.ftarget = s.ftarget /\ t.fsmooth = s.fsmooth
        /\ t.skip_count = s.skip_count - 1 /\ t.step_count = s.step_count
    BY <2>1 DEF Fields
  <2>3. Inside(t)
    BY <1>2, <2>2 DEF Inside
  <2>4. t.skip_count + t.step_count < s.skip_count + s.step_count
    BY <1>4, <2>2
  <2> QED BY <1>2, <1>4, <2>2, <2>3, <2>4, WaitFalls
<1>6. CASE ~(s.skip_count > 0) /\ s.fsmooth # s.ftarget
  <2>1. t = s
    BY <1>1, <1>6 DEF DoAF
  <2> QED BY <1>4, <1>6, <2>1, WaitFalls
<1>7. CASE ~(s.skip_count > 0) /\ s.fsmooth = s.ftarget /\ s.step_count > 0
  <2>1. t = [s EXCEPT !.step_count = @ - 1]
    BY <1>1, <1>7 DEF DoAF
  <2>2. /\ t.scan_state = s.scan_state /\ t.scan_data = s.scan_data
        /\ t.ftarget = s.ftarget /\ t.fsmooth = s.fsmooth
        /\ t.skip_count = s.skip_count /\ t.step_count = s.step_count - 1
    BY <2>1 DEF Fields
  <2>3. Inside(t)
    BY <1>2, <2>2 DEF Inside
  <2>4. t.skip_count + t.step_count < s.skip_count + s.step_count
    BY <1>4, <2>2
  <2> QED BY <1>2, <1>4, <2>2, <2>3, <2>4, WaitFalls
<1>8. CASE s.scan_state = Settle /\ t = Settled(s, contrast)
  <2>1. t.scan_state \in {Pdaf, Idle}
    BY <1>8, SettledFields
  <2>2. Stage(u) = 0 /\ Stage(s) = 1
    BY <1>3, <1>8, <2>1, Numbers DEF Stage
  <2> QED BY <2>2 DEF Closer
<1>9. CASE s.scan_state \in {Coarse, Fine} /\ t \in EarlyTermination(s)
  <2>1. t.scan_state = Settle
    BY <1>9, TerminationStep
  <2>2. Stage(u) = 1 /\ Stage(s) > 1
    BY <1>3, <1>9, <2>1, Numbers DEF Stage
  <2> QED BY <2>2 DEF Closer
<1>10. CASE s.scan_state \in {Coarse, Fine} /\ t \in DoScan(s, contrast, conf)
  <2>1. CASE \/ s.scan_state = Coarse /\ t.scan_state = Fine
             \/ s.scan_state = Fine /\ t.scan_state = Settle
    <3>1. Stage(u) < Stage(s)
      BY <1>3, <2>1, Numbers DEF Stage
    <3> QED BY <3>1 DEF Closer
  <2>2. CASE /\ s.scan_state = Coarse /\ t.scan_state = Coarse
             /\ s.ftarget < FocusMax /\ t.ftarget = s.ftarget + StepCoarse
    <3>1. u.ftarget = Clamp(t.ftarget, FocusMin, FocusMax)
      BY <1>2, <2>2, States DEF UpdateLensPosition, Fields
    <3>2. StepCoarse \in Nat /\ StepCoarse > 0
      BY SpeedAssumption DEF SpeedAssumption
    <3>3. s.ftarget \in Int /\ FocusMin <= s.ftarget
      BY DEF Inside, LensRange
    <3>4. u.ftarget > s.ftarget /\ u.ftarget \in Int
      BY <2>2, <3>1, <3>2, <3>3, Constants DEF Clamp
    <3>5. Ahead(u) < Ahead(s) /\ Stage(u) = Stage(s)
      BY <1>3, <2>2, <3>3, <3>4, Constants DEF Ahead, Stage
    <3> QED BY <3>5 DEF Closer
  <2>3. CASE /\ s.scan_state = Fine /\ t.scan_state = Fine
             /\ Len(t.scan_data) = Len(s.scan_data) + 1
    <3>1. Len(s.scan_data) \in Nat
      BY DEF Fields
    <3>2. Ahead(u) < Ahead(s) /\ Stage(u) = Stage(s)
      BY <1>3, <2>3, <3>1, Numbers DEF Ahead, Stage
    <3> QED BY <3>2 DEF Closer
  <2> QED BY <1>10, <2>1, <2>2, <2>3, SweepAdvances
<1> QED BY <1>1, <1>4, <1>5, <1>6, <1>7, <1>8, <1>9, <1>10 DEF DoAF

-----------------------------------------------------------------------------
(* The invariant and the steps. *)

\* Only a manual focuser has a caller that places the lens.
CallersAreManual == mode # "Manual" => caller.at = "out"

LensInside == mode # "Manual" /\ af.initted => Inside(af)

IInv == TypeOK /\ Sweep(af) /\ LensInside /\ CallersAreManual

\* How far a step may move the lens, in MaxSlew
Moves == IF af'.scan_state = Coarse /\ af.scan_state # Coarse THEN 2 ELSE 1

\* What a step does to the place of a lens that has one
SlewStep == af.initted => af'.initted /\ Abs(af'.fsmooth - af.fsmooth) <= Moves * MaxSlew

\* Only set_focus_value takes the lens from its place.
LensFollows == mode # "Manual" /\ af.initted => lens = Setting(af.fsmooth)

\* What SlewLimit says of a step
LensStep ==
  af.initted /\ (mode = "Manual" => lens = Setting(af.fsmooth) /\ caller' = caller) =>
    Abs(lens' - lens) <= Moves * MapSlope * MaxSlew

LEMMA InitIInv == Init => IInv
<1> SUFFICES ASSUME Init PROVE IInv
  OBVIOUS
<1>1. TypeOK
  <2>1. af \in Fields
    <3> DEFINE state == IF mode = "Continuous" THEN Trigger ELSE Idle
    <3>1. state \in Idle .. Settle
      BY States
    <3>2. None \in Int
      BY DEF None
    <3> HIDE DEF state
    <3>3. af = [scan_state |-> state, initted |-> FALSE, ftarget |-> None,
                fsmooth |-> None, skip_count |-> 0, step_count |-> 0,
                drop_count |-> 0, scan_max_contrast |-> 0,
                scan_min_contrast |-> Unmeasured, scan_max_index |-> 0,
                scan_data |-> <<>>, report_state |-> "Idle"]
      BY DEF Init, state
    <3> QED BY <3>1, <3>2, <3>3, UnmeasuredNat, NoRecords DEF Fields
  <2>2. pdafFrames \in Nat /\ dropoutFrames \in Nat /\ 0 \in 0 .. MaxCalls
    BY SpeedAssumption DEF SpeedAssumption, Init
  <2>3. None \in Int
    BY DEF None
  <2> QED BY <2>1, <2>2, <2>3 DEF Init, TypeOK
<1>2. af.initted = FALSE /\ af.scan_data = <<>>
  BY DEF Init
<1> QED BY <1>1, <1>2 DEF Init, IInv, Sweep, LensInside, CallersAreManual

\* The slew of two moves in a row
LEMMA TwoMoves ==
  ASSUME NEW a \in Int, NEW b \in Int, NEW c \in Int,
         Abs(b - a) <= MaxSlew, Abs(c - b) <= MaxSlew
  PROVE  Abs(c - a) <= 2 * MaxSlew
  BY Constants DEF Abs

\* A frame: maybe the start of a scan, then a step of it, then the update.
LEMMA PrepareStep ==
  ASSUME IInv, NEW phase \in Phases, NEW conf \in Confidences, Prepare(phase, conf)
  PROVE  IInv' /\ SlewStep
<1> DEFINE b == IF af.scan_state = Trigger THEN StartAF(af) ELSE af
<1>1. /\ af \in Fields /\ pdafFrames \in Nat /\ prev_contrast \in Nat
      /\ phase \in Int /\ conf \in Nat
  BY StatsAssumption DEF StatsAssumption, IInv, TypeOK
<1>2. /\ b \in Fields /\ Sweep(b)
      /\ af.initted => b.initted
      /\ mode # "Manual" /\ b.initted => Inside(b)
  BY <1>1, ScanStarts DEF IInv, LensInside
<1>3. \/ b = af
      \/ /\ af.scan_state = Trigger /\ b.scan_state \in {Pdaf, Coarse}
         /\ b.scan_state = Coarse => b.step_count > 0
         /\ af.initted => Abs(b.fsmooth - af.fsmooth) <= MaxSlew
         /\ af.initted /\ b.scan_state = Pdaf => b.fsmooth = af.fsmooth
  BY <1>1, ScanStarts
<1>4. IF b.initted
      THEN \E done \in DoAF(b, prev_contrast, phase, conf) :
             af' = UpdateLensPosition(done)
      ELSE af' = b
  BY DEF Prepare
<1> HIDE DEF b
<1>5. CASE ~b.initted
  <2>1. af' = b /\ ~af.initted
    BY <1>2, <1>4, <1>5
  <2>2. af' \in Fields /\ Sweep(af') /\ ~af'.initted
    BY <1>2, <1>5, <2>1
  <2>3. SlewStep
    BY <2>1 DEF SlewStep
  <2>4. TypeOK'
    BY <2>2 DEF IInv, TypeOK, Prepare, configured, None
  <2> QED BY <2>2, <2>3, <2>4
       DEF IInv, LensInside, CallersAreManual, Prepare, configured, Sweep
<1>6. CASE b.initted
  <2>1. PICK done \in DoAF(b, prev_contrast, phase, conf) :
          af' = UpdateLensPosition(done)
    BY <1>4, <1>6
  <2>2. /\ done \in Fields /\ done.initted /\ Sweep(done)
        /\ Inside(b) => Recoverable(done)
        /\ \/ done.fsmooth = b.fsmooth
           \/ /\ b.scan_state = Pdaf /\ done.scan_state = Coarse
              /\ Abs(done.fsmooth - b.fsmooth) <= MaxSlew
        /\ b.scan_state = Coarse /\ b.step_count > 0 =>
             done.scan_state = Coarse /\ done.fsmooth = b.fsmooth
    BY <1>1, <1>2, <1>6, FrameStep
  <2>3. /\ af' \in Fields /\ af'.initted /\ af'.scan_state = done.scan_state
        /\ af'.scan_data = done.scan_data
        /\ af'.scan_max_index = done.scan_max_index
        /\ af'.scan_max_contrast = done.scan_max_contrast
        /\ af'.scan_min_contrast = done.scan_min_contrast
    BY <2>1, <2>2, UpdateFields
  <2>4. Sweep(af')
    BY <2>2, <2>3 DEF Sweep
  <2>5. mode # "Manual" => Inside(af')
    BY <1>2, <1>6, <2>1, <2>2, UpdateInside
  <2>6. TypeOK'
    <3>1. Setting(af'.fsmooth) \in Int
      BY <2>3, MapAssumption DEF MapAssumption, Setting, Fields
    <3> QED BY <2>3, <3>1 DEF IInv, TypeOK, Prepare, configured
  <2>7. SlewStep
    <3> SUFFICES ASSUME af.initted PROVE SlewStep
      BY DEF SlewStep
    <3>1. Abs(af'.fsmooth - done.fsmooth) <= MaxSlew
      BY <2>1, <2>2, UpdateSlew
    <3>2. /\ af.fsmooth \in Int /\ b.fsmooth \in Int /\ done.fsmooth \in Int
          /\ af'.fsmooth \in Int
      BY <1>1, <1>2, <2>2, <2>3 DEF Fields
    <3>3. CASE done.fsmooth = af.fsmooth
      BY <2>3, <3>1, <3>2, <3>3, Constants DEF SlewStep, Moves, Abs
    <3>4. CASE /\ Abs(done.fsmooth - af.fsmooth) <= MaxSlew
               /\ done.scan_state = Coarse /\ af.scan_state # Coarse
      <4>1. Abs(af'.fsmooth - af.fsmooth) <= 2 * MaxSlew
        BY <3>1, <3>2, <3>4, TwoMoves
      <4> QED BY <2>3, <3>4, <4>1 DEF SlewStep, Moves
    <3> QED BY <1>3, <2>2, <3>3, <3>4, Distinct
  <2> QED BY <2>4, <2>5, <2>6, <2>7
       DEF IInv, LensInside, CallersAreManual, Prepare, configured, Sweep
<1> QED BY <1>5, <1>6

\* A call of set_focus_value sets the target of a manual focuser, and then moves
\* the lens like a frame.
LEMMA CallStep ==
  ASSUME IInv,
         (\E value \in Values : SetFocusValue(value)) \/ UpdateOfCaller \/ CallbackOfCaller
  PROVE  IInv' /\ SlewStep
<1>1. ASSUME NEW value \in Values, SetFocusValue(value)
      PROVE  IInv' /\ SlewStep
  <2>1. Position(value) \in Int /\ value \in Int
    BY MapAssumption DEF MapAssumption, Position
  <2>2. af' = [af EXCEPT !.ftarget = Position(value)]
    BY <1>1 DEF SetFocusValue, AimedAt
  <2>3. /\ af' \in Fields /\ af'.fsmooth = af.fsmooth /\ af'.initted = af.initted
        /\ af'.scan_state = af.scan_state /\ af'.scan_data = af.scan_data
        /\ af'.scan_max_index = af.scan_max_index
        /\ af'.scan_max_contrast = af.scan_max_contrast
        /\ af'.scan_min_contrast = af.scan_min_contrast
    BY <2>1, <2>2 DEF IInv, TypeOK, Fields
  <2>4. calls' \in 0 .. MaxCalls
    BY <1>1, SpeedAssumption DEF SpeedAssumption, SetFocusValue, IInv, TypeOK
  <2>5. caller' \in [at : {"out", "update", "callback"}, value : Int]
    BY <1>1, <2>1 DEF SetFocusValue
  <2>6. TypeOK'
    BY <1>1, <2>1, <2>3, <2>4, <2>5 DEF IInv, TypeOK, SetFocusValue, configured
  <2>7. Sweep(af')
    BY <2>3 DEF IInv, Sweep
  <2>8. SlewStep
    <3>1. af.fsmooth \in Int
      BY DEF IInv, TypeOK, Fields
    <3> QED BY <2>3, <3>1, Constants DEF SlewStep, Moves, Abs
  <2> QED BY <1>1, <2>6, <2>7, <2>8
       DEF IInv, LensInside, CallersAreManual, SetFocusValue, configured, Sweep
<1>2. ASSUME UpdateOfCaller PROVE IInv' /\ SlewStep
  <2>1. af \in Fields /\ mode = "Manual"
    BY <1>2 DEF IInv, TypeOK, CallersAreManual, UpdateOfCaller
  <2>2. /\ af' \in Fields /\ af'.initted /\ af'.scan_state = af.scan_state
        /\ af'.scan_data = af.scan_data
        /\ af'.scan_max_index = af.scan_max_index
        /\ af'.scan_max_contrast = af.scan_max_contrast
        /\ af'.scan_min_contrast = af.scan_min_contrast
    BY <1>2, <2>1, UpdateFields DEF UpdateOfCaller
  <2>3. TypeOK'
    BY <1>2, <2>2 DEF IInv, TypeOK, UpdateOfCaller, configured
  <2>4. Sweep(af')
    BY <2>2 DEF IInv, Sweep
  <2>5. SlewStep
    <3> SUFFICES ASSUME af.initted PROVE SlewStep
      BY DEF SlewStep
    <3>1. Abs(af'.fsmooth - af.fsmooth) <= MaxSlew
      BY <1>2, <2>1, UpdateSlew DEF UpdateOfCaller
    <3> QED BY <2>2, <3>1, Constants DEF SlewStep, Moves
  <2> QED BY <1>2, <2>1, <2>3, <2>4, <2>5
       DEF IInv, LensInside, CallersAreManual, UpdateOfCaller, configured, Sweep
<1>3. ASSUME CallbackOfCaller PROVE IInv' /\ SlewStep
  <2>1. TypeOK'
    BY <1>3 DEF IInv, TypeOK, CallbackOfCaller, configured
  <2>2. SlewStep
    <3>1. af' = af /\ af.fsmooth \in Int
      BY <1>3 DEF CallbackOfCaller, IInv, TypeOK, Fields
    <3> QED BY <3>1, Constants DEF SlewStep, Moves, Abs
  <2> QED BY <1>3, <2>1, <2>2
       DEF IInv, LensInside, Inside, CallersAreManual, CallbackOfCaller, configured, Sweep
<1> QED BY <1>1, <1>2, <1>3

\* Contrast and triggers leave the lens alone.
LEMMA QuietStep ==
  ASSUME IInv, ProcessContrastMetadata \/ TriggerScan \/ UNCHANGED vars
  PROVE  IInv' /\ SlewStep
<1>1. af.fsmooth \in Int
  BY DEF IInv, TypeOK, Fields
<1>2. CASE ProcessContrastMetadata
  <2>1. TypeOK'
    BY <1>2, StatsAssumption
       DEF StatsAssumption, IInv, TypeOK, ProcessContrastMetadata, configured
  <2> QED BY <1>1, <1>2, <2>1, Constants
       DEF IInv, LensInside, Inside, CallersAreManual, ProcessContrastMetadata,
           configured, Sweep, SlewStep, Moves, Abs
<1>3. CASE TriggerScan
  <2>1. /\ af' \in Fields /\ af'.fsmooth = af.fsmooth /\ af'.ftarget = af.ftarget
        /\ af'.initted = af.initted /\ af'.scan_state = Trigger
    BY <1>3, States DEF TriggerScan, IInv, TypeOK, Fields
  <2>2. Sweep(af')
    BY <2>1, Distinct DEF Sweep
  <2>3. TypeOK'
    BY <1>3, <2>1 DEF IInv, TypeOK, TriggerScan, configured
  <2>4. SlewStep
    BY <1>1, <2>1, Constants DEF SlewStep, Moves, Abs
  <2> QED BY <1>3, <2>1, <2>2, <2>3, <2>4
       DEF IInv, LensInside, Inside, CallersAreManual, TriggerScan, configured, Sweep
<1>4. CASE UNCHANGED vars
  <2>1. TypeOK'
    BY <1>4 DEF IInv, TypeOK, vars, configured
  <2> QED BY <1>1, <1>4, <2>1, Constants
       DEF IInv, LensInside, Inside, CallersAreManual, vars, configured, Sweep,
           SlewStep, Moves, Abs
<1> QED BY <1>2, <1>3, <1>4

LEMMA NextIInv == IInv /\ [Next]_vars => IInv' /\ SlewStep
BY PrepareStep, CallStep, QuietStep DEF Next, Frame

\* The settings of two places are MapSlope times as far apart as they are.
LEMMA SettingsApart ==
  ASSUME NEW a \in Int, NEW b \in Int, NEW k \in {1, 2}, Abs(b - a) <= k * MaxSlew
  PROVE  Abs(Setting(b) - Setting(a)) <= k * MapSlope * MaxSlew
<1>1. MapY0 \in Nat /\ MapSlope \in Nat /\ MaxSlew \in Nat
  BY MapAssumption, Constants DEF MapAssumption
<1> DEFINE d == b - a
           m == k * MaxSlew
<1>2. d \in Int /\ m \in Nat /\ d <= m /\ -d <= m
  BY <1>1 DEF Abs
<1>3. Setting(b) - Setting(a) = MapSlope * d
  BY <1>1 DEF Setting
<1>4. k * MapSlope * MaxSlew = MapSlope * m
  BY <1>1
<1> HIDE DEF d, m
<1>5. MapSlope * d <= MapSlope * m /\ -(MapSlope * d) <= MapSlope * m
  BY <1>1, <1>2
<1> DEFINE p == MapSlope * d
           q == MapSlope * m
<1>6. p \in Int /\ q \in Int
  BY <1>1, <1>2
<1> HIDE DEF p, q
<1>7. Abs(p) <= q
  BY <1>5, <1>6 DEF Abs, p, q
<1> QED BY <1>3, <1>4, <1>7 DEF p, q

\* Each frame gives the device the setting of the place; what else gives it one is a
\* call of set_focus_value.
LEMMA LensMoves ==
  ASSUME IInv, LensFollows, [Next]_vars
  PROVE  LensFollows' /\ LensStep
<1>1. SlewStep /\ TypeOK /\ TypeOK' /\ CallersAreManual
  BY NextIInv DEF IInv
<1>2. Moves \in {1, 2} /\ lens \in Int
  BY <1>1 DEF Moves, TypeOK
<1>3. Moves * MapSlope * MaxSlew \in Nat
  <2>1. MapSlope \in Nat /\ MaxSlew \in Nat
    BY MapAssumption, Constants DEF MapAssumption
  <2> QED BY <1>2, <2>1
<1>4. CASE Frame
  <2>1. mode' = mode /\ lens' = IF af'.initted THEN Setting(af'.fsmooth) ELSE lens
    BY <1>4 DEF Frame, Prepare, configured
  <2>2. LensFollows'
    BY <2>1 DEF LensFollows
  <2>3. ASSUME af.initted, lens = Setting(af.fsmooth)
        PROVE  Abs(lens' - lens) <= Moves * MapSlope * MaxSlew
    <3>1. af.fsmooth \in Int /\ af'.fsmooth \in Int
      BY <1>1 DEF TypeOK, Fields
    <3>2. lens' = Setting(af'.fsmooth) /\ Abs(af'.fsmooth - af.fsmooth) <= Moves * MaxSlew
      BY <1>1, <2>1, <2>3 DEF SlewStep
    <3> QED BY <1>2, <2>3, <3>1, <3>2, SettingsApart
  <2> QED BY <2>2, <2>3 DEF LensStep, LensFollows
<1>5. CASE ProcessContrastMetadata \/ TriggerScan \/ UNCHANGED vars
  <2>1. /\ lens' = lens /\ mode' = mode
        /\ af'.initted = af.initted /\ af'.fsmooth = af.fsmooth
    BY <1>1, <1>5
       DEF ProcessContrastMetadata, TriggerScan, vars, configured, TypeOK, Fields
  <2> QED BY <1>2, <1>3, <2>1 DEF LensFollows, LensStep, Abs
<1>6. CASE (\E value \in Values : SetFocusValue(value)) \/ UpdateOfCaller \/ CallbackOfCaller
  <2>1. mode = "Manual" /\ mode' = mode /\ caller' # caller
    BY <1>1, <1>6 DEF CallersAreManual, SetFocusValue, UpdateOfCaller, CallbackOfCaller,
                      configured, TypeOK
  <2> QED BY <2>1 DEF LensFollows, LensStep
<1> QED BY <1>4, <1>5, <1>6 DEF Next

\* A frame keeps ScanInv, and a scan that is on it advances.
LEMMA ScanFrame ==
  ASSUME IInv, ScanInv, NEW phase \in Phases, NEW conf \in Confidences, Prepare(phase, conf)
  PROVE  ScanInv' /\ AdvanceStep
<1> DEFINE b == IF af.scan_state = Trigger THEN StartAF(af) ELSE af
<1>1. /\ af \in Fields /\ pdafFrames \in Nat /\ prev_contrast \in Nat
      /\ phase \in Int /\ conf \in Nat /\ beat \in BOOLEAN
  BY StatsAssumption DEF StatsAssumption, IInv, TypeOK
<1>2. /\ b \in Fields /\ Sweep(b) /\ (b.scan_state >= Pdaf => b.initted)
  BY <1>1, ScanStarts DEF IInv, ScanInv
<1>3. /\ FewRecords(b) /\ (af.scan_state = Idle => b.scan_state = Idle)
      /\ af.scan_state >= Coarse => b = af
  <2>1. CASE af.scan_state = Trigger
    <3>1. b.scan_state \in {Pdaf, Coarse}
      BY <1>1, <2>1, ScanStarts
    <3> HIDE DEF b
    <3> QED BY <2>1, <3>1, Numbers DEF FewRecords
  <2>2. CASE af.scan_state # Trigger
    BY <2>2 DEF ScanInv
  <2> QED BY <2>1, <2>2
<1>4. IF b.initted
      THEN \E done \in DoAF(b, prev_contrast, phase, conf) :
             af' = UpdateLensPosition(done)
      ELSE af' = b
  BY DEF Prepare
<1>5. mode' = mode /\ beat' # beat
  BY <1>1 DEF Prepare, configured
<1>6. af.scan_state >= Coarse => Inside(af) /\ Ranked(af)
  <2> SUFFICES ASSUME af.scan_state >= Coarse PROVE Inside(af) /\ Ranked(af)
    OBVIOUS
  <2>1. af.scan_state >= Pdaf /\ af.scan_state # Idle
    BY <1>1, Numbers DEF Fields
  <2>2. Inside(af)
    BY <2>1 DEF IInv, LensInside, ScanInv
  <2> QED BY <1>1, <2>2, IsRanked DEF ScanInv
<1> HIDE DEF b
<1>7. CASE ~b.initted
  <2>1. af' = b
    BY <1>4, <1>7
  <2>2. ~(af.scan_state >= Coarse)
    <3> SUFFICES ASSUME af.scan_state >= Coarse PROVE FALSE
      OBVIOUS
    <3>1. af.scan_state >= Pdaf
      BY <1>1, Numbers DEF Fields
    <3> QED BY <1>2, <1>3, <1>7, <3>1
  <2> QED BY <1>2, <1>3, <1>5, <2>1, <2>2 DEF ScanInv, AdvanceStep, FewRecords
<1>8. CASE b.initted
  <2>1. PICK done \in DoAF(b, prev_contrast, phase, conf) : af' = UpdateLensPosition(done)
    BY <1>4, <1>8
  <2>2. done \in Fields
    BY <1>1, <1>2, <1>8, <2>1, FrameStep
  <2>3. af'.initted /\ af'.scan_state = done.scan_state /\ af'.scan_data = done.scan_data
    BY <2>1, <2>2, UpdateFields
  <2>4. FewRecords(done) /\ (b.scan_state = Idle => done.scan_state = Idle)
    BY <1>1, <1>2, <1>3, <1>8, <2>1, FrameKeeps
  <2>5. ScanInv'
    BY <1>3, <1>5, <2>3, <2>4 DEF ScanInv, FewRecords
  <2>6. AdvanceStep
    <3> SUFFICES ASSUME af.scan_state >= Coarse PROVE Ranked(af) /\ Closer(af', af)
      BY <1>5 DEF AdvanceStep
    <3>1. b = af /\ Inside(af) /\ Ranked(af)
      BY <1>3, <1>6
    <3> QED BY <1>1, <1>2, <1>3, <2>1, <3>1, FrameCloser
  <2> QED BY <2>5, <2>6
<1> QED BY <1>7, <1>8

LEMMA NextScanInv == IInv /\ ScanInv /\ [Next]_vars => ScanInv' /\ AdvanceStep
<1> SUFFICES ASSUME IInv, ScanInv, [Next]_vars PROVE ScanInv' /\ AdvanceStep
  OBVIOUS
<1>1. af \in Fields
  BY DEF IInv, TypeOK
<1>2. af.scan_state >= Coarse => Ranked(af) /\ mode # "Manual" /\ af.scan_state # Idle
  <2> SUFFICES ASSUME af.scan_state >= Coarse
               PROVE  Ranked(af) /\ mode # "Manual" /\ af.scan_state # Idle
    OBVIOUS
  <2>1. af.scan_state >= Pdaf /\ af.scan_state # Idle
    BY <1>1, Numbers DEF Fields
  <2>2. Inside(af)
    BY <2>1 DEF IInv, LensInside, ScanInv
  <2> QED BY <1>1, <2>1, <2>2, IsRanked DEF ScanInv
<1>3. CASE Frame
  BY <1>3, ScanFrame DEF Frame
<1>4. CASE ProcessContrastMetadata \/ CallbackOfCaller \/ UNCHANGED vars
  <2>1. af' = af /\ mode' = mode /\ beat' = beat
    BY <1>4 DEF ProcessContrastMetadata, CallbackOfCaller, vars, configured
  <2> QED BY <1>2, <2>1 DEF ScanInv, AdvanceStep, FewRecords
<1>5. CASE TriggerScan
  <2>1. af.scan_state = Idle /\ mode' = mode /\ mode = "Auto"
    BY <1>5 DEF TriggerScan, configured
  <2>2. af'.scan_state = Trigger
    BY <1>1, <1>5 DEF TriggerScan, Fields
  <2> QED BY <1>2, <2>1, <2>2, Numbers DEF ScanInv, AdvanceStep, FewRecords
<1>6. CASE UpdateOfCaller \/ \E value \in Values : SetFocusValue(value)
  <2>1. mode = "Manual" /\ mode' = mode
    BY <1>6 DEF UpdateOfCaller, SetFocusValue, configured, IInv, CallersAreManual
  <2>2. af.scan_state = Idle
    BY <2>1 DEF ScanInv
  <2>3. af'.scan_state = Idle
    <3>1. CASE UpdateOfCaller
      BY <1>1, <2>2, <3>1, UpdateFields DEF UpdateOfCaller
    <3>2. CASE \E value \in Values : SetFocusValue(value)
      BY <1>1, <2>2, <3>2 DEF SetFocusValue, AimedAt, Fields
    <3> QED BY <1>6, <3>1, <3>2
  <2> QED BY <1>2, <2>1, <2>2, <2>3, Numbers DEF ScanInv, AdvanceStep, FewRecords
<1> QED BY <1>3, <1>4, <1>5, <1>6 DEF Next

-----------------------------------------------------------------------------
(* The theorems. *)

\* Every field of the focuser keeps its type (the fields of AutoFocuserBase).
THEOREM TypeCorrect == Spec => []TypeOK
<1>1. IInv => TypeOK
  BY DEF IInv
<1> QED BY <1>1, InitIInv, NextIInv, PTL DEF Spec

\* While a sweep collects records, __find_peak is given the index of the sharpest of
\* them, though the lists of two sweeps share the index.
THEOREM PeakIsOfTheSweep == Spec => []PeakIsSharpest
<1>1. IInv => PeakIsSharpest
  BY DEF IInv, Sweep, PeakIsSharpest
<1> QED BY <1>1, InitIInv, NextIInv, PTL DEF Spec

\* The lens of a focuser that scans is never sent out of its range.
THEOREM LensStaysInRange == Spec => []LensInRange
<1>1. IInv => LensInRange
  BY DEF IInv, LensInside, Inside, LensRange, LensInRange
<1> QED BY <1>1, InitIInv, NextIInv, PTL DEF Spec

\* A frame gives the lens a setting at most MaxSlew, in the settings' scale, from the
\* one it has, the frame that starts a programmed scan one twice as far at most: always
\* in auto and continuous mode, in manual mode when no value that set_focus_value gave
\* the device lies between (__prepare, __update_lens_position, set_focus_value).
THEOREM SlewIsLimited == Spec => SlewLimit
<1>1. Init => LensFollows
  BY DEF Init, LensFollows
<1>2. IInv /\ LensFollows /\ [Next]_vars => LensFollows' /\ [LensStep]_vars
  BY LensMoves
<1>3. SlewLimit <=> [][LensStep]_vars
  BY DEF SlewLimit, LensStep, Moves
<1> QED BY <1>1, <1>2, <1>3, InitIInv, NextIInv, PTL DEF Spec

\* A programmed scan cannot go on for ever, whatever the statistics say: every frame
\* lowers a rank of natural numbers, the sweeps left, then the way or the records left of
\* the sweep, then what the lens waits for; and nothing but a frame touches the scan.
\* With frames that keep coming it therefore ends, as ScansEnd says.
THEOREM ScansAdvance == Spec => [][AdvanceStep]_vars
<1>1. Init => ScanInv
  <2> SUFFICES ASSUME Init PROVE ScanInv
    OBVIOUS
  <2>1. af.scan_state = IF mode = "Continuous" THEN Trigger ELSE Idle
    BY DEF Init
  <2>2. mode = "Manual" => mode # "Continuous"
    OBVIOUS
  <2> QED BY <2>1, <2>2, Numbers DEF ScanInv, FewRecords
<1>2. IInv /\ ScanInv /\ [Next]_vars => [AdvanceStep]_vars
  BY NextScanInv
<1> QED BY <1>1, <1>2, InitIInv, NextIInv, NextScanInv, PTL DEF Spec
=============================================================================
