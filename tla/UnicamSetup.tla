---------------------------- MODULE UnicamSetup ----------------------------
(***************************************************************************)
(* How UnicamIspCapture of actfw_core sets up the sensor and the ISP       *)
(* (unicam_isp_capture.py): the mode of the sensor and the part of it that *)
(* becomes the frame, the flips and the pattern of the colour filters that *)
(* they leave, the blanking, the exposure and the gain.                    *)
(*                                                                         *)
(* What is asked of a capture is a record                                  *)
(*   [sensor, w, h, unicam, crop, fps, vflip, hflip, agc, shutter, gain]   *)
(* where unicam and crop are << >> for None, shutter and gain are those the*)
(* AGC begins with, and a camera is one                                    *)
(*   [controls, hblank, rate, obeys, vblank, exposure, gain, clamps]       *)
(* with the rate of pixels in 100 kHz, the set of the devices that take the*)
(* format and the black level they are given, and what the sensor has: the *)
(* least and the most of its blanking and of its gain, the least exposure  *)
(* and the lines an exposure leaves of a frame, and whether its driver     *)
(* clamps a value that is out of range or refuses it.                      *)
(***************************************************************************)
EXTENDS Rational, Sequences, VideoControls

Mode(w, h, scale, x, y) == [w |-> w, h |-> h, scale |-> scale, x |-> x, y |-> y]

SensorSize ==
  [ov5647 |-> <<2592, 1944>>, imx219 |-> <<3280, 2464>>, imx708 |-> <<4608, 2592>>]

V1Modes == <<Mode(2592, 1944, 1, 0, 0), Mode(1920, 1080, 1, 336, 432),
             Mode(1296, 972, 2, 0, 0), Mode(640, 480, 4, 0, 0)>>
V2Modes == <<Mode(3280, 2464, 1, 0, 0), Mode(1920, 1080, 1, 680, 692),
             Mode(1640, 1232, 2, 0, 0), Mode(640, 480, 2, 1000, 752)>>
V3Modes == <<Mode(4608, 2592, 1, 0, 0), Mode(2304, 1296, 2, 0, 0),
             Mode(1536, 864, 2, 768, 432)>>

\* round of Python: a half goes to the even neighbour.
Rounded(q) ==
  LET n == Floor(q)
      rest == Sub(q, Int2Q(n)) IN
    IF Less(rest, <<1, 2>>) \/ (rest = <<1, 2>> /\ n % 2 = 0) THEN n ELSE n + 1

Rect(left, top, w, h) == [left |-> left, top |-> top, w |-> w, h |-> h]

\* The greatest part of the mode, in its middle, that has the shape of the frame.
CalcCropSize(w, h, mode) ==
  LET scale == MinQ(Q(mode.h, h), Q(mode.w, w))
      cw == Rounded(Mul(Int2Q(w), scale))
      ch == Rounded(Mul(Int2Q(h), scale)) IN
    Rect((mode.w - cw) \div 2, (mode.h - ch) \div 2, cw, ch)

Chosen(mode, crop) == [how |-> "chosen", mode |-> mode, crop |-> crop]
Raised == [how |-> "raised"]

WholeMode(w, h, mode) == Chosen(mode, CalcCropSize(w, h, mode))

\* w / h is 16 / 9 up to 0.05.
IsWide(w, h) == Less(Q(Abs(9 * w - 16 * h), 9 * h), <<1, 20>>)

AutoSizeImx708(w, h, fps) ==
  WholeMode(w, h, IF w <= 1920 /\ h <= 1080
                  THEN IF fps <= 50 THEN V3Modes[2] ELSE V3Modes[3]
                  ELSE V3Modes[1])

AutoSizeImx219(w, h, fps) ==
  IF w <= 1280 /\ h <= 720
  THEN IF fps <= 40 THEN WholeMode(w, h, V2Modes[3])
       ELSE IF IsWide(w, h) THEN Chosen(V2Modes[3], Rect(180, 256, 1280, 720))
       ELSE WholeMode(w, h, V2Modes[4])
  ELSE WholeMode(w, h, V2Modes[1])

\* The sizes the caller gives are looked up in the modes of the imx219, whatever the
\* sensor is; both or neither must be given.
SelectSize(want) ==
  LET known == {i \in DOMAIN V2Modes : <<V2Modes[i].w, V2Modes[i].h>> = want.unicam} IN
    CASE want.unicam # << >> /\ want.crop # << >> ->
           IF known = {} THEN Raised ELSE Chosen(V2Modes[CHOOSE i \in known : TRUE], want.crop[1])
      [] want.unicam = << >> /\ want.crop = << >> ->
           CASE want.sensor = "imx219" -> AutoSizeImx219(want.w, want.h, want.fps)
             [] want.sensor = "imx708" -> AutoSizeImx708(want.w, want.h, want.fps)
             [] OTHER -> WholeMode(want.w, want.h, V1Modes[1])
      [] OTHER -> Raised

\* The imx sensors are flipped unless they are told not to be.
Imx(sensor) == sensor \in {"imx219", "imx708"}

\* The second flip is not tried when the first one fails.
SetFlips(sensor, device, vflip, hflip) ==
  LET v == SetVerticalFlip(device, IF Imx(sensor) THEN ~ vflip ELSE vflip) IN
    IF ~ v.ok THEN v ELSE SetHorizontalFlip(v.device, IF Imx(sensor) THEN ~ hflip ELSE hflip)

BusFormat(sensor, vflip, hflip) ==
  CASE vflip /\ hflip -> IF Imx(sensor) THEN "RGGB" ELSE "GRBG"
    [] vflip /\ ~ hflip -> IF Imx(sensor) THEN "GRBG" ELSE "RGGB"
    [] ~ vflip /\ hflip -> IF Imx(sensor) THEN "GBRG" ELSE "BGGR"
    [] OTHER -> IF Imx(sensor) THEN "BGGR" ELSE "GBRG"

\* The lines that make a frame last as long as asked, without those of the picture.
SetUnicamFps(mode, camera, fps) ==
  ((camera.rate * 100000) \div fps) \div (mode.w + camera.hblank) - mode.h

GainCode(sensor, gain) ==
  Floor(CASE sensor = "imx219" -> Sub(Int2Q(256), Over(Int2Q(256), gain))
          [] sensor = "imx708" -> Sub(Int2Q(1024), Over(Int2Q(1024), gain))
          [] sensor = "ov5647" -> Mul(Int2Q(16), gain))

\* In lines; the shutter time is in microseconds.
ExposureCode(mode, camera, shutter) ==
  (shutter * camera.rate) \div (10 * (mode.w + camera.hblank))

\* A frame of so many lines has room for a shorter exposure.
ExposureRange(camera, lines) == <<camera.exposure[1], lines - camera.exposure[2]>>

\* What the sensor makes of a value.  A refusal raises; that it holds another one than
\* it was given is in the answer, which nobody reads.
SetExtControl(camera, range, value) ==
  LET held == IF value < range[1] THEN range[1]
              ELSE IF value > range[2] THEN range[2] ELSE value IN
    [ok |-> camera.clamps \/ held = value, value |-> held]

\* Each device must take the format it is given as it is.
SetupPipeline(want, camera) ==
  LET size == SelectSize(want)
      flips == SetFlips(want.sensor, camera.controls, want.vflip, want.hflip)
      vblank == SetExtControl(camera, camera.vblank, SetUnicamFps(size.mode, camera, want.fps))
      lines == size.mode.h + vblank.value
      exposure == SetExtControl(camera, ExposureRange(camera, lines),
                                ExposureCode(size.mode, camera, want.shutter))
      gain == SetExtControl(camera, camera.gain, GainCode(want.sensor, want.gain)) IN
    IF \/ size = Raised \/ ~ flips.ok
       \/ camera.obeys # {"unicam_subdev", "unicam", "isp_in"}
       \/ ~ vblank.ok \/ (want.agc /\ ~ (exposure.ok /\ gain.ok))
    THEN Raised
    ELSE [how |-> "ready",
          mode |-> size.mode,
          crop |-> size.crop,
          controls |-> flips.device,
          bus |-> BusFormat(want.sensor, want.vflip, want.hflip),
          lines |-> lines,
          light |-> IF want.agc THEN <<exposure.value, gain.value>> ELSE << >>]

\* A focus window <<x1, y1, x2, y2>> of the application, on the sensor
\* (set_focus_windows).
SetFocusWindow(mode, crop, bbox) ==
  Rect((bbox[1] + crop.left) * mode.scale + mode.x, (bbox[2] + crop.top) * mode.scale + mode.y,
       (bbox[3] - bbox[1]) * mode.scale, (bbox[4] - bbox[2]) * mode.scale)

-----------------------------------------------------------------------------
(* Properties *)

\* The colour filters of a sensor, as it reads them out unflipped, and what a flip
\* makes of two rows of two.
Native(sensor) == IF Imx(sensor) THEN "RGGB" ELSE "GBRG"

Upside == [RGGB |-> "GBRG", GBRG |-> "RGGB", BGGR |-> "GRBG", GRBG |-> "BGGR"]
Mirror == [RGGB |-> "GRBG", GRBG |-> "RGGB", BGGR |-> "GBRG", GBRG |-> "BGGR"]

Seen(sensor, v, h) ==
  LET once == IF v THEN Upside[Native(sensor)] ELSE Native(sensor) IN
    IF h THEN Mirror[once] ELSE once

\* The gain that a code makes.
GainOf(sensor, code) ==
  CASE sensor = "imx219" -> Q(256, 256 - code)
    [] sensor = "imx708" -> Q(1024, 1024 - code)
    [] sensor = "ov5647" -> Q(code, 16)

\* How long n lines take, in pixels.
Lines(n, mode, camera) == n * (mode.w + camera.hblank)

\* Of the settings n in a range, those that fit what was asked being the lower ones: n
\* is the last that fits.  If none does, or all do, it is the one at that end of the
\* range, on a sensor whose driver clamps.
Nearest(n, range, fits, next, clamps) ==
  /\ n \in range[1] .. range[2]
  /\ fits \/ (clamps /\ n = range[1])
  /\ ~ next \/ (clamps /\ n = range[2])

\* A pipeline that was set up reads the colours in the order in which the sensor
\* sends them with the flips it has; the part it takes of the mode lies inside and
\* in the middle, as large as the mode lets it be, and has the shape of the frame
\* (__setup_pipeline and what it calls).
\*
\* The frames are of the fewest lines that make them no faster than asked - if the
\* sensor can.  The mode is chosen without a look at its rate, so the blanking that is
\* computed may be negative (`TODO: check supported vblank range', line 456): a driver
\* that refuses it ends the set-up, one that clamps it leaves the fastest frames of the
\* mode, slower than asked, and the capture does not learn of it.  The same holds of
\* the gain and of the exposure, which has to end within the frame the sensor has, not
\* the one that was asked for.
SensorSetUp(want, camera, out) ==
  out.how = "ready" =>
    LET c == out.crop
        m == out.mode
        adjusts == \E id \in {"VFLIP", "HFLIP"} : camera.controls[id].kind = "adjusts"
        auto == want.unicam = << >>
        fixed == /\ auto /\ want.sensor = "imx219" /\ want.fps > 40
                 /\ want.w <= 1280 /\ want.h <= 720 /\ IsWide(want.w, want.h) IN
      /\ adjusts \/ out.bus = Seen(want.sensor, out.controls["VFLIP"].value, out.controls["HFLIP"].value)
      /\ auto =>
           /\ 0 <= c.left /\ c.left + c.w <= m.w /\ m.w - (2 * c.left + c.w) \in {0, 1}
           /\ 0 <= c.top /\ c.top + c.h <= m.h /\ m.h - (2 * c.top + c.h) \in {0, 1}
           /\ fixed \/ c.w = m.w \/ c.h = m.h
           /\ IF fixed THEN IsWide(c.w, c.h)
                       ELSE 2 * Abs(c.w * want.h - c.h * want.w) <= want.w + want.h
      /\ LET n == out.lines
             asked == (camera.rate * 100000) \div want.fps IN
           Nearest(n, <<m.h + camera.vblank[1], m.h + camera.vblank[2]>>,
                   Lines(n, m, camera) <= asked, Lines(n + 1, m, camera) <= asked, camera.clamps)
      /\ want.agc =>
           LET e == out.light[1]
               g == out.light[2]
               asked == want.shutter * camera.rate IN
             /\ Nearest(e, ExposureRange(camera, out.lines), 10 * Lines(e, m, camera) <= asked,
                        10 * Lines(e + 1, m, camera) <= asked, camera.clamps)
             /\ Nearest(g, camera.gain, AtMost(GainOf(want.sensor, g), want.gain),
                        AtMost(GainOf(want.sensor, g + 1), want.gain), camera.clamps)

\* A window over the whole captured image is all that the image shows of the sensor
\* (set_focus_windows: the boxes are `defined in capture image coordinate system').
WholeImageWhole(want, camera, out) ==
  out.how = "ready" =>
    LET r == SetFocusWindow(out.mode, out.crop, <<0, 0, want.w, want.h>>) IN
      r.w = out.crop.w * out.mode.scale /\ r.h = out.crop.h * out.mode.scale
=============================================================================
