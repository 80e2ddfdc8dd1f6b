---------------------------- MODULE FormatLookup ----------------------------
(***************************************************************************)
(* How V4LCameraCapture of actfw_core chooses what it captures             *)
(* (capture.py): Video.query_capability and lookup_config (v4l2/video.py)  *)
(* list what the camera can do, and the constructor takes one of it.       *)
(*                                                                         *)
(* A camera is a sequence of formats [pixels, sizes], a size one of        *)
(*   [type |-> "discrete", w, h, ivals]                                    *)
(*   [type |-> "continuous" or "stepwise", min, max, step, ivals]          *)
(* where min, max and step are <<width, height>>, and an interval one of   *)
(*   [type |-> "discrete", rate]                                           *)
(*   [type |-> "continuous" or "stepwise", min, max]                       *)
(* with frame rates where the driver has their reciprocals.                *)
(*                                                                         *)
(* A definition that stands before another one and is named after it and a *)
(* slip is a mistake the code could contain.  It is no part of the         *)
(* specification.                                                          *)
(***************************************************************************)
EXTENDS Integers, Sequences, SequencesExt

\* query_capability: the port of a driver; any other one raises.
Csi == {"bm2835 mmal", "unicam", "rp1-cfe"}
QueryCapability(driver) ==
  IF driver \in Csi THEN "CSI" ELSE IF driver = "uvcvideo" THEN "USB" ELSE "unknown"

\* The constructor refuses a CSI camera on a firmware that has a capture of its own
\* for it; "unset" is EnvironmentVariableNotSet.
Refused(driver, firmware) ==
  \/ QueryCapability(driver) = "unknown"
  \/ QueryCapability(driver) = "CSI" /\ firmware \in {"raspberrypi-bullseye", "raspberrypi-bookworm"}

\* The workaround for the driver of CSI cameras: whole blocks of 32 x 16.
UpTo(n, block) == ((n + block - 1) \div block) * block
Aligned(driver, w, h) ==
  IF QueryCapability(driver) = "CSI" THEN <<UpTo(w, 32), UpTo(h, 16)>> ELSE <<w, h>>

\* The next size of the grid that starts at min; the last one before, if not `up'.
RoundUp(n, min, step, up) ==
  ((n - min + IF up THEN step - 1 ELSE 0) \div step) * step + min

\* An entry that lookup_config takes for a request, and the size it takes of it.
Fits(size, w, h) ==
  IF size.type = "discrete" THEN w <= size.w /\ h <= size.h
  ELSE size.min[1] <= w /\ w <= size.max[1] /\ size.min[2] <= h /\ h <= size.max[2]

FitSizeOf(size, w, h, up) ==
  CASE size.type = "discrete" -> <<size.w, size.h>>
    [] size.type = "continuous" -> <<w, h>>
    [] size.type = "stepwise" ->
         <<RoundUp(w, size.min[1], size.step[1], up), RoundUp(h, size.min[2], size.step[2], up)>>

\* The slip: down to the grid.
FitSizeDown(size, w, h) == FitSizeOf(size, w, h, FALSE)

FitSize(size, w, h) == FitSizeOf(size, w, h, TRUE)

\* The intervals it takes, and the rate, 0 for a walk without an end.  The walk over a
\* stepwise interval never increments its s: it stays at the lowest rate.
Lasts(ival, rate) ==
  IF ival.type = "discrete" THEN rate <= ival.rate ELSE ival.min <= rate /\ rate <= ival.max

FitInterval(ival, rate) ==
  CASE ival.type = "discrete" -> ival.rate
    [] ival.type = "continuous" -> rate
    [] ival.type = "stepwise" -> IF rate <= ival.min THEN ival.min ELSE 0

Config(pixels, wh, rate) == [pixels |-> pixels, w |-> wh[1], h |-> wh[2], rate |-> rate]

\* The places of a camera, each the positions of a format, a size and an interval, that
\* meet a request.
Size(camera, at) == camera[at[1]].sizes[at[2]]
Interval(camera, at) == Size(camera, at).ivals[at[3]]

Places(camera) ==
  UNION {UNION {{<<i, k, m>> : m \in DOMAIN camera[i].sizes[k].ivals} :
                  k \in DOMAIN camera[i].sizes} : i \in DOMAIN camera}

Candidates(camera, w, h, rate, pixels) ==
  {at \in Places(camera) :
     /\ camera[at[1]].pixels = pixels
     /\ Fits(Size(camera, at), w, h)
     /\ Lasts(Interval(camera, at), rate)}

\* lookup_config: the configurations in `pixels' that libv4lconvert can turn into the
\* expected format, each at its place.  It is asked after the walk over the rates: one
\* without an end is there whether or not the format converts.
LookupConfig(camera, w, h, rate, pixels, expected, converts) ==
  [at \in {place \in Candidates(camera, w, h, rate, pixels) :
             \/ pixels = expected \/ converts
             \/ FitInterval(Interval(camera, place), rate) = 0} |->
     Config(pixels, FitSize(Size(camera, at), w, h), FitInterval(Interval(camera, at), rate))]

None(configs) == DOMAIN configs = {}
Endless(configs) == \E at \in DOMAIN configs : configs[at].rate = 0

\* The order of tuples: of the places, as the driver lists them, and of the keys (area,
\* height, width, rate).
Before(s, t) == \E i \in DOMAIN s : s[i] < t[i] /\ \A j \in 1 .. i - 1 : s[j] = t[j]
Key(c) == <<c.w * c.h, c.h, c.w, c.rate>>

NoConfig == Config("none", <<0, 0>>, 1)

Selectors == {"DEFAULT", "PROPER", "MAXIMUM"}

\* The first of the list, or the first or the last one when it is sorted by the keys.
Select(selector, configs) ==
  configs[CHOOSE at \in DOMAIN configs : \A other \in DOMAIN configs :
            CASE selector = "DEFAULT" -> ~ Before(other, at)
              [] selector = "PROPER" -> ~ Before(Key(configs[other]), Key(configs[at]))
              [] selector = "MAXIMUM" -> ~ Before(Key(configs[at]), Key(configs[other]))]

\* set_format: the size the frames get.  When the converter cannot make the expected
\* size of it, they have the camera's.
SetFormat(config, w, h, selector, scales) ==
  IF selector # "MAXIMUM" /\ scales THEN <<w, h>> ELSE <<config.w, config.h>>

Outcome(how, config, size) == [how |-> how, config |-> config, size |-> size]
Raises == Outcome("raises", NoConfig, <<0, 0>>)
Loops == Outcome("endless", NoConfig, <<0, 0>>)

\* The expected format, then the fallbacks: the first one with candidates.
ChooseConfig(camera, want) ==
  LET rate == IF want.selector = "MAXIMUM" THEN 1 ELSE want.rate
      wh == Aligned(want.driver, want.w, want.h)
      fmts == <<want.expected>> \o want.fallbacks
      lists == [i \in DOMAIN fmts |->
                  LookupConfig(camera, wh[1], wh[2], rate, fmts[i], want.expected, want.converts)]
      found == {i \in DOMAIN fmts : ~ None(lists[i])} IN
    IF found = {} THEN Raises
    ELSE LET list == lists[CHOOSE i \in found : \A j \in found : i <= j]
             config == Select(want.selector, list) IN
      IF Endless(list) THEN Loops
      ELSE Outcome("made", config, SetFormat(config, wh[1], wh[2], want.selector, want.scales))

\* The constructor.  For a CSI camera it first sets a small format, the first the
\* camera offers, which must be there.
Construct(camera, want) ==
  LET small == LookupConfig(camera, 64, 64, 5, "RGB24", "RGB24", TRUE) IN
    IF Refused(want.driver, want.firmware) THEN Raises
    ELSE IF QueryCapability(want.driver) = "CSI" /\ (None(small) \/ Endless(small))
         THEN IF None(small) THEN Raises ELSE Loops
    ELSE ChooseConfig(camera, want)

-----------------------------------------------------------------------------
(* What a camera can do, for a reader of V4L2 *)

OnGrid(size, w, h) ==
  \/ size.type = "discrete" /\ w = size.w /\ h = size.h
  \/ /\ size.type # "discrete"
     /\ size.min[1] <= w /\ w <= size.max[1] /\ size.min[2] <= h /\ h <= size.max[2]
     /\ size.type = "stepwise" =>
          (w - size.min[1]) % size.step[1] = 0 /\ (h - size.min[2]) % size.step[2] = 0

AtRate(ival, rate) ==
  \/ ival.type = "discrete" /\ rate = ival.rate
  \/ ival.type # "discrete" /\ ival.min <= rate /\ rate <= ival.max

\* The camera can capture as a configuration says.
Offers(camera, c) ==
  \E i \in DOMAIN camera : \E k \in DOMAIN camera[i].sizes :
    LET size == camera[i].sizes[k] IN
      /\ camera[i].pixels = c.pixels
      /\ OnGrid(size, c.w, c.h)
      /\ \E m \in DOMAIN size.ivals : AtRate(size.ivals[m], c.rate)

Meets(c, w, h, rate) == w <= c.w /\ h <= c.h /\ rate <= c.rate

\* Its discrete modes.
Modes(camera) ==
  UNION {UNION {{Config(f.pixels, <<s.w, s.h>>, v.rate) :
                   v \in {u \in ToSet(s.ivals) : u.type = "discrete"}} :
                  s \in {z \in ToSet(f.sizes) : z.type = "discrete"}} :
           f \in ToSet(camera)}

-----------------------------------------------------------------------------
(* Properties *)

\* The modes of a camera that a request may get.
Fitting(camera, want) ==
  LET wh == Aligned(want.driver, want.w, want.h) IN
    {c \in Modes(camera) :
       /\ Meets(c, wh[1], wh[2], IF want.selector = "MAXIMUM" THEN 1 ELSE want.rate)
       /\ (c.pixels = want.expected \/ (want.converts /\ c.pixels \in ToSet(want.fallbacks)))}

\* What the constructor chooses is something the camera offers and no less than what
\* was asked for; of the discrete modes PROPER gets none that another one undercuts
\* and MAXIMUM none that another one exceeds, and the expected format goes before
\* the fallbacks (capture.py, the documentation of format_selector).  It raises only
\* when nothing fits, and loops for ever only over a stepwise interval.
FormatChosen(camera, want, out) ==
  LET fit == Fitting(camera, want)
      wh == Aligned(want.driver, want.w, want.h) IN
    /\ out.how = "made" =>
         /\ Offers(camera, out.config)
         /\ Meets(out.config, wh[1], wh[2], IF want.selector = "MAXIMUM" THEN 1 ELSE want.rate)
         /\ out.config.pixels # want.expected => \A c \in fit : c.pixels # want.expected
         /\ \A c \in fit : c.pixels = out.config.pixels =>
              /\ want.selector = "PROPER" => out.config.w * out.config.h <= c.w * c.h
              /\ want.selector = "MAXIMUM" => out.config.w * out.config.h >= c.w * c.h
         /\ out.size \in {wh, <<out.config.w, out.config.h>>}
    /\ out.how = "raises" => fit = {} \/ want.driver # "uvcvideo"
    /\ out.how = "endless" =>
         \E f \in ToSet(camera) : \E s \in ToSet(f.sizes) : \E v \in ToSet(s.ivals) :
           v.type = "stepwise" /\ v.min < v.max
=============================================================================
