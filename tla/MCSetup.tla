------------------------------- MODULE MCSetup -------------------------------
(***************************************************************************)
(* What the constructors of the captures of actfw_core compute, for TLC:   *)
(* the inputs of each computation, its result and what must hold of it.    *)
(***************************************************************************)
EXTENDS LensShading

F == INSTANCE FormatLookup
E == INSTANCE Environment
C == INSTANCE ContrastCurve

Computed == {"format", "controls", "sensor", "shading", "contrast", "device", "search", "setting"}

-----------------------------------------------------------------------------
(* A format of a V4L2 camera *)

Discrete(w, h, rates) ==
  [type |-> "discrete", w |-> w, h |-> h,
   ivals |-> [i \in DOMAIN rates |-> [type |-> "discrete", rate |-> rates[i]]]]

Range(type, rates) ==
  [type |-> type, min |-> <<32, 16>>, max |-> <<1920, 1080>>, step |-> <<32, 8>>,
   ivals |-> <<[type |-> rates, min |-> 5, max |-> 60]>>]

Format(pixels, sizes) == [pixels |-> pixels, sizes |-> sizes]

Usb == <<Format("YUYV", <<Discrete(1280, 720, <<30>>), Discrete(640, 480, <<30, 15>>),
                          Discrete(800, 600, <<15>>)>>),
         Format("RGB24", <<Discrete(1920, 1080, <<15>>)>>)>>

VideoCameras ==
  {<< >>, Usb, Tail(Usb), <<Format("RGB24", <<Range("continuous", "continuous")>>)>>,
   <<Format("RGB24", <<Range("stepwise", "continuous"), Discrete(640, 480, <<30>>)>>)>>,
   <<Format("RGB24", <<Range("stepwise", "stepwise")>>)>>,
   <<Format("YUYV", <<Range("stepwise", "stepwise")>>)>>}

VideoWants ==
  [driver : {"uvcvideo", "unicam", "other"}, firmware : {"unset", "raspberrypi-bullseye"},
   w : {500, 640, 1280}, h : {480}, rate : {5, 15, 30}, selector : F!Selectors,
   expected : {"RGB24"}, fallbacks : {<< >>, <<"YUYV">>}, converts : BOOLEAN, scales : BOOLEAN]

-----------------------------------------------------------------------------
(* Controls *)

Ids == {"HFLIP", "VFLIP", "ROTATE", "EXPOSURE_AUTO", "EXPOSURE_ABSOLUTE"}
Bool == {"HFLIP", "VFLIP"}

Control(id, kind, readonly) ==
  [kind |-> kind, readonly |-> readonly,
   type |-> IF id \in Bool THEN "BOOLEAN" ELSE IF id = "EXPOSURE_AUTO" THEN "MENU" ELSE "INTEGER",
   default |-> IF id \in Bool THEN FALSE ELSE IF id = "EXPOSURE_AUTO" THEN "AUTO" ELSE 0,
   value |-> IF id \in Bool THEN TRUE ELSE IF id = "EXPOSURE_AUTO" THEN "MANUAL" ELSE 90]

\* All controls are alike but one.
Devices ==
  {[id \in Ids |-> Control(id, IF id = other THEN k ELSE kind, readonly /\ id = other)] :
     other \in Ids, k \in Kinds, kind \in Kinds, readonly \in BOOLEAN}

Orders ==
  {<<op, flip>> : op \in {"hflip", "vflip"}, flip \in BOOLEAN}
    \cup {<<"rotate", r>> : r \in {0, 90, 270, 450}}
    \cup {<<"exposure", ms>> : ms \in {0, 9, 20}}
    \cup {<<"init", what>> : what \in Ids \cup {"all"}}

Ordered(device, order) ==
  CASE order[1] = "hflip" -> SetHorizontalFlip(device, order[2])
    [] order[1] = "vflip" -> SetVerticalFlip(device, order[2])
    [] order[1] = "rotate" -> SetRotation(device, order[2])
    [] order[1] = "exposure" -> SetExposureTime(device, order[2])
    [] order[1] = "init" -> InitControls(device, {order[2]})

-----------------------------------------------------------------------------
(* A sensor and the ISP *)

Flippable(kind) == [id \in Bool |-> Control(id, IF id = "HFLIP" THEN kind ELSE "works", FALSE)]

\* Sensors with wide and with narrow ranges: of the blanking, some rates need more than the
\* narrow one has, some modes less than nothing.
Sensors ==
  {camera \in
     [controls : {Flippable(k) : k \in {"works", "keeps", "absent", "adjusts"}}, hblank : {168, 400},
      rate : {1824}, obeys : {{"unicam_subdev", "unicam", "isp_in"}, {"unicam", "isp_in"}},
      vblank : {<<4, 30000>>, <<32, 500>>}, exposure : {<<1, 4>>, <<20, 20>>},
      gain : {<<0, 232>>, <<16, 128>>}, clamps : BOOLEAN] :
     <<camera.hblank, camera.vblank, camera.exposure, camera.gain>> \in
       {<<168, <<4, 30000>>, <<1, 4>>, <<0, 232>>>>, <<400, <<32, 500>>, <<20, 20>>, <<16, 128>>>>}}

SensorWants ==
  {want \in [sensor : DOMAIN SensorSize, w : {640, 800, 1280, 1920}, h : {480, 600, 720, 1080},
             unicam : {<< >>, <<1640, 1232>>, <<1536, 864>>},
             crop : {<< >>, <<Rect(180, 256, 1280, 720)>>, <<Rect(0, 0, 640, 480)>>},
             fps : {15, 45, 60}, vflip : BOOLEAN, hflip : BOOLEAN,
             agc : BOOLEAN, shutter : {10000, 40000}, gain : {<<1, 1>>, <<8, 3>>}] :
     /\ <<want.shutter, want.gain>> \in {<<10000, <<1, 1>>>>, <<40000, <<8, 3>>>>}
     /\ want.agc \/ want.fps = 45
     /\ <<want.w, want.h>> \in {<<640, 480>>, <<1280, 720>>, <<800, 600>>, <<1920, 1080>>}
     /\ <<want.unicam, want.crop>> \in
          {<< << >>, << >> >>, << <<1640, 1232>>, <<Rect(180, 256, 1280, 720)>> >>,
           << <<1640, 1232>>, << >> >>, << <<1536, 864>>, <<Rect(0, 0, 640, 480)>> >>}}

-----------------------------------------------------------------------------
(* Lens shading and contrast *)

SensorModes ==
  UNION {{[sensor |-> "ov5647", mode |-> V1Modes[i]] : i \in DOMAIN V1Modes},
         {[sensor |-> "imx219", mode |-> V2Modes[i]] : i \in DOMAIN V2Modes},
         {[sensor |-> "imx708", mode |-> V3Modes[i]] : i \in DOMAIN V3Modes}}

Calibrations == <<[ct |-> 3000, level |-> 2], [ct |-> 4000, level |-> 5], [ct |-> 6000, level |-> 3]>>

\* From the edge to the middle and back.
Vignette(n) == [i \in 0 .. n - 1 |-> Q(n + Abs(2 * i - n + 1), n)]

Shade(in) ==
  LET m == in.at.mode
      size == SensorSize[in.at.sensor]
      grid == ApplyLsTables(m.w, m.h) IN
    [level   |-> GetCalTable(in.ct, SubSeq(Calibrations, 1, in.known)),
     columns |-> ResampleCalTable(Ramp(LsTableW), LsTableW, size[1], m.w, m.scale, m.x),
     rows    |-> ResampleCalTable(Ramp(LsTableH), LsTableH, size[2], m.h, m.scale, m.y),
     grid    |-> grid,
     points  |-> PopulateLsTable(Vignette(LsTableW), LsTableW, grid.w)]

ShadingHolds(in, out) ==
  LET m == in.at.mode
      size == SensorSize[in.at.sensor] IN
    /\ CalTableBetween(in.ct, SubSeq(Calibrations, 1, in.known), out.level)
    /\ AxisShaded(LsTableW, size[1], m.w, m.scale, m.x, out.columns)
    /\ AxisShaded(LsTableH, size[2], m.h, m.scale, m.y, out.rows)
    /\ GridFits(m, out.grid)
    /\ PointsHold(Vignette(LsTableW), LsTableW, out.grid.w, out.points)

Gammas ==
  {<< <<<<0, 1>>, <<0, 1>>>>, <<<<4, 1>>, <<9, 1>>>>, <<<<16, 1>>, <<16, 1>>>> >>,
   << <<<<0, 1>>, <<0, 1>>>>, <<<<2, 1>>, <<5, 1>>>>, <<<<8, 1>>, <<12, 1>>>>, <<<<16, 1>>, <<16, 1>>>> >>}

\* bound: the greatest level.
Top == 16

Stretches ==
  {C!Configured([lo_level |-> <<1, 16>>, lo_max |-> <<2, 1>>, hi_level |-> <<15, 16>>,
                 hi_max |-> <<4, 1>>], Top),
   C!Configured([lo_level |-> <<1, 16>>, lo_max |-> <<2, 1>>, hi_level |-> <<15, 16>>,
                 hi_max |-> <<4, 1>>, hi_histogram |-> <<3, 4>>], Top),
   C!Configured([ce_enable |-> FALSE], Top)}

Steps == <<0, 1, 2, 4, 8, 12>>

-----------------------------------------------------------------------------
(* The host *)

Node(path, label) == [path |-> E!Str(path), label |-> label]
Device(type, nodes) == [type |-> E!Str(type), nodes |-> <<nodes>>]

NodeLists ==
  {<< >>, <<Node("video0", E!None)>>, <<[path |-> <<"int", 0>>, label |-> E!None]>>}
    \cup {<<Node("video0", a), Node("video1", b)>> :
            a \in {E!None, E!Str("image_source")}, b \in {E!Str("other"), E!Str("image_source")}}
    \cup {<<Node("media0", E!None), Node("video1", E!None)>>}

\* The nodes of V4L2, the ports of those that can be opened, and the ids of libcamera.
Videos == {E!Str("video0"), E!Str("video1")}
Ports == [Videos -> {"CSI", "USB", "unopened"}]
LibcameraIds == {<< >>, <<"usb", "platform">>, <<"platform", "platform">>, <<"usb">>}

Supplies ==
  {<< >>, << << >> >>, <<<<Device("speaker", <<Node("audio0", E!None)>>)>>>>}
    \cup {<<<<Device("speaker", << >>), Device("camera", a), Device("camera", b)>>>> :
            a \in NodeLists, b \in NodeLists}

Values == {<<"int", 5>>, <<"float", 5>>, <<"bool", TRUE>>, <<"str", "five">>}
Types == {"number", "integer", "boolean", "string"}
Schema(t, v) == [n \in {"a"} |-> [type |-> t, default |-> v]]

SearchHolds(in, out) ==
  /\ E!DeviceFound(in.supply, in.port, Videos, in.ports, out.video)
  /\ out.csi = E!None => "platform" \notin {in.cameras[i] : i \in DOMAIN in.cameras}
  /\ out.csi # E!None => in.cameras[out.csi[1] + 1] = "platform"

-----------------------------------------------------------------------------
(* All of them *)

Inputs(kind) ==
  CASE kind = "format" -> [camera : VideoCameras, want : VideoWants]
    [] kind = "controls" -> [device : Devices, order : Orders]
    [] kind \in {"sensor", "window"} -> [want : SensorWants, camera : Sensors]
    [] kind = "shading" -> [at : SensorModes, ct : {2500, 3000, 3700, 6000, 7000}, known : {0, 1, 3}]
    [] kind = "contrast" ->
         [histogram : [1 .. 4 -> 0 .. 2] \ {<<0, 0, 0, 0>>}, gamma : Gammas, cfg : Stretches,
          contrast : {<<1, 1>>, <<3, 2>>}, brightness : {<<-2, 1>>, <<0, 1>>}]
    [] kind = "device" ->
         [supply : Supplies, default : {E!None, E!Str("video1"), E!Str("video7")}]
    [] kind = "search" ->
         [supply : Supplies, port : {"CSI", "USB"}, ports : Ports, cameras : LibcameraIds]
    [] kind = "setting" ->
         [given : [{"a", "b"} -> Values] \cup {<< >>},
          schema : {Schema(t, v) : t \in Types, v \in Values}]

Output(kind, in) ==
  CASE kind = "format" -> F!Construct(in.camera, in.want)
    [] kind = "controls" -> Ordered(in.device, in.order)
    [] kind \in {"sensor", "window"} -> SetupPipeline(in.want, in.camera)
    [] kind = "shading" -> Shade(in)
    [] kind = "contrast" ->
         C!ContrastControl(in.histogram, in.gamma, in.cfg, in.contrast, in.brightness, Steps)
    [] kind = "device" -> E!CaptureDevice(E!GetCameraDeviceInfo(in.supply, in.default))
    [] kind = "search" ->
         [video |-> E!FindSpecificVideoDevice(in.supply, in.port, Videos, in.ports),
          csi |-> E!FindCsiCameraIndex(in.cameras)]
    [] kind = "setting" ->
         [n \in {"a", "b"} |-> E!GetAttr(E!GetSettings(<< >>, in.given), in.schema, n)]
=============================================================================
