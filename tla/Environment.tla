---------------------------- MODULE Environment ----------------------------
(***************************************************************************)
(* What actfw_core takes from the host: the devices the host supplies and  *)
(* the camera among them (system.py, the first lines of                    *)
(* V4LCameraCapture.__init__, find_csi_camera_index), and the settings of  *)
(* the act (AppSettings and get_settings of application.py).               *)
(*                                                                         *)
(* A JSON value is a pair <<type, value>>, and None << >>.  A supply is a  *)
(* sequence of [type, nodes], nodes a sequence of [path, label].           *)
(*                                                                         *)
(* A definition that stands before another one and is named after it and a *)
(* slip is a mistake the code could contain.  It is no part of the         *)
(* specification.                                                          *)
(***************************************************************************)
EXTENDS Integers, Sequences, SequencesExt

None == << >>
Str(value) == <<"str", value>>
IsStr(json) == json # None /\ json[1] = "str"

Given(value) == [how |-> "given", value |-> value]
Fails(error) == [how |-> "raises", value |-> error]

\* from_json: the path must be a string, the label one or None.
DeviceNodeOk(json) == IsStr(json.path) /\ (json.label = None \/ IsStr(json.label))

DeviceInfoOk(json) ==
  /\ IsStr(json.type)
  /\ json.nodes # None
  /\ \A i \in DOMAIN json.nodes[1] : DeviceNodeOk(json.nodes[1][i])

DeviceSupplyOk(json) == json # None /\ \A i \in DOMAIN json[1] : DeviceInfoOk(json[1][i])

\* Lists are read by position: where the first and where the last one is that fits.
FirstOf(places) == CHOOSE i \in places : \A j \in places : i <= j
LastOf(places) == CHOOSE i \in places : \A j \in places : j <= i

Cameras(supply) == {i \in DOMAIN supply[1] : supply[1][i].type = Str("camera")}
Nodes(supply, i) == supply[1][i].nodes[1]
Sources(nodes) == {i \in DOMAIN nodes : nodes[i].label = Str("image_source")}

Labelled(nodes, path) ==
  [i \in DOMAIN nodes |->
     IF nodes[i].path = path THEN [path |-> path, label |-> Str("image_source")] ELSE nodes[i]]

\* The slip: the default goes before what the host says.
PreferDefault(supply, default) ==
  LET nodes == Nodes(supply, FirstOf(Cameras(supply))) IN
    IF default # None /\ DeviceSupplyOk(supply) /\ Cameras(supply) # {}
    THEN Given(Labelled([i \in DOMAIN nodes |-> [nodes[i] EXCEPT !.label = None]], default))
    ELSE Fails("no image source")

\* The first camera, with the default for an image source if it names none.
GetCameraDeviceInfo(supply, default) ==
  LET nodes == Nodes(supply, FirstOf(Cameras(supply))) IN
    IF ~ DeviceSupplyOk(supply) THEN Fails("ValueError")
    ELSE IF Cameras(supply) = {} THEN Fails("no camera")
    ELSE IF Sources(nodes) # {} THEN Given(nodes)
    ELSE IF default = None THEN Fails("no image source")
    ELSE IF \E i \in DOMAIN nodes : nodes[i].path = default THEN Given(Labelled(nodes, default))
    ELSE Fails("not mounted")

\* V4LCameraCapture takes the last node with the label.
CaptureDevice(info) ==
  IF info.how = "raises" THEN info
  ELSE IF Sources(info.value) = {} THEN Fails("not found")
  ELSE Given(info.value[LastOf(Sources(info.value))].path)

\* The nodes of all cameras that are video devices, as pairs of positions, in the order
\* of the cameras and then of their nodes.
ListVideoDevices(supply, videos) ==
  UNION {{<<i, j>> : j \in {k \in DOMAIN Nodes(supply, i) : Nodes(supply, i)[k].path \in videos}} :
           i \in Cameras(supply)}
Earlier(at, other) == at[1] < other[1] \/ (at[1] = other[1] /\ at[2] <= other[2])

\* The first of them that has the port; those that cannot be opened or asked are
\* passed over.
FindSpecificVideoDevice(supply, port, videos, ports) ==
  LET Path(at) == Nodes(supply, at[1])[at[2]].path
      found == {at \in ListVideoDevices(supply, videos) : ports[Path(at)] = port} IN
    IF ~ DeviceSupplyOk(supply) THEN Fails("ValueError")
    ELSE IF found = {} THEN Given(None)
    ELSE Given(Path(CHOOSE at \in found : \A other \in found : Earlier(at, other)))

\* The position, counted from 0, of the first camera of libcamera that is CSI.
FindCsiCameraIndex(cameras) ==
  LET csi == {i \in DOMAIN cameras : cameras[i] = "platform"} IN
    IF csi = {} THEN None ELSE << FirstOf(csi) - 1 >>

-----------------------------------------------------------------------------
(* Settings *)

InferType(typestring) ==
  CASE typestring = "number" -> "float"
    [] typestring = "integer" -> "int"
    [] typestring = "boolean" -> "bool"
    [] OTHER -> "str"

\* isinstance: a bool is an int, an int is no float.
IsInstance(json, type) ==
  /\ json # None
  /\ \/ json[1] = type
     \/ json[1] = "bool" /\ type = "int"

\* The settings of the host over the defaults of the program.
GetSettings(default, settings) ==
  [name \in DOMAIN default \cup DOMAIN settings |->
     IF name \in DOMAIN settings THEN settings[name] ELSE default[name]]

\* __getattr__; a schema is a function to [type, default].
GetAttr(settings, schema, name) ==
  IF name \in DOMAIN settings
  THEN IF name \notin DOMAIN schema THEN Fails("KeyError")
       ELSE IF IsInstance(settings[name], InferType(schema[name].type)) THEN Given(settings[name])
       ELSE Given(schema[name].default)
  ELSE IF name \in DOMAIN schema THEN Given(schema[name].default)
  ELSE Fails("AttributeError")

-----------------------------------------------------------------------------
(* Properties *)

\* The program opens a node of the first camera: one the host calls an image source
\* if there is one, and only else the default; it gives up only when there is none
\* (_get_camera_device_info and V4LCameraCapture.__init__).
DeviceChosen(supply, default, out) ==
  LET ok == DeviceSupplyOk(supply) /\ Cameras(supply) # {}
      nodes == IF ok THEN ToSet(Nodes(supply, FirstOf(Cameras(supply)))) ELSE {}
      named == {n \in nodes : n.label = Str("image_source")} IN
    IF out.how = "given"
    THEN IF named # {} THEN \E n \in named : n.path = out.value
                       ELSE out.value = default /\ \E n \in nodes : n.path = default
    ELSE named = {} /\ \A n \in nodes : n.path # default

\* What is found is a video node of a camera with that port, of the first camera that
\* has one; none is found only when there is none, also when some of the devices
\* cannot be opened (_find_specific_video_device).
DeviceFound(supply, port, videos, ports, out) ==
  LET With(i) == {n.path : n \in {m \in ToSet(Nodes(supply, i)) : m.path \in videos /\ ports[m.path] = port}}
      having == {i \in Cameras(supply) : With(i) # {}} IN
    IF ~ DeviceSupplyOk(supply) THEN out = Fails("ValueError")
    ELSE IF having = {} THEN out = Given(None)
    ELSE \E i \in having :
           /\ \A j \in having : i <= j
           /\ out.how = "given" /\ out.value \in With(i)

\* The types of JSON for those of a schema.
Suitable ==
  [number |-> {"float"}, integer |-> {"int", "bool"}, boolean |-> {"bool"}, string |-> {"str"}]

\* A setting is the one of the act when its type is that of the schema, and else the
\* default of the schema, also for a null; one the schema does not have is an error.  An
\* integer does not do for a number: JSON writes 5.0 so, and the default is taken for
\* it.
SettingGiven(settings, schema, name, out) ==
  LET fits == /\ name \in DOMAIN settings
              /\ settings[name] # None
              /\ settings[name][1] \in Suitable[schema[name].type] IN
    IF name \notin DOMAIN schema THEN out.how = "raises"
    ELSE out = Given(IF fits THEN settings[name] ELSE schema[name].default)
=============================================================================
