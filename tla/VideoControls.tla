--------------------------- MODULE VideoControls ---------------------------
(***************************************************************************)
(* The controls of a V4L2 device, as Video and RawVideo of actfw_core set  *)
(* them (v4l2/video.py): set_rotation, set_horizontal_flip,                *)
(* set_vertical_flip, set_exposure_time and init_controls.  The two        *)
(* classes share their code line by line.                                  *)
(*                                                                         *)
(* A device is a function from its controls to records                     *)
(*   [kind, type, readonly, default, value]                                *)
(* where kind is what the driver does of S_CTRL and G_CTRL.  An operation  *)
(* gives [ok, device]: its result, and the device after it.                *)
(*                                                                         *)
(* SetUnchecked is also a slip of SetControl, to see that the property     *)
(* notices it.                                                             *)
(***************************************************************************)
EXTENDS Integers

\* works; absent and disabled: QUERYCTRL says so; refuses: S_CTRL fails; hides:
\* G_CTRL fails; keeps: S_CTRL succeeds and changes nothing; adjusts: it changes
\* nothing and says so in the value it gives back.
Kinds == {"works", "absent", "disabled", "refuses", "hides", "keeps", "adjusts"}

Result(ok, device) == [ok |-> ok, device |-> device]

Settable(c) == c.kind \notin {"absent", "disabled", "refuses"}
Fixed(c) == c.kind \in {"keeps", "adjusts"}

\* S_CTRL.
Written(device, id, value) ==
  IF Settable(device[id]) /\ ~ Fixed(device[id])
  THEN [device EXCEPT ![id].value = value] ELSE device

\* S_CTRL alone.  In the place of SetControl it is a slip: what the device has is not
\* read back.
SetUnchecked(device, id, value) ==
  Result(Settable(device[id]), Written(device, id, value))

\* S_CTRL; then G_CTRL must give the value that S_CTRL has left in its argument.
SetControl(device, id, value) ==
  LET c == device[id]
      told == IF c.kind = "adjusts" THEN c.value ELSE value
      after == Written(device, id, value) IN
    Result(Settable(c) /\ c.kind # "hides" /\ after[id].value = told, after)

\* QUERYCTRL goes first.
SetFlip(device, id, flip) ==
  IF device[id].kind \in {"absent", "disabled"} THEN Result(FALSE, device)
  ELSE SetControl(device, id, flip)

SetHorizontalFlip(device, flip) == SetFlip(device, "HFLIP", flip)
SetVerticalFlip(device, flip) == SetFlip(device, "VFLIP", flip)

\* In whole quarter turns; nothing is read back.
SetRotation(device, rotation) ==
  SetUnchecked(device, "ROTATE", ((rotation \div 90) % 4) * 90)

\* Milliseconds, 0 for None; the mode goes first, and stays when the time fails.
SetExposureTime(device, ms) ==
  LET mode == SetControl(device, "EXPOSURE_AUTO", IF ms = 0 THEN "AUTO" ELSE "MANUAL") IN
    IF ~ mode.ok \/ ms = 0 THEN mode
    ELSE SetControl(mode.device, "EXPOSURE_ABSOLUTE", 10 * ms)

\* query_ext_controls walks over all there are, make_initializer gives None for those
\* that cannot be set to a default value.
QueryExtControls(device) == {id \in DOMAIN device : device[id].kind # "absent"}

MakeInitializer(id, c) ==
  /\ c.kind # "disabled"
  /\ ~ c.readonly
  /\ id # "LENS_SHADING"
  /\ c.type \in {"INTEGER", "BOOLEAN", "MENU", "INTEGER64", "U8"}

\* One S_EXT_CTRLS for all of them; it raises when a driver refuses one.
InitControls(device, targets) ==
  LET named == {id \in QueryExtControls(device) : targets = {"all"} \/ id \in targets}
      ctrls == {id \in named : MakeInitializer(id, device[id])}
      ok == \A id \in ctrls : Settable(device[id]) IN
    Result(ok, [id \in DOMAIN device |->
                  IF ok /\ id \in ctrls /\ ~ Fixed(device[id])
                  THEN [device[id] EXCEPT !.value = device[id].default] ELSE device[id]])

-----------------------------------------------------------------------------
(* Properties *)

\* What an operation asks the controls to be, by control.
Asked(op, device, arg) ==
  CASE op = "hflip" -> [id \in {"HFLIP"} |-> arg]
    [] op = "vflip" -> [id \in {"VFLIP"} |-> arg]
    [] op = "rotate" -> [id \in {"ROTATE"} |-> arg % 360]
    [] op = "exposure" ->
         IF arg = 0 THEN [id \in {"EXPOSURE_AUTO"} |-> "AUTO"]
         ELSE [id \in {"EXPOSURE_AUTO", "EXPOSURE_ABSOLUTE"} |->
                 IF id = "EXPOSURE_AUTO" THEN "MANUAL" ELSE 10 * arg]
    [] op = "init" ->
         [id \in {i \in DOMAIN device : arg \in {i, "all"} /\ MakeInitializer(i, device[i])} |->
            device[id].default]

\* An operation that succeeds has put every control where it was asked to be, all of
\* them when there are several, and whatever it returns it has touched no other (the
\* `boolean: result' of the setters).  A driver that writes another value back is
\* believed, and one that is not asked again by set_rotation and init_controls.
ControlsHold(op, device, arg, out) ==
  LET asked == Asked(op, device, arg)
      unread == op \in {"rotate", "init"} IN
    /\ out.ok => \A id \in DOMAIN asked :
                   \/ out.device[id].value = asked[id]
                   \/ device[id].kind = "adjusts"
                   \/ unread /\ device[id].kind \in {"keeps", "absent"}
    /\ \A id \in DOMAIN device \ DOMAIN asked : out.device[id] = device[id]
=============================================================================
