----------------------------- MODULE NightVision -----------------------------
(***************************************************************************)
(* The night settings of one doorbell camera, which forgets them whenever  *)
(* an RTSP session comes up: the settings and the camera routes            *)
(* (routers/cameras.py) that store what an operator pinned, and the        *)
(* re-asserter (amcrest/ir_reassert.py) that writes it to the camera again *)
(* after a stream connects and on a slow sweep.                            *)
(*                                                                         *)
(* Every write to the camera is an await of its own and may fail.  A pin   *)
(* asks for what the camera does not fall back to.  Left out: the          *)
(* illuminator's strength, the IR-cut filter, the other settings of the    *)
(* form, and the profiles a mode is written to.                            *)
(***************************************************************************)

CONSTANT Forms     \* requests to the two routes

Hooks == {"connect", "sweep"}
IrModes == {"auto", "on"}
NvModes == {"auto", "color"}
Pins == [ir : {"on", "none"}, nv : {"color", "none"}]
NoPins == [ir |-> "none", nv |-> "none"]

VARIABLES
    there,       \* the camera has a row
    pins,        \* its ir_state
    device,      \* what the camera is set to
    doing,       \* [Forms \cup Hooks -> the write it is at]
    read,        \* [Forms \cup Hooks -> the pins it read]
    asked,       \* [Forms -> what it asks for, less what could not be written]
    alone,       \* the hooks that nothing came between
    settled      \* a hook has run since anything else touched row or camera

nightVars == <<there, pins, device, doing, read, asked, alone, settled>>

Actors == Forms \cup Hooks
Steps == {"idle", "delay", "night", "couple", "ir", "store", "probe"}

NightTypeOK ==
    /\ {there, settled} \subseteq BOOLEAN
    /\ pins \in Pins /\ device \in [ir : IrModes, nv : NvModes]
    /\ doing \in [Actors -> Steps]
    /\ read \in [Actors -> Pins]
    /\ asked \in [Forms -> Pins]
    /\ alone \subseteq Hooks

NightInit ==
    /\ there = TRUE /\ pins = NoPins
    /\ device = [ir |-> "auto", nv |-> "auto"]
    /\ doing = [a \in Actors |-> "idle"]
    /\ read = [a \in Actors |-> NoPins]
    /\ asked = [f \in Forms |-> NoPins]
    /\ alone = {} /\ settled = FALSE

Goto(a, step) == doing' = [doing EXCEPT ![a] = step]

\* It is over, and forgets what it read.
Ends(a) == Goto(a, "idle") /\ read' = [read EXCEPT ![a] = NoPins]

\* What a does is a disturbance to every hook but itself.
Disturbs(a) ==
    /\ alone' = alone \cap {a}
    /\ settled' = FALSE

-----------------------------------------------------------------------------
(* The writes.                                                             *)

\* set_night_vision_mode writes the mode, and then couples IR to Auto.
Written(step, p) ==
    CASE step = "night" -> [device EXCEPT !.nv = p.nv]
      [] step = "couple" -> [device EXCEPT !.ir = "auto"]
      [] step = "ir" -> [device EXCEPT !.ir = p.ir]

\* put_device_settings: the IR mode is written first.
FormStep(step, p) ==
    LET mode == IF p.nv # "none" THEN "night" ELSE "store"
    IN  CASE step = "begin" -> IF p.ir # "none" THEN "ir" ELSE mode
          [] step = "ir" -> mode
          [] step = "night" -> "couple"
          [] OTHER -> "store"

\* apply_ir_state: "NIGHT VISION FIRST, deliberately".
\* Fault: the order of the form.
FaultHookStep(step, p) == IF FormStep(step, p) = "store" THEN "idle" ELSE FormStep(step, p)
HookStep(step, p) ==
    LET ir == IF p.ir # "none" THEN "ir" ELSE "idle"
    IN  CASE step = "begin" -> IF p.nv # "none" THEN "night" ELSE ir
          [] step = "night" -> "couple"
          [] step = "couple" -> ir
          [] OTHER -> "idle"

-----------------------------------------------------------------------------
(* The routes.                                                             *)

PutSettings(f, p) ==
    /\ doing[f] = "idle" /\ there
    /\ p # NoPins
    /\ Goto(f, FormStep("begin", p))
    /\ read' = [read EXCEPT ![f] = pins]
    /\ asked' = [asked EXCEPT ![f] = p]
    /\ UNCHANGED <<there, pins, device, alone, settled>>

\* A write that fails may have landed.  The coupling's failure is swallowed.
FormWrites(f, well) ==
    LET step == doing[f]
        part == IF step = "ir" THEN "ir" ELSE "nv"
        kept == well \/ step = "couple"
    IN  /\ step \in {"night", "couple", "ir"}
        /\ device' \in {Written(step, asked[f])} \cup (IF well THEN {} ELSE {device})
        /\ Goto(f, IF step = "night" /\ ~well THEN "store" ELSE FormStep(step, asked[f]))
        /\ asked' = IF kept THEN asked ELSE [asked EXCEPT ![f][part] = "none"]
        /\ Disturbs(f)
        /\ UNCHANGED <<there, pins, read>>

\* What landed, merged over the pins as the form found them.
FormStores(f) ==
    /\ doing[f] = "store"
    /\ Ends(f)
    /\ asked' = [asked EXCEPT ![f] = NoPins]
    /\ pins' = IF asked[f] = NoPins \/ ~there THEN pins
               ELSE [k \in {"ir", "nv"} |-> IF asked[f][k] # "none" THEN asked[f][k] ELSE read[f][k]]
    /\ Disturbs(f)
    /\ UNCHANGED <<there, device>>

\* update_camera and probe_camera read the row, probe the device, and write all of
\* it back, whatever became of it.
Edit(f) ==
    /\ doing[f] = "idle" /\ there
    /\ Goto(f, "probe")
    /\ read' = [read EXCEPT ![f] = pins]
    /\ UNCHANGED <<there, pins, device, asked, alone, settled>>

EditStores(f) ==
    /\ doing[f] = "probe"
    /\ Ends(f)
    /\ there' = TRUE
    /\ pins' = read[f]
    /\ Disturbs(f)
    /\ UNCHANGED <<device, asked>>

DeleteCamera ==
    /\ there
    /\ there' = FALSE /\ pins' = NoPins
    /\ Disturbs("nobody")
    /\ UNCHANGED <<device, doing, read, asked>>

-----------------------------------------------------------------------------
(* The camera and the re-asserter.                                         *)

\* The recorder's hook: a pending re-assert is cancelled, wherever it is.
Connect ==
    /\ device' = [ir |-> "auto", nv |-> "auto"]
    /\ Goto("connect", "delay")
    /\ read' = [read EXCEPT !["connect"] = NoPins]
    /\ Disturbs("nobody")
    /\ UNCHANGED <<there, pins, asked>>

\* _reassert_camera: with no IR pin it returns before it looks at the night mode.
Reassert(h) ==
    /\ doing[h] = IF h = "connect" THEN "delay" ELSE "idle"
    /\ LET runs == there /\ pins.ir # "none"
       IN  /\ read' = [read EXCEPT ![h] = IF runs THEN pins ELSE NoPins]
           /\ Goto(h, IF runs THEN HookStep("begin", pins) ELSE "idle")
           /\ alone' = IF runs THEN alone \cup {h} ELSE alone
           /\ settled' = (settled \/ (there /\ ~runs))
    /\ UNCHANGED <<there, pins, device, asked>>

HookWrites(h, well) ==
    LET step == doing[h]
        onward == IF well \/ step = "couple" THEN HookStep(step, read[h]) ELSE "idle"
    IN  /\ step \in {"night", "couple", "ir"}
        /\ device' \in {Written(step, read[h])} \cup (IF well THEN {} ELSE {device})
        /\ IF onward = "idle" THEN Ends(h) ELSE Goto(h, onward) /\ UNCHANGED read
        /\ alone' = IF well /\ onward # "idle" THEN alone \cap {h} ELSE {}
        /\ settled' = (well /\ onward = "idle" /\ h \in alone)
        /\ UNCHANGED <<there, pins, asked>>

NightNext ==
    \/ \E f \in Forms :
          \/ \E p \in Pins : PutSettings(f, p)
          \/ \E well \in BOOLEAN : FormWrites(f, well)
          \/ FormStores(f) \/ Edit(f) \/ EditStores(f)
    \/ DeleteCamera \/ Connect
    \/ \E h \in Hooks : Reassert(h) \/ \E well \in BOOLEAN : HookWrites(h, well)

-----------------------------------------------------------------------------
(* Properties.                                                             *)

\* apply_ir_state: "a separately pinned IR mode has to be applied AFTER it to
\* survive": once a re-assert has run with nothing in between, a camera with an IR
\* pin is set to everything that is pinned.
Reasserted ==
    settled /\ pins.ir # "none" =>
        /\ device.ir = pins.ir
        /\ pins.nv # "none" => device.nv = pins.nv

-----------------------------------------------------------------------------
(* What the source's comments say and TLC finds violated (see the README). *)

\* desired_night_vision_from: a pinned night-vision mode is re-asserted.
NightVisionKept == settled /\ pins.nv # "none" => device.nv = pins.nv

=============================================================================
