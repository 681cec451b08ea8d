-------------------------------- MODULE DeadZone --------------------------------
(***************************************************************************)
(* One stick under the user's hand while another hand moves the dead zone   *)
(* in the menu: handle_joystick reads it every 10 ms with the dead zone of  *)
(* that moment, which for a DualShock 4 it stores in the controller first.  *)
(***************************************************************************)
EXTENDS Sticks

CONSTANTS
    Devices,   \* kinds of stick: "hid", "ps4", "xbox"
    Reports,   \* what a stick of each kind may report
    MaxZone    \* JOY_DZ_MAX, at most 15

VARIABLES
    device,    \* its kind
    report,    \* the last report of the stick
    zone,      \* the setting joystick_dead_zone
    deadzone,  \* ps4_controller_t's deadzone
    axis, fire \* what handle_joystick last read

vars == <<device, report, zone, deadzone, axis, fire>>

\* ps4_mount_cb: a new controller has a dead zone of 50.
Init ==
    /\ device \in Devices
    /\ report \in Reports[device]
    /\ zone \in {0, MaxZone}
    /\ deadzone = 50
    /\ axis = {} /\ fire = FALSE

\* The buttons of the dead zone page.
Slide(d) ==
    /\ zone + d \in 0 .. MaxZone
    /\ zone' = zone + d
    /\ UNCHANGED <<device, report, deadzone, axis, fire>>

Move(r) ==
    /\ r # report /\ report' = r
    /\ UNCHANGED <<device, zone, deadzone, axis, fire>>

PollUsb ==
    /\ device = "hid"
    /\ axis' = get_usb_joystick(report, zone) /\ fire' = UsbFire(report)
    /\ UNCHANGED <<device, report, zone, deadzone>>
PollPs4Late ==
    /\ device = "ps4"
    /\ deadzone' = deadzone_threshold_ps4(zone)
    /\ axis' = ps4_to_atari(report, deadzone) /\ fire' = Ps4Fire(report)
    /\ UNCHANGED <<device, report, zone>>
PollPs4 ==
    /\ device = "ps4"
    /\ deadzone' = deadzone_threshold_ps4(zone)
    /\ axis' = ps4_to_atari(report, deadzone') /\ fire' = Ps4Fire(report)
    /\ UNCHANGED <<device, report, zone>>
PollXbox ==
    /\ device = "xbox"
    /\ axis' = map_pad_to_atari(report, zone) /\ fire' = XboxFire(report)
    /\ UNCHANGED <<device, report, zone, deadzone>>
Poll == PollUsb \/ PollPs4 \/ PollXbox

Next ==
    \/ Poll
    \/ \E d \in {-1, 1} : Slide(d)
    \/ \E r \in Reports[device] : Move(r)

Spec == Init /\ [][Next]_vars

-------------------------------------------------------------------------------
(* Properties. *)

\* How far a report has the stick from its centre, to the right and down, in
\* parts of the whole way.
Centre == IF device = "xbox" \/ (device = "hid" /\ report.bits = 16) THEN 0 ELSE 128
Way == IF Centre = 0 THEN 32767 ELSE 127
Off(v) == IF Centre = 0 THEN Signed16(v) ELSE v - Centre
X == Off(report.x)
Y == IF device = "xbox" THEN -Off(report.y) ELSE Off(report.y)
Tilt(d) == CASE d = "left" -> -X [] d = "right" -> X [] d = "up" -> -Y [] d = "down" -> Y
Hand == {d \in Directions : 16 * Tilt(d) > zone * Way}
Near(v) == -Way <= 128 * v /\ 128 * v <= Way
ByStick == CASE device = "ps4" -> report.dpad >= 8
             [] device = "xbox" -> report.buttons \cap Directions = {}
             [] OTHER -> TRUE

\* At every dead zone of the menu, and from the first poll after it was changed,
\* a stick pushed beyond that many sixteenths of its way is read that way, whatever
\* the kind of stick and the end, and never the opposite way; and a stick off its
\* centre by no more than a hundredth of the way is not read once the dead zone
\* covers that much.
TiltShown ==
    [][Poll /\ ByStick =>
        /\ Hand \subseteq axis'
        /\ ~({"left", "right"} \subseteq axis') /\ ~({"up", "down"} \subseteq axis')
        /\ zone > 0 /\ Near(X) /\ Near(Y) => axis' = {}]_vars

\* The comment of the readers: HID axes are "centred on 0" or "on 0x80", the
\* setting runs from 0: a stick at its centre is not pushed.
RestSilent == [][Poll /\ ByStick /\ X = 0 /\ Y = 0 => axis' = {}]_vars
=============================================================================
