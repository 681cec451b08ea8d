--------------------------------- MODULE Sticks ---------------------------------
(***************************************************************************)
(* What the report of a stick says to the Atari: the three readers, each    *)
(* with its own scale for the dead zone of the menu (0 to 15).  Directions  *)
(* are sets of names; what they become in the ports is JoystickPorts'.      *)
(***************************************************************************)
EXTENDS Integers

Directions == {"up", "down", "left", "right"}

Signed16(w) == IF w >= 32768 THEN w - 65536 ELSE w

deadzone_threshold_u8(dz) == dz
deadzone_threshold_s16(dz) == (dz * 32767) \div 16
deadzone_threshold_ps4(dz) == (dz * 127) \div 16

-------------------------------------------------------------------------------
\* get_usb_joystick: the two axes, of 16 bits around 0 or of fewer around 128,
\* and any button.
InDeadZone(v, threshold) == v > -threshold /\ v < threshold
HidAxis(bits, value, dz, low, high) ==
    LET v == IF bits = 16 THEN Signed16(value) ELSE value - 128
        threshold == IF bits = 16 THEN deadzone_threshold_s16(dz) ELSE deadzone_threshold_u8(dz)
    IN  IF InDeadZone(v, threshold) THEN {} ELSE IF v < 0 THEN {low} ELSE {high}
get_usb_joystick(r, dz) ==
    HidAxis(r.bits, r.x, dz, "left", "right") \cup HidAxis(r.bits, r.y, dz, "up", "down")

\* ps4_to_atari, with the dead zone that was stored in the controller; a code of
\* the D-pad beyond 8 is none.
Dpad == <<{"up"}, {"up", "right"}, {"right"}, {"down", "right"}, {"down"}, {"down", "left"},
          {"left"}, {"up", "left"}>>
ps4_to_atari(r, deadzone) ==
    IF r.dpad < 8 THEN Dpad[r.dpad + 1]
    ELSE {d \in Directions :
            CASE d = "left" -> r.x - 128 < -deadzone [] d = "right" -> r.x - 128 > deadzone
              [] d = "up" -> r.y - 128 < -deadzone   [] d = "down" -> r.y - 128 > deadzone}

\* map_pad_to_atari: an Xbox pad's stick counts upwards.
NoPad == [buttons |-> {}, trigger |-> 0, x |-> 0, y |-> 0]
map_pad_to_atari(pad, dz) ==
    LET dpad == pad.buttons \cap Directions
        threshold == deadzone_threshold_s16(dz)
        stick == {d \in Directions :
                    CASE d = "left" -> pad.x < -threshold [] d = "right" -> pad.x > threshold
                      [] d = "up" -> pad.y > threshold    [] d = "down" -> pad.y < -threshold}
    IN  IF dpad # {} THEN dpad ELSE stick

UsbFire(r) == r.buttons # {}
Ps4Fire(r) == r.cross \/ r.r2_trigger > 128
XboxFire(pad) == "a" \in pad.buttons \/ pad.trigger > 128
=============================================================================
