------------------------------ MODULE PortList -------------------------------
(***************************************************************************)
(* s_usb_joy of HidInput_joystick.cpp: the addresses of the HID joysticks   *)
(* that own Joy1 (first entry) and Joy0 (second entry), without the empty   *)
(* entries at its end.                                                     *)
(***************************************************************************)
EXTENDS Integers, SequencesExt

\* hid_joystick_assign_slot: a third joystick is ignored.
AssignSlotUnlimited(list, a) == IF a \in ToSet(list) THEN list ELSE Append(list, a)
AssignSlot(list, a) ==
  IF a \in ToSet(list) \/ Len(list) = 2 THEN list ELSE Append(list, a)

\* hid_joystick_release_slot: the list is compacted.
ReleaseSlot(list, a) == RemoveFirst(list, a)
===============================================================================
