------------------------------- MODULE Drivers -------------------------------
(***************************************************************************)
(* The parts between the USB devices and the emulated chip, side by side:   *)
(* the ports of the chip, the Xbox pads, the parser of report descriptors,  *)
(* the mouse encoders, autofire, the display, a stick and its dead zone,    *)
(* the live pages of the panel, and the labels of the keys.  They share     *)
(* nothing here; part says which of them moves, so that the states are the  *)
(* sum of theirs.                                                           *)
(***************************************************************************)
EXTENDS IkbdPorts, Labels, PanelAndParser

VARIABLES part,
    usb, inst, registered, stack,
    speed, period, phase, age, polled, mouseButtons, delta, steps,
    mode, half, skipped, fire, active, tracking, waiting, heldFor, pulse, pulseFor, out,
    steady, released,
    stickKind, stickReport, zone, stored, axisRead, fireRead,
    label

padVars == <<usb, inst, registered, stack>>
mouseVars == <<speed, period, phase, age, polled, mouseButtons, delta, steps>>
fireVars == <<mode, half, skipped, fire, active, tracking, waiting, heldFor, pulse, pulseFor, out,
              steady, released>>
stickVars == <<stickKind, stickReport, zone, stored, axisRead, fireRead>>
sumVars == <<part, label, vars, padVars, parserVars, mouseVars, fireVars, displayVars, stickVars, liveVars>>

-------------------------------------------------------------------------------
(* The Xbox pads. *)

CONSTANTS PadAddrs, PadKinds, PadReports, MaxDepth, MaxInsts

Pads == INSTANCE Xinput WITH
    Addrs <- PadAddrs, Kinds <- PadKinds, Reports <- PadReports

-------------------------------------------------------------------------------
(* The mice and their encoders. *)

CONSTANTS Mice, MouseMoves, MouseSpeeds, MAX_SPEED, MIN_SPEED, POLL, LoopTimes

Mouse == INSTANCE MouseEncoder WITH
    Moves <- MouseMoves, Speeds <- MouseSpeeds, Delays <- LoopTimes,
    buttons <- mouseButtons

-------------------------------------------------------------------------------
(* Autofire. *)

CONSTANTS Hold, HalfPeriods, PollTimes

Fire == INSTANCE Autofire WITH Delays <- PollTimes, phase <- pulse, phaseFor <- pulseFor

-------------------------------------------------------------------------------
(* The sticks, and one of 8 bits at rest. *)

Hid(bits, x, y) == [bits |-> bits, x |-> x, y |-> y, buttons |-> IF x = y THEN {1} ELSE {}]

CONSTANTS StickKinds, StickReports, MaxZone

Stick == INSTANCE DeadZone WITH
    Devices <- StickKinds, Reports <- StickReports,
    device <- stickKind, report <- stickReport, deadzone <- stored, axis <- axisRead, fire <- fireRead

-------------------------------------------------------------------------------
(* The entries of the remap pages in each layout. *)

LabelInit == label \in [layout : 0 .. Len(kLayouts) - 1, code : RemapCodes]

-------------------------------------------------------------------------------
\* What a report can hold: a wide axis of a HID stick is a word, the axes of a
\* DualShock 4 and of an Xbox pad are a byte and a signed word; a mouse moves by
\* whole counts, at the speeds of its menu (MOUSE_MIN, MOUSE_MAX).  Times are
\* counted in whole units, and the encoders have a least and a greatest one.
ASSUME PadsAssumption == MaxInsts \in Nat \ {0} /\ \A a \in PadAddrs : "none" \notin PadKinds[a]
ASSUME AutofireAssumption == Hold \in Nat /\ PollTimes \subseteq Nat
ASSUME MouseAssumption ==
    /\ MouseSpeeds \subseteq -7 .. 8 /\ LoopTimes \subseteq Nat /\ POLL \in Nat
    /\ MIN_SPEED \in Nat \ {0} /\ MAX_SPEED \in Nat /\ MIN_SPEED <= MAX_SPEED
    /\ Mice \in Seq(Int) /\ \A m \in MouseMoves : m.x \in Int /\ m.y \in Int
ASSUME ZoneAssumption == MaxZone \in 0 .. 15 /\ StickKinds \subseteq {"hid", "ps4", "xbox"}
IsWord(v) == v < 65536
IsSigned(v) == v < 32768
ASSUME StickAssumption ==
    \A k \in StickKinds : \A r \in StickReports[k] :
        /\ r.x \in Int /\ r.y \in Int
        /\ k = "hid" /\ r.bits = 16 => IsWord(r.x) /\ IsWord(r.y)
        /\ k = "ps4" => r.dpad \in Nat
        /\ k = "xbox" => IsSigned(r.x) /\ IsSigned(r.y)

-------------------------------------------------------------------------------
MouseIdle ==
    /\ speed = 8 /\ polled = 0 /\ mouseButtons = {}
    /\ period = Still /\ phase = Still /\ age = Still /\ delta = Still /\ steps = Still
\* Port 0, with the mouse enabled: nothing is asked of the main loop.
FireIdle ==
    /\ mode = FALSE /\ half = 1 /\ skipped = TRUE
    /\ fire = FALSE /\ active = FALSE /\ tracking = FALSE /\ waiting = FALSE
    /\ pulse = FALSE /\ out = FALSE
    /\ heldFor = 0 /\ pulseFor = 0 /\ steady = -1 /\ released = TRUE

StickIdle ==
    /\ stickKind = "hid" /\ stickReport = Hid(8, 128, 128) /\ zone = 0
    /\ stored = 50 /\ axisRead = {} /\ fireRead = FALSE

SumInit ==
    /\ part \in {"ports", "pads", "parser", "mouse", "fire", "display", "stick", "serial", "test",
                "labels"}
    /\ Init /\ (part # "ports" => mouseOn)
    /\ Pads!Init
    /\ IF part = "parser" THEN Parser!Init ELSE ParserIdle
    /\ IF part = "mouse" THEN Mouse!Init ELSE MouseIdle
    /\ IF part = "fire" THEN Fire!Init ELSE FireIdle
    /\ Panel!Init /\ (part # "display" => panel = {})
    /\ IF part = "stick" THEN Stick!Init ELSE StickIdle
    /\ IF part = "test" THEN Test!Init ELSE Serial!Init
    /\ IF part = "labels" THEN LabelInit ELSE label = [layout |-> 0, code |-> 2]

SumNext ==
    \/ part = "ports" /\ Next
       /\ UNCHANGED <<part, label, padVars, parserVars, mouseVars, fireVars, displayVars, stickVars, liveVars>>
    \/ part = "pads" /\ Pads!Next
       /\ UNCHANGED <<part, label, vars, parserVars, mouseVars, fireVars, displayVars, stickVars, liveVars>>
    \/ part = "parser" /\ Parser!Next
       /\ UNCHANGED <<part, label, vars, padVars, mouseVars, fireVars, displayVars, stickVars, liveVars>>
    \/ part = "mouse" /\ Mouse!Next
       /\ UNCHANGED <<part, label, vars, padVars, parserVars, fireVars, displayVars, stickVars, liveVars>>
    \/ part = "fire" /\ Fire!Next
       /\ UNCHANGED <<part, label, vars, padVars, parserVars, mouseVars, displayVars, stickVars, liveVars>>
    \/ part = "display" /\ Panel!Next
       /\ UNCHANGED <<part, label, vars, padVars, parserVars, mouseVars, fireVars, stickVars, liveVars>>
    \/ part = "stick" /\ Stick!Next
       /\ UNCHANGED <<part, label, vars, padVars, parserVars, mouseVars, fireVars, displayVars, liveVars>>
    \/ part = "serial" /\ Serial!Next
       /\ UNCHANGED <<part, label, vars, padVars, parserVars, mouseVars, fireVars, displayVars, stickVars>>
    \/ part = "test" /\ Test!Next
       /\ UNCHANGED <<part, label, vars, padVars, parserVars, mouseVars, fireVars, displayVars, stickVars>>
    \/ part = "labels"
       /\ UNCHANGED <<part, label, vars, padVars, parserVars, mouseVars, fireVars, displayVars, stickVars, liveVars>>

\* The fairness of the parts; the actions it is about are disabled in the states
\* in which the pads and autofire rest while another part moves.
SumSpec ==
    /\ SumInit
    /\ [][SumNext]_sumVars
    /\ Pads!Fairness
    /\ Fire!Fairness

-------------------------------------------------------------------------------
(* The properties of the parts, under their names there. *)

\* No pad has two calls of the driver in progress, none falls silent, and none
\* that was pulled drives a port (xinput_host.c, xinput_atari.cpp).
PadsSound == Pads!PadsSound
\* No wait of the driver keeps the main loop for good (wait_for_tx_complete).
SetupEnds == Pads!SetupEnds
\* Every control of a mouse or stick is found where the descriptor has it
\* (HIDParser.c, CALLBACK_HIDParser_FilterHIDReportItem).
TableTrue == Parser!TableTrue
\* The encoders turn the way of the hand and at its pace (AtariSTMouse.cpp).
HandFollowed == Mouse!HandFollowed
\* Autofire is switched by a hold of three seconds, once in a hold (process_autofire).
SwitchedByHold == Fire!SwitchedByHold
\* The pulses of autofire do not stick (process_autofire).
PulsesGoOn == Fire!PulsesGoOn
\* The panel shows the text of the page (ssd1306_draw_string, ssd1306_show), and
\* the live pages the bytes exchanged last and the latest movements (update).
PictureTrue == Panel!PictureTrue /\ Serial!LivePagesTrue /\ Test!LivePagesTrue
\* A stick pushed beyond the dead zone is read that way at every setting, and one
\* near its centre is not read (get_usb_joystick, ps4_to_atari, map_pad_to_atari).
TiltShown == Stick!TiltShown
\* The entries of the remap pages are told apart by their labels in every layout
\* (get_layout_st_label, get_hid_layout_label, st_key_lookup_hid).
KeysNamed == part = "labels" => EntryTold(label.layout, label.code)
================================================================================
