---------------------------- MODULE JoystickPorts ----------------------------
(***************************************************************************)
(* What handle_joystick makes of the joysticks on core 0: which device      *)
(* drives which of the two Atari ports, while HID sticks, DualShock 4 pads  *)
(* and Xbox pads come and go, and the user switches the source of a port    *)
(* and the mouse.  Every device here has one interface, which found a slot  *)
(* (HidHost models that); autofire is off, no USB mouse button is down.       *)
(*                                                                         *)
(* A HID stick's report is copied to its buffer only when one has been      *)
(* requested; pads keep their latest report elsewhere, without a request.   *)
(***************************************************************************)
EXTENDS PortList, FiniteSets

CONSTANTS
  Addrs,   \* USB addresses
  Kinds,   \* kinds of device that are plugged in
  MaxPads  \* MAX_PS4_CONTROLLERS

ASSUME JoystickAssumption ==
  /\ Addrs \subseteq 1 .. 7
  /\ Kinds \subseteq {"stick", "pad", "xbox"}
  /\ MaxPads \in Nat

Ports == {0, 1}

VARIABLES
  \* The environment.
  usb,     \* kind of the device at each address, or "none"
  held,    \* what its user does with it
  \* The program.
  usbJoy,  \* s_usb_joy
  armed,   \* addresses of sticks with a requested report (busy)
  latest,  \* the report held of each stick (its buffer) and of each Xbox pad
  pads,    \* controllers[] of ps4_controller.c: address and latest report
  dsub,    \* get_joystick(): ports whose source is the D-Sub socket
  mouseOn, \* get_mouse_enabled()
  dir,     \* joystick_state: directions, per port
  raw,     \* usb_joy_raw_fire
  fire     \* the fire bits of mouse_state

devVars == <<usbJoy, armed, latest, pads>>
outVars == <<dir, raw, fire>>
vars == <<usb, held, devVars, dsub, mouseOn, outVars>>

Inputs == [dir : BOOLEAN, fire : BOOLEAN]
Rest   == [dir |-> FALSE, fire |-> FALSE]
Push   == [dir |-> TRUE, fire |-> TRUE]
\* A zeroed ps4_report_t: the D-pad code 0 is "up".
Blank  == [dir |-> TRUE, fire |-> FALSE]

\* Entry of a port in the lists of devices: Joy1 first, then Joy0.
Entry(p) == 2 - p

Init ==
  /\ usb = [a \in Addrs |-> "none"]
  /\ held = [a \in Addrs |-> Rest]
  /\ usbJoy = <<>>
  /\ armed = {}
  /\ latest = [a \in Addrs |-> Rest]
  /\ pads = <<>>
  /\ dsub \in SUBSET Ports
  /\ mouseOn \in BOOLEAN
  /\ dir = [p \in Ports |-> FALSE]
  /\ raw = [p \in Ports |-> FALSE]
  /\ fire = [p \in Ports |-> FALSE]

-------------------------------------------------------------------------------
(* tuh_task. *)

\* The mount callbacks: a HID joystick, pads included, is given a port and has
\* a report requested; an Xbox pad is registered under its address.
PlugAnyPad(a, kind) ==
  /\ usb[a] = "none"
  /\ usb' = [usb EXCEPT ![a] = kind]
  /\ IF kind = "xbox"
       THEN UNCHANGED <<usbJoy, armed, pads>>
       ELSE /\ usbJoy' = AssignSlot(usbJoy, a)
            /\ armed' = armed \cup {a}
            /\ pads' = IF kind = "pad" /\ Len(pads) <= MaxPads
                         THEN Append(pads, [addr |-> a, val |-> Blank]) ELSE pads
  /\ UNCHANGED <<held, latest, dsub, mouseOn, outVars>>
Plug(a, kind) ==
  /\ usb[a] = "none"
  /\ usb' = [usb EXCEPT ![a] = kind]
  /\ IF kind = "xbox"
       THEN UNCHANGED <<usbJoy, armed, pads>>
       ELSE /\ usbJoy' = AssignSlot(usbJoy, a)
            /\ armed' = armed \cup {a}
            /\ pads' = IF kind = "pad" /\ Len(pads) < MaxPads
                         THEN Append(pads, [addr |-> a, val |-> Blank]) ELSE pads
  /\ UNCHANGED <<held, latest, dsub, mouseOn, outVars>>

\* The unmount callbacks.  Nothing takes a DualShock 4 out of controllers[]:
\* ps4_unmount_cb is not called.
Unplug(a) ==
  /\ usb[a] # "none"
  /\ usb' = [usb EXCEPT ![a] = "none"]
  /\ held' = [held EXCEPT ![a] = Rest]
  /\ latest' = [latest EXCEPT ![a] = Rest]
  /\ usbJoy' = ReleaseSlot(usbJoy, a)
  /\ armed' = armed \ {a}
  /\ UNCHANGED <<pads, dsub, mouseOn, outVars>>

\* A report: find_controller_by_addr takes the first entry of that address.
PadOf(a) == {i \in 1 .. Len(pads) : /\ pads[i].addr = a
                                    /\ \A j \in 1 .. i - 1 : pads[j].addr # a}

ReportStick(a) ==
  /\ usb[a] = "stick"
  /\ a \in armed
  /\ armed' = armed \ {a}
  /\ latest' = [latest EXCEPT ![a] = held[a]]
  /\ UNCHANGED <<usb, held, usbJoy, pads, dsub, mouseOn, outVars>>

ReportPad(a) ==
  /\ usb[a] = "pad"
  /\ pads' = [i \in 1 .. Len(pads) |->
                IF i \in PadOf(a) THEN [pads[i] EXCEPT !.val = held[a]] ELSE pads[i]]
  /\ UNCHANGED <<usb, held, usbJoy, armed, latest, dsub, mouseOn, outVars>>

ReportXbox(a) ==
  /\ usb[a] = "xbox"
  /\ latest' = [latest EXCEPT ![a] = held[a]]
  /\ UNCHANGED <<usb, held, usbJoy, armed, pads, dsub, mouseOn, outVars>>

-------------------------------------------------------------------------------
(* handle_joystick, the two sockets reading gpio. *)

\* get_usb_joystick: no data while the stick is busy, and none from a pad,
\* whose interface has no report information.
StickReady(p) ==
  /\ Entry(p) <= Len(usbJoy)
  /\ usbJoy[Entry(p)] \notin armed
  /\ usb[usbJoy[Entry(p)]] = "stick"

\* xinput_to_atari_joystick: the pads count in the order of their addresses.
XboxFirst(n) == {a \in Addrs : /\ usb[a] = "xbox"
                               /\ \A b \in Addrs : usb[b] = "xbox" => a <= b}
XboxAt(n) == {a \in Addrs : /\ usb[a] = "xbox"
                            /\ Cardinality({b \in Addrs : usb[b] = "xbox" /\ b < a}) = n - 1}

\* What a port in USB mode is offered, as a set of at most one record: the stick
\* that owns it, else a DualShock 4, else an Xbox pad.
UsbInput(p) ==
  IF StickReady(p)
    THEN LET a == usbJoy[Entry(p)] IN {[src |-> a, val |-> latest[a]]}
  ELSE IF Entry(p) <= Len(pads)
    THEN {[src |-> pads[Entry(p)].addr, val |-> pads[Entry(p)].val]}
  ELSE {[src |-> a, val |-> latest[a]] : a \in XboxAt(Entry(p))}

Polled(p) == p \notin dsub /\ ~(p = 0 /\ mouseOn)
\* The D-Sub directions of Joy0 are those of the mouse while it is enabled.
FromSocket(p) == p \in dsub /\ ~(p = 0 /\ mouseOn)

HandleJoystickNoRearm(gpio) ==
  LET in(p) == CHOOSE i \in UsbInput(p) : TRUE
      got   == {p \in Ports : Polled(p) /\ UsbInput(p) # {}}
      newRaw == [p \in Ports |-> IF p \in dsub THEN FALSE
                                 ELSE IF p \in got THEN in(p).val.fire ELSE raw[p]]
  IN /\ raw' = newRaw
     /\ dir' = [p \in Ports |-> IF FromSocket(p) THEN gpio[p].dir
                                ELSE IF p \in got THEN in(p).val.dir ELSE dir[p]]
     /\ fire' = [p \in Ports |-> \/ p \in dsub /\ gpio[p].fire
                                 \/ Polled(p) /\ newRaw[p]
                                 \/ p = 1 /\ gpio[p].fire]
     /\ UNCHANGED <<usb, held, usbJoy, armed, latest, pads, dsub, mouseOn>>
HandleJoystick(gpio) ==
  LET in(p) == CHOOSE i \in UsbInput(p) : TRUE
      got   == {p \in Ports : Polled(p) /\ UsbInput(p) # {}}
      newRaw == [p \in Ports |-> IF p \in dsub THEN FALSE
                                 ELSE IF p \in got THEN in(p).val.fire ELSE raw[p]]
  IN /\ raw' = newRaw
     /\ dir' = [p \in Ports |-> IF FromSocket(p) THEN gpio[p].dir
                                ELSE IF p \in got THEN in(p).val.dir ELSE dir[p]]
     \* D-Sub fire, or USB fire of a polled port; Joy1's fire pin is always read
     /\ fire' = [p \in Ports |-> \/ p \in dsub /\ gpio[p].fire
                                 \/ Polled(p) /\ newRaw[p]
                                 \/ p = 1 /\ gpio[p].fire]
     \* a stick that was read is armed again
     /\ armed' = armed \cup {usbJoy[Entry(p)] : p \in {q \in got : StickReady(q)}}
     /\ UNCHANGED <<usb, held, usbJoy, latest, pads, dsub, mouseOn>>

Poll == \E gpio \in [Ports -> {Rest, Push}] : HandleJoystick(gpio)

-------------------------------------------------------------------------------
(* The users, and the shortcuts and menus that switch the sources. *)

Move(a) ==
  /\ usb[a] # "none"
  /\ held' = [held EXCEPT ![a] = IF @ = Rest THEN Push ELSE Rest]
  /\ UNCHANGED <<usb, devVars, dsub, mouseOn, outVars>>

ToggleSource(p) ==
  /\ dsub' = IF p \in dsub THEN dsub \ {p} ELSE dsub \cup {p}
  /\ UNCHANGED <<usb, held, devVars, mouseOn, outVars>>

ToggleMouse ==
  /\ mouseOn' = ~mouseOn
  /\ UNCHANGED <<usb, held, devVars, dsub, outVars>>

Report(a) == ReportStick(a) \/ ReportPad(a) \/ ReportXbox(a)

Next == \/ \E a \in Addrs : \/ \E kind \in Kinds : Plug(a, kind)
                            \/ Unplug(a) \/ Report(a) \/ Move(a)
        \/ Poll
        \/ \E p \in Ports : ToggleSource(p)
        \/ ToggleMouse

Spec == Init /\ [][Next]_vars

\* The main loop runs for ever, and a device that is armed reports.
FairSpec == /\ Spec
            /\ WF_vars(Poll)
            /\ \A a \in Addrs : WF_vars(Report(a))

-------------------------------------------------------------------------------
(* Properties. *)

TypeOK ==
  /\ usb \in [Addrs -> Kinds \cup {"none"}]
  /\ held \in [Addrs -> Inputs]
  /\ usbJoy \in Seq(Addrs) /\ Len(usbJoy) <= 2
  /\ armed \subseteq Addrs
  /\ latest \in [Addrs -> Inputs]
  /\ pads \in Seq([addr : Addrs, val : Inputs]) /\ Len(pads) <= MaxPads
  /\ dsub \subseteq Ports
  /\ mouseOn \in BOOLEAN
  /\ dir \in [Ports -> BOOLEAN] /\ raw \in [Ports -> BOOLEAN]
  /\ fire \in [Ports -> BOOLEAN]

\* ps4_controller.h: entry 0 is the "first connected controller": what the
\* readers of controllers[] are given is a controller that is connected, and
\* reports there.
PadsConnected ==
  \A i \in 1 .. Len(pads) : usb[pads[i].addr] = "pad" /\ i \in PadOf(pads[i].addr)

\* No device drives both ports at once (as a single Xbox pad once did), however
\* sticks and pads come, go and change places.
OnePortEach ==
  TypeOK /\ (PadsConnected => \A i \in UsbInput(0), j \in UsbInput(1) : i.src # j.src)

\* The device that a port in USB mode is left to: the stick that owns it, where
\* no pad is in line for the port, else the live DualShock 4 of its entry, else
\* the Xbox pad.
Drives(a, p) ==
  LET owner == {usbJoy[i] : i \in {Entry(p)} \cap 1 .. Len(usbJoy)}
      owned == \E s \in owner : usb[s] = "stick"
  IN \/ owned /\ a \in owner /\ Entry(p) > Len(pads) /\ XboxAt(Entry(p)) = {}
     \/ ~owned /\ usb[a] = "pad" /\ Entry(p) \in PadOf(a)
     \/ ~owned /\ Entry(p) > Len(pads) /\ a \in XboxAt(Entry(p))

\* A joystick that is held over while a port in USB mode is left to it is shown
\* there, and stays shown, whatever happens on the other port, to the
\* other devices and on the sockets.
HeldStickShown ==
  \A a \in Addrs, p \in Ports :
    <>[](Drives(a, p) /\ Polled(p) /\ held[a] = Push) => <>[](dir[p] /\ fire[p])
===============================================================================
