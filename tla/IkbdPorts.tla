------------------------------ MODULE IkbdPorts ------------------------------
(***************************************************************************)
(* The bytes through which core 0 shows the emulated keyboard processor,   *)
(* on core 1, the joysticks and buttons.  At the end of handle_joystick    *)
(* core 0 publishes three bytes, one after the other; the ROM reads ports  *)
(* 2 and 4, and dr2_getb and dr4_getb each look at them twice, at any time. *)
(*                                                                         *)
(* Of the directions only those of Joy0 are modelled, the port shared with *)
(* the mouse, from its D-Sub socket; a direction is stamped with the poll  *)
(* that sampled it.                                                        *)
(***************************************************************************)
EXTENDS Integers

CONSTANT MaxPolls  \* bound on the number of polls

ASSUME PortsAssumption == MaxPolls \in Nat

VARIABLES
  \* The users.
  stick,    \* Joy0 is held over
  pressed,  \* buttons held: bit 0 right mouse or Joy1 fire, bit 1 left or Joy0 fire
  mouseOn,  \* get_mouse_enabled()
  \* Core 0.
  at0,      \* what it publishes next
  polls,    \* handle_joystick calls so far
  joy,      \* Joy0's part of joystick_state, with the poll that sampled it
  buttons,  \* mouse_state
  \* Shared.
  joystickSnapshot, buttonsSnapshot,
  enabledSnapshot,  \* with the poll that published it
  \* Core 1.
  at1,      \* the register being read, after the first look at the snapshots
  selected, \* DDR4, DDR2 and DR2 are set for reading the joysticks
  first,    \* history: what the first look saw
  read      \* the last value read

env == <<stick, pressed, mouseOn>>
core0 == <<at0, polls, joy, buttons>>
shared == <<joystickSnapshot, buttonsSnapshot, enabledSnapshot>>
core1 == <<at1, selected, first, read>>
vars == <<env, core0, shared, core1>>

Masks == 0 .. 3
Enabled == [on : BOOLEAN, at : Nat]
Joy0 == [dir : BOOLEAN, at : Nat]

\* What a read returned: of port 2 its value and the button bytes it was made
\* from, of port 4 the flag and the directions.
Dr2Reads == [reg : {"dr2"}, val : {0, 2, 4, 6, 255}, from : Masks \X Masks]
Dr4Reads == [reg : {"dr4"}, flag : Enabled, dirs : Joy0]
Idle == [reg |-> "idle"]

Init ==
  /\ stick = FALSE /\ pressed = 0 /\ mouseOn \in BOOLEAN
  /\ at0 = "poll" /\ polls = 0
  /\ joy = [dir |-> FALSE, at |-> 0]
  /\ buttons = 0
  /\ joystickSnapshot = joy
  /\ buttonsSnapshot = 0
  /\ enabledSnapshot = [on |-> TRUE, at |-> 0]
  /\ at1 = "idle" /\ selected = FALSE
  /\ first = 0 /\ read = Idle

-------------------------------------------------------------------------------
(* Core 0. *)

\* handle_joystick: Joy0's directions are left as they were while the mouse has
\* its port.
HandleJoystickFlagFirst ==
  /\ at0 = "poll"
  /\ polls < MaxPolls
  /\ polls' = polls + 1
  /\ joy' = IF mouseOn THEN joy ELSE [dir |-> stick, at |-> polls + 1]
  /\ buttons' = pressed
  /\ at0' = "joystick"
  /\ enabledSnapshot' = [on |-> mouseOn, at |-> polls + 1]
  /\ UNCHANGED <<env, joystickSnapshot, buttonsSnapshot, core1>>
HandleJoystickShifted ==
  /\ at0 = "poll"
  /\ polls < MaxPolls
  /\ polls' = polls + 1
  /\ joy' = IF mouseOn THEN joy ELSE [dir |-> stick, at |-> polls + 1]
  /\ buttons' = 2 * pressed
  /\ at0' = "joystick"
  /\ UNCHANGED <<env, shared, core1>>
HandleJoystick ==
  /\ at0 = "poll"
  /\ polls < MaxPolls
  /\ polls' = polls + 1
  /\ joy' = IF mouseOn THEN joy ELSE [dir |-> stick, at |-> polls + 1]
  /\ buttons' = pressed
  /\ at0' = "joystick"
  /\ UNCHANGED <<env, shared, core1>>

PublishJoystick ==
  /\ at0 = "joystick"
  /\ joystickSnapshot' = joy
  /\ at0' = "buttons"
  /\ UNCHANGED <<env, polls, joy, buttons, buttonsSnapshot, enabledSnapshot, core1>>

PublishButtons ==
  /\ at0 = "buttons"
  /\ buttonsSnapshot' = buttons
  /\ at0' = "enabled"
  /\ UNCHANGED <<env, polls, joy, buttons, joystickSnapshot, enabledSnapshot, core1>>

PublishEnabled ==
  /\ at0 = "enabled"
  /\ enabledSnapshot' = [on |-> mouseOn, at |-> polls]
  /\ at0' = "poll"
  /\ UNCHANGED <<env, polls, joy, buttons, joystickSnapshot, buttonsSnapshot, core1>>

\* A shortcut or a menu button, handled on core 0 between polls.
ToggleMouse ==
  /\ at0 = "poll"
  /\ mouseOn' = ~mouseOn
  /\ UNCHANGED <<stick, pressed, core0, shared, core1>>

-------------------------------------------------------------------------------
(* Core 1. *)

\* dr2_getb looks whether a button is held, and looks again for the value.
Dr2Look ==
  /\ at1 = "idle"
  /\ first' = buttonsSnapshot
  /\ IF buttonsSnapshot = 0
       THEN /\ read' = [reg |-> "dr2", val |-> 255, from |-> <<0, 0>>]
            /\ UNCHANGED at1
       ELSE /\ at1' = "dr2"
            /\ UNCHANGED read
  /\ UNCHANGED <<env, core0, shared, selected>>

Dr2Value ==
  /\ at1 = "dr2"
  /\ read' = [reg |-> "dr2", val |-> 2 * buttonsSnapshot,
              from |-> <<first, buttonsSnapshot>>]
  /\ at1' = "idle"
  /\ first' = 0
  /\ UNCHANGED <<env, core0, shared, selected>>

\* dr4_getb looks whether the mouse is enabled, then at the directions.
Dr4Look ==
  /\ at1 = "idle"
  /\ selected
  /\ at1' = "dr4"
  /\ read' = [reg |-> "dr4", flag |-> enabledSnapshot, dirs |-> [dir |-> FALSE, at |-> 0]]
  /\ UNCHANGED <<env, core0, shared, selected, first>>

Dr4Directions ==
  /\ at1 = "dr4"
  /\ read' = [read EXCEPT !.dirs = joystickSnapshot]
  /\ at1' = "idle"
  /\ UNCHANGED <<env, core0, shared, selected, first>>

\* The port is not set up for the joysticks: an idle bus is read.
Dr4Idle ==
  /\ at1 = "idle"
  /\ ~selected
  /\ read' = Idle
  /\ UNCHANGED <<env, core0, shared, at1, selected, first>>

\* The ROM sets up the direction registers and DR2.
Select ==
  /\ at1 = "idle"
  /\ selected' = ~selected
  /\ UNCHANGED <<env, core0, shared, at1, first, read>>

-------------------------------------------------------------------------------
Users ==
  /\ stick' \in BOOLEAN
  /\ pressed' \in Masks
  /\ UNCHANGED <<mouseOn, core0, shared, core1>>

Core0 == HandleJoystick \/ PublishJoystick \/ PublishButtons \/ PublishEnabled
           \/ ToggleMouse
Core1 == Dr2Look \/ Dr2Value \/ Dr4Look \/ Dr4Directions \/ Dr4Idle \/ Select

Next == Core0 \/ Core1 \/ Users

Spec == Init /\ [][Next]_vars

-------------------------------------------------------------------------------
(* Properties. *)

TypeOK ==
  /\ stick \in BOOLEAN /\ pressed \in Masks /\ mouseOn \in BOOLEAN
  /\ at0 \in {"poll", "joystick", "buttons", "enabled"} /\ polls \in Nat
  /\ joy \in Joy0 /\ buttons \in Masks
  /\ joystickSnapshot \in Joy0 /\ buttonsSnapshot \in Masks
  /\ enabledSnapshot \in Enabled
  /\ at1 \in {"idle", "dr2", "dr4"} /\ selected \in BOOLEAN /\ first \in Masks
  /\ read \in Dr2Reads \cup Dr4Reads \cup {Idle}
  /\ at1 = "dr4" => read \in Dr4Reads

\* When the ROM is shown Joy0's directions in place of the mouse, they are no
\* older than the decision to disable the mouse: never those left over from
\* before the mouse took the port, whenever core 0 publishes in between.
DirectionsCurrent ==
  read \in Dr4Reads /\ at1 # "dr4" /\ ~read.flag.on => read.flag.at <= read.dirs.at

\* What makes it so: joystick_state is published before the flag it belongs to.
Fresh(flag) == ~flag.on => flag.at <= joystickSnapshot.at
IInv ==
  /\ TypeOK
  /\ joy.at <= polls
  /\ joystickSnapshot.at <= joy.at
  /\ at0 # "poll" /\ ~mouseOn => joy.at = polls
  /\ at0 \in {"buttons", "enabled"} => joystickSnapshot = joy
  /\ Fresh(enabledSnapshot)
  /\ at1 = "dr4" => Fresh(read.flag)
  /\ DirectionsCurrent

\* The buttons a value of port 2 shows as held: a cleared bit 2 is the right
\* mouse button or Joy1 fire, a cleared bit 1 the left one or Joy0 fire.
Shown(val) == {b \in {1, 2} : (val \div (IF b = 1 THEN 4 ELSE 2)) % 2 = 0}
Held(mask) == {b \in {1, 2} : (mask \div b) % 2 = 1}

\* HidInput_common.cpp: "core 1 only reads" the snapshots, in "atomic byte
\* accesses".  A button that was held at neither look is not shown.
NoPhantomPress ==
  read \in Dr2Reads => Shown(read.val) \subseteq Held(read.from[1]) \cup Held(read.from[2])
===============================================================================
