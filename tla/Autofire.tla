-------------------------------- MODULE Autofire --------------------------------
(***************************************************************************)
(* The autofire of a joystick port: process_autofire of                     *)
(* HidInput_joystick.cpp with what handle_joystick gives it.  The polls are *)
(* of any length in Delays; times are kept as what passed since.            *)
(***************************************************************************)
EXTENDS Integers

CONSTANTS
    Hold,           \* the hold of the button that switches autofire, 3 s
    HalfPeriods,    \* of the pulses, for the rates the menu offers
    Delays          \* the time between two polls

VARIABLES
    mode,       \* get_autofire_mode: FALSE is off, TRUE is standby
    half,       \* the half period of get_autofire_rate
    skipped,    \* the port is not polled: port 0 by USB, with the mouse enabled
    fire,       \* the button, as the last report or the pin has it
    active, tracking, waiting,  \* autofire_active, _hold_tracking, _wait_release
    heldFor,    \* time since autofire_hold_start, up to Hold
    phase,      \* autofire_phase_state
    phaseFor,   \* time since autofire_phase_tm, up to the longest half period
    out,        \* what process_autofire returned last
    steady,     \* history: how long every poll has found the button down, or -1
    released    \* history: a poll since the last switch has found it up, or autofire off

vars == <<mode, half, skipped, fire, active, tracking, waiting, heldFor, phase, phaseFor, out,
          steady, released>>

Longest == CHOOSE h \in HalfPeriods : \A g \in HalfPeriods : g <= h
UpTo(n, bound) == IF n > bound THEN bound ELSE n

Init ==
    /\ mode \in BOOLEAN /\ half \in HalfPeriods
    /\ skipped = FALSE
    /\ fire = FALSE
    /\ active = FALSE /\ tracking = FALSE /\ waiting = FALSE
    /\ heldFor = 0
    /\ phase = FALSE /\ phaseFor = 0
    /\ out = FALSE
    /\ steady = -1 /\ released = TRUE

\* process_autofire, d after the last poll.  Off: all is forgotten.
Off(d) ==
    /\ ~mode
    /\ active' = FALSE /\ tracking' = FALSE /\ waiting' = FALSE
    /\ out' = fire
    /\ heldFor' = UpTo(heldFor + d, Hold)
    /\ phaseFor' = UpTo(phaseFor + d, Longest)
    /\ UNCHANGED phase

\* The hold of the button.
HeldLong(d) == ~waiting /\ fire /\ tracking /\ heldFor + d >= Hold
TrackStaysSet(d) ==
    /\ active' = IF HeldLong(d) THEN ~active ELSE active
    /\ waiting' = IF waiting THEN fire ELSE HeldLong(d)
    /\ tracking' = IF waiting THEN tracking ELSE (tracking \/ fire) /\ ~HeldLong(d)
    /\ heldFor' = IF ~waiting /\ fire /\ ~tracking THEN 0 ELSE UpTo(heldFor + d, Hold)
Track(d) ==
    /\ active' = IF HeldLong(d) THEN ~active ELSE active
    /\ waiting' = IF waiting THEN fire ELSE HeldLong(d)
    /\ tracking' = IF waiting THEN tracking ELSE fire /\ ~HeldLong(d)
    /\ heldFor' = IF ~waiting /\ fire /\ ~tracking THEN 0 ELSE UpTo(heldFor + d, Hold)

\* The pulses, which begin with the switch.
PulseStuck(d) ==
    LET begins == active' /\ ~active
    IN  /\ phase' = IF begins THEN TRUE ELSE phase
        /\ phaseFor' = IF begins THEN 0 ELSE UpTo(phaseFor + d, Longest)
        /\ out' = (fire \/ (active' /\ phase'))
Pulse(d) ==
    LET begins == active' /\ ~active
        turns == active' /\ ~begins /\ phaseFor + d >= half
    IN  /\ phase' = IF begins THEN TRUE ELSE IF turns THEN ~phase ELSE phase
        /\ phaseFor' = IF begins \/ turns THEN 0 ELSE UpTo(phaseFor + d, Longest)
        /\ out' = (fire \/ (active' /\ phase'))

Autofire(d) == IF mode THEN Track(d) /\ Pulse(d) ELSE Off(d)

Poll(d) ==
    /\ ~skipped
    /\ Autofire(d)
    /\ steady' = IF ~fire THEN -1 ELSE IF steady < 0 THEN 0 ELSE UpTo(steady + d, Hold)
    /\ released' = IF active' # active /\ mode THEN FALSE ELSE released \/ ~fire \/ ~mode
    /\ UNCHANGED <<mode, half, skipped, fire>>

\* handle_joystick goes on with the next port, and time passes.
Skip(d) ==
    /\ skipped
    /\ heldFor' = UpTo(heldFor + d, Hold)
    /\ phaseFor' = UpTo(phaseFor + d, Longest)
    /\ steady' = IF steady < 0 THEN -1 ELSE UpTo(steady + d, Hold)
    /\ UNCHANGED <<mode, half, skipped, fire, active, tracking, waiting, phase, out, released>>

\* The player, and the menu.
PressOrRelease ==
    /\ fire' = ~fire
    /\ UNCHANGED <<mode, half, skipped, active, tracking, waiting, heldFor, phase, phaseFor, out,
                   steady, released>>
Configure ==
    /\ \/ mode' = ~mode /\ UNCHANGED <<half, skipped>>
       \/ half' \in HalfPeriods \ {half} /\ UNCHANGED <<mode, skipped>>
       \/ skipped' = ~skipped /\ UNCHANGED <<mode, half>>
    /\ UNCHANGED <<fire, active, tracking, waiting, heldFor, phase, phaseFor, out, steady, released>>

Next ==
    \/ \E d \in Delays : Poll(d) \/ Skip(d)
    \/ PressOrRelease
    \/ Configure

Spec == Init /\ [][Next]_vars

\* The main loop polls, as long as the port is not skipped.
Fairness == WF_vars(\E d \in Delays : Poll(d))

-------------------------------------------------------------------------------
(* Properties. *)

\* Autofire is switched on or off by a hold of three seconds only, every poll
\* of which has found the button down, and once in a hold: the button has been
\* up, or autofire off, since the last switch.  Taps, changes of the rate, standby and off do not
\* add up to a hold.  (steady goes on while the port is not polled, as the time
\* of the code does.)
SwitchedByHold ==
    [][active' # active /\ mode => steady' >= Hold /\ released]_vars

\* Pulses never stick: while autofire runs and nobody holds the button what the
\* port shows goes down and up again.
Pulsing == active /\ mode /\ ~skipped /\ ~fire
PulsesGoOn ==
    /\ Pulsing /\ out ~> ~out \/ ~Pulsing
    /\ Pulsing /\ ~out ~> out \/ ~Pulsing
================================================================================
