------------------------------ MODULE MouseEncoder ------------------------------
(***************************************************************************)
(* The USB mice: handle_mouse of HidInput_mouse.cpp reads their reports     *)
(* every 10 ms and sets the speed of the two quadrature encoders of         *)
(* AtariSTMouse.cpp, which the main loop advances as often as it can.  Time *)
(* is kept as what passed since the last rotation of each register.         *)
(***************************************************************************)
EXTENDS Integers, SequencesExt

CONSTANTS
    Mice,           \* the keys of device, in the order of the map
    Moves,          \* what a report tells: [buttons, x, y]
    Speeds,         \* the settings of mouse_speed
    MAX_SPEED, MIN_SPEED,
    POLL,           \* the time between two polls of the USB devices
    Delays          \* the time an iteration of the main loop takes

VARIABLES
    speed,      \* ui_->get_mouse_speed()
    period,     \* x_period_us, y_period_us
    phase,      \* how far each register was rotated right
    age,        \* time since the last rotation, up to MAX_SPEED + 1
    polled,     \* time since the last poll
    buttons,    \* usb_mouse_buttons
    delta,      \* history: what the last poll read
    steps       \* history: rotations of each register since then

vars == <<speed, period, phase, age, polled, buttons, delta, steps>>

Axes == {"x", "y"}
Magnitude(n) == IF n < 0 THEN -n ELSE n
Truncate(n, d) == IF n < 0 THEN -((-n) \div d) ELSE n \div d

\* MOUSE_MASK, bits 0 to 3 of 0x33333333, and the two bits of a register that
\* dr4_getb reads.
MaskBit(k) == IF k % 4 \in {0, 1} THEN 1 ELSE 0
Pair(a) == <<MaskBit(phase[a]), MaskBit(phase[a] + 1)>>

\* mouse_accel and the conversion to int.
Accelerated(v) ==
    IF speed <= 0 THEN Truncate(v * (70 + 8 * speed), 70) ELSE Truncate(v * (5 + speed), 5)

\* set_speed_internal
PeriodOneSided(v) ==
    IF v = 0 THEN 0
    ELSE LET p == MAX_SPEED \div Magnitude(v)
         IN  IF v > 0 THEN (IF p < MIN_SPEED THEN MIN_SPEED ELSE p)
             ELSE (IF -p < MIN_SPEED THEN MIN_SPEED ELSE -p)
Period(v) ==
    IF v = 0 THEN 0
    ELSE LET p == MAX_SPEED \div Magnitude(v)
         IN  IF v > 0 THEN (IF p < MIN_SPEED THEN MIN_SPEED ELSE p)
             ELSE (IF -p > -MIN_SPEED THEN -MIN_SPEED ELSE -p)

-------------------------------------------------------------------------------
\* AtariSTMouse(): each register begins in a phase of its own.
Init ==
    /\ speed \in Speeds
    /\ period = [a \in Axes |-> 0]
    /\ phase \in [Axes -> 0 .. 3]
    /\ age = [a \in Axes |-> 0]
    /\ polled = 0
    /\ buttons = {}
    /\ delta = [a \in Axes |-> 0]
    /\ steps = [a \in Axes |-> 0]

\* AtariSTMouse::update, after d since it was called last: the registers that
\* are due, and what becomes of them.
Later(a, d) == IF age[a] + d > MAX_SPEED THEN MAX_SPEED + 1 ELSE age[a] + d
Due(d) == {a \in Axes : period[a] # 0 /\ Later(a, d) > Magnitude(period[a])}
UpdateKeepsTime(d) ==
    /\ phase' = [a \in Axes |-> IF a \notin Due(d) THEN phase[a]
                                ELSE IF period[a] > 0 THEN (phase[a] + 1) % 4
                                ELSE (phase[a] + 3) % 4]
    /\ age' = [a \in Axes |-> Later(a, d)]
Update(d) ==
    /\ phase' = [a \in Axes |-> IF a \notin Due(d) THEN phase[a]
                                ELSE IF period[a] > 0 THEN (phase[a] + 1) % 4
                                ELSE (phase[a] + 3) % 4]
    /\ age' = [a \in Axes |-> IF a \in Due(d) THEN 0 ELSE Later(a, d)]

\* handle_mouse: the mice that have a report are read in the order of the map,
\* so that the last one decides.  A mouse without one has not moved.
HandleMouse(report) ==
    LET heard == {m \in DOMAIN Mice : Mice[m] \in DOMAIN report}
        last == report[Mice[CHOOSE m \in heard : \A n \in heard : n <= m]]
        moved == [a \in Axes |-> IF heard = {} THEN 0 ELSE last[a]]
    IN  /\ delta' = moved
        /\ buttons' = IF heard = {} THEN buttons ELSE last.buttons
        /\ period' = [a \in Axes |-> Period(Accelerated(moved[a]))]
        /\ steps' = [a \in Axes |-> 0]

\* An iteration of the main loop, without the poll and with it; the poll ends
\* with ui.update, which may change the speed.
Loop(d) ==
    /\ polled + d < POLL
    /\ Update(d)
    /\ polled' = polled + d
    /\ steps' = [a \in Axes |-> IF a \in Due(d) THEN steps[a] + 1 ELSE steps[a]]
    /\ UNCHANGED <<speed, period, buttons, delta>>

LoopAndPoll(d, report, s) ==
    /\ polled + d >= POLL
    /\ Update(d)
    /\ polled' = 0
    /\ HandleMouse(report)
    /\ speed' = s

Reports == UNION {[S -> Moves] : S \in SUBSET ToSet(Mice)}

Next ==
    \E d \in Delays :
        \/ Loop(d)
        \/ \E report \in Reports, s \in Speeds : LoopAndPoll(d, report, s)

Spec == Init /\ [][Next]_vars

-------------------------------------------------------------------------------
(* Properties. *)

\* The Gray code the emulated ROM decodes: the pair of bits one step further.
Onward == [pair \in {0, 1} \X {0, 1} |->
              CASE pair = <<1, 1>> -> <<1, 0>> [] pair = <<1, 0>> -> <<0, 0>>
                [] pair = <<0, 0>> -> <<0, 1>> [] pair = <<0, 1>> -> <<1, 1>>]

\* The pointer follows the hand: an encoder turns only the way the mouse was
\* moved in the last poll, one step of the Gray code at a time whatever the
\* speed setting and the delay of the loop, and not at all while the axis rests.
FollowsHand ==
    [][\A a \in Axes :
         Pair(a)' # Pair(a) =>
           \/ delta[a] > 0 /\ Pair(a)' = Onward[Pair(a)]
           \/ delta[a] < 0 /\ Pair(a) = Onward[Pair(a)']]_vars

\* And at its pace: the steps since a poll are those that fit the period of the
\* speed, and that is never shorter than MIN_SPEED.
Paced ==
    \A a \in Axes : steps[a] > 1 =>
        /\ (steps[a] - 1) * Magnitude(period[a]) < polled
        /\ (steps[a] - 1) * MIN_SPEED < polled

\* The pointer goes the way of the hand and at its pace.
HandFollowed == FollowsHand /\ []Paced
================================================================================
