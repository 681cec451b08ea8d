---------------------------- MODULE DriversProofs ----------------------------
(***************************************************************************)
(* Theorems about the parts of Drivers, for every value of their constants. *)
(***************************************************************************)
EXTENDS Drivers, PanelAndParserProofs

-------------------------------------------------------------------------------
(* The ports of the chip, for any number of polls. *)

\* An idle bus is not a reading of the joysticks.
LEMMA IdleShowsNothing == Idle \notin Dr4Reads
BY DEF Idle, Dr4Reads

LEMMA PortsInit == Init => IInv
<1> SUFFICES ASSUME Init PROVE IInv
  OBVIOUS
<1> USE DEF Init, env, core0, shared, core1, vars
<1>1. joy \in Joy0 /\ joystickSnapshot \in Joy0 /\ enabledSnapshot \in Enabled
  BY DEF Joy0, Enabled
<1>2. TypeOK
  <2>1. polls \in Nat /\ {stick, mouseOn, selected} \subseteq BOOLEAN
    OBVIOUS
  <2>2. {pressed, buttons, buttonsSnapshot, first} \subseteq Masks
    BY DEF Masks
  <2>3. read \in {Idle} /\ at1 = "idle" /\ at0 = "poll"
    OBVIOUS
  <2> QED
    BY <1>1, <2>1, <2>2, <2>3, Zenon DEF TypeOK
<1>3. joy.at <= polls /\ joystickSnapshot.at <= joy.at /\ enabledSnapshot.on
  OBVIOUS
<1>4. DirectionsCurrent
  BY IdleShowsNothing DEF DirectionsCurrent
<1> QED
  BY <1>2, <1>3, <1>4 DEF IInv, Fresh

LEMMA PortsStep == IInv /\ [Next]_vars => IInv'
<1> SUFFICES ASSUME IInv, [Next]_vars PROVE IInv'
  OBVIOUS
<1> USE DEF env, core0, shared, core1, vars
<1> USE DEF IInv, Fresh, DirectionsCurrent, TypeOK, Masks, Enabled, Joy0, Dr2Reads, Dr4Reads, Idle
<1>1. CASE HandleJoystick
  BY <1>1 DEF HandleJoystick
<1>2. CASE PublishJoystick
  BY <1>2 DEF PublishJoystick
<1>3. CASE PublishButtons
  BY <1>3 DEF PublishButtons
<1>4. CASE PublishEnabled
  BY <1>4 DEF PublishEnabled
<1>5. CASE ToggleMouse
  BY <1>5 DEF ToggleMouse
<1>6. CASE Dr2Look
  BY <1>6 DEF Dr2Look
<1>7. CASE Dr2Value
  BY <1>7 DEF Dr2Value
<1>8. CASE Dr4Look
  BY <1>8 DEF Dr4Look
<1>9. CASE Dr4Directions
  BY <1>9 DEF Dr4Directions
<1>10. CASE Dr4Idle
  BY <1>10 DEF Dr4Idle
<1>11. CASE Select
  BY <1>11 DEF Select
<1>12. CASE Users
  BY <1>12 DEF Users
<1>13. CASE UNCHANGED vars
  BY <1>13
<1> QED
  BY <1>1, <1>2, <1>3, <1>4, <1>5, <1>6, <1>7, <1>8, <1>9, <1>10, <1>11, <1>12, <1>13
     DEF Next, Core0, Core1

\* The inductive invariant holds in every reachable state.
THEOREM PortsInductive == SumSpec => []IInv
<1>1. SumInit => IInv
  BY PortsInit DEF SumInit
<1>2. IInv /\ [SumNext]_sumVars => IInv'
  BY PortsStep DEF SumNext, sumVars
<1> QED
  BY <1>1, <1>2, PTL DEF SumSpec

\* Every variable keeps its type; in particular port 2 reads as one of the five
\* values of dr2_getb.
THEOREM PortsTyped == SumSpec => []TypeOK
<1>1. IInv => TypeOK
  BY DEF IInv
<1> QED
  BY <1>1, PortsInductive, PTL

\* The directions that dr4_getb shows for Joy0 in place of the mouse were
\* sampled no earlier than the poll that disabled the mouse.
THEOREM Current == SumSpec => []DirectionsCurrent
<1>1. IInv => DirectionsCurrent
  BY DEF IInv
<1> QED
  BY <1>1, PortsInductive, PTL

-------------------------------------------------------------------------------
(* Autofire, for any length of the hold and any time between two polls. *)

FireTypes ==
    /\ mode \in BOOLEAN /\ skipped \in BOOLEAN /\ fire \in BOOLEAN /\ active \in BOOLEAN
    /\ tracking \in BOOLEAN /\ waiting \in BOOLEAN /\ released \in BOOLEAN
    /\ heldFor \in 0 .. Hold
    /\ steady \in -1 .. Hold

\* While a hold is timed every poll since it began has found the button down.
HoldTimed == tracking => steady >= heldFor

\* After a switch the release is waited for, and no hold is timed meanwhile.
ReleaseAwaited ==
    /\ waiting => ~tracking
    /\ ~released => waiting

FireInv == FireTypes /\ HoldTimed /\ ReleaseAwaited

LEMMA Capped ==
    ASSUME NEW n \in Nat, NEW bound \in Nat
    PROVE  /\ Fire!UpTo(n, bound) \in 0 .. bound
           /\ n >= bound => Fire!UpTo(n, bound) = bound
           /\ n <= bound => Fire!UpTo(n, bound) = n
BY DEF Fire!UpTo

LEMMA CappedOrder ==
    ASSUME NEW m \in Nat, NEW n \in Nat, NEW bound \in Nat, m <= n
    PROVE  Fire!UpTo(m, bound) <= Fire!UpTo(n, bound)
BY DEF Fire!UpTo

LEMMA FireInit == Fire!Init \/ FireIdle => FireInv
<1> SUFFICES ASSUME Fire!Init \/ FireIdle PROVE FireInv
  OBVIOUS
<1>1. 0 \in 0 .. Hold /\ -1 \in -1 .. Hold
  BY AutofireAssumption
<1>2. FireTypes
  BY <1>1 DEF Fire!Init, FireIdle, FireTypes
<1>3. HoldTimed /\ ReleaseAwaited
  BY DEF Fire!Init, FireIdle, HoldTimed, ReleaseAwaited
<1> QED
  BY <1>2, <1>3 DEF FireInv

\* A poll: the three cases of the hold, and autofire off.
LEMMA FirePoll ==
    ASSUME FireInv, NEW d \in PollTimes, Fire!Poll(d)
    PROVE  FireInv' /\ (active' # active /\ mode => steady' >= Hold /\ released)
<1> USE AutofireAssumption
<1> d \in Nat /\ Hold \in Nat
  OBVIOUS
<1>1. /\ heldFor \in 0 .. Hold /\ steady \in -1 .. Hold
      /\ mode \in BOOLEAN /\ skipped \in BOOLEAN /\ fire \in BOOLEAN /\ active \in BOOLEAN
    /\ tracking \in BOOLEAN /\ waiting \in BOOLEAN /\ released \in BOOLEAN
      /\ heldFor + d \in Nat
  BY DEF FireInv, FireTypes
<1>2. Fire!UpTo(heldFor + d, Hold) \in 0 .. Hold
  BY <1>1, Capped
<1>3. /\ steady' \in -1 .. Hold
      /\ fire => steady' >= 0
      /\ tracking /\ fire => steady' = Fire!UpTo(steady + d, Hold)
  <2>1. steady >= 0 => Fire!UpTo(steady + d, Hold) \in 0 .. Hold
    BY <1>1, Capped
  <2> QED
    BY <1>1, <2>1 DEF Fire!Poll, FireInv, HoldTimed
<1>4. tracking => Fire!UpTo(heldFor + d, Hold) <= Fire!UpTo(steady + d, Hold)
  <2> SUFFICES ASSUME tracking PROVE Fire!UpTo(heldFor + d, Hold) <= Fire!UpTo(steady + d, Hold)
    OBVIOUS
  <2>1. steady + d \in Nat /\ heldFor + d <= steady + d
    BY <1>1 DEF FireInv, HoldTimed
  <2> QED
    BY <1>1, <2>1, CappedOrder
<1>5. CASE mode
  <2>1. Fire!Track(d)
    BY <1>5 DEF Fire!Poll, Fire!Autofire
  <2>2. Fire!HeldLong(d) => steady' >= Hold /\ released
    <3> SUFFICES ASSUME Fire!HeldLong(d) PROVE steady' >= Hold /\ released
      OBVIOUS
    <3>1. Fire!UpTo(heldFor + d, Hold) = Hold
      BY <1>1, Capped DEF Fire!HeldLong
    <3> QED
      BY <1>1, <1>3, <1>4, <3>1 DEF Fire!HeldLong, FireInv, ReleaseAwaited
  <2>3. FireTypes'
    <3>1. heldFor' \in 0 .. Hold
      BY <1>2, <2>1 DEF Fire!Track
    <3>2. /\ active' \in BOOLEAN /\ waiting' \in BOOLEAN /\ tracking' \in BOOLEAN
          /\ released' \in BOOLEAN
      BY <1>1, <2>1, Zenon DEF Fire!Poll, Fire!Track, Fire!HeldLong
    <3> QED
      BY <1>1, <1>3, <3>1, <3>2 DEF Fire!Poll, FireTypes
  <2>4. HoldTimed'
    BY <1>1, <1>2, <1>3, <1>4, <2>1 DEF Fire!Track, HoldTimed, Fire!HeldLong, FireInv, ReleaseAwaited
  <2>5. ReleaseAwaited'
    BY <1>1, <1>5, <2>1 DEF Fire!Poll, Fire!Track, Fire!HeldLong, FireInv, ReleaseAwaited
  <2> QED
    BY <2>1, <2>2, <2>3, <2>4, <2>5 DEF Fire!Track, FireInv
<1>6. CASE ~mode
  <2>1. Fire!Off(d)
    BY <1>6 DEF Fire!Poll, Fire!Autofire
  <2> QED
    BY <1>1, <1>2, <1>3, <1>6, <2>1
    DEF Fire!Poll, Fire!Off, FireInv, FireTypes, HoldTimed, ReleaseAwaited
<1> QED
  BY <1>1, <1>5, <1>6

\* While the port is not polled only the clocks go on, both of them.
LEMMA FireSkip ==
    ASSUME FireInv, NEW d \in PollTimes, Fire!Skip(d)
    PROVE  FireInv' /\ UNCHANGED active
<1> USE AutofireAssumption
<1>1. /\ heldFor + d \in Nat
      /\ Fire!UpTo(heldFor + d, Hold) \in 0 .. Hold
  BY Capped DEF FireInv, FireTypes
<1>2. steady >= 0 => /\ Fire!UpTo(steady + d, Hold) \in 0 .. Hold
                     /\ steady >= heldFor => Fire!UpTo(heldFor + d, Hold) <= Fire!UpTo(steady + d, Hold)
  <2> SUFFICES ASSUME steady >= 0
               PROVE  /\ Fire!UpTo(steady + d, Hold) \in 0 .. Hold
                      /\ steady >= heldFor => Fire!UpTo(heldFor + d, Hold) <= Fire!UpTo(steady + d, Hold)
    OBVIOUS
  <2>1. steady + d \in Nat /\ (steady >= heldFor => heldFor + d <= steady + d)
    BY DEF FireInv, FireTypes
  <2> QED
    BY <1>1, <2>1, Capped, CappedOrder
<1> QED
  BY <1>1, <1>2 DEF Fire!Skip, FireInv, FireTypes, HoldTimed, ReleaseAwaited

LEMMA FireStep == FireInv /\ [Fire!Next]_fireVars => FireInv'
<1> SUFFICES ASSUME FireInv, [Fire!Next]_fireVars PROVE FireInv'
  OBVIOUS
<1> USE DEF FireInv, FireTypes, HoldTimed, ReleaseAwaited
<1>1. CASE \E d \in PollTimes : Fire!Poll(d) \/ Fire!Skip(d)
  BY <1>1, FirePoll, FireSkip
<1>2. CASE Fire!PressOrRelease
  BY <1>2 DEF Fire!PressOrRelease
<1>3. CASE Fire!Configure
  BY <1>3 DEF Fire!Configure
<1>4. CASE UNCHANGED fireVars
  BY <1>4 DEF fireVars
<1> QED
  BY <1>1, <1>2, <1>3, <1>4 DEF Fire!Next

LEMMA FireMoves == [SumNext]_sumVars => [Fire!Next]_fireVars
  BY DEF SumNext, sumVars

\* The types, the hold that is timed and the release that is awaited
\* (process_autofire), from the first poll on.
THEOREM FireInductive == SumSpec => []FireInv
<1>1. SumInit => FireInv
  BY FireInit DEF SumInit
<1>2. FireInv /\ [SumNext]_sumVars => FireInv'
  BY FireStep, FireMoves
<1> QED
  BY <1>1, <1>2, PTL DEF SumSpec

\* process_autofire switches autofire only at the end of a hold, and once in it,
\* whatever the rates, the modes and the pace of the main loop.
THEOREM Switched == SumSpec => SwitchedByHold
<1>1. FireInv /\ [SumNext]_sumVars => [active' # active /\ mode => steady' >= Hold /\ released]_(Fire!vars)
  <2> SUFFICES ASSUME FireInv, Fire!Next, active' # active, mode
               PROVE  steady' >= Hold /\ released
    BY FireMoves DEF Fire!vars, fireVars
  <2>1. CASE \E d \in PollTimes : Fire!Poll(d) \/ Fire!Skip(d)
    BY <2>1, FirePoll, FireSkip
  <2>2. CASE Fire!PressOrRelease \/ Fire!Configure
    BY <2>2 DEF Fire!PressOrRelease, Fire!Configure
  <2> QED
    BY <2>1, <2>2 DEF Fire!Next
<1> QED
  BY <1>1, FireInductive, PTL DEF SumSpec, SwitchedByHold, Fire!SwitchedByHold

-------------------------------------------------------------------------------
(* The sticks, for every position, every setting of the dead zone and every  *)
(* order in which the two are moved.                                         *)

Zones == 0 .. 15

\* The thresholds of the three readers, on their scales.
LEMMA Thresholds ==
    ASSUME NEW dz \in Zones
    PROVE  /\ Stick!deadzone_threshold_u8(dz) = dz
           /\ Stick!deadzone_threshold_s16(dz) \in Nat
           /\ 16 * Stick!deadzone_threshold_s16(dz) <= dz * 32767
           /\ dz * 32767 < 16 * Stick!deadzone_threshold_s16(dz) + 16
           /\ dz > 0 => Stick!deadzone_threshold_s16(dz) >= 2047
           /\ Stick!deadzone_threshold_ps4(dz) \in Nat
           /\ 16 * Stick!deadzone_threshold_ps4(dz) <= dz * 127
           /\ dz * 127 < 16 * Stick!deadzone_threshold_ps4(dz) + 16
<1>1. /\ dz \in Int /\ 0 <= dz /\ dz <= 15
  BY DEF Zones
<1>2. dz * 32767 \in Nat /\ dz * 127 \in Nat
  BY <1>1
<1>3. \A n \in Nat : n \div 16 \in Nat /\ 16 * (n \div 16) <= n /\ n < 16 * (n \div 16) + 16
  OBVIOUS
<1>4. dz > 0 => dz * 32767 >= 32767
  BY <1>1
<1> QED
  BY <1>1, <1>2, <1>3, <1>4
  DEF Stick!deadzone_threshold_u8, Stick!deadzone_threshold_s16, Stick!deadzone_threshold_ps4

\* The way of an axis of 16 bits.
Full == 32767

\* What Hand says, a direction at a time.
LEMMA HandSays ==
    \A d \in Stick!Hand :
        \/ d = "left" /\ 16 * (-Stick!X) > zone * Stick!Way
        \/ d = "right" /\ 16 * Stick!X > zone * Stick!Way
        \/ d = "up" /\ 16 * (-Stick!Y) > zone * Stick!Way
        \/ d = "down" /\ 16 * Stick!Y > zone * Stick!Way
  BY DEF Stick!Hand, Stick!Directions, Stick!Tilt

\* The reading of a poll, as TiltShown has it.
StickShown(s) ==
    /\ Stick!Hand \subseteq s
    /\ ~({"left", "right"} \subseteq s) /\ ~({"up", "down"} \subseteq s)
    /\ zone > 0 /\ Stick!Near(Stick!X) /\ Stick!Near(Stick!Y) => s = {}

\* How far a HID stick is from its centre.
LEMMA HidPosition ==
    ASSUME stickKind = "hid"
    PROVE  /\ Stick!X = IF stickReport.bits = 16 THEN Stick!Signed16(stickReport.x) ELSE stickReport.x - 128
           /\ Stick!Y = IF stickReport.bits = 16 THEN Stick!Signed16(stickReport.y) ELSE stickReport.y - 128
           /\ Stick!Way = IF stickReport.bits = 16 THEN Full ELSE 127
<1>1. Stick!Centre = IF stickReport.bits = 16 THEN 0 ELSE 128
  BY DEF Stick!Centre
<1>2. Stick!Way = IF stickReport.bits = 16 THEN Full ELSE 127
  BY <1>1 DEF Stick!Way, Full
<1>3. ASSUME NEW v
      PROVE  Stick!Off(v) = IF stickReport.bits = 16 THEN Stick!Signed16(v) ELSE v - 128
  BY <1>1 DEF Stick!Off
<1>4. Stick!X = IF stickReport.bits = 16 THEN Stick!Signed16(stickReport.x) ELSE stickReport.x - 128
  BY <1>3 DEF Stick!X
<1>5. Stick!Y = IF stickReport.bits = 16 THEN Stick!Signed16(stickReport.y) ELSE stickReport.y - 128
  BY <1>3 DEF Stick!Y
<1> QED
  BY <1>2, <1>4, <1>5

\* get_usb_joystick: an axis of 16 bits or of fewer.
LEMMA HidAxisTrue ==
    ASSUME stickKind = "hid", zone \in Zones,
           NEW value \in Int, stickReport.bits = 16 => IsWord(value), NEW low, NEW high,
           NEW v, v = IF stickReport.bits = 16 THEN Stick!Signed16(value) ELSE value - 128
    PROVE  LET axis == Stick!HidAxis(stickReport.bits, value, zone, low, high)
           IN  /\ 16 * v > zone * Stick!Way => axis = {high}
               /\ 16 * (-v) > zone * Stick!Way => axis = {low}
               /\ axis \in {{}, {low}, {high}}
               /\ zone > 0 /\ Stick!Near(v) => axis = {}
<1> DEFINE bits == stickReport.bits
           dz == zone
           way == Stick!Way
           threshold == IF bits = 16 THEN Stick!deadzone_threshold_s16(dz)
                                     ELSE Stick!deadzone_threshold_u8(dz)
           axis == Stick!HidAxis(bits, value, dz, low, high)
<1>0. /\ way = IF bits = 16 THEN Full ELSE 127
      /\ v \in Int
      /\ bits = 16 => v = Stick!Signed16(value)
      /\ bits # 16 => v = value - 128
  BY HidPosition DEF Stick!Signed16
<1> HIDE DEF way
<1>1. /\ threshold \in Nat
      /\ 16 * threshold <= dz * way
      /\ dz > 0 => 128 * threshold > way
      /\ dz \in Nat /\ way \in Nat
  BY <1>0, Thresholds DEF Zones, Full
<1>2. axis = IF v > -threshold /\ v < threshold THEN {} ELSE IF v < 0 THEN {low} ELSE {high}
  BY <1>0 DEF Stick!HidAxis, Stick!InDeadZone
<1> HIDE DEF threshold, axis
<1>3. dz * way \in Nat
  BY <1>1
<1>4. 16 * v > dz * way => axis = {high}
  BY <1>0, <1>1, <1>2, <1>3
<1>5. 16 * (-v) > dz * way => axis = {low}
  BY <1>0, <1>1, <1>2, <1>3
<1>6. axis \in {{}, {low}, {high}}
  BY <1>2
<1>7. dz > 0 /\ -way <= 128 * v /\ 128 * v <= way => axis = {}
  BY <1>0, <1>1, <1>2
<1> QED
  BY <1>4, <1>5, <1>6, <1>7 DEF axis, way, Stick!Near

\* The two axes of a stick together, whichever way each is read.
LEMMA AxesShown ==
    ASSUME NEW h, NEW w,
           16 * Stick!X > zone * Stick!Way => h = {"right"},
           16 * (-Stick!X) > zone * Stick!Way => h = {"left"},
           h \in {{}, {"left"}, {"right"}},
           zone > 0 /\ Stick!Near(Stick!X) => h = {},
           16 * Stick!Y > zone * Stick!Way => w = {"down"},
           16 * (-Stick!Y) > zone * Stick!Way => w = {"up"},
           w \in {{}, {"up"}, {"down"}},
           zone > 0 /\ Stick!Near(Stick!Y) => w = {}
    PROVE  StickShown(h \cup w)
<1>1. Stick!Hand \subseteq h \cup w
  BY HandSays
<1>2. ~({"left", "right"} \subseteq h \cup w)
  OBVIOUS
<1>3. ~({"up", "down"} \subseteq h \cup w)
  OBVIOUS
<1> QED
  BY <1>1, <1>2, <1>3 DEF StickShown

LEMMA HidShown ==
    ASSUME stickKind = "hid", zone \in Zones, stickReport.x \in Int, stickReport.y \in Int,
           stickReport.bits = 16 => IsWord(stickReport.x) /\ IsWord(stickReport.y)
    PROVE  StickShown(Stick!get_usb_joystick(stickReport, zone))
<1>2. ASSUME NEW h, h = Stick!HidAxis(stickReport.bits, stickReport.x, zone, "left", "right")
      PROVE  /\ 16 * Stick!X > zone * Stick!Way => h = {"right"}
             /\ 16 * (-Stick!X) > zone * Stick!Way => h = {"left"}
             /\ h \in {{}, {"left"}, {"right"}}
             /\ zone > 0 /\ Stick!Near(Stick!X) => h = {}
  <2>1. Stick!X = IF stickReport.bits = 16 THEN Stick!Signed16(stickReport.x)
                                             ELSE stickReport.x - 128
    BY HidPosition
  <2>2. stickKind = "hid" /\ zone \in Zones /\ stickReport.x \in Int
    OBVIOUS
  <2>3. stickReport.bits = 16 => IsWord(stickReport.x)
    OBVIOUS
  <2> QED
    BY <1>2, <2>1, <2>2, <2>3, HidAxisTrue
<1>3. ASSUME NEW w, w = Stick!HidAxis(stickReport.bits, stickReport.y, zone, "up", "down")
      PROVE  /\ 16 * Stick!Y > zone * Stick!Way => w = {"down"}
             /\ 16 * (-Stick!Y) > zone * Stick!Way => w = {"up"}
             /\ w \in {{}, {"up"}, {"down"}}
             /\ zone > 0 /\ Stick!Near(Stick!Y) => w = {}
  <2>1. Stick!Y = IF stickReport.bits = 16 THEN Stick!Signed16(stickReport.y)
                                             ELSE stickReport.y - 128
    BY HidPosition
  <2>2. stickKind = "hid" /\ zone \in Zones /\ stickReport.y \in Int
    OBVIOUS
  <2>3. stickReport.bits = 16 => IsWord(stickReport.y)
    OBVIOUS
  <2> QED
    BY <1>3, <2>1, <2>2, <2>3, HidAxisTrue
<1>4. ASSUME NEW h, h = Stick!HidAxis(stickReport.bits, stickReport.x, zone, "left", "right"),
             NEW w, w = Stick!HidAxis(stickReport.bits, stickReport.y, zone, "up", "down")
      PROVE  StickShown(h \cup w)
  <2>1. /\ 16 * Stick!X > zone * Stick!Way => h = {"right"}
        /\ 16 * (-Stick!X) > zone * Stick!Way => h = {"left"}
        /\ h \in {{}, {"left"}, {"right"}}
        /\ zone > 0 /\ Stick!Near(Stick!X) => h = {}
    BY <1>2, <1>4
  <2>2. /\ 16 * Stick!Y > zone * Stick!Way => w = {"down"}
        /\ 16 * (-Stick!Y) > zone * Stick!Way => w = {"up"}
        /\ w \in {{}, {"up"}, {"down"}}
        /\ zone > 0 /\ Stick!Near(Stick!Y) => w = {}
    BY <1>3, <1>4
  <2> QED
    BY <2>1, <2>2, AxesShown
<1> QED
  BY <1>4 DEF Stick!get_usb_joystick

LEMMA Ps4Shown ==
    ASSUME stickKind = "ps4", zone \in Zones, stickReport.x \in Int, stickReport.y \in Int,
           stickReport.dpad \in Nat, stickReport.dpad >= 8
    PROVE  StickShown(Stick!ps4_to_atari(stickReport, Stick!deadzone_threshold_ps4(zone)))
<1> DEFINE t == Stick!deadzone_threshold_ps4(zone)
           told == Stick!ps4_to_atari(stickReport, t)
<1>1. Stick!X = stickReport.x - 128 /\ Stick!Y = stickReport.y - 128 /\ Stick!Way = 127
  BY DEF Stick!X, Stick!Y, Stick!Way, Stick!Off, Stick!Centre
<1>2. t \in Nat /\ 16 * t <= zone * 127 /\ zone * 127 < 16 * t + 16 /\ zone \in Nat
  BY Thresholds DEF Zones
<1> HIDE DEF t
<1>3. told = {d \in Stick!Directions :
                 CASE d = "left" -> stickReport.x - 128 < -t [] d = "right" -> stickReport.x - 128 > t
                   [] d = "up" -> stickReport.y - 128 < -t   [] d = "down" -> stickReport.y - 128 > t}
  <2>1. ~(stickReport.dpad < 8)
    OBVIOUS
  <2> QED
    BY <2>1 DEF Stick!ps4_to_atari
<1>4. /\ "left" \in told <=> Stick!X < -t
      /\ "right" \in told <=> Stick!X > t
      /\ "up" \in told <=> Stick!Y < -t
      /\ "down" \in told <=> Stick!Y > t
      /\ told \subseteq {"left", "right", "up", "down"}
  BY <1>1, <1>3 DEF Stick!Directions
<1>5. Stick!X \in Int /\ Stick!Y \in Int
  BY <1>1
<1> HIDE DEF told
<1>6. Stick!Hand \subseteq told
  BY <1>1, <1>2, <1>4, <1>5, HandSays
<1>7. ~({"left", "right"} \subseteq told) /\ ~({"up", "down"} \subseteq told)
  BY <1>2, <1>4, <1>5
<1>8. zone > 0 /\ Stick!Near(Stick!X) /\ Stick!Near(Stick!Y) => told = {}
  BY <1>1, <1>2, <1>4, <1>5 DEF Stick!Near
<1> QED
  BY <1>1, <1>6, <1>7, <1>8 DEF StickShown, told, t

LEMMA XboxShown ==
    ASSUME stickKind = "xbox", zone \in Zones, stickReport.x \in Int, stickReport.y \in Int,
           IsSigned(stickReport.x), IsSigned(stickReport.y), stickReport.buttons \cap Stick!Directions = {}
    PROVE  StickShown(Stick!map_pad_to_atari(stickReport, zone))
<1> DEFINE t == Stick!deadzone_threshold_s16(zone)
           told == Stick!map_pad_to_atari(stickReport, zone)
<1>1. Stick!X = stickReport.x /\ Stick!Y = -stickReport.y /\ Stick!Way = Full
  BY DEF Stick!X, Stick!Y, Stick!Way, Stick!Off, Stick!Centre, Stick!Signed16, Full, IsSigned
<1>2. /\ t \in Nat /\ 16 * t <= zone * Full /\ zone * Full < 16 * t + 16 /\ zone \in Nat
      /\ zone > 0 => t >= 2047
  BY Thresholds DEF Zones, Full
<1>3. told = {d \in Stick!Directions :
                 CASE d = "left" -> stickReport.x < -t [] d = "right" -> stickReport.x > t
                   [] d = "up" -> stickReport.y > t    [] d = "down" -> stickReport.y < -t}
  <2>1. stickReport.buttons \cap Stick!Directions = {}
    OBVIOUS
  <2> QED
    BY <2>1, Zenon DEF Stick!map_pad_to_atari
<1> HIDE DEF t, told
<1>4a. \A d : d \in told <=>
           \/ d = "left" /\ stickReport.x < -t
           \/ d = "right" /\ stickReport.x > t
           \/ d = "up" /\ stickReport.y > t
           \/ d = "down" /\ stickReport.y < -t
  BY <1>3 DEF Stick!Directions
<1>4. /\ "left" \in told <=> Stick!X < -t
      /\ "right" \in told <=> Stick!X > t
      /\ "up" \in told <=> Stick!Y < -t
      /\ "down" \in told <=> Stick!Y > t
      /\ told \subseteq {"left", "right", "up", "down"}
  BY <1>1, <1>2, <1>4a
<1>5. Stick!X \in Int /\ Stick!Y \in Int
  BY <1>1
<1>6. Stick!Hand \subseteq told
  <2>0. \A k, u \in Int : 16 * t <= k => (16 * u > k => u > t) /\ (16 * (-u) > k => u < -t)
    BY <1>2
  <2>0a. zone * Stick!Way \in Int /\ 16 * t <= zone * Stick!Way
    BY <1>1, <1>2 DEF Full
  <2>1. /\ 16 * Stick!X > zone * Stick!Way => "right" \in told
        /\ 16 * (-Stick!X) > zone * Stick!Way => "left" \in told
        /\ 16 * Stick!Y > zone * Stick!Way => "down" \in told
        /\ 16 * (-Stick!Y) > zone * Stick!Way => "up" \in told
    BY <1>4, <1>5, <2>0, <2>0a
  <2> QED
    BY <2>1, HandSays, Zenon
<1>7. ~({"left", "right"} \subseteq told) /\ ~({"up", "down"} \subseteq told)
  BY <1>2, <1>4, <1>5
<1>8. zone > 0 /\ Stick!Near(Stick!X) /\ Stick!Near(Stick!Y) => told = {}
  BY <1>1, <1>2, <1>4, <1>5 DEF Stick!Near, Full
<1> QED
  BY <1>1, <1>6, <1>7, <1>8 DEF StickShown, told, t

\* A stick has a report of its own kind, and the menu keeps the setting in range.
StickInv == part = "stick" =>
    stickKind \in StickKinds /\ stickReport \in StickReports[stickKind] /\ zone \in Zones

LEMMA StickInductive == SumSpec => []StickInv
<1>1. SumInit => StickInv
  BY ZoneAssumption DEF SumInit, Stick!Init, StickInv, Zones
<1>2. StickInv /\ [SumNext]_sumVars => StickInv'
  <2> SUFFICES ASSUME StickInv, [SumNext]_sumVars, part' = "stick" PROVE StickInv'
    BY DEF StickInv
  <2>1. CASE UNCHANGED stickVars /\ part = "stick"
    BY <2>1 DEF stickVars, StickInv
  <2>2. CASE part = "stick" /\ Stick!Next
    <3>1. CASE Stick!Poll
      BY <2>2, <3>1 DEF Stick!Poll, Stick!PollUsb, Stick!PollPs4, Stick!PollXbox, StickInv
    <3>2. ASSUME NEW d \in {-1, 1}, Stick!Slide(d) PROVE StickInv'
      BY <2>2, <3>2, ZoneAssumption DEF Stick!Slide, StickInv, Zones
    <3>3. ASSUME NEW r \in StickReports[stickKind], Stick!Move(r) PROVE StickInv'
      BY <2>2, <3>3 DEF Stick!Move, StickInv
    <3> QED
      BY <2>2, <3>1, <3>2, <3>3 DEF Stick!Next
  <2> QED
    BY <2>1, <2>2 DEF SumNext, sumVars
<1> QED
  BY <1>1, <1>2, PTL DEF SumSpec

\* Whatever the stick, its position and the setting, from the first poll after
\* either was changed, a stick pushed beyond the dead zone is read that way and
\* never the opposite way, and one next to its centre is not read
\* (get_usb_joystick, ps4_to_atari, map_pad_to_atari).
THEOREM Tilted == SumSpec => TiltShown
<1>1. StickInv /\ [SumNext]_sumVars => [Stick!Poll /\ Stick!ByStick => StickShown(axisRead')]_(Stick!vars)
  <2> SUFFICES ASSUME StickInv, [SumNext]_sumVars, ~UNCHANGED stickVars, Stick!Poll, Stick!ByStick
               PROVE  StickShown(axisRead')
    BY DEF Stick!vars, stickVars
  <2>1. part = "stick"
    BY DEF SumNext, sumVars
  <2>2. /\ stickKind \in {"hid", "ps4", "xbox"} /\ zone \in Zones
        /\ stickReport.x \in Int /\ stickReport.y \in Int
        /\ stickKind = "hid" /\ stickReport.bits = 16 => IsWord(stickReport.x) /\ IsWord(stickReport.y)
        /\ stickKind = "ps4" => stickReport.dpad \in Nat
        /\ stickKind = "xbox" => IsSigned(stickReport.x) /\ IsSigned(stickReport.y)
    <3>1. stickKind \in StickKinds /\ stickReport \in StickReports[stickKind] /\ zone \in Zones
      BY <2>1 DEF StickInv
    <3>2. stickKind \in {"hid", "ps4", "xbox"}
      BY <3>1, ZoneAssumption
    <3> QED
      BY <3>1, <3>2, StickAssumption, Zenon
  <2>3. CASE Stick!PollUsb
    BY <2>2, <2>3, HidShown DEF Stick!PollUsb
  <2>4. CASE Stick!PollPs4
    BY <2>2, <2>4, Ps4Shown DEF Stick!PollPs4, Stick!ByStick
  <2>5. CASE Stick!PollXbox
    BY <2>2, <2>5, XboxShown DEF Stick!PollXbox, Stick!ByStick
  <2> QED
    BY <2>3, <2>4, <2>5 DEF Stick!Poll
<1>2. TiltShown <=> [][Stick!Poll /\ Stick!ByStick => StickShown(axisRead')]_(Stick!vars)
  BY DEF TiltShown, Stick!TiltShown, StickShown
<1> QED
  BY <1>1, <1>2, StickInductive, PTL DEF SumSpec

-------------------------------------------------------------------------------
(* The mice, whatever they report, at every speed and every delay of the loop. *)

\* The latest of some positions of the map.
LEMMA Greatest ==
    ASSUME NEW n \in Nat, NEW S \in SUBSET (1 .. n), S # {}
    PROVE  \E m \in S : \A k \in S : k <= m
<1> DEFINE T == {n - m : m \in S}
<1>1. T \subseteq Nat /\ T # {}
  <2>1. \A m \in S : m \in Int /\ n - m \in Nat
    OBVIOUS
  <2> QED
    BY <2>1
<1>2. PICK l \in T : \A k \in T : ~ (<<k, l>> \in OpToRel(<, Nat))
  BY <1>1, NatLessThanWellFounded, WFMin
<1> HIDE DEF T
<1>3. \A k \in T : l <= k
  <2>1. SUFFICES ASSUME NEW k \in T PROVE l <= k
    OBVIOUS
  <2>2. k \in Nat /\ l \in Nat
    BY <1>1
  <2>3. ~ (k < l)
    BY <1>2, <2>2, Zenon DEF OpToRel
  <2> QED
    BY <2>2, <2>3
<1> USE DEF T
<1>4. PICK m \in S : l = n - m
  OBVIOUS
<1>5. ASSUME NEW k \in S PROVE k <= m
  <2>1. n - k \in T
    OBVIOUS
  <2>2. n - m <= n - k
    BY <1>3, <1>4, <2>1
  <2> QED
    BY <2>2
<1> QED
  BY <1>5

LEMMA Quotients ==
    ASSUME NEW n \in Nat, NEW d \in Nat \ {0}
    PROVE  n \div d \in Nat /\ n \div d <= n
<1> DEFINE q == n \div d
           r == n % d
<1>1. q \in Int /\ r \in Nat /\ n = d * q + r /\ r < d
  OBVIOUS
<1> HIDE DEF q, r
<1>2. q >= 0
  <2>1. SUFFICES ASSUME q <= -1 PROVE FALSE
    BY <1>1
  <2>2. d * q <= -d
    BY <1>1, <2>1
  <2> QED
    BY <1>1, <2>2
<1>3. q <= d * q
  <2>1. (d - 1) * q >= 0
    BY <1>2, <1>1
  <2>2. (d - 1) * q = d * q - q
    BY <1>1
  <2> QED
    BY <1>1, <2>1, <2>2
<1> QED
  BY <1>1, <1>2, <1>3 DEF q

\* mouse_accel does not turn a movement round.
LEMMA AcceleratedSign ==
    ASSUME NEW v \in Int, speed \in -7 .. 8
    PROVE  /\ Mouse!Accelerated(v) \in Int
           /\ Mouse!Accelerated(v) > 0 => v > 0
           /\ Mouse!Accelerated(v) < 0 => v < 0
<1>1. ASSUME NEW n \in Int, NEW d \in {5, 70}
      PROVE  /\ Mouse!Truncate(n, d) \in Int
             /\ Mouse!Truncate(n, d) > 0 => n > 0
             /\ Mouse!Truncate(n, d) < 0 => n < 0
  BY DEF Mouse!Truncate
<1>2. ASSUME NEW k \in 14 .. 70, NEW w \in Int
      PROVE  w * k \in Int /\ (w * k > 0 => w > 0) /\ (w * k < 0 => w < 0)
  OBVIOUS
<1>3. ASSUME NEW k \in 6 .. 13, NEW w \in Int
      PROVE  w * k \in Int /\ (w * k > 0 => w > 0) /\ (w * k < 0 => w < 0)
  OBVIOUS
<1>4. CASE speed <= 0
  <2>1. 70 + 8 * speed \in 14 .. 70
    BY <1>4
  <2> QED
    BY <1>1, <1>2, <1>4, <2>1 DEF Mouse!Accelerated
<1>5. CASE ~(speed <= 0)
  <2>1. 5 + speed \in 6 .. 13
    BY <1>5
  <2> QED
    BY <1>1, <1>3, <1>5, <2>1 DEF Mouse!Accelerated
<1> QED
  BY <1>4, <1>5

\* set_speed_internal keeps the way, between the two limits.
PeriodFits(v) == -MAX_SPEED <= v /\ v <= MAX_SPEED /\ (v >= 0 => v = 0 \/ v >= MIN_SPEED)
                 /\ (v < 0 => -v >= MIN_SPEED)

LEMMA PeriodOf ==
    ASSUME NEW v \in Int
    PROVE  /\ Mouse!Period(v) \in Int /\ PeriodFits(Mouse!Period(v))
           /\ Mouse!Period(v) > 0 => v > 0
           /\ Mouse!Period(v) < 0 => v < 0
<1>1. MAX_SPEED \in Nat /\ MIN_SPEED \in Nat /\ MIN_SPEED > 0 /\ MIN_SPEED <= MAX_SPEED
  BY MouseAssumption
<1>2. CASE v = 0
  BY <1>1, <1>2 DEF Mouse!Period, PeriodFits
<1>3. CASE v # 0
  <2> DEFINE q == MAX_SPEED \div Mouse!Magnitude(v)
  <2>1. Mouse!Magnitude(v) \in Nat \ {0}
    BY <1>3 DEF Mouse!Magnitude
  <2>2. q \in Nat /\ q <= MAX_SPEED
    BY <1>1, <2>1, Quotients
  <2>3. Mouse!Period(v) = IF v > 0 THEN (IF q < MIN_SPEED THEN MIN_SPEED ELSE q)
                          ELSE (IF -q > -MIN_SPEED THEN -MIN_SPEED ELSE -q)
    BY <1>3 DEF Mouse!Period
  <2> HIDE DEF q
  <2> QED
    BY <1>1, <1>3, <2>2, <2>3 DEF PeriodFits
<1> QED
  BY <1>2, <1>3

\* One encoder: its period has the sign of the movement it was set for, and the
\* steps since the poll have taken a period each, and a unit of time.
AxisInv(a) ==
    /\ phase[a] \in 0 .. 3 /\ period[a] \in Int /\ age[a] \in Nat /\ delta[a] \in Int /\ steps[a] \in Nat
    /\ PeriodFits(period[a])
    /\ period[a] > 0 => delta[a] > 0
    /\ period[a] < 0 => delta[a] < 0
    /\ steps[a] > 0 => /\ period[a] # 0
                       /\ (steps[a] - 1) * (Mouse!Magnitude(period[a]) + 1) + age[a] <= polled

MouseInv == part = "mouse" =>
    /\ speed \in -7 .. 8 /\ polled \in Nat
    /\ \A a \in Mouse!Axes : AxisInv(a)

\* Update: a register that is due turns the way of its period; time goes on.
LEMMA Updated ==
    ASSUME NEW a \in Mouse!Axes, NEW d \in Nat, AxisInv(a), Mouse!Update(d)
    PROVE  /\ phase'[a] \in 0 .. 3 /\ age'[a] \in Nat
           /\ a \notin Mouse!Due(d) => phase'[a] = phase[a] /\ age'[a] <= age[a] + d
           /\ a \in Mouse!Due(d) =>
                /\ period[a] # 0 /\ age'[a] = 0 /\ age[a] + d >= Mouse!Magnitude(period[a]) + 1
                /\ phase'[a] = IF period[a] > 0 THEN (phase[a] + 1) % 4 ELSE (phase[a] + 3) % 4
<1>1. MAX_SPEED \in Nat
  BY MouseAssumption
<1>2. age[a] \in Nat /\ phase[a] \in 0 .. 3 /\ period[a] \in Int
  BY DEF AxisInv
<1>3. /\ Mouse!Later(a, d) \in Nat /\ Mouse!Later(a, d) <= age[a] + d
  BY <1>1, <1>2 DEF Mouse!Later
<1>4. /\ phase'[a] = IF a \notin Mouse!Due(d) THEN phase[a]
                     ELSE IF period[a] > 0 THEN (phase[a] + 1) % 4
                     ELSE (phase[a] + 3) % 4
      /\ age'[a] = IF a \in Mouse!Due(d) THEN 0 ELSE Mouse!Later(a, d)
  BY DEF Mouse!Update
<1>5. a \in Mouse!Due(d) => period[a] # 0 /\ Mouse!Later(a, d) > Mouse!Magnitude(period[a])
  BY DEF Mouse!Due
<1>6. Mouse!Magnitude(period[a]) \in Nat
  BY <1>2 DEF Mouse!Magnitude
<1>7. \A k \in 0 .. 3 : (k + 1) % 4 \in 0 .. 3 /\ (k + 3) % 4 \in 0 .. 3
  OBVIOUS
<1>8. phase'[a] \in 0 .. 3
  BY <1>2, <1>4, <1>7
<1>9. age'[a] \in Nat
  BY <1>3, <1>4
<1>10. a \notin Mouse!Due(d) => phase'[a] = phase[a] /\ age'[a] <= age[a] + d
  BY <1>3, <1>4
<1>11. a \in Mouse!Due(d) => age[a] + d >= Mouse!Magnitude(period[a]) + 1
  BY <1>2, <1>3, <1>5, <1>6
<1> QED
  BY <1>4, <1>5, <1>8, <1>9, <1>10, <1>11

\* Two bits of the mask, a step further and a step back.
LEMMA GraySteps ==
    ASSUME NEW k \in 0 .. 3
    PROVE  LET TwoBits(j) == <<Mouse!MaskBit(j), Mouse!MaskBit(j + 1)>>
           IN  /\ TwoBits((k + 1) % 4) = Mouse!Onward[TwoBits(k)]
               /\ TwoBits(k) = Mouse!Onward[TwoBits((k + 3) % 4)]
<1> DEFINE TwoBits(j) == <<Mouse!MaskBit(j), Mouse!MaskBit(j + 1)>>
<1>1. TwoBits(0) = <<1, 1>> /\ TwoBits(1) = <<1, 0>> /\ TwoBits(2) = <<0, 0>> /\ TwoBits(3) = <<0, 1>>
  BY DEF Mouse!MaskBit
<1>2. /\ Mouse!Onward[<<1, 1>>] = <<1, 0>> /\ Mouse!Onward[<<1, 0>>] = <<0, 0>>
      /\ Mouse!Onward[<<0, 0>>] = <<0, 1>> /\ Mouse!Onward[<<0, 1>>] = <<1, 1>>
  BY DEF Mouse!Onward
<1> HIDE DEF TwoBits
<1>3. CASE k = 0
  BY <1>1, <1>2, <1>3 DEF TwoBits
<1>4. CASE k = 1
  BY <1>1, <1>2, <1>4 DEF TwoBits
<1>5. CASE k = 2
  BY <1>1, <1>2, <1>5 DEF TwoBits
<1>6. CASE k = 3
  BY <1>1, <1>2, <1>6 DEF TwoBits
<1> QED
  BY <1>3, <1>4, <1>5, <1>6

\* What a poll leaves is a movement, and a period for it.
LEMMA Polled ==
    ASSUME NEW report \in Mouse!Reports, speed \in -7 .. 8, Mouse!HandleMouse(report),
           NEW a \in Mouse!Axes
    PROVE  /\ delta'[a] \in Int /\ period'[a] \in Int /\ PeriodFits(period'[a])
           /\ period'[a] > 0 => delta'[a] > 0
           /\ period'[a] < 0 => delta'[a] < 0
           /\ steps'[a] = 0
<1> DEFINE heard == {m \in DOMAIN Mice : Mice[m] \in DOMAIN report}
           latest == CHOOSE m \in heard : \A n \in heard : n <= m
           last == report[Mice[latest]]
<1>1. heard # {} => last \in MouseMoves
  <2> SUFFICES ASSUME heard # {} PROVE last \in MouseMoves
    OBVIOUS
  <2>1. \E m \in heard : \A n \in heard : n <= m
    <3>1. Len(Mice) \in Nat /\ DOMAIN Mice = 1 .. Len(Mice)
      BY MouseAssumption
    <3> QED
      BY <3>1, Greatest
  <2>2. latest \in heard
    BY <2>1
  <2> HIDE DEF latest
  <2>3. Mice[latest] \in DOMAIN report
    BY <2>2
  <2>4. PICK T \in SUBSET Mouse!ToSet(Mice) : report \in [T -> MouseMoves]
    BY DEF Mouse!Reports
  <2> QED
    BY <2>3, <2>4
<1> HIDE DEF last
<1>2. heard # {} => last[a] \in Int
  <2>1. \A m \in MouseMoves : m["x"] \in Int /\ m["y"] \in Int
    BY MouseAssumption
  <2> QED
    BY <1>1, <2>1 DEF Mouse!Axes
<1>3. /\ delta'[a] = IF heard = {} THEN 0 ELSE last[a]
      /\ period'[a] = Mouse!Period(Mouse!Accelerated(IF heard = {} THEN 0 ELSE last[a]))
      /\ steps'[a] = 0
  BY DEF Mouse!HandleMouse, last
<1>4. delta'[a] \in Int
  BY <1>2, <1>3
<1>5. period'[a] = Mouse!Period(Mouse!Accelerated(delta'[a]))
  BY <1>3
<1> HIDE DEF heard
<1> QED
  BY <1>3, <1>4, <1>5, AcceleratedSign, PeriodOf

LEMMA MouseInit == SumInit => MouseInv
<1> SUFFICES ASSUME SumInit, part = "mouse" PROVE MouseInv
  BY DEF MouseInv
<1>1. Mouse!Init
  BY DEF SumInit
<1>2. speed \in -7 .. 8 /\ polled = 0
  BY <1>1, MouseAssumption DEF Mouse!Init
<1>3. ASSUME NEW a \in Mouse!Axes PROVE AxisInv(a)
  <2>1. period[a] = 0 /\ phase[a] \in 0 .. 3 /\ age[a] = 0 /\ delta[a] = 0 /\ steps[a] = 0
    BY <1>1 DEF Mouse!Init
  <2>2. PeriodFits(0)
    BY MouseAssumption DEF PeriodFits
  <2> QED
    BY <2>1, <2>2 DEF AxisInv
<1> QED
  BY <1>2, <1>3 DEF MouseInv

\* An iteration without the poll: one more step takes one more period.
LEMMA MouseLoop ==
    ASSUME polled \in Nat, NEW a \in Mouse!Axes, AxisInv(a), NEW d \in Nat, Mouse!Loop(d)
    PROVE  AxisInv(a)'
<1>1. /\ Mouse!Update(d) /\ polled' = polled + d /\ period' = period /\ delta' = delta
      /\ steps'[a] = IF a \in Mouse!Due(d) THEN steps[a] + 1 ELSE steps[a]
  BY DEF Mouse!Loop
<1>2. /\ phase[a] \in 0 .. 3 /\ period[a] \in Int /\ age[a] \in Nat /\ delta[a] \in Int /\ steps[a] \in Nat
      /\ PeriodFits(period[a])
      /\ period[a] > 0 => delta[a] > 0
      /\ period[a] < 0 => delta[a] < 0
  BY DEF AxisInv
<1> DEFINE m == Mouse!Magnitude(period[a])
<1>3. steps[a] > 0 => period[a] # 0 /\ (steps[a] - 1) * (m + 1) + age[a] <= polled
  BY DEF AxisInv
<1>4. m \in Nat
  BY <1>2 DEF Mouse!Magnitude
<1>5. m' = m
  BY <1>1 DEF Mouse!Magnitude
<1>6. /\ phase'[a] \in 0 .. 3 /\ age'[a] \in Nat
      /\ a \notin Mouse!Due(d) => age'[a] <= age[a] + d
      /\ a \in Mouse!Due(d) => period[a] # 0 /\ age'[a] = 0 /\ age[a] + d >= m + 1
  BY <1>1, Updated
<1> HIDE DEF m
<1>7. steps'[a] \in Nat
  BY <1>1, <1>2
<1>8. steps'[a] > 0 => period[a] # 0 /\ (steps'[a] - 1) * (m + 1) + age'[a] <= polled + d
  <2> SUFFICES ASSUME steps'[a] > 0
               PROVE  period[a] # 0 /\ (steps'[a] - 1) * (m + 1) + age'[a] <= polled + d
    OBVIOUS
  <2>1. CASE a \notin Mouse!Due(d)
    <3> DEFINE k == (steps[a] - 1) * (m + 1)
    <3>1. k \in Int
      BY <1>2, <1>4
    <3>2. period[a] # 0 /\ k + age[a] <= polled /\ steps'[a] = steps[a]
      BY <1>1, <1>2, <1>3, <2>1
    <3>3. (steps'[a] - 1) * (m + 1) = k
      BY <3>2
    <3> HIDE DEF k
    <3> QED
      BY <1>2, <1>6, <2>1, <3>1, <3>2, <3>3
  <2>2. CASE a \in Mouse!Due(d) /\ steps[a] = 0
    <3>1. steps'[a] - 1 = 0
      BY <1>1, <2>2
    <3> QED
      BY <1>4, <1>6, <2>2, <3>1
  <2>3. CASE a \in Mouse!Due(d) /\ steps[a] > 0
    <3> DEFINE k == (steps[a] - 1) * (m + 1)
    <3>1. k \in Int
      BY <1>2, <1>4
    <3>2. k + age[a] <= polled /\ steps'[a] = steps[a] + 1
      BY <1>1, <1>2, <1>3, <2>3
    <3>3. (steps'[a] - 1) * (m + 1) = k + (m + 1)
      BY <1>2, <1>4, <3>2
    <3> HIDE DEF k
    <3> QED
      BY <1>2, <1>4, <1>6, <2>3, <3>1, <3>2, <3>3
  <2> QED
    BY <1>2, <2>1, <2>2, <2>3
<1>9. PeriodFits(period[a])'
  BY <1>1, <1>2 DEF PeriodFits
<1> QED
  BY <1>1, <1>2, <1>5, <1>6, <1>7, <1>8, <1>9 DEF AxisInv, m

\* An iteration with the poll: the count begins again.
LEMMA MousePoll ==
    ASSUME speed \in -7 .. 8, NEW a \in Mouse!Axes, AxisInv(a), NEW d \in Nat,
           NEW report \in Mouse!Reports, NEW s \in MouseSpeeds, Mouse!LoopAndPoll(d, report, s)
    PROVE  AxisInv(a)'
<1>1. Mouse!Update(d) /\ Mouse!HandleMouse(report)
  BY DEF Mouse!LoopAndPoll
<1>2. phase'[a] \in 0 .. 3 /\ age'[a] \in Nat
  BY <1>1, Updated
<1>3. /\ delta'[a] \in Int /\ period'[a] \in Int /\ PeriodFits(period'[a])
      /\ period'[a] > 0 => delta'[a] > 0
      /\ period'[a] < 0 => delta'[a] < 0
      /\ steps'[a] = 0
  BY <1>1, Polled
<1>4. PeriodFits(period[a])'
  BY <1>3 DEF PeriodFits
<1> QED
  BY <1>2, <1>3, <1>4 DEF AxisInv

LEMMA MouseInductive == SumSpec => []MouseInv
<1>1. MouseInv /\ [SumNext]_sumVars => MouseInv'
  <2> SUFFICES ASSUME MouseInv, [SumNext]_sumVars, part' = "mouse" PROVE MouseInv'
    BY DEF MouseInv
  <2>1. CASE UNCHANGED mouseVars /\ part = "mouse"
    BY <2>1 DEF mouseVars, MouseInv, AxisInv, Mouse!Axes, PeriodFits, Mouse!Magnitude
  <2>2. CASE part = "mouse" /\ Mouse!Next
    <3>1. speed \in -7 .. 8 /\ polled \in Nat /\ \A a \in Mouse!Axes : AxisInv(a)
      BY <2>2 DEF MouseInv
    <3>2. ASSUME NEW d \in LoopTimes, Mouse!Loop(d) PROVE MouseInv'
      <4>1. d \in Nat
        BY MouseAssumption
      <4>2. \A a \in Mouse!Axes : AxisInv(a)'
        BY <3>1, <3>2, <4>1, MouseLoop
      <4>3. speed' \in -7 .. 8 /\ polled' \in Nat
        BY <3>1, <3>2, <4>1 DEF Mouse!Loop
      <4> QED
        BY <4>2, <4>3 DEF MouseInv, Mouse!Axes
    <3>3. ASSUME NEW d \in LoopTimes, NEW report \in Mouse!Reports, NEW s \in MouseSpeeds,
                 Mouse!LoopAndPoll(d, report, s)
          PROVE  MouseInv'
      <4>1. d \in Nat
        BY MouseAssumption
      <4>2. \A a \in Mouse!Axes : AxisInv(a)'
        BY <3>1, <3>3, <4>1, MousePoll
      <4>3. speed' \in -7 .. 8 /\ polled' \in Nat
        BY <3>3, MouseAssumption DEF Mouse!LoopAndPoll
      <4> QED
        BY <4>2, <4>3 DEF MouseInv, Mouse!Axes
    <3> QED
      BY <2>2, <3>2, <3>3 DEF Mouse!Next
  <2> QED
    BY <2>1, <2>2 DEF SumNext, sumVars
<1> QED
  BY <1>1, MouseInit, PTL DEF SumSpec

\* The steps that fit, from the periods they took.
LEMMA PacedByInv == MouseInv /\ part = "mouse" => Mouse!Paced
<1> SUFFICES ASSUME MouseInv, part = "mouse", NEW a \in Mouse!Axes, steps[a] > 1
             PROVE  /\ (steps[a] - 1) * Mouse!Magnitude(period[a]) < polled
                    /\ (steps[a] - 1) * MIN_SPEED < polled
  BY DEF Mouse!Paced
<1> DEFINE m == Mouse!Magnitude(period[a])
           n == steps[a] - 1
<1>1. /\ period[a] \in Int /\ age[a] \in Nat /\ steps[a] \in Nat /\ polled \in Nat
      /\ PeriodFits(period[a]) /\ period[a] # 0 /\ n * (m + 1) + age[a] <= polled
  BY DEF MouseInv, AxisInv
<1>2. m \in Nat /\ m >= MIN_SPEED /\ MIN_SPEED \in Nat
  BY <1>1, MouseAssumption, SMTT(20) DEF PeriodFits, Mouse!Magnitude
<1>3. n \in Nat /\ n > 0
  BY <1>1
<1> HIDE DEF m, n
<1>4. n * (m + 1) = n * m + n /\ n * m \in Nat /\ n * MIN_SPEED \in Nat
  BY <1>2, <1>3
<1>5. n * MIN_SPEED <= n * m
  <2>1. n * (m - MIN_SPEED) >= 0
    BY <1>2, <1>3
  <2>2. n * (m - MIN_SPEED) = n * m - n * MIN_SPEED
    BY <1>2, <1>3
  <2> QED
    BY <1>4, <2>1, <2>2
<1> QED
  BY <1>1, <1>3, <1>4, <1>5 DEF m, n

\* While another part moves, nothing was counted.
MouseAtRest == part # "mouse" => steps = Still

LEMMA MouseRests == SumSpec => []MouseAtRest
<1>1. SumInit => MouseAtRest
  BY DEF SumInit, MouseIdle, MouseAtRest
<1>2. MouseAtRest /\ [SumNext]_sumVars => MouseAtRest'
  BY DEF MouseAtRest, SumNext, sumVars, mouseVars
<1> QED
  BY <1>1, <1>2, PTL DEF SumSpec

\* The encoders turn only the way the mouse was moved in the last poll, a step of
\* the Gray code at a time, and at the pace of its speed, whatever the mice
\* report, the setting and the delays of the loop (AtariSTMouse.cpp, handle_mouse).
THEOREM Followed == SumSpec => HandFollowed
<1> DEFINE Onwards ==
        \A a \in Mouse!Axes :
            Mouse!Pair(a)' # Mouse!Pair(a) =>
              \/ delta[a] > 0 /\ Mouse!Pair(a)' = Mouse!Onward[Mouse!Pair(a)]
              \/ delta[a] < 0 /\ Mouse!Pair(a) = Mouse!Onward[Mouse!Pair(a)']
<1>1. MouseInv /\ [SumNext]_sumVars => [Onwards]_(Mouse!vars)
  <2> SUFFICES ASSUME MouseInv, [SumNext]_sumVars, ~UNCHANGED mouseVars,
                      NEW a \in Mouse!Axes, Mouse!Pair(a)' # Mouse!Pair(a)
               PROVE  \/ delta[a] > 0 /\ Mouse!Pair(a)' = Mouse!Onward[Mouse!Pair(a)]
                      \/ delta[a] < 0 /\ Mouse!Pair(a) = Mouse!Onward[Mouse!Pair(a)']
    BY DEF Mouse!vars, mouseVars
  <2>1. part = "mouse" /\ Mouse!Next
    BY DEF SumNext, sumVars
  <2>2. AxisInv(a)
    BY <2>1 DEF MouseInv
  <2>3. PICK d \in LoopTimes : Mouse!Update(d)
    BY <2>1 DEF Mouse!Next, Mouse!Loop, Mouse!LoopAndPoll
  <2>4. d \in Nat
    BY MouseAssumption
  <2>5. /\ phase'[a] \in 0 .. 3
        /\ a \notin Mouse!Due(d) => phase'[a] = phase[a]
        /\ a \in Mouse!Due(d) =>
             /\ period[a] # 0
             /\ phase'[a] = IF period[a] > 0 THEN (phase[a] + 1) % 4 ELSE (phase[a] + 3) % 4
    BY <2>2, <2>3, <2>4, Updated
  <2>6. phase'[a] # phase[a]
    BY DEF Mouse!Pair
  <2>7. /\ phase[a] \in 0 .. 3 /\ period[a] \in Int
        /\ period[a] > 0 => delta[a] > 0
        /\ period[a] < 0 => delta[a] < 0
    BY <2>2 DEF AxisInv
  <2>8. CASE period[a] > 0
    <3>1. phase'[a] = (phase[a] + 1) % 4
      BY <2>5, <2>6, <2>8
    <3>2. Mouse!Pair(a)' = Mouse!Onward[Mouse!Pair(a)]
      BY <2>7, <3>1, GraySteps DEF Mouse!Pair
    <3> QED
      BY <2>7, <2>8, <3>2
  <2>9. CASE period[a] < 0
    <3>1. phase'[a] = (phase[a] + 3) % 4
      BY <2>5, <2>6, <2>7, <2>9
    <3>2. Mouse!Pair(a) = Mouse!Onward[Mouse!Pair(a)']
      BY <2>7, <3>1, GraySteps DEF Mouse!Pair
    <3> QED
      BY <2>7, <2>9, <3>2
  <2> QED
    BY <2>5, <2>6, <2>7, <2>8, <2>9
<1>2. MouseAtRest /\ part # "mouse" => Mouse!Paced
  BY DEF MouseAtRest, Mouse!Paced, Still, Mouse!Axes
<1>3. MouseInv /\ MouseAtRest => Mouse!Paced
  BY <1>2, PacedByInv
<1>4. HandFollowed <=> [][Onwards]_(Mouse!vars) /\ []Mouse!Paced
  BY DEF HandFollowed, Mouse!HandFollowed, Mouse!FollowsHand
<1> QED
  BY <1>1, <1>3, <1>4, MouseInductive, MouseRests, PTL DEF SumSpec

-------------------------------------------------------------------------------
(* The Xbox pads, for any number of addresses, interfaces and calls, whatever  *)
(* is plugged in, pulled or announced while another pad is waited for.         *)

PadOps == {"send", "wait", "mount", "led", "rumble", "receive", "complete"}
PadFrames == [kind : {"config", "announce"}, a : PadAddrs, i : Nat, todo : Seq(PadOps),
              late : BOOLEAN, gone : BOOLEAN]

\* What a call still has to do: to initialise the pad, to ask it for a report,
\* and to go on with the next interface if it was a set-up.
ShapeOf(kind, todo) ==
    LET n == Len(todo)
    IN  /\ n >= 1
        /\ kind = "announce" => /\ todo[n] = "receive"
                                /\ \A j \in 1 .. (n - 1) : todo[j] \in {"send", "wait"}
        /\ kind # "announce" => /\ todo[n] = "complete"
                                /\ n >= 2 => todo[n - 1] \in {"mount", "receive"}
                                /\ \A j \in 1 .. (n - 2) : todo[j] \in {"send", "wait", "led", "rumble"}

\* A report is still to be asked for.
AsksOf(kind, todo) == kind = "announce" \/ Len(todo) >= 2

LEMMA EmptyLen ==
    ASSUME NEW S, NEW s \in Seq(S)
    PROVE  s = <<>> <=> Len(s) = 0
  OBVIOUS

LEMMA RestOfTwo ==
    ASSUME NEW S, NEW s \in Seq(S), Len(s) = 2
    PROVE  s # <<>> /\ Tail(s) \in Seq(S) /\ Len(Tail(s)) = 1 /\ Tail(s)[1] = s[2]
<1>1. s # <<>>
  BY EmptyLen
<1>2. Tail(s) \in Seq(S) /\ Len(Tail(s)) = Len(s) - 1
      /\ \A i \in 1 .. Len(Tail(s)) : Tail(s)[i] = s[i + 1]
  BY <1>1, HeadTailProperties
<1> QED
  BY <1>1, <1>2

LEMMA Joined ==
    ASSUME NEW S, NEW s \in Seq(S), NEW t \in Seq(S)
    PROVE  /\ s \o t \in Seq(S) /\ Len(s \o t) = Len(s) + Len(t)
           /\ \A j \in 1 .. Len(s) : (s \o t)[j] = s[j]
           /\ \A j \in 1 .. Len(t) : (s \o t)[Len(s) + j] = t[j]
  OBVIOUS

LEMMA NotEmpty ==
    ASSUME NEW s, Len(s) # 0
    PROVE  s # <<>>
<1>1. Len(<<>>) = 0
  OBVIOUS
<1> QED
  BY <1>1, Zenon

LEMMA TailShape ==
    ASSUME NEW kind, NEW t \in Seq(PadOps), ShapeOf(kind, t), t[1] \in {"send", "wait", "led", "rumble"}
    PROVE  /\ Tail(t) \in Seq(PadOps) /\ Tail(t) # <<>>
           /\ ShapeOf(kind, Tail(t)) /\ AsksOf(kind, t) /\ AsksOf(kind, Tail(t))
<1> DEFINE n == Len(t)
<1>1. n \in Nat /\ n >= 1 /\ t # <<>>
  BY DEF ShapeOf
<1>2. n >= 2 /\ (kind # "announce" => n >= 3)
  BY <1>1 DEF ShapeOf
<1>3. /\ Tail(t) \in Seq(PadOps) /\ Len(Tail(t)) = n - 1
      /\ \A j \in 1 .. (n - 1) : Tail(t)[j] = t[j + 1]
  BY <1>1
<1>4. Tail(t) # <<>>
  <2>1. Len(Tail(t)) # 0
    BY <1>2, <1>3
  <2> QED
    BY <2>1, NotEmpty, Zenon
<1>5. AsksOf(kind, t) /\ AsksOf(kind, Tail(t))
  BY <1>2, <1>3 DEF AsksOf
<1>6. ShapeOf(kind, Tail(t))
  BY <1>1, <1>2, <1>3 DEF ShapeOf
<1> QED
  BY <1>3, <1>4, <1>5, <1>6

\* Setting a light or the motors waits for what it sent.
LEMMA WaitShape ==
    ASSUME NEW kind, NEW t \in Seq(PadOps), ShapeOf(kind, t), t[1] \in {"led", "rumble"}
    PROVE  /\ <<"wait">> \o Tail(t) \in Seq(PadOps) /\ <<"wait">> \o Tail(t) # <<>>
           /\ ShapeOf(kind, <<"wait">> \o Tail(t)) /\ AsksOf(kind, <<"wait">> \o Tail(t))
<1> DEFINE n == Len(t)
           u == <<"wait">> \o Tail(t)
<1>1. n \in Nat /\ n >= 3 /\ kind # "announce" /\ t # <<>>
  BY DEF ShapeOf
<1>2. /\ u \in Seq(PadOps) /\ Len(u) = n /\ u[1] = "wait"
      /\ \A j \in 2 .. n : u[j] = t[j]
  BY <1>1 DEF PadOps
<1> HIDE DEF u
<1>3. u # <<>>
  BY <1>1, <1>2
<1>4. ShapeOf(kind, u)
  BY <1>1, <1>2, SMTT(20) DEF ShapeOf
<1> QED
  BY <1>1, <1>2, <1>3, <1>4 DEF u, AsksOf

LEMMA MountShape ==
    ASSUME NEW kind, NEW t \in Seq(PadOps), ShapeOf(kind, t), t[1] = "mount",
           NEW more \in {<<"receive">>, <<"led", "rumble", "receive">>}
    PROVE  /\ more \o Tail(t) \in Seq(PadOps) /\ more \o Tail(t) # <<>>
           /\ ShapeOf(kind, more \o Tail(t))
           /\ AsksOf(kind, t) /\ AsksOf(kind, more \o Tail(t))
<1> DEFINE n == Len(t)
<1>0. n \in Nat /\ n >= 1
  BY DEF ShapeOf
<1>1. n = 2 /\ kind # "announce" /\ t[2] = "complete"
  <2>1. kind # "announce"
    BY <1>0 DEF ShapeOf
  <2>2. ~(n = 1)
    BY <2>1 DEF ShapeOf
  <2>3. ~(n >= 3)
    BY <1>0, <2>1 DEF ShapeOf
  <2>4. n = 2
    <3> HIDE DEF n
    <3> QED
      BY <1>0, <2>2, <2>3
  <2> QED
    BY <2>1, <2>4 DEF ShapeOf
<1>2. t # <<>> /\ Tail(t) \in Seq(PadOps) /\ Len(Tail(t)) = 1 /\ Tail(t)[1] = "complete"
  <2>1. Len(t) = 2
    BY <1>1
  <2> HIDE DEF n
  <2>2. t # <<>> /\ Tail(t) \in Seq(PadOps) /\ Len(Tail(t)) = 1 /\ Tail(t)[1] = t[2]
    BY <2>1, RestOfTwo
  <2> QED
    BY <1>1, <2>2
<1>3. AsksOf(kind, t)
  BY <1>1 DEF AsksOf
<1> DEFINE r == Tail(t)
           u == more \o r
<1>3a. r \in Seq(PadOps) /\ Len(r) = 1 /\ r[1] = "complete"
  BY <1>2
<1> HIDE DEF r
<1>4. CASE more = <<"receive">>
  <2>1. more \in Seq(PadOps) /\ Len(more) = 1 /\ more[1] = "receive"
    BY <1>4 DEF PadOps
  <2>2. u \in Seq(PadOps) /\ Len(u) = 2 /\ u[1] = "receive" /\ u[2] = "complete"
    <3>1. /\ u \in Seq(PadOps) /\ Len(u) = 1 + 1
          /\ u[1] = more[1] /\ u[1 + 1] = r[1]
      BY <1>3a, <2>1, Joined
    <3> QED
      BY <1>3a, <2>1, <3>1
  <2> HIDE DEF u
  <2>3. u # <<>> /\ ShapeOf(kind, u) /\ AsksOf(kind, u)
    BY <1>1, <2>2 DEF ShapeOf, AsksOf
  <2> QED
    BY <1>3, <2>2, <2>3 DEF u, r
<1>5. CASE more = <<"led", "rumble", "receive">>
  <2>1. more \in Seq(PadOps) /\ Len(more) = 3 /\ more[1] = "led" /\ more[2] = "rumble" /\ more[3] = "receive"
    BY <1>5 DEF PadOps
  <2>2. /\ u \in Seq(PadOps) /\ Len(u) = 4
        /\ u[1] = "led" /\ u[2] = "rumble" /\ u[3] = "receive" /\ u[4] = "complete"
    <3>0. /\ u \in Seq(PadOps) /\ Len(u) = Len(more) + Len(r)
          /\ \A j \in 1 .. Len(more) : u[j] = more[j]
          /\ \A j \in 1 .. Len(r) : u[Len(more) + j] = r[j]
      <4>1. more \in Seq(PadOps) /\ r \in Seq(PadOps)
        BY <1>3a, <2>1
      <4> QED
        BY <4>1, Joined
    <3> HIDE DEF u
    <3>1. /\ u \in Seq(PadOps) /\ Len(u) = 3 + 1
          /\ u[1] = more[1] /\ u[2] = more[2] /\ u[3] = more[3] /\ u[3 + 1] = r[1]
      BY <1>3a, <2>1, <3>0
    <3> QED
      BY <1>3a, <2>1, <3>1
  <2> HIDE DEF u
  <2>3. u # <<>> /\ ShapeOf(kind, u) /\ AsksOf(kind, u)
    BY <1>1, <2>2 DEF ShapeOf, AsksOf
  <2> QED
    BY <1>3, <2>2, <2>3 DEF u, r
<1> QED
  BY <1>4, <1>5

LEMMA ReceiveShape ==
    ASSUME NEW kind, NEW t \in Seq(PadOps), ShapeOf(kind, t), t[1] = "receive"
    PROVE  /\ AsksOf(kind, t)
           /\ kind = "announce" => Tail(t) = <<>>
           /\ kind # "announce" => /\ Tail(t) \in Seq(PadOps) /\ Tail(t) # <<>>
                                   /\ ShapeOf(kind, Tail(t)) /\ ~AsksOf(kind, Tail(t))
<1> DEFINE n == Len(t)
<1>0. n \in Nat /\ n >= 1 /\ t # <<>>
  BY EmptyLen DEF ShapeOf
<1>a. /\ Tail(t) \in Seq(PadOps) /\ Len(Tail(t)) = n - 1
      /\ \A j \in 1 .. (n - 1) : Tail(t)[j] = t[j + 1]
  BY <1>0
<1>1. CASE kind = "announce"
  <2>1. ~(n >= 2)
    BY <1>0, <1>1 DEF ShapeOf
  <2>2. Len(Tail(t)) = 0
    BY <1>0, <1>a, <2>1
  <2> QED
    BY <1>1, <1>a, <2>2, EmptyLen DEF AsksOf
<1>2. CASE kind # "announce"
  <2>1. ~(n = 1)
    BY <1>2 DEF ShapeOf
  <2>2. ~(n >= 3)
    BY <1>0, <1>2 DEF ShapeOf
  <2>3a. n = 2
    <3> HIDE DEF n
    <3> QED
      BY <1>0, <2>1, <2>2
  <2>3. n = 2 /\ t[2] = "complete"
    BY <1>2, <2>3a DEF ShapeOf
  <2>4. Tail(t) \in Seq(PadOps) /\ Len(Tail(t)) = 1 /\ Tail(t)[1] = "complete"
    BY <1>a, <2>3
  <2>5. Tail(t) # <<>>
    <3>1. Len(Tail(t)) # 0
      BY <2>4
    <3> QED
      BY <3>1, NotEmpty, Zenon
  <2> DEFINE r == Tail(t)
  <2>6. Len(r) = 1 /\ r[1] = "complete"
    BY <2>4
  <2> HIDE DEF r
  <2>7. ShapeOf(kind, r) /\ ~AsksOf(kind, r)
    BY <1>2, <2>6 DEF ShapeOf, AsksOf
  <2> QED
    BY <1>2, <2>3, <2>4, <2>5, <2>7 DEF AsksOf, r
<1> QED
  BY <1>1, <1>2

LEMMA CompleteShape ==
    ASSUME NEW kind, NEW t \in Seq(PadOps), ShapeOf(kind, t), t[1] = "complete"
    PROVE  kind # "announce" /\ ~AsksOf(kind, t)
<1>1. Len(t) \in Nat /\ Len(t) >= 1
  BY DEF ShapeOf
<1>2. kind # "announce"
  BY <1>1 DEF ShapeOf
<1>3. ~(Len(t) >= 2)
  BY <1>1, <1>2 DEF ShapeOf
<1> QED
  BY <1>2, <1>3 DEF AsksOf

\* xboxone_init sends and waits in turn.
LEMMA OneInitShape ==
    ASSUME NEW kind
    PROVE  /\ Pads!OneInit(kind) \in Seq({"send", "wait"}) /\ Len(Pads!OneInit(kind)) >= 4
<1> DEFINE SendWait(n) == [j \in 1 .. 2 * n |-> IF j % 2 = 1 THEN "send" ELSE "wait"]
<1>1. ASSUME NEW n \in {2, 3, 4} PROVE SendWait(n) \in Seq({"send", "wait"}) /\ Len(SendWait(n)) = 2 * n
  OBVIOUS
<1>2. \/ Pads!OneInit(kind) = SendWait(2)
      \/ Pads!OneInit(kind) = SendWait(3)
      \/ Pads!OneInit(kind) = SendWait(4)
  BY DEF Pads!OneInit
<1>3. /\ SendWait(2) \in Seq({"send", "wait"}) /\ Len(SendWait(2)) >= 4
      /\ SendWait(3) \in Seq({"send", "wait"}) /\ Len(SendWait(3)) >= 4
      /\ SendWait(4) \in Seq({"send", "wait"}) /\ Len(SendWait(4)) >= 4
  BY <1>1
<1> HIDE DEF SendWait
<1> QED
  BY <1>2, <1>3, Zenon

LEMMA AnnounceShape ==
    ASSUME NEW kind
    PROVE  LET t == Pads!OneInit(kind) \o <<"receive">>
           IN  t \in Seq(PadOps) /\ ShapeOf("announce", t) /\ AsksOf("announce", t)
<1> DEFINE s == Pads!OneInit(kind)
           t == s \o <<"receive">>
<1>1. s \in Seq({"send", "wait"}) /\ Len(s) >= 4
  BY OneInitShape
<1> HIDE DEF s
<1>2. t \in Seq(PadOps) /\ Len(t) = Len(s) + 1 /\ t[Len(t)] = "receive"
  BY <1>1 DEF PadOps
<1>3. \A j \in 1 .. Len(s) : t[j] = s[j] /\ s[j] \in {"send", "wait"}
  BY <1>1
<1> HIDE DEF t
<1> QED
  BY <1>1, <1>2, <1>3 DEF ShapeOf, AsksOf, t, s

LEMMA SetupShape ==
    ASSUME NEW kind, NEW type
    PROVE  LET t == Pads!Setup(kind, type)
           IN  t \in Seq(PadOps) /\ ShapeOf("config", t) /\ AsksOf("config", t)
<1> DEFINE t == Pads!Setup(kind, type)
<1>1. PICK s : t = s \o <<"mount", "complete">> /\ s \in Seq({"send", "wait"})
  <2> DEFINE s == CASE type = "wireless" -> <<"send", "wait">>
                    [] type = "one" -> Pads!OneInit(kind)
                    [] OTHER -> <<>>
  <2>1. s \in {<<"send", "wait">>, Pads!OneInit(kind), <<>>}
    OBVIOUS
  <2>2. s \in Seq({"send", "wait"})
    <3>1. <<"send", "wait">> \in Seq({"send", "wait"}) /\ <<>> \in Seq({"send", "wait"})
      OBVIOUS
    <3> HIDE DEF s
    <3> QED
      BY <2>1, <3>1, OneInitShape
  <2>3. t = s \o <<"mount", "complete">>
    BY DEF Pads!Setup
  <2> QED
    BY <2>2, <2>3
<1>2. /\ t \in Seq(PadOps) /\ Len(t) = Len(s) + 2 /\ Len(s) \in Nat
      /\ t[Len(s) + 1] = "mount" /\ t[Len(s) + 2] = "complete"
  BY <1>1 DEF PadOps
<1>3. \A j \in 1 .. Len(s) : t[j] = s[j] /\ s[j] \in {"send", "wait"}
  BY <1>1
<1> HIDE DEF t
<1> QED
  BY <1>2, <1>3 DEF ShapeOf, AsksOf, t

\* An interface is there with its fields; an Xbox One pad has one.
ItfOK(itf, itfs) ==
    /\ {"type", "connected", "in", "out"} \subseteq DOMAIN itf
    /\ itf.in \in BOOLEAN
    /\ itf.type = "one" => DOMAIN itfs = {1}

PadsItf ==
    /\ DOMAIN usb = PadAddrs /\ DOMAIN inst = PadAddrs
    /\ \A a \in PadAddrs :
        /\ \E n \in Nat : DOMAIN inst[a] = 1 .. n
        /\ (usb[a] = "none") <=> (DOMAIN inst[a] = {})
        /\ \A i \in DOMAIN inst[a] : ItfOK(inst[a][i], inst[a])

\* A call is about an interface that is open, unless its device was removed, and
\* as long as an Xbox One pad is still to be asked for a report it gives none.
CallOK(f) ==
    /\ ShapeOf(f.kind, f.todo) /\ f.i >= 1
    /\ ~f.gone => /\ f.i \in DOMAIN inst[f.a]
                  /\ f.kind = "announce" => inst[f.a][f.i].type = "one"
                  /\ AsksOf(f.kind, f.todo) /\ inst[f.a][f.i].type = "one" => ~inst[f.a][f.i].in
                  /\ ~AsksOf(f.kind, f.todo) => inst[f.a][f.i].in

\* A call g that was made during f: a removal was told both, one device is set
\* up at a time, and the pads are not the same.
PairOK(f, g) ==
    /\ g.gone /\ f.a = g.a => f.gone
    /\ f.kind = "config" /\ g.kind = "config" => f.gone
    /\ ~f.gone /\ ~g.gone => <<f.a, f.i>> # <<g.a, g.i>>

Covers(f, a, i) == ~f.gone /\ f.a = a /\ (f.i = i \/ (f.kind = "config" /\ f.i < i))

PadsInv ==
    /\ PadsItf
    /\ stack \in Seq(PadFrames)
    /\ \A k \in 1 .. Len(stack) : CallOK(stack[k])
    /\ \A k \in 1 .. (Len(stack) - 1) : stack[k].todo[1] = "wait"
    /\ \A k \in 1 .. Len(stack) : \A j \in 1 .. (k - 1) : PairOK(stack[j], stack[k])
    /\ \A a \in PadAddrs : \A i \in DOMAIN inst[a] :
        inst[a][i].in \/ \E k \in 1 .. Len(stack) : Covers(stack[k], a, i)

\* What the three properties are, from it.
LEMMA PadsInvSound == PadsInv => Pads!PadsSound
<1> SUFFICES ASSUME PadsInv PROVE Pads!PadsSound
  OBVIOUS
<1>1. stack \in Seq(PadFrames) /\ DOMAIN stack = 1 .. Len(stack) /\ Len(stack) \in Nat
  BY DEF PadsInv
<1>2. Pads!OneCallPerPad
  <2> SUFFICES ASSUME NEW j \in 1 .. Len(stack), NEW k \in 1 .. Len(stack), j < k,
                      ~stack[j].gone, ~stack[k].gone
               PROVE  <<stack[j].a, stack[j].i>> # <<stack[k].a, stack[k].i>>
    BY <1>1 DEF Pads!OneCallPerPad
  <2>1. j \in 1 .. (k - 1)
    BY <1>1
  <2>2. PairOK(stack[j], stack[k])
    BY <2>1 DEF PadsInv
  <2> QED
    BY <2>2, Zenon DEF PairOK
<1>3. Pads!Listening
  <2> SUFFICES ASSUME NEW a \in PadAddrs, NEW i \in DOMAIN inst[a], ~inst[a][i].in
               PROVE  \E k \in DOMAIN stack :
                        /\ ~stack[k].gone /\ stack[k].a = a
                        /\ stack[k].i = i \/ (stack[k].kind = "config" /\ stack[k].i < i)
    BY DEF Pads!Listening
  <2> QED
    BY <1>1, Zenon DEF PadsInv, Covers
<1>4. Pads!NoGhostPad
  <2> SUFFICES ASSUME NEW a \in PadAddrs, registered[a] \in DOMAIN inst[a] PROVE usb[a] # "none"
    BY DEF Pads!NoGhostPad, Pads!Seen
  <2> QED
    BY DEF PadsInv, PadsItf
<1> QED
  BY <1>2, <1>3, <1>4 DEF Pads!PadsSound

LEMMA PadsInitially == SumInit => PadsInv
<1> SUFFICES ASSUME SumInit PROVE PadsInv
  OBVIOUS
<1>1. Pads!Init
  BY DEF SumInit
<1>2. stack = <<>> /\ stack \in Seq(PadFrames) /\ Len(stack) = 0
  BY <1>1 DEF Pads!Init
<1>3. PadsItf
  <2>1. \A a \in PadAddrs : DOMAIN inst[a] = 1 .. 0 /\ DOMAIN inst[a] = {} /\ usb[a] = "none"
    BY <1>1 DEF Pads!Init
  <2> QED
    BY <1>1, <2>1 DEF Pads!Init, PadsItf
<1>4. \A a \in PadAddrs : DOMAIN inst[a] = {}
  BY <1>1 DEF Pads!Init
<1> QED
  BY <1>2, <1>3, <1>4 DEF PadsInv

\* The calls in progress, by position; the last one replaced, or returned.
LEMMA TopIs ==
    ASSUME PadsInv, stack # <<>>
    PROVE  /\ Len(stack) \in Nat /\ Len(stack) >= 1 /\ Pads!Top = stack[Len(stack)]
           /\ Pads!Top \in PadFrames /\ CallOK(Pads!Top) /\ Pads!Op = Pads!Top.todo[1]
           /\ Pads!Top.a \in PadAddrs /\ Pads!Top.i \in Nat /\ Pads!Top.todo \in Seq(PadOps)
           /\ ShapeOf(Pads!Top.kind, Pads!Top.todo)
<1>1. stack \in Seq(PadFrames)
  BY DEF PadsInv
<1>2. Len(stack) \in Nat /\ Len(stack) >= 1
  BY <1>1, EmptyLen
<1>3. Pads!Top = stack[Len(stack)]
  BY DEF Pads!Top, Pads!Last
<1>4. Pads!Top \in PadFrames
  BY <1>1, <1>2, <1>3
<1>5. CallOK(Pads!Top)
  BY <1>2, <1>3 DEF PadsInv
<1>6. Pads!Op = Pads!Top.todo[1]
  BY DEF Pads!Op
<1>7. Pads!Top.a \in PadAddrs /\ Pads!Top.i \in Nat /\ Pads!Top.todo \in Seq(PadOps)
  BY <1>4 DEF PadFrames
<1>8. ShapeOf(Pads!Top.kind, Pads!Top.todo)
  BY <1>5 DEF CallOK
<1> QED
  BY <1>2, <1>3, <1>4, <1>5, <1>6, <1>7, <1>8

LEMMA FrontIs ==
    ASSUME NEW s \in Seq(PadFrames), Len(s) >= 1
    PROVE  /\ Pads!Front(s) \in Seq(PadFrames) /\ Len(Pads!Front(s)) = Len(s) - 1
           /\ \A k \in 1 .. (Len(s) - 1) : Pads!Front(s)[k] = s[k]
<1> DEFINE n == Len(s) - 1
           t == SubSeq(s, 1, n)
<1>1. n \in Nat /\ \A k \in 1 .. n : s[k] \in PadFrames
  OBVIOUS
<1>2. Pads!Front(s) = t
  BY DEF Pads!Front
<1> HIDE DEF n
<1>3. /\ t \in Seq(PadFrames)
      /\ Len(t) = IF 1 <= n THEN n - 1 + 1 ELSE 0
      /\ \A k \in 1 .. n - 1 + 1 : t[k] = s[1 + k - 1]
  <2>1. n \in Int /\ 1 \in Int
    BY <1>1
  <2> QED
    BY <1>1, <2>1, SubSeqProperties
<1> HIDE DEF t
<1>4. Len(t) = n /\ \A k \in 1 .. n : t[k] = s[k]
  BY <1>1, <1>3
<1> QED
  BY <1>2, <1>3, <1>4 DEF n

LEMMA TopReplaced ==
    ASSUME NEW s \in Seq(PadFrames), Len(s) >= 1, NEW f \in PadFrames
    PROVE  LET t == Append(Pads!Front(s), f)
           IN  /\ t \in Seq(PadFrames) /\ Len(t) = Len(s) /\ t[Len(s)] = f
               /\ \A k \in 1 .. (Len(s) - 1) : t[k] = s[k]
<1> DEFINE r == Pads!Front(s)
<1>1. /\ r \in Seq(PadFrames) /\ Len(r) = Len(s) - 1
      /\ \A k \in 1 .. (Len(s) - 1) : r[k] = s[k]
  BY FrontIs
<1> HIDE DEF r
<1>2. Len(s) \in Nat
  OBVIOUS
<1>3. /\ Append(r, f) \in Seq(PadFrames) /\ Len(Append(r, f)) = Len(s) /\ Append(r, f)[Len(s)] = f
      /\ \A k \in 1 .. (Len(s) - 1) : Append(r, f)[k] = s[k]
  BY <1>1, <1>2
<1> QED
  BY <1>3 DEF r

\* The interfaces that are open, and what they wait for, are left as they are.
SameItfs ==
    /\ DOMAIN inst' = PadAddrs
    /\ \A a \in PadAddrs :
        /\ DOMAIN inst'[a] = DOMAIN inst[a]
        /\ \A i \in DOMAIN inst[a] :
            /\ {"type", "connected", "in", "out"} \subseteq DOMAIN inst'[a][i]
            /\ inst'[a][i].type = inst[a][i].type /\ inst'[a][i].in = inst[a][i].in

\* A call that gets on with what it has to do, and will still ask for a report.
GoesOn(f, g) ==
    /\ g.kind = f.kind /\ g.a = f.a /\ g.i = f.i /\ g.gone = f.gone
    /\ ShapeOf(g.kind, g.todo)
    /\ AsksOf(g.kind, g.todo) <=> AsksOf(f.kind, f.todo)

LEMMA EachFrame ==
    ASSUME NEW s \in Seq(PadFrames), NEW k \in 1 .. Len(s)
    PROVE  /\ s[k] \in PadFrames /\ s[k].a \in PadAddrs /\ s[k].i \in Nat /\ s[k].todo \in Seq(PadOps)
           /\ s[k].kind \in {"config", "announce"} /\ s[k].gone \in BOOLEAN
<1>1. s[k] \in PadFrames
  OBVIOUS
<1> QED
  BY <1>1 DEF PadFrames

LEMMA PadsItfKept == ASSUME PadsItf, SameItfs, usb' = usb PROVE PadsItf'
<1>1. \A a \in PadAddrs : \A i \in DOMAIN inst[a] :
        ItfOK(inst[a][i], inst[a]) => ItfOK(inst'[a][i], inst'[a])
  BY DEF SameItfs, ItfOK
<1>2. ASSUME NEW a \in PadAddrs
      PROVE  /\ \E n \in Nat : DOMAIN inst'[a] = 1 .. n
             /\ (usb'[a] = "none") <=> (DOMAIN inst'[a] = {})
             /\ \A i \in DOMAIN inst'[a] : ItfOK(inst'[a][i], inst'[a])
  <2>1. /\ DOMAIN inst'[a] = DOMAIN inst[a]
        /\ \E n \in Nat : DOMAIN inst[a] = 1 .. n
        /\ (usb[a] = "none") <=> (DOMAIN inst[a] = {})
        /\ \A i \in DOMAIN inst[a] : ItfOK(inst[a][i], inst[a])
    BY Zenon DEF SameItfs, PadsItf
  <2>2. \A i \in DOMAIN inst[a] : ItfOK(inst'[a][i], inst'[a])
    BY <1>1, <2>1, Zenon
  <2> QED
    BY <2>1, <2>2, Zenon
<1>3. DOMAIN usb' = PadAddrs /\ DOMAIN inst' = PadAddrs
  BY DEF SameItfs, PadsItf
<1> QED
  BY <1>2, <1>3, Zenon DEF PadsItf, ItfOK

LEMMA CallsGoOn ==
    ASSUME PadsInv, SameItfs, usb' = usb,
           stack' \in Seq(PadFrames), Len(stack') = Len(stack),
           \A k \in 1 .. Len(stack) : GoesOn(stack[k], stack'[k]),
           \A k \in 1 .. (Len(stack) - 1) : stack'[k].todo[1] = "wait"
    PROVE  PadsInv'
<1>1. PadsItf'
  BY PadsItfKept, Zenon DEF PadsInv
<1>2. stack \in Seq(PadFrames) /\ Len(stack) \in Nat
  BY DEF PadsInv
<1>3. ASSUME NEW k \in 1 .. Len(stack')
      PROVE  CallOK(stack[k])'
  <2>1. GoesOn(stack[k], stack'[k]) /\ CallOK(stack[k])
    BY Zenon DEF PadsInv
  <2>2. stack[k].a \in PadAddrs
    BY <1>2, EachFrame
  <2> QED
    BY <2>1, <2>2 DEF GoesOn, CallOK, SameItfs
<1>4. ASSUME NEW k \in 1 .. Len(stack'), NEW j \in 1 .. (k - 1)
      PROVE  PairOK(stack[j], stack[k])'
  <2>1. GoesOn(stack[k], stack'[k]) /\ GoesOn(stack[j], stack'[j]) /\ PairOK(stack[j], stack[k])
    BY <1>2 DEF PadsInv
  <2> QED
    BY <2>1 DEF GoesOn, PairOK
<1>5. ASSUME NEW a \in PadAddrs, NEW i \in DOMAIN inst'[a], ~inst'[a][i].in
      PROVE  \E k \in 1 .. Len(stack') : Covers(stack'[k], a, i)
  <2>1. i \in DOMAIN inst[a] /\ ~inst[a][i].in
    BY <1>5 DEF SameItfs
  <2>2. PICK k \in 1 .. Len(stack) : Covers(stack[k], a, i)
    BY <2>1, Zenon DEF PadsInv
  <2>3. GoesOn(stack[k], stack'[k])
    OBVIOUS
  <2>4. Covers(stack'[k], a, i)
    BY <2>2, <2>3 DEF GoesOn, Covers
  <2> QED
    BY <2>4
<1>6. \A a \in PadAddrs : \A i \in DOMAIN inst'[a] :
        inst'[a][i].in \/ \E k \in 1 .. Len(stack') : Covers(stack'[k], a, i)
  BY <1>5, Zenon
<1> QED
  BY <1>1, <1>3, <1>4, <1>6 DEF PadsInv, Covers

LEMMA OneItf ==
    ASSUME PadsItf, NEW a \in PadAddrs, NEW i \in DOMAIN inst[a], NEW itf,
           inst' = [inst EXCEPT ![a][i] = itf],
           {"type", "connected", "in", "out"} \subseteq DOMAIN itf,
           itf.type = inst[a][i].type, itf.in = inst[a][i].in
    PROVE  SameItfs
<1>1. DOMAIN inst = PadAddrs
  BY DEF PadsItf
<1>2. /\ inst'[a] = [inst[a] EXCEPT ![i] = itf]
      /\ DOMAIN inst' = PadAddrs /\ \A b \in PadAddrs : b # a => inst'[b] = inst[b]
  BY <1>1
<1>3. /\ inst'[a][i] = itf /\ DOMAIN inst'[a] = DOMAIN inst[a]
      /\ \A j \in DOMAIN inst[a] : j # i => inst'[a][j] = inst[a][j]
  BY <1>2
<1>4. \A b \in PadAddrs : \A j \in DOMAIN inst[b] :
        {"type", "connected", "in", "out"} \subseteq DOMAIN inst[b][j]
  BY DEF PadsItf, ItfOK
<1>5. \A b \in PadAddrs : DOMAIN inst'[b] = DOMAIN inst[b]
  BY <1>2, <1>3, Zenon
<1>6. ASSUME NEW b \in PadAddrs, NEW j \in DOMAIN inst[b]
      PROVE  /\ {"type", "connected", "in", "out"} \subseteq DOMAIN inst'[b][j]
             /\ inst'[b][j].type = inst[b][j].type /\ inst'[b][j].in = inst[b][j].in
  <2>1. CASE b = a /\ j = i
    <3>1. inst'[b][j] = itf /\ inst[b][j] = inst[a][i]
      BY <1>3, <2>1, Zenon
    <3> QED
      BY <3>1, Zenon
  <2>2. CASE ~(b = a /\ j = i)
    <3>1. inst'[b][j] = inst[b][j]
      BY <1>2, <1>3, <2>2, Zenon
    <3> QED
      BY <1>4, <3>1, Zenon
  <2> QED
    BY <2>1, <2>2, Zenon
<1> QED
  BY <1>2, <1>5, <1>6, Zenon DEF SameItfs

LEMMA StackKept ==
    ASSUME PadsInv, SameItfs, usb' = usb, stack' = stack PROVE PadsInv'
<1>1. stack \in Seq(PadFrames) /\ \A k \in 1 .. Len(stack) : CallOK(stack[k])
  BY DEF PadsInv
<1>2. \A k \in 1 .. Len(stack) : GoesOn(stack[k], stack'[k])
  BY <1>1 DEF GoesOn, CallOK
<1>3. \A k \in 1 .. (Len(stack) - 1) : stack'[k].todo[1] = "wait"
  BY DEF PadsInv
<1> QED
  BY <1>1, <1>2, <1>3, CallsGoOn

LEMMA PadsClock == ASSUME PadsInv, Pads!Clock PROVE PadsInv'
<1>1. PICK k \in DOMAIN stack :
        /\ stack' = [j \in DOMAIN stack |->
                        IF j <= k THEN [stack[j] EXCEPT !.late = TRUE] ELSE stack[j]]
        /\ UNCHANGED <<usb, inst, registered>>
  BY DEF Pads!Clock
<1>2. /\ stack \in Seq(PadFrames) /\ DOMAIN stack = 1 .. Len(stack) /\ Len(stack) \in Nat
      /\ \A j \in 1 .. Len(stack) : CallOK(stack[j])
      /\ \A j \in 1 .. (Len(stack) - 1) : stack[j].todo[1] = "wait"
  BY DEF PadsInv
<1>3. ASSUME NEW j \in 1 .. Len(stack)
      PROVE  /\ stack'[j] \in PadFrames
             /\ GoesOn(stack[j], stack'[j]) /\ stack'[j].todo = stack[j].todo
  <2>1. stack[j] \in PadFrames
    BY <1>2, EachFrame
  <2>2. stack'[j] = stack[j] \/ stack'[j] = [stack[j] EXCEPT !.late = TRUE]
    BY <1>1, <1>2
  <2>3. /\ stack'[j] \in PadFrames
        /\ stack'[j].kind = stack[j].kind /\ stack'[j].a = stack[j].a /\ stack'[j].i = stack[j].i
        /\ stack'[j].gone = stack[j].gone /\ stack'[j].todo = stack[j].todo
    BY <2>1, <2>2 DEF PadFrames
  <2> QED
    BY <1>2, <2>3 DEF GoesOn, CallOK
<1>4. stack' \in Seq(PadFrames) /\ Len(stack') = Len(stack)
  BY <1>1, <1>2, <1>3
<1>5. SameItfs
  BY <1>1 DEF SameItfs, PadsInv, PadsItf, ItfOK
<1>6. \A j \in 1 .. (Len(stack) - 1) : stack'[j].todo[1] = "wait"
  BY <1>2, <1>3
<1>7. usb' = usb
  BY <1>1
<1> QED
  BY <1>3, <1>4, <1>5, <1>6, <1>7, CallsGoOn

LEMMA PadsAgain ==
    ASSUME PadsInv, NEW a \in PadAddrs, NEW i \in DOMAIN inst[a], inst[a][i].in, NEW itf,
           Pads!Again(a, i, itf), {"type", "connected", "in", "out"} \subseteq DOMAIN itf,
           itf.type = inst[a][i].type, UNCHANGED <<usb, stack>>
    PROVE  PadsInv'
<1>1. PadsItf /\ inst[a][i].in = TRUE
  BY DEF PadsInv, PadsItf, ItfOK
<1> DEFINE r == [itf EXCEPT !.in = TRUE]
<1>2. r.type = inst[a][i].type /\ r.in = inst[a][i].in
      /\ {"type", "connected", "in", "out"} \subseteq DOMAIN r
  BY <1>1
<1>3. inst' = [inst EXCEPT ![a][i] = r]
  BY DEF Pads!Again
<1> HIDE DEF r
<1>4. SameItfs
  BY <1>1, <1>2, <1>3, OneItf
<1> QED
  BY <1>4, StackKept

LEMMA PadsSent ==
    ASSUME PadsInv, NEW a \in PadAddrs, NEW i, Pads!Sent(a, i) PROVE PadsInv'
<1>1. i \in DOMAIN inst[a] /\ PadsItf
  BY DEF Pads!Sent, Pads!IsOpen, PadsInv
<1> DEFINE itf == [inst[a][i] EXCEPT !.out = FALSE]
<1>2. {"type", "connected", "in", "out"} \subseteq DOMAIN inst[a][i]
  BY <1>1 DEF PadsItf, ItfOK
<1>3. /\ itf.type = inst[a][i].type /\ itf.in = inst[a][i].in
      /\ {"type", "connected", "in", "out"} \subseteq DOMAIN itf
  BY <1>2
<1>4. inst' = [inst EXCEPT ![a][i] = itf] /\ usb' = usb /\ stack' = stack
  BY DEF Pads!Sent
<1> HIDE DEF itf
<1>5. SameItfs
  BY <1>1, <1>3, <1>4, OneItf
<1> QED
  BY <1>4, <1>5, StackKept

\* A report, a failed transfer, a pad switched on or off, or its guide button.
LEMMA PadsHeard ==
    ASSUME PadsInv, NEW a \in PadAddrs, NEW i,
           \/ \E r \in PadReports : Pads!InputReceived(a, i, r)
           \/ Pads!TransferFailed(a, i)
           \/ \E on \in BOOLEAN : Pads!LinkReceived(a, i, on) \/ Pads!GuideReceived(a, i, on)
    PROVE  PadsInv'
<1>1. i \in DOMAIN inst[a] /\ inst[a][i].in /\ usb' = usb /\ stack' = stack
  BY DEF Pads!InputReceived, Pads!TransferFailed, Pads!LinkReceived, Pads!GuideReceived,
         Pads!Arrives, Pads!IsOpen
<1>2. {"type", "connected", "in", "out"} \subseteq DOMAIN inst[a][i]
  BY <1>1 DEF PadsInv, PadsItf, ItfOK
<1>3. PICK itf : /\ Pads!Again(a, i, itf) /\ itf.type = inst[a][i].type
                 /\ {"type", "connected", "in", "out"} \subseteq DOMAIN itf
  <2>1. ASSUME NEW r \in PadReports, Pads!InputReceived(a, i, r)
        PROVE  \E itf : /\ Pads!Again(a, i, itf) /\ itf.type = inst[a][i].type
                        /\ {"type", "connected", "in", "out"} \subseteq DOMAIN itf
    <3> DEFINE itf == [inst[a][i] EXCEPT !.pad = Pads!Decode(inst[a][i].type, r)]
    <3>1. Pads!Again(a, i, itf)
      BY <2>1 DEF Pads!InputReceived
    <3>2. itf.type = inst[a][i].type /\ {"type", "connected", "in", "out"} \subseteq DOMAIN itf
      BY <1>2
    <3> QED
      BY <3>1, <3>2, Zenon
  <2>2. CASE Pads!TransferFailed(a, i)
    BY <1>2, <2>2, Zenon DEF Pads!TransferFailed
  <2>3. ASSUME NEW on \in BOOLEAN, Pads!LinkReceived(a, i, on)
        PROVE  \E itf : /\ Pads!Again(a, i, itf) /\ itf.type = inst[a][i].type
                        /\ {"type", "connected", "in", "out"} \subseteq DOMAIN itf
    <3> DEFINE itf == [inst[a][i] EXCEPT !.connected = on]
    <3>1. Pads!Again(a, i, itf)
      BY <2>3 DEF Pads!LinkReceived
    <3>2. itf.type = inst[a][i].type /\ {"type", "connected", "in", "out"} \subseteq DOMAIN itf
      BY <1>2
    <3> QED
      BY <3>1, <3>2, Zenon
  <2>4. ASSUME NEW down \in BOOLEAN, Pads!GuideReceived(a, i, down)
        PROVE  \E itf : /\ Pads!Again(a, i, itf) /\ itf.type = inst[a][i].type
                        /\ {"type", "connected", "in", "out"} \subseteq DOMAIN itf
    <3> DEFINE itf == [inst[a][i] EXCEPT !.pad.buttons =
                          IF down THEN @ \cup {"guide"} ELSE @ \ {"guide"}]
    <3>1. Pads!Again(a, i, itf)
      BY <2>4 DEF Pads!GuideReceived
    <3>2. itf.type = inst[a][i].type /\ {"type", "connected", "in", "out"} \subseteq DOMAIN itf
      BY <1>2
    <3> QED
      BY <3>1, <3>2, Zenon
  <2> QED
    BY <2>1, <2>2, <2>3, <2>4, Zenon
<1> QED
  BY <1>1, <1>3, PadsAgain

\* The running call does more: it goes on, and no other call changes.
LEMMA TopRuns ==
    ASSUME PadsInv, stack # <<>>, NEW more, NEW todo \in Seq(PadOps),
           todo = more \o Tail(Pads!Top.todo), todo # <<>>,
           ShapeOf(Pads!Top.kind, todo),
           AsksOf(Pads!Top.kind, todo) <=> AsksOf(Pads!Top.kind, Pads!Top.todo),
           Pads!Continue(more), SameItfs, usb' = usb
    PROVE  PadsInv'
<1> DEFINE n == Len(stack)
           f == Pads!Top
           g == [f EXCEPT !.todo = todo, !.late = FALSE]
<1>1. /\ n \in Nat /\ n >= 1 /\ f = stack[n] /\ f \in PadFrames /\ stack \in Seq(PadFrames)
  BY TopIs DEF PadsInv
<1>2. stack' = Append(Pads!Front(stack), g)
  BY DEF Pads!Continue
<1>3. /\ g \in PadFrames /\ g.todo = todo
      /\ g.kind = f.kind /\ g.a = f.a /\ g.i = f.i /\ g.gone = f.gone
  BY <1>1 DEF PadFrames
<1> HIDE DEF g
<1>4. GoesOn(f, g)
  BY <1>3 DEF GoesOn
<1> HIDE DEF f
<1>5. /\ stack' \in Seq(PadFrames) /\ Len(stack') = n /\ stack'[n] = g
      /\ \A k \in 1 .. (n - 1) : stack'[k] = stack[k]
  BY <1>1, <1>2, <1>3, TopReplaced
<1>6. ASSUME NEW k \in 1 .. n PROVE GoesOn(stack[k], stack'[k])
  <2>1. CASE k = n
    BY <1>1, <1>4, <1>5, <2>1
  <2>2. CASE k # n
    <3>1. k \in 1 .. (n - 1)
      BY <1>1, <2>2
    <3>2. stack'[k] = stack[k] /\ CallOK(stack[k])
      BY <1>5, <3>1 DEF PadsInv
    <3> QED
      BY <3>2 DEF GoesOn, CallOK
  <2> QED
    BY <2>1, <2>2
<1>7. \A k \in 1 .. (n - 1) : stack'[k].todo[1] = "wait"
  BY <1>5, Zenon DEF PadsInv
<1> QED
  BY <1>5, <1>6, <1>7, CallsGoOn

LEMMA SameWhenStill == ASSUME PadsItf, inst' = inst PROVE SameItfs
BY DEF SameItfs, PadsItf, ItfOK

LEMMA SameWhenSent ==
    ASSUME PadsItf, Pads!Top.a \in PadAddrs, Pads!CanSend, Pads!SetOut PROVE SameItfs
<1> DEFINE a == Pads!Top.a
           i == Pads!Top.i
           itf == [inst[a][i] EXCEPT !.out = TRUE]
<1>1. i \in DOMAIN inst[a] /\ a \in PadAddrs
  BY DEF Pads!CanSend, Pads!IsOpen
<1>2. inst' = [inst EXCEPT ![a][i] = itf]
  BY DEF Pads!SetOut
<1>3. {"type", "connected", "in", "out"} \subseteq DOMAIN inst[a][i]
  BY <1>1 DEF PadsItf, ItfOK
<1>4. /\ itf.type = inst[a][i].type /\ itf.in = inst[a][i].in
      /\ {"type", "connected", "in", "out"} \subseteq DOMAIN itf
  BY <1>3
<1> HIDE DEF a, i, itf
<1> QED
  BY <1>1, <1>2, <1>4, OneItf

LEMMA PadsSendWait == ASSUME PadsInv, Pads!Send \/ Pads!Wait PROVE PadsInv'
<1> DEFINE f == Pads!Top
<1>1. stack # <<>> /\ Pads!Op \in {"send", "wait"} /\ Pads!Continue(<<>>) /\ usb' = usb
  BY DEF Pads!Send, Pads!Wait, Pads!Running
<1>2. f.todo \in Seq(PadOps) /\ ShapeOf(f.kind, f.todo) /\ f.todo[1] \in {"send", "wait"}
      /\ f.a \in PadAddrs
  BY <1>1, TopIs
<1>3. SameItfs
  <2>1. PadsItf
    BY DEF PadsInv
  <2>2. CASE inst' = inst
    BY <2>1, <2>2, SameWhenStill
  <2>3. CASE Pads!CanSend /\ Pads!SetOut
    BY <1>2, <2>1, <2>3, SameWhenSent
  <2> QED
    BY <2>2, <2>3 DEF Pads!Send, Pads!Wait
<1> HIDE DEF f
<1>4. /\ Tail(f.todo) \in Seq(PadOps) /\ Tail(f.todo) # <<>> /\ ShapeOf(f.kind, Tail(f.todo))
      /\ AsksOf(f.kind, f.todo) /\ AsksOf(f.kind, Tail(f.todo))
  BY <1>2, TailShape
<1>5. Tail(f.todo) = <<>> \o Tail(f.todo)
  BY <1>4
<1> QED
  BY <1>1, <1>3, <1>4, <1>5, TopRuns DEF f

LEMMA PadsMount == ASSUME PadsInv, Pads!Mount PROVE PadsInv'
<1> DEFINE f == Pads!Top
<1>1. stack # <<>> /\ Pads!Op = "mount" /\ usb' = usb /\ inst' = inst
  BY DEF Pads!Mount, Pads!Running
<1>2. f.todo \in Seq(PadOps) /\ ShapeOf(f.kind, f.todo) /\ f.todo[1] = "mount"
  BY <1>1, TopIs
<1>3. SameItfs
  BY <1>1, SameWhenStill DEF PadsInv
<1> HIDE DEF f
<1>4. PICK more \in {<<"receive">>, <<"led", "rumble", "receive">>} : Pads!Continue(more)
  BY DEF Pads!Mount
<1> DEFINE t == more \o Tail(f.todo)
<1>5. /\ t \in Seq(PadOps) /\ t # <<>> /\ ShapeOf(f.kind, t)
      /\ AsksOf(f.kind, f.todo) /\ AsksOf(f.kind, t)
  BY <1>2, MountShape
<1>6. t = more \o Tail(f.todo)
  OBVIOUS
<1> HIDE DEF t
<1> QED
  BY <1>1, <1>3, <1>4, <1>5, <1>6, TopRuns DEF f

LEMMA PadsLedRumble == ASSUME PadsInv, Pads!SetLedOrRumble PROVE PadsInv'
<1> DEFINE f == Pads!Top
<1>1. stack # <<>> /\ Pads!Op \in {"led", "rumble"} /\ usb' = usb
  BY DEF Pads!SetLedOrRumble
<1>2. f.todo \in Seq(PadOps) /\ ShapeOf(f.kind, f.todo) /\ f.todo[1] \in {"led", "rumble"}
      /\ f.a \in PadAddrs
  BY <1>1, TopIs
<1> HIDE DEF f
<1>3. PadsItf
  BY DEF PadsInv
<1>4. CASE Pads!CanSend /\ Pads!SetOut /\ Pads!Continue(<<"wait">>)
  <2>1. SameItfs
    BY <1>2, <1>3, <1>4, SameWhenSent DEF f
  <2> DEFINE t == <<"wait">> \o Tail(f.todo)
  <2>2. t \in Seq(PadOps) /\ t # <<>> /\ ShapeOf(f.kind, t) /\ AsksOf(f.kind, t)
    BY <1>2, WaitShape
  <2>3. AsksOf(f.kind, f.todo)
    BY <1>2, TailShape
  <2>4. t = <<"wait">> \o Tail(f.todo)
    OBVIOUS
  <2> HIDE DEF t
  <2> QED
    BY <1>1, <1>4, <2>1, <2>2, <2>3, <2>4, TopRuns DEF f
<1>5. CASE inst' = inst /\ Pads!Continue(<<>>)
  <2>1. SameItfs
    BY <1>3, <1>5, SameWhenStill
  <2>2. /\ Tail(f.todo) \in Seq(PadOps) /\ Tail(f.todo) # <<>> /\ ShapeOf(f.kind, Tail(f.todo))
        /\ AsksOf(f.kind, f.todo) /\ AsksOf(f.kind, Tail(f.todo))
    BY <1>2, TailShape
  <2>3. Tail(f.todo) = <<>> \o Tail(f.todo)
    BY <2>2
  <2> QED
    BY <1>1, <1>5, <2>1, <2>2, <2>3, TopRuns DEF f
<1> QED
  BY <1>4, <1>5 DEF Pads!SetLedOrRumble

\* The interface of the running call waits for a report now.
NowAsked(a, i) ==
    /\ DOMAIN inst' = PadAddrs
    /\ \A b \in PadAddrs :
        /\ DOMAIN inst'[b] = DOMAIN inst[b]
        /\ \A j \in DOMAIN inst[b] :
            /\ {"type", "connected", "in", "out"} \subseteq DOMAIN inst'[b][j]
            /\ inst'[b][j].type = inst[b][j].type
            /\ b = a /\ j = i => inst'[b][j].in = TRUE
            /\ ~(b = a /\ j = i) => inst'[b][j].in = inst[b][j].in

LEMMA ReceiveAsks ==
    ASSUME PadsItf, NEW a \in PadAddrs, NEW i,
           inst' = IF Pads!IsOpen(a, i) THEN [inst EXCEPT ![a][i].in = TRUE] ELSE inst
    PROVE  NowAsked(a, i)
<1>1. DOMAIN inst = PadAddrs
      /\ \A b \in PadAddrs : \A j \in DOMAIN inst[b] :
            {"type", "connected", "in", "out"} \subseteq DOMAIN inst[b][j]
  BY DEF PadsItf, ItfOK
<1>2. CASE i \in DOMAIN inst[a]
  <2> DEFINE itf == [inst[a][i] EXCEPT !.in = TRUE]
  <2>1. /\ itf.type = inst[a][i].type /\ itf.in = TRUE
        /\ {"type", "connected", "in", "out"} \subseteq DOMAIN itf
    BY <1>1, <1>2
  <2>2. inst' = [inst EXCEPT ![a][i] = itf]
    BY <1>2 DEF Pads!IsOpen
  <2> HIDE DEF itf
  <2>3. /\ inst'[a] = [inst[a] EXCEPT ![i] = itf]
        /\ DOMAIN inst' = PadAddrs /\ \A b \in PadAddrs : b # a => inst'[b] = inst[b]
    BY <1>1, <2>2
  <2>4. /\ inst'[a][i] = itf /\ DOMAIN inst'[a] = DOMAIN inst[a]
        /\ \A j \in DOMAIN inst[a] : j # i => inst'[a][j] = inst[a][j]
    BY <1>2, <2>3
  <2>5. \A b \in PadAddrs : DOMAIN inst'[b] = DOMAIN inst[b]
    BY <2>3, <2>4, Zenon
  <2>6. ASSUME NEW b \in PadAddrs, NEW j \in DOMAIN inst[b]
        PROVE  /\ {"type", "connected", "in", "out"} \subseteq DOMAIN inst'[b][j]
               /\ inst'[b][j].type = inst[b][j].type
               /\ b = a /\ j = i => inst'[b][j].in = TRUE
               /\ ~(b = a /\ j = i) => inst'[b][j].in = inst[b][j].in
    <3>1. CASE b = a /\ j = i
      <4>1. inst'[b][j] = itf /\ inst[b][j] = inst[a][i]
        BY <2>4, <3>1, Zenon
      <4> QED
        BY <2>1, <3>1, <4>1, Zenon
    <3>2. CASE ~(b = a /\ j = i)
      <4>1. inst'[b][j] = inst[b][j]
        BY <2>3, <2>4, <3>2, Zenon
      <4> QED
        BY <1>1, <3>2, <4>1, Zenon
    <3> QED
      BY <3>1, <3>2, Zenon
  <2> QED
    BY <2>3, <2>5, <2>6, Zenon DEF NowAsked
<1>3. CASE i \notin DOMAIN inst[a]
  <2>1. inst' = inst
    BY <1>3 DEF Pads!IsOpen
  <2> QED
    BY <1>1, <1>3, <2>1 DEF NowAsked
<1> QED
  BY <1>2, <1>3, Zenon

\* No call under the running one is about its interface, if it still has a device.
LEMMA NoneBelow ==
    ASSUME PadsInv, stack # <<>>, NEW k \in 1 .. (Len(stack) - 1), ~stack[k].gone
    PROVE  /\ <<stack[k].a, stack[k].i>> # <<Pads!Top.a, Pads!Top.i>>
           /\ Pads!Top.gone => stack[k].a # Pads!Top.a
           /\ Pads!Top.kind = "config" => stack[k].kind = "announce"
<1>1. Len(stack) \in Nat /\ Pads!Top = stack[Len(stack)] /\ stack \in Seq(PadFrames)
  BY TopIs DEF PadsInv
<1>2. PairOK(stack[k], Pads!Top)
  BY <1>1 DEF PadsInv
<1>3. stack[k].kind \in {"config", "announce"}
  BY <1>1, EachFrame
<1>4. <<stack[k].a, stack[k].i>> = <<Pads!Top.a, Pads!Top.i>> => stack[k].a = Pads!Top.a
  OBVIOUS
<1> QED
  BY <1>2, <1>3, <1>4 DEF PairOK

LEMMA PadsReceive == ASSUME PadsInv, Pads!Receive PROVE PadsInv'
<1> DEFINE n == Len(stack)
           f == Pads!Top
           m == Len(stack')
<1>1. stack # <<>> /\ Pads!Op = "receive" /\ usb' = usb /\ Pads!Continue(<<>>)
  BY DEF Pads!Receive, Pads!Running
<1>2. /\ f.todo \in Seq(PadOps) /\ ShapeOf(f.kind, f.todo) /\ f.todo[1] = "receive"
      /\ f.a \in PadAddrs /\ f \in PadFrames /\ n \in Nat /\ n >= 1 /\ f = stack[n] /\ CallOK(f)
  BY <1>1, TopIs
<1>3. PadsItf /\ stack \in Seq(PadFrames)
  BY DEF PadsInv
<1>4. NowAsked(f.a, f.i)
  <2>1. inst' = IF Pads!IsOpen(f.a, f.i) THEN [inst EXCEPT ![f.a][f.i].in = TRUE] ELSE inst
    BY DEF Pads!Receive
  <2> HIDE DEF f
  <2> QED
    BY <1>2, <1>3, <2>1, ReceiveAsks
<1>5. /\ f.kind = "announce" => Tail(f.todo) = <<>>
      /\ f.kind # "announce" => /\ Tail(f.todo) \in Seq(PadOps) /\ Tail(f.todo) # <<>>
                                /\ ShapeOf(f.kind, Tail(f.todo)) /\ ~AsksOf(f.kind, Tail(f.todo))
  <2> HIDE DEF f
  <2> QED
    BY <1>2, ReceiveShape
<1>6. PICK g : /\ f.kind # "announce" => /\ m = n /\ stack'[n] = g /\ g.kind = f.kind /\ g.a = f.a
                                         /\ g.i = f.i /\ g.gone = f.gone
                                         /\ ShapeOf(g.kind, g.todo) /\ ~AsksOf(g.kind, g.todo)
               /\ f.kind = "announce" => m = n - 1
               /\ stack' \in Seq(PadFrames)
               /\ \A k \in 1 .. (n - 1) : stack'[k] = stack[k]
  <2>1. CASE f.kind = "announce"
    <3>1. <<>> \o Tail(f.todo) = <<>>
      BY <1>5, <2>1
    <3>2. stack' = Pads!Front(stack)
      BY <1>1, <3>1, Zenon DEF Pads!Continue
    <3> QED
      BY <1>2, <1>3, <2>1, <3>2, FrontIs
  <2>2. CASE f.kind # "announce"
    <3> DEFINE g == [f EXCEPT !.todo = Tail(f.todo), !.late = FALSE]
    <3>1. <<>> \o Tail(f.todo) = Tail(f.todo)
      BY <1>5, <2>2
    <3>2. stack' = Append(Pads!Front(stack), g)
      BY <1>1, <1>5, <2>2, <3>1 DEF Pads!Continue
    <3>3. /\ g \in PadFrames /\ g.todo = Tail(f.todo)
          /\ g.kind = f.kind /\ g.a = f.a /\ g.i = f.i /\ g.gone = f.gone
      BY <1>2, <1>5, <2>2 DEF PadFrames
    <3> HIDE DEF g
    <3>4. /\ stack' \in Seq(PadFrames) /\ m = n /\ stack'[n] = g
          /\ \A k \in 1 .. (n - 1) : stack'[k] = stack[k]
      BY <1>2, <1>3, <3>2, <3>3, TopReplaced
    <3> HIDE DEF f
    <3> QED
      BY <1>5, <2>2, <3>3, <3>4
  <2> QED
    BY <2>1, <2>2
<1>7. \A k \in 1 .. (n - 1) : ~stack[k].gone => <<stack[k].a, stack[k].i>> # <<f.a, f.i>>
  BY <1>1, NoneBelow
<1>8. PadsItf'
  <2>1. ASSUME NEW b \in PadAddrs, NEW j \in DOMAIN inst[b], ItfOK(inst[b][j], inst[b])
        PROVE  ItfOK(inst'[b][j], inst'[b])
    <3>1. inst'[b][j].in \in BOOLEAN
      <4>1. inst[b][j].in \in BOOLEAN
        BY <2>1 DEF ItfOK
      <4>2. CASE b = f.a /\ j = f.i
        <5>1. inst'[b][j].in = TRUE
          BY <1>4, <4>2, Zenon DEF NowAsked
        <5> QED
          BY <5>1
      <4>3. CASE ~(b = f.a /\ j = f.i)
        BY <1>4, <4>1, <4>3, Zenon DEF NowAsked
      <4> QED
        BY <4>2, <4>3, Zenon
    <3> QED
      BY <1>4, <2>1, <3>1, Zenon DEF NowAsked, ItfOK
  <2>2. ASSUME NEW b \in PadAddrs
        PROVE  /\ \E k \in Nat : DOMAIN inst'[b] = 1 .. k
               /\ (usb'[b] = "none") <=> (DOMAIN inst'[b] = {})
               /\ \A j \in DOMAIN inst'[b] : ItfOK(inst'[b][j], inst'[b])
    <3>1. /\ DOMAIN inst'[b] = DOMAIN inst[b]
          /\ \E k \in Nat : DOMAIN inst[b] = 1 .. k
          /\ (usb[b] = "none") <=> (DOMAIN inst[b] = {})
          /\ \A j \in DOMAIN inst[b] : ItfOK(inst[b][j], inst[b])
      BY <1>3, <1>4, Zenon DEF NowAsked, PadsItf
    <3>2. \A j \in DOMAIN inst[b] : ItfOK(inst'[b][j], inst'[b])
      BY <2>1, <3>1, Zenon
    <3> QED
      BY <1>1, <3>1, <3>2, Zenon
  <2>3. DOMAIN usb' = PadAddrs /\ DOMAIN inst' = PadAddrs
    BY <1>1, <1>3, <1>4 DEF NowAsked, PadsItf
  <2> QED
    BY <2>2, <2>3, Zenon DEF PadsItf, ItfOK
<1> HIDE DEF f
<1>9. m \in {n - 1, n} /\ m \in Nat
  BY <1>2, <1>6
<1>10. ASSUME NEW k \in 1 .. m PROVE k \in 1 .. (n - 1) \/ (k = n /\ f.kind # "announce")
  BY <1>2, <1>6, <1>9
<1>11. ASSUME NEW k \in 1 .. m
       PROVE  CallOK(stack[k])'
  <2>1. CASE k \in 1 .. (n - 1)
    <3>1. CallOK(stack[k]) /\ stack[k].a \in PadAddrs /\ stack'[k] = stack[k]
      BY <1>2, <1>3, <1>6, <2>1, EachFrame DEF PadsInv
    <3>2. ~stack[k].gone => <<stack[k].a, stack[k].i>> # <<f.a, f.i>>
      BY <1>7, <2>1
    <3> DEFINE h == stack[k]
    <3>3. CallOK(h) /\ h.a \in PadAddrs /\ ~h.gone => ~(h.a = f.a /\ h.i = f.i)
      BY <3>1, <3>2
    <3> HIDE DEF h
    <3>4. ~h.gone => /\ h.i \in DOMAIN inst'[h.a] /\ inst'[h.a][h.i].type = inst[h.a][h.i].type
                     /\ inst'[h.a][h.i].in = inst[h.a][h.i].in
      BY <1>4, <3>1, <3>3, Zenon DEF CallOK, NowAsked, h
    <3>5. stack'[k] = h
      BY <3>1 DEF h
    <3> QED
      BY <3>1, <3>4, <3>5 DEF CallOK, h
  <2>2. CASE k = n /\ f.kind # "announce"
    <3> DEFINE h == stack'[n]
    <3>1. /\ h.kind # "announce" /\ ~AsksOf(h.kind, h.todo) /\ ShapeOf(h.kind, h.todo) /\ h.i >= 1
          /\ h.a = f.a /\ h.i = f.i /\ h.gone = f.gone
      BY <1>2, <1>6, <2>2 DEF CallOK
    <3>2. ~f.gone => f.i \in DOMAIN inst[f.a]
      BY <1>2 DEF CallOK
    <3>3. ~f.gone => f.i \in DOMAIN inst'[f.a] /\ inst'[f.a][f.i].in = TRUE
      BY <1>2, <1>4, <3>2, Zenon DEF NowAsked
    <3> HIDE DEF h
    <3>4. stack'[k] = h
      BY <2>2 DEF h
    <3> QED
      BY <3>1, <3>3, <3>4 DEF CallOK
  <2> QED
    BY <1>10, <2>1, <2>2
<1>12. ASSUME NEW k \in 1 .. m, NEW j \in 1 .. (k - 1)
       PROVE  PairOK(stack[j], stack[k])'
  <2>1. j \in 1 .. (n - 1) /\ k \in 1 .. n /\ stack'[j] = stack[j]
    BY <1>2, <1>6, <1>9
  <2>2. PairOK(stack[j], stack[k])
    BY <2>1, Zenon DEF PadsInv
  <2>3. CASE k \in 1 .. (n - 1)
    BY <1>6, <2>1, <2>2, <2>3 DEF PairOK
  <2>4. CASE k = n /\ f.kind # "announce"
    BY <1>2, <1>6, <2>1, <2>2, <2>4 DEF PairOK
  <2> QED
    BY <1>10, <2>3, <2>4
<1>13. ASSUME NEW b \in PadAddrs, NEW j \in DOMAIN inst'[b], ~inst'[b][j].in
       PROVE  \E k \in 1 .. m : Covers(stack'[k], b, j)
  <2>1. j \in DOMAIN inst[b] /\ ~inst[b][j].in /\ ~(b = f.a /\ j = f.i)
    <3>1. j \in DOMAIN inst[b]
      BY <1>4, Zenon DEF NowAsked
    <3>2. ~(b = f.a /\ j = f.i)
      BY <1>4, <1>13, <3>1, Zenon DEF NowAsked
    <3> QED
      BY <1>4, <1>13, <3>1, <3>2, Zenon DEF NowAsked
  <2>2. PICK k \in 1 .. n : Covers(stack[k], b, j)
    BY <2>1, Zenon DEF PadsInv
  <2>3. CASE k \in 1 .. (n - 1)
    <3>1. k \in 1 .. m /\ stack'[k] = stack[k]
      BY <1>2, <1>6, <1>9, <2>3
    <3> QED
      BY <2>2, <3>1
  <2>4. CASE k = n
    <3>1. Covers(f, b, j)
      BY <1>2, <2>2, <2>4
    <3>2. f.kind = "config"
      BY <2>1, <3>1, Zenon DEF Covers
    <3>3. m = n /\ Covers(stack'[n], b, j)
      BY <1>6, <3>1, <3>2 DEF Covers
    <3> QED
      BY <1>2, <3>3
  <2> QED
    BY <1>2, <2>3, <2>4
<1>14. \A k \in 1 .. (m - 1) : stack'[k].todo[1] = "wait"
  <2> TAKE k \in 1 .. (m - 1)
  <2>1. k \in 1 .. (n - 1)
    BY <1>2, <1>9
  <2> QED
    BY <1>6, <2>1, Zenon DEF PadsInv
<1>15. \A b \in PadAddrs : \A j \in DOMAIN inst'[b] :
         inst'[b][j].in \/ \E k \in 1 .. m : Covers(stack'[k], b, j)
  BY <1>13, Zenon
<1> QED
  BY <1>6, <1>8, <1>11, <1>12, <1>14, <1>15 DEF PadsInv, Covers

\* An interface is as it was, for the call that is about it.
ItfSame(a, i) == /\ DOMAIN inst[a] \subseteq DOMAIN inst'[a]
                 /\ inst'[a][i].type = inst[a][i].type /\ inst'[a][i].in = inst[a][i].in

LEMMA CallKept ==
    ASSUME PadsInv, NEW k \in 1 .. Len(stack), stack'[k] = stack[k],
           ~stack[k].gone => ItfSame(stack[k].a, stack[k].i)
    PROVE  CallOK(stack[k])'
<1>1. CallOK(stack[k])
  BY DEF PadsInv
<1> DEFINE f == stack[k]
<1> HIDE DEF f
<1>2. ~f.gone => /\ f.i \in DOMAIN inst'[f.a] /\ inst'[f.a][f.i].type = inst[f.a][f.i].type
                 /\ inst'[f.a][f.i].in = inst[f.a][f.i].in
  BY <1>1, Zenon DEF CallOK, ItfSame, f
<1>3. stack'[k] = f
  BY DEF f
<1> QED
  BY <1>1, <1>2, <1>3 DEF CallOK, f

\* A call is made, or made anew in the place of the one that ran.
LEMMA Pushed ==
    ASSUME PadsInv, PadsItf', NEW n \in Nat, n <= Len(stack), NEW g,
           stack' \in Seq(PadFrames), Len(stack') = n + 1, stack'[n + 1] = g,
           \A k \in 1 .. n : /\ stack'[k] = stack[k] /\ stack[k].todo[1] = "wait"
                             /\ ~stack[k].gone => ItfSame(stack[k].a, stack[k].i)
                             /\ PairOK(stack[k], g),
           CallOK(g)',
           \A a \in PadAddrs : \A i \in DOMAIN inst'[a] :
                \/ inst'[a][i].in
                \/ Covers(g, a, i)
                \/ \E k \in 1 .. n : Covers(stack[k], a, i)
    PROVE  PadsInv'
<1>1. stack \in Seq(PadFrames) /\ Len(stack) \in Nat
  BY DEF PadsInv
<1>2. ASSUME NEW k \in 1 .. (n + 1) PROVE k \in 1 .. n \/ k = n + 1
  OBVIOUS
<1>3. ASSUME NEW k \in 1 .. (n + 1) PROVE CallOK(stack[k])'
  <2>1. CASE k \in 1 .. n
    <3>1. k \in 1 .. Len(stack)
      BY <1>1, <2>1
    <3>2. stack'[k] = stack[k] /\ (~stack[k].gone => ItfSame(stack[k].a, stack[k].i))
      BY <2>1
    <3> QED
      BY <3>1, <3>2, CallKept
  <2>2. CASE k = n + 1
    <3>1. stack'[k] = g
      BY <2>2
    <3> QED
      BY <3>1, Zenon DEF CallOK
  <2> QED
    BY <1>2, <2>1, <2>2
<1>4. ASSUME NEW k \in 1 .. (n + 1), NEW j \in 1 .. (k - 1) PROVE PairOK(stack[j], stack[k])'
  <2>1. j \in 1 .. n /\ stack'[j] = stack[j]
    OBVIOUS
  <2>2. CASE k \in 1 .. n
    <3>1. stack'[k] = stack[k] /\ k \in 1 .. Len(stack)
      BY <1>1, <2>2
    <3>2. PairOK(stack[j], stack[k])
      BY <3>1 DEF PadsInv
    <3> QED
      BY <2>1, <3>1, <3>2, Zenon DEF PairOK
  <2>3. CASE k = n + 1
    <3>1. stack'[k] = g /\ PairOK(stack[j], g)
      BY <2>1, <2>3
    <3> QED
      BY <2>1, <3>1, Zenon DEF PairOK
  <2> QED
    BY <1>2, <2>2, <2>3
<1>5. ASSUME NEW a \in PadAddrs, NEW i \in DOMAIN inst'[a], ~inst'[a][i].in
      PROVE  \E k \in 1 .. (n + 1) : Covers(stack'[k], a, i)
  <2>1. CASE Covers(g, a, i)
    <3>1. n + 1 \in 1 .. (n + 1)
      OBVIOUS
    <3> QED
      BY <2>1, <3>1, Zenon
  <2>2. ASSUME NEW k \in 1 .. n, Covers(stack[k], a, i)
        PROVE  \E j \in 1 .. (n + 1) : Covers(stack'[j], a, i)
    <3>1. k \in 1 .. (n + 1) /\ stack'[k] = stack[k]
      BY <1>1
    <3> QED
      BY <2>2, <3>1, Zenon
  <2> QED
    BY <1>5, <2>1, <2>2, Zenon
<1>6. \A k \in 1 .. n : stack'[k].todo[1] = "wait"
  BY Zenon
<1>7. \A a \in PadAddrs : \A i \in DOMAIN inst'[a] :
        inst'[a][i].in \/ \E k \in 1 .. (n + 1) : Covers(stack'[k], a, i)
  BY <1>5, Zenon
<1>8. n + 1 - 1 = n
  OBVIOUS
<1> QED
  BY <1>3, <1>4, <1>6, <1>7, <1>8 DEF PadsInv, Covers

LEMMA PadsComplete == ASSUME PadsInv, Pads!Complete PROVE PadsInv'
<1> DEFINE n == Len(stack)
           f == Pads!Top
           a == f.a
           i == f.i + 1
<1>1. stack # <<>> /\ Pads!Op = "complete" /\ usb' = usb
  BY DEF Pads!Complete, Pads!Running
<1>2. /\ f.todo \in Seq(PadOps) /\ ShapeOf(f.kind, f.todo) /\ f.todo[1] = "complete"
      /\ a \in PadAddrs /\ f \in PadFrames /\ f.i \in Nat /\ n \in Nat /\ n >= 1 /\ f = stack[n]
      /\ CallOK(f)
  BY <1>1, TopIs
<1>3. PadsItf /\ stack \in Seq(PadFrames)
  BY DEF PadsInv
<1>4. f.kind = "config" /\ ~AsksOf(f.kind, f.todo)
  <2>1. f.kind \in {"config", "announce"}
    BY <1>2 DEF PadFrames
  <2> HIDE DEF f
  <2> QED
    BY <1>2, <2>1, CompleteShape
<1>5. f.i >= 1 /\ (~f.gone => f.i \in DOMAIN inst[a] /\ inst[a][f.i].in)
  BY <1>2, <1>4 DEF CallOK
<1>6. \A k \in 1 .. (n - 1) : stack[k].todo[1] = "wait"
  BY DEF PadsInv
<1>7. PICK top \in Nat : DOMAIN inst[a] = 1 .. top
  BY <1>2, <1>3, Zenon DEF PadsItf
<1>8. \A j \in DOMAIN inst[a] : inst[a][j].type = "one" => top = 1
  <2> TAKE j \in DOMAIN inst[a]
  <2> HAVE inst[a][j].type = "one"
  <2>1. ItfOK(inst[a][j], inst[a])
    BY <1>2, <1>3, Zenon DEF PadsItf
  <2>2. 1 .. top = {1}
    BY <1>7, <2>1, Zenon DEF ItfOK
  <2> QED
    BY <2>2
<1>9. \A k \in 1 .. (n - 1) : ~stack[k].gone =>
         stack[k].kind = "announce" /\ (f.gone => stack[k].a # a)
  BY <1>1, <1>4, NoneBelow
<1>10. CASE Pads!IsOpen(a, i)
  <2> DEFINE itf == [inst[a][i] EXCEPT !.connected = inst[a][i].type # "wireless"]
  <2>1. i \in DOMAIN inst[a] /\ top # 1 /\ i \in Nat
    <3>1. i \in 1 .. top
      BY <1>7, <1>10 DEF Pads!IsOpen
    <3> QED
      BY <1>2, <1>5, <1>7, <3>1
  <2>2. {"type", "connected", "in", "out"} \subseteq DOMAIN inst[a][i] /\ inst[a][i].type # "one"
    <3> HIDE DEF a, i
    <3>1. ItfOK(inst[a][i], inst[a])
      BY <1>2, <1>3, <2>1, Zenon DEF PadsItf
    <3> QED
      BY <1>8, <2>1, <3>1, Zenon DEF ItfOK
  <2>3. /\ itf.type = inst[a][i].type /\ itf.in = inst[a][i].in
        /\ {"type", "connected", "in", "out"} \subseteq DOMAIN itf
    BY <2>2
  <2>4. inst' = [inst EXCEPT ![a][i] = itf]
    BY <1>10 DEF Pads!Complete, Pads!SetConnected
  <2> HIDE DEF itf
  <2>5. SameItfs
    <3> HIDE DEF a, i
    <3> QED
      BY <1>2, <1>3, <2>1, <2>3, <2>4, OneItf
  <2>6. PadsItf'
    BY <1>1, <1>3, <2>5, PadsItfKept
  <2> DEFINE todo == Pads!Setup(usb[a], inst[a][i].type)
  <2>7. todo \in Seq(PadOps) /\ ShapeOf("config", todo)
    BY SetupShape
  <2>8. PICK g : g = Pads!Frame("config", a, i, todo)
    OBVIOUS
  <2>9. stack' = Append(Pads!Front(stack), g)
    BY <1>10, <2>8 DEF Pads!Complete, Pads!ConfigFrame
  <2> HIDE DEF todo
  <2>10. g \in PadFrames /\ g.kind = "config" /\ g.a = a /\ g.i = i /\ g.todo = todo /\ g.gone = FALSE
    <3>1. "config" \in {"config", "announce"} /\ a \in PadAddrs
      BY <1>2
    <3> HIDE DEF a, i, f
    <3> QED
      BY <2>1, <2>7, <2>8, <3>1 DEF Pads!Frame, PadFrames
  <2>11. /\ stack' \in Seq(PadFrames) /\ Len(stack') = n /\ stack'[n] = g
         /\ \A k \in 1 .. (n - 1) : stack'[k] = stack[k]
    BY <1>2, <1>3, <2>9, <2>10, TopReplaced
  <2> HIDE DEF f
  <2>12. CallOK(g)'
    <3>1. inst'[a][i].type # "one" /\ i \in DOMAIN inst'[a]
      <4> HIDE DEF a, i
      <4> QED
        BY <1>2, <2>1, <2>2, <2>5, Zenon DEF SameItfs
    <3>2. AsksOf(g.kind, g.todo)
      BY <2>10, SetupShape DEF todo
    <3>3. g.i >= 1 /\ ShapeOf(g.kind, g.todo) /\ g.kind # "announce"
      BY <1>2, <2>7, <2>10
    <3> HIDE DEF a, i
    <3> QED
      BY <2>10, <3>1, <3>2, <3>3 DEF CallOK
  <2>13. ASSUME NEW k \in 1 .. (n - 1)
         PROVE  /\ stack'[k] = stack[k] /\ stack[k].todo[1] = "wait"
                /\ ~stack[k].gone => ItfSame(stack[k].a, stack[k].i)
                /\ PairOK(stack[k], g)
    <3>1. k \in 1 .. n
      BY <1>2
    <3>2. CallOK(stack[k]) /\ stack[k].a \in PadAddrs
      BY <1>3, <3>1, EachFrame DEF PadsInv
    <3>3. ~stack[k].gone => ItfSame(stack[k].a, stack[k].i)
      BY <2>5, <3>2, Zenon DEF CallOK, SameItfs, ItfSame
    <3>4. ~stack[k].gone => stack[k].kind = "announce" /\ <<stack[k].a, stack[k].i>> # <<a, i>>
      <4> SUFFICES ASSUME ~stack[k].gone PROVE stack[k].kind = "announce" /\ <<stack[k].a, stack[k].i>> # <<a, i>>
        OBVIOUS
      <4>1. stack[k].kind = "announce"
        BY <1>9
      <4>2. inst[stack[k].a][stack[k].i].type = "one" /\ stack[k].i \in DOMAIN inst[stack[k].a]
        BY <3>2, <4>1 DEF CallOK
      <4>3. inst[a][i].type # "one"
        BY <2>2
      <4> HIDE DEF a, i
      <4> QED
        BY <4>1, <4>2, <4>3, Zenon
    <3>5. PairOK(stack[k], g)
      BY <2>10, <3>4, Zenon DEF PairOK
    <3> QED
      BY <1>6, <2>11, <3>3, <3>5
  <2>14. ASSUME NEW b \in PadAddrs, NEW j \in DOMAIN inst'[b]
         PROVE  \/ inst'[b][j].in
                \/ Covers(g, b, j)
                \/ \E k \in 1 .. (n - 1) : Covers(stack[k], b, j)
    <3> SUFFICES ASSUME ~inst'[b][j].in, ~Covers(g, b, j)
                 PROVE  \E k \in 1 .. (n - 1) : Covers(stack[k], b, j)
      OBVIOUS
    <3>1. j \in DOMAIN inst[b] /\ ~inst[b][j].in
      BY <2>5, Zenon DEF SameItfs
    <3>2. PICK k \in 1 .. n : Covers(stack[k], b, j)
      BY <3>1, Zenon DEF PadsInv
    <3>3. k # n
      <4> SUFFICES ASSUME Covers(f, b, j) PROVE FALSE
        BY <1>2, <3>2
      <4>1. ~f.gone /\ b = a /\ j # f.i /\ f.i < j
        BY <1>5, <3>1, Zenon DEF Covers
      <4>2. j \in Nat
        BY <1>7, <3>1, <4>1
      <4>3. ~(j = i \/ i < j)
        BY <2>10, <4>1, Zenon DEF Covers
      <4> QED
        BY <1>2, <4>1, <4>2, <4>3
    <3>4. k \in 1 .. (n - 1)
      BY <1>2, <3>3
    <3> QED
      BY <3>2, <3>4, Zenon
  <2> DEFINE m == n - 1
  <2>15. m \in Nat /\ m <= Len(stack) /\ m + 1 = n
    BY <1>2
  <2>16. /\ Len(stack') = m + 1 /\ stack'[m + 1] = g
         /\ \A k \in 1 .. m : /\ stack'[k] = stack[k] /\ stack[k].todo[1] = "wait"
                              /\ ~stack[k].gone => ItfSame(stack[k].a, stack[k].i)
                              /\ PairOK(stack[k], g)
         /\ \A b \in PadAddrs : \A j \in DOMAIN inst'[b] :
                \/ inst'[b][j].in
                \/ Covers(g, b, j)
                \/ \E k \in 1 .. m : Covers(stack[k], b, j)
    BY <2>11, <2>13, <2>14, <2>15
  <2> HIDE DEF m
  <2> QED
    BY <2>6, <2>11, <2>12, <2>15, <2>16, Pushed
<1>11. CASE ~Pads!IsOpen(a, i)
  <2>1. inst' = inst /\ stack' = Pads!Front(stack)
    BY <1>11 DEF Pads!Complete
  <2>2. /\ stack' \in Seq(PadFrames) /\ Len(stack') = n - 1
        /\ \A k \in 1 .. (n - 1) : stack'[k] = stack[k]
    BY <1>2, <1>3, <2>1, FrontIs
  <2>3. PadsItf'
    BY <1>1, <1>3, <2>1 DEF PadsItf, ItfOK
  <2>4. ASSUME NEW k \in 1 .. (n - 1) PROVE CallOK(stack[k])'
    <3>1. k \in 1 .. n /\ stack'[k] = stack[k]
      BY <1>2, <2>2
    <3>2. ItfSame(stack[k].a, stack[k].i)
      BY <2>1 DEF ItfSame
    <3> QED
      BY <3>1, <3>2, CallKept
  <2>5. ASSUME NEW k \in 1 .. (n - 1), NEW j \in 1 .. (k - 1) PROVE PairOK(stack[j], stack[k])'
    <3>1. j \in 1 .. (n - 1) /\ k \in 1 .. n
      BY <1>2
    <3>2. PairOK(stack[j], stack[k]) /\ stack'[j] = stack[j] /\ stack'[k] = stack[k]
      BY <2>2, <3>1 DEF PadsInv
    <3> QED
      BY <3>2, Zenon DEF PairOK
  <2> HIDE DEF f
  <2>6. ASSUME NEW b \in PadAddrs, NEW j \in DOMAIN inst'[b], ~inst'[b][j].in
        PROVE  \E k \in 1 .. (n - 1) : Covers(stack'[k], b, j)
    <3>1. j \in DOMAIN inst[b] /\ ~inst[b][j].in
      BY <2>1, <2>6
    <3>2. PICK k \in 1 .. n : Covers(stack[k], b, j)
      BY <3>1, Zenon DEF PadsInv
    <3>3. k # n
      <4> SUFFICES ASSUME Covers(f, b, j) PROVE FALSE
        BY <1>2, <3>2
      <4>1. ~f.gone /\ b = a /\ j # f.i /\ f.i < j
        BY <1>5, <3>1, Zenon DEF Covers
      <4>2. j \in 1 .. top /\ i \notin 1 .. top
        BY <1>7, <1>11, <3>1, <4>1, Zenon DEF Pads!IsOpen
      <4> QED
        BY <1>2, <1>5, <4>1, <4>2
    <3>4. k \in 1 .. (n - 1)
      BY <1>2, <3>3
    <3>5. stack'[k] = stack[k]
      BY <2>2, <3>4
    <3> QED
      BY <3>2, <3>4, <3>5, Zenon
  <2>7. \A k \in 1 .. (Len(stack') - 1) : stack'[k].todo[1] = "wait"
    BY <1>2, <1>6, <2>2
  <2>8. \A b \in PadAddrs : \A j \in DOMAIN inst'[b] :
          inst'[b][j].in \/ \E k \in 1 .. (n - 1) : Covers(stack'[k], b, j)
    BY <2>6, Zenon
  <2> QED
    BY <2>2, <2>3, <2>4, <2>5, <2>7, <2>8 DEF PadsInv, Covers
<1> QED
  BY <1>10, <1>11

\* xinputh_open: one interface or more, of which none waits for a report yet; an
\* Xbox One pad has one.
LEMMA OpenedIs ==
    ASSUME NEW kind
    PROVE  LET t == Pads!SetConnected(Pads!Opened(kind), 1)
           IN  \E n \in Nat :
                /\ n >= 1 /\ DOMAIN t = 1 .. n
                /\ \A i \in 1 .. n : /\ {"type", "connected", "in", "out"} \subseteq DOMAIN t[i]
                                     /\ t[i].in = FALSE /\ (t[i].type = "one" => n = 1)
<1> DEFINE s == Pads!Interfaces(kind)
           n == IF Len(s) < MaxInsts THEN Len(s) ELSE MaxInsts
           o == Pads!Opened(kind)
           t == Pads!SetConnected(o, 1)
<1>1. \/ Len(s) = 4 /\ \A i \in 1 .. 4 : s[i] = "wireless"
      \/ Len(s) = 1
  BY DEF Pads!Interfaces
<1>2. o = [i \in 1 .. n |-> [type |-> s[i], connected |-> FALSE, pad |-> Pads!NoPad,
                             in |-> FALSE, out |-> FALSE]]
  BY DEF Pads!Opened
<1> HIDE DEF s
<1>3. n \in Nat /\ n >= 1 /\ n <= Len(s)
  BY <1>1, PadsAssumption
<1>4. \A i \in 1 .. n : s[i] = "one" => n = 1
  <2>1. CASE Len(s) = 1
    BY <1>3, <2>1
  <2>2. CASE Len(s) = 4 /\ \A i \in 1 .. 4 : s[i] = "wireless"
    <3>1. \A i \in 1 .. n : i \in 1 .. 4
      BY <1>3, <2>2
    <3> QED
      BY <2>2, <3>1
  <2> QED
    BY <1>1, <2>1, <2>2
<1> HIDE DEF n, o
<1>5. /\ DOMAIN o = 1 .. n
      /\ \A i \in 1 .. n : /\ {"type", "connected", "in", "out"} \subseteq DOMAIN o[i]
                           /\ o[i].in = FALSE /\ o[i].type = s[i]
  BY <1>2
<1>6. t = [o EXCEPT ![1].connected = o[1].type # "wireless"]
  BY DEF Pads!SetConnected
<1>7. /\ DOMAIN t = 1 .. n
      /\ \A i \in 1 .. n : /\ {"type", "connected", "in", "out"} \subseteq DOMAIN t[i]
                           /\ t[i].in = FALSE /\ t[i].type = s[i]
  <2> HIDE DEF t
  <2>1. 1 \in 1 .. n
    BY <1>3
  <2>2. DOMAIN t = 1 .. n /\ \A i \in 1 .. n : i # 1 => t[i] = o[i]
    BY <1>5, <1>6, <2>1
  <2>3. t[1] = [o[1] EXCEPT !.connected = o[1].type # "wireless"]
    BY <1>5, <1>6, <2>1
  <2>4. {"type", "connected", "in", "out"} \subseteq DOMAIN t[1] /\ t[1].in = FALSE /\ t[1].type = s[1]
    BY <1>5, <2>1, <2>3
  <2> QED
    BY <1>5, <2>2, <2>4, Zenon
<1> HIDE DEF t
<1>8. \A i \in 1 .. n : t[i].type = "one" => n = 1
  BY <1>4, <1>7
<1> QED
  BY <1>3, <1>7, <1>8, Zenon DEF t, o

LEMMA InTaskWaits ==
    ASSUME PadsInv, Pads!InTask
    PROVE  \A k \in 1 .. Len(stack) : stack[k].todo[1] = "wait"
<1> TAKE k \in 1 .. Len(stack)
<1>1. stack \in Seq(PadFrames) /\ Len(stack) \in Nat /\ stack # <<>>
  BY EmptyLen DEF PadsInv
<1>2. Pads!Op = "wait" /\ Pads!Op = stack[Len(stack)].todo[1]
  BY <1>1, TopIs DEF Pads!InTask
<1>3. CASE k = Len(stack)
  BY <1>2, <1>3
<1>4. CASE k # Len(stack)
  <2>1. k \in 1 .. (Len(stack) - 1)
    BY <1>1, <1>4
  <2> QED
    BY <2>1 DEF PadsInv
<1> QED
  BY <1>3, <1>4

LEMMA PadsEnumerate ==
    ASSUME PadsInv, NEW a \in PadAddrs, NEW kind \in PadKinds[a], Pads!Enumerate(a, kind)
    PROVE  PadsInv'
<1> DEFINE n == Len(stack)
<1>1. /\ stack \in Seq(PadFrames) /\ n \in Nat /\ PadsItf
      /\ \A k \in 1 .. n : CallOK(stack[k])
      /\ DOMAIN stack = 1 .. n
  BY DEF PadsInv
<1>2. \A k \in 1 .. n : stack[k].todo[1] = "wait"
  BY InTaskWaits DEF Pads!Enumerate
<1>3. /\ usb[a] = "none" /\ usb' = [usb EXCEPT ![a] = kind]
      /\ \A k \in 1 .. n : stack[k].kind = "config" => stack[k].gone
  BY <1>1 DEF Pads!Enumerate
<1>4. kind # "none"
  BY PadsAssumption
<1> DEFINE t == Pads!SetConnected(Pads!Opened(kind), 1)
<1>5. inst' = [inst EXCEPT ![a] = t]
  BY DEF Pads!Enumerate
<1>6. PICK m \in Nat :
        /\ m >= 1 /\ DOMAIN t = 1 .. m
        /\ \A i \in 1 .. m : /\ {"type", "connected", "in", "out"} \subseteq DOMAIN t[i]
                             /\ t[i].in = FALSE /\ (t[i].type = "one" => m = 1)
  BY OpenedIs
<1> HIDE DEF t
<1>7. /\ DOMAIN inst' = PadAddrs /\ inst'[a] = t
      /\ \A b \in PadAddrs : b # a => inst'[b] = inst[b]
      /\ DOMAIN usb' = PadAddrs /\ usb'[a] = kind
      /\ \A b \in PadAddrs : b # a => usb'[b] = usb[b]
  BY <1>1, <1>3, <1>5 DEF PadsItf
<1>8. PadsItf'
  <2>1. ASSUME NEW i \in DOMAIN t PROVE ItfOK(t[i], t)
    <3>1. {"type", "connected", "in", "out"} \subseteq DOMAIN t[i] /\ t[i].in = FALSE
      BY <1>6, <2>1
    <3>2. t[i].type = "one" => DOMAIN t = {1}
      BY <1>6, <2>1
    <3>3. t[i].in \in BOOLEAN
      BY <3>1
    <3> QED
      BY <3>1, <3>2, <3>3, Zenon DEF ItfOK
  <2>2. ASSUME NEW b \in PadAddrs
        PROVE  /\ \E k \in Nat : DOMAIN inst'[b] = 1 .. k
               /\ (usb'[b] = "none") <=> (DOMAIN inst'[b] = {})
               /\ \A i \in DOMAIN inst'[b] : ItfOK(inst'[b][i], inst'[b])
    <3>1. CASE b = a
      <4>1. 1 \in DOMAIN t
        BY <1>6
      <4>2. inst'[b] = t /\ usb'[b] = kind
        BY <1>7, <3>1
      <4> QED
        BY <1>4, <1>6, <2>1, <4>1, <4>2, Zenon
    <3>2. CASE b # a
      <4>1. inst'[b] = inst[b] /\ usb'[b] = usb[b]
        BY <1>7, <3>2
      <4> QED
        BY <1>1, <4>1, Zenon DEF PadsItf
    <3> QED
      BY <3>1, <3>2
  <2> QED
    BY <1>7, <2>2, Zenon DEF PadsItf, ItfOK
<1> DEFINE todo == Pads!Setup(kind, Pads!Opened(kind)[1].type)
<1>9. todo \in Seq(PadOps) /\ ShapeOf("config", todo) /\ AsksOf("config", todo)
  BY SetupShape
<1>10. PICK g : g = Pads!Frame("config", a, 1, todo)
  OBVIOUS
<1>11. stack' = Append(stack, g)
  BY <1>10 DEF Pads!Enumerate, Pads!ConfigFrame
<1> HIDE DEF todo
<1>12. g \in PadFrames /\ g.kind = "config" /\ g.a = a /\ g.i = 1 /\ g.todo = todo /\ g.gone = FALSE
  BY <1>9, <1>10 DEF Pads!Frame, PadFrames
<1>13. /\ stack' \in Seq(PadFrames) /\ Len(stack') = n + 1 /\ stack'[n + 1] = g
       /\ \A k \in 1 .. n : stack'[k] = stack[k]
  BY <1>1, <1>11, <1>12
<1>14. CallOK(g)'
  <2>1. 1 \in DOMAIN t /\ t[1].in = FALSE
    BY <1>6
  <2>2. ShapeOf(g.kind, g.todo) /\ AsksOf(g.kind, g.todo) /\ g.kind # "announce" /\ g.i >= 1
    BY <1>9, <1>12
  <2>3. inst'[g.a] = t /\ g.i = 1
    BY <1>7, <1>12
  <2> QED
    BY <2>1, <2>2, <2>3 DEF CallOK
<1>15. ASSUME NEW k \in 1 .. n
       PROVE  /\ stack'[k] = stack[k] /\ stack[k].todo[1] = "wait"
              /\ ~stack[k].gone => ItfSame(stack[k].a, stack[k].i)
              /\ PairOK(stack[k], g)
  <2>1. CallOK(stack[k]) /\ stack[k].a \in PadAddrs
    BY <1>1, EachFrame
  <2>2. DOMAIN inst[a] = {}
    BY <1>1, <1>3, Zenon DEF PadsItf
  <2>3. ~stack[k].gone => stack[k].a # a
    BY <2>1, <2>2 DEF CallOK
  <2>4. ~stack[k].gone => ItfSame(stack[k].a, stack[k].i)
    BY <1>7, <2>1, <2>3 DEF ItfSame
  <2>5. PairOK(stack[k], g)
    BY <1>3, <1>12, <2>3 DEF PairOK
  <2> QED
    BY <1>2, <1>13, <2>4, <2>5
<1>16. ASSUME NEW b \in PadAddrs, NEW i \in DOMAIN inst'[b]
       PROVE  \/ inst'[b][i].in
              \/ Covers(g, b, i)
              \/ \E k \in 1 .. n : Covers(stack[k], b, i)
  <2>1. CASE b = a
    <3>1. i \in 1 .. m
      BY <1>6, <1>7, <2>1
    <3>2. i = 1 \/ 1 < i
      BY <3>1
    <3> QED
      BY <1>12, <2>1, <3>2 DEF Covers
  <2>2. CASE b # a
    <3>1. inst'[b] = inst[b]
      BY <1>7, <2>2
    <3> QED
      BY <3>1, Zenon DEF PadsInv
  <2> QED
    BY <2>1, <2>2
<1>17. n <= Len(stack)
  BY <1>1
<1> HIDE DEF n
<1> QED
  BY <1>1, <1>8, <1>13, <1>14, <1>15, <1>16, <1>17, Pushed DEF n

LEMMA PadsAnnounced ==
    ASSUME PadsInv, NEW a \in PadAddrs, NEW i \in 1 .. MaxInsts, Pads!AnnounceReceived(a, i)
    PROVE  PadsInv'
<1> DEFINE n == Len(stack)
           itf == [inst[a][i] EXCEPT !.in = FALSE]
<1>1. /\ stack \in Seq(PadFrames) /\ n \in Nat /\ PadsItf
      /\ \A k \in 1 .. n : CallOK(stack[k])
  BY DEF PadsInv
<1>2. \A k \in 1 .. n : stack[k].todo[1] = "wait"
  BY InTaskWaits DEF Pads!AnnounceReceived, Pads!Arrives
<1>3. /\ i \in DOMAIN inst[a] /\ inst[a][i].in /\ inst[a][i].type = "one" /\ usb' = usb
      /\ inst' = [inst EXCEPT ![a][i] = itf]
  BY DEF Pads!AnnounceReceived, Pads!Arrives, Pads!IsOpen
<1>4. ItfOK(inst[a][i], inst[a])
  BY <1>1, <1>3, Zenon DEF PadsItf
<1>5. /\ itf.type = inst[a][i].type /\ itf.in = FALSE
      /\ {"type", "connected", "in", "out"} \subseteq DOMAIN itf
  BY <1>4 DEF ItfOK
<1> HIDE DEF itf
<1>6. /\ DOMAIN inst' = PadAddrs /\ inst'[a] = [inst[a] EXCEPT ![i] = itf]
      /\ \A b \in PadAddrs : b # a => inst'[b] = inst[b]
  BY <1>1, <1>3 DEF PadsItf
<1>7. /\ DOMAIN inst'[a] = DOMAIN inst[a] /\ inst'[a][i] = itf
      /\ \A j \in DOMAIN inst[a] : j # i => inst'[a][j] = inst[a][j]
  BY <1>3, <1>6
<1>8. \A b \in PadAddrs : DOMAIN inst'[b] = DOMAIN inst[b]
  BY <1>6, <1>7, Zenon
<1>9. PadsItf'
  <2>1. ASSUME NEW b \in PadAddrs, NEW j \in DOMAIN inst[b] PROVE ItfOK(inst'[b][j], inst'[b])
    <3>1. ItfOK(inst[b][j], inst[b])
      BY <1>1, <2>1, Zenon DEF PadsItf
    <3>2. CASE b = a /\ j = i
      <4>1. inst'[b][j] = itf /\ DOMAIN inst'[b] = DOMAIN inst[b] /\ inst[b][j] = inst[a][i]
        BY <1>7, <3>2
      <4>2. itf.in \in BOOLEAN
        BY <1>5
      <4> QED
        BY <1>5, <3>1, <4>1, <4>2, Zenon DEF ItfOK
    <3>3. CASE ~(b = a /\ j = i)
      <4>1. inst'[b][j] = inst[b][j]
        BY <1>6, <1>7, <2>1, <3>3, Zenon
      <4> QED
        BY <1>8, <3>1, <4>1, Zenon DEF ItfOK
    <3> QED
      BY <3>2, <3>3, Zenon
  <2>2. ASSUME NEW b \in PadAddrs
        PROVE  /\ \E k \in Nat : DOMAIN inst'[b] = 1 .. k
               /\ (usb'[b] = "none") <=> (DOMAIN inst'[b] = {})
               /\ \A j \in DOMAIN inst'[b] : ItfOK(inst'[b][j], inst'[b])
    <3>1. DOMAIN inst'[b] = DOMAIN inst[b] /\ usb'[b] = usb[b]
      BY <1>3, <1>8
    <3>2. /\ \E k \in Nat : DOMAIN inst[b] = 1 .. k
          /\ (usb[b] = "none") <=> (DOMAIN inst[b] = {})
      BY <1>1, Zenon DEF PadsItf
    <3>3. \A j \in DOMAIN inst[b] : ItfOK(inst'[b][j], inst'[b])
      BY <2>1
    <3> QED
      BY <3>1, <3>2, <3>3, Zenon
  <2>3. DOMAIN usb' = PadAddrs
    BY <1>1, <1>3 DEF PadsItf
  <2> QED
    BY <1>6, <2>2, <2>3, Zenon DEF PadsItf, ItfOK
<1> DEFINE todo == Pads!OneInit(usb[a]) \o <<"receive">>
<1>10. todo \in Seq(PadOps) /\ ShapeOf("announce", todo) /\ AsksOf("announce", todo)
  BY AnnounceShape
<1>11. PICK g : g = Pads!Frame("announce", a, i, todo)
  OBVIOUS
<1>12. stack' = Append(stack, g)
  BY <1>11 DEF Pads!AnnounceReceived
<1>13. i \in Nat /\ i >= 1
  BY PadsAssumption
<1> HIDE DEF todo
<1>14. g \in PadFrames /\ g.kind = "announce" /\ g.a = a /\ g.i = i /\ g.todo = todo /\ g.gone = FALSE
  BY <1>10, <1>11, <1>13 DEF Pads!Frame, PadFrames
<1>15. /\ stack' \in Seq(PadFrames) /\ Len(stack') = n + 1 /\ stack'[n + 1] = g
       /\ \A k \in 1 .. n : stack'[k] = stack[k]
  BY <1>1, <1>12, <1>14
<1>16. CallOK(g)'
  <2>1. /\ g.i \in DOMAIN inst'[g.a] /\ inst'[g.a][g.i].type = "one"
        /\ inst'[g.a][g.i].in = FALSE
    BY <1>3, <1>5, <1>7, <1>14
  <2>2. ShapeOf(g.kind, g.todo) /\ AsksOf(g.kind, g.todo) /\ g.i >= 1
    BY <1>10, <1>13, <1>14
  <2> QED
    BY <2>1, <2>2 DEF CallOK
<1>17. ASSUME NEW k \in 1 .. n
       PROVE  /\ stack'[k] = stack[k] /\ stack[k].todo[1] = "wait"
              /\ ~stack[k].gone => ItfSame(stack[k].a, stack[k].i)
              /\ PairOK(stack[k], g)
  <2> DEFINE f == stack[k]
  <2>1. /\ CallOK(f) /\ f.a \in PadAddrs /\ f.kind \in {"config", "announce"}
        /\ f.todo \in Seq(PadOps) /\ f.todo[1] = "wait"
    BY <1>1, <1>2, EachFrame
  <2> HIDE DEF f
  <2>2. AsksOf(f.kind, f.todo)
    <3>1. ShapeOf(f.kind, f.todo)
      BY <2>1 DEF CallOK
    <3> QED
      BY <2>1, <3>1, TailShape
  <2>3. ~f.gone => ~(f.a = a /\ f.i = i)
    BY <1>3, <2>1, <2>2 DEF CallOK
  <2>4. ~f.gone => ItfSame(f.a, f.i)
    <3> SUFFICES ASSUME ~f.gone PROVE ItfSame(f.a, f.i)
      OBVIOUS
    <3>1. f.i \in DOMAIN inst[f.a]
      BY <2>1 DEF CallOK
    <3>2. inst'[f.a][f.i] = inst[f.a][f.i]
      BY <1>6, <1>7, <2>1, <2>3, <3>1, Zenon
    <3>3. DOMAIN inst'[f.a] = DOMAIN inst[f.a]
      BY <1>8, <2>1
    <3> QED
      BY <3>2, <3>3 DEF ItfSame
  <2>5. ~f.gone => <<f.a, f.i>> # <<a, i>>
    BY <2>3
  <2>6. PairOK(f, g)
    BY <1>14, <2>5, Zenon DEF PairOK
  <2> QED
    BY <1>15, <2>1, <2>4, <2>6 DEF f
<1>18. ASSUME NEW b \in PadAddrs, NEW j \in DOMAIN inst'[b]
       PROVE  \/ inst'[b][j].in
              \/ Covers(g, b, j)
              \/ \E k \in 1 .. n : Covers(stack[k], b, j)
  <2>1. CASE b = a /\ j = i
    BY <1>14, <2>1 DEF Covers
  <2>2. CASE ~(b = a /\ j = i)
    <3>1. j \in DOMAIN inst[b] /\ inst'[b][j] = inst[b][j]
      BY <1>6, <1>7, <1>8, <2>2, Zenon
    <3> QED
      BY <3>1, Zenon DEF PadsInv
  <2> QED
    BY <2>1, <2>2
<1>19. n <= Len(stack)
  BY <1>1
<1> HIDE DEF n
<1> QED
  BY <1>1, <1>9, <1>15, <1>16, <1>17, <1>18, <1>19, Pushed DEF n

LEMMA PadsClose == ASSUME PadsInv, NEW a \in PadAddrs, Pads!Close(a) PROVE PadsInv'
<1> DEFINE n == Len(stack)
<1>1. /\ stack \in Seq(PadFrames) /\ n \in Nat /\ PadsItf /\ DOMAIN stack = 1 .. n
      /\ \A k \in 1 .. n : CallOK(stack[k])
  BY DEF PadsInv
<1>2. \A k \in 1 .. n : stack[k].todo[1] = "wait"
  BY InTaskWaits DEF Pads!Close
<1>3. /\ usb' = [usb EXCEPT ![a] = "none"] /\ inst' = [inst EXCEPT ![a] = <<>>]
      /\ stack' = [k \in 1 .. n |->
                    IF stack[k].a = a THEN [stack[k] EXCEPT !.gone = TRUE] ELSE stack[k]]
  BY <1>1 DEF Pads!Close
<1>4. /\ DOMAIN inst' = PadAddrs /\ DOMAIN inst'[a] = {} /\ DOMAIN inst'[a] = 1 .. 0
      /\ \A b \in PadAddrs : b # a => inst'[b] = inst[b]
      /\ DOMAIN usb' = PadAddrs /\ usb'[a] = "none"
      /\ \A b \in PadAddrs : b # a => usb'[b] = usb[b]
  BY <1>1, <1>3 DEF PadsItf
<1>5. PadsItf'
  <2>1. ASSUME NEW b \in PadAddrs
        PROVE  /\ \E k \in Nat : DOMAIN inst'[b] = 1 .. k
               /\ (usb'[b] = "none") <=> (DOMAIN inst'[b] = {})
               /\ \A i \in DOMAIN inst'[b] : ItfOK(inst'[b][i], inst'[b])
    <3>1. CASE b = a
      <4>1. 0 \in Nat
        OBVIOUS
      <4> QED
        BY <1>4, <3>1, <4>1, Zenon
    <3>2. CASE b # a
      <4>1. inst'[b] = inst[b] /\ usb'[b] = usb[b]
        BY <1>4, <3>2
      <4> QED
        BY <1>1, <4>1, Zenon DEF PadsItf
    <3> QED
      BY <3>1, <3>2
  <2> QED
    BY <1>4, <2>1, Zenon DEF PadsItf, ItfOK
<1>6. ASSUME NEW k \in 1 .. n
      PROVE  /\ stack'[k] \in PadFrames
             /\ stack'[k].kind = stack[k].kind /\ stack'[k].a = stack[k].a /\ stack'[k].i = stack[k].i
             /\ stack'[k].todo = stack[k].todo
             /\ stack'[k].gone <=> stack[k].gone \/ stack[k].a = a
  <2>1. stack[k] \in PadFrames
    BY <1>1, EachFrame
  <2>2. CASE stack[k].a = a
    <3>1. stack'[k] = [stack[k] EXCEPT !.gone = TRUE]
      BY <1>3, <2>2
    <3> QED
      BY <2>1, <2>2, <3>1 DEF PadFrames
  <2>3. CASE stack[k].a # a
    <3>1. stack'[k] = stack[k]
      BY <1>3, <2>3
    <3> QED
      BY <2>1, <2>3, <3>1, Zenon
  <2> QED
    BY <2>2, <2>3
<1>7. stack' \in Seq(PadFrames) /\ Len(stack') = n
  BY <1>1, <1>3, <1>6
<1>8. ASSUME NEW k \in 1 .. n PROVE CallOK(stack[k])'
  <2>1. CallOK(stack[k]) /\ stack[k].a \in PadAddrs
    BY <1>1, EachFrame
  <2>2. stack[k].a # a => inst'[stack[k].a] = inst[stack[k].a]
    BY <1>4, <2>1
  <2> QED
    BY <1>6, <2>1, <2>2 DEF CallOK
<1>9. ASSUME NEW k \in 1 .. n, NEW j \in 1 .. (k - 1) PROVE PairOK(stack[j], stack[k])'
  <2>1. j \in 1 .. n
    BY <1>1
  <2>2. PairOK(stack[j], stack[k])
    BY DEF PadsInv
  <2>3. /\ stack'[j].kind = stack[j].kind /\ stack'[j].a = stack[j].a /\ stack'[j].i = stack[j].i
        /\ stack'[j].gone <=> stack[j].gone \/ stack[j].a = a
        /\ stack'[k].kind = stack[k].kind /\ stack'[k].a = stack[k].a /\ stack'[k].i = stack[k].i
        /\ stack'[k].gone <=> stack[k].gone \/ stack[k].a = a
    BY <1>6, <2>1
  <2> QED
    BY <2>2, <2>3 DEF PairOK
<1>10. ASSUME NEW b \in PadAddrs, NEW i \in DOMAIN inst'[b], ~inst'[b][i].in
       PROVE  \E k \in 1 .. n : Covers(stack'[k], b, i)
  <2>1. b # a
    BY <1>4
  <2>2. i \in DOMAIN inst[b] /\ ~inst[b][i].in
    BY <1>4, <1>10, <2>1
  <2>3. PICK k \in 1 .. n : Covers(stack[k], b, i)
    BY <2>2, Zenon DEF PadsInv
  <2>4. Covers(stack'[k], b, i)
    BY <1>6, <2>1, <2>3 DEF Covers
  <2> QED
    BY <2>4
<1>11. \A k \in 1 .. n : stack'[k].todo[1] = "wait"
  BY <1>2, <1>6
<1>12. \A b \in PadAddrs : \A i \in DOMAIN inst'[b] :
          inst'[b][i].in \/ \E k \in 1 .. n : Covers(stack'[k], b, i)
  BY <1>10, Zenon
<1>13. \A k \in 1 .. (n - 1) : stack'[k].todo[1] = "wait"
  BY <1>1, <1>11
<1> QED
  BY <1>5, <1>7, <1>8, <1>9, <1>12, <1>13 DEF PadsInv, Covers

LEMMA PadsInductive == SumSpec => []PadsInv
<1>1. PadsInv /\ [SumNext]_sumVars => PadsInv'
  <2> SUFFICES ASSUME PadsInv, [SumNext]_sumVars PROVE PadsInv'
    OBVIOUS
  <2>1. CASE UNCHANGED padVars
    <3>1. usb' = usb /\ inst' = inst /\ stack' = stack
      BY <2>1 DEF padVars
    <3>2. SameItfs
      BY <3>1, SameWhenStill DEF PadsInv
    <3> QED
      BY <3>1, <3>2, StackKept
  <2>2. CASE Pads!Step
    BY <2>2, PadsSendWait, PadsMount, PadsLedRumble, PadsReceive, PadsComplete DEF Pads!Step
  <2>3. CASE Pads!Clock
    BY <2>3, PadsClock
  <2>4. ASSUME NEW a \in PadAddrs, Pads!Event(a) PROVE PadsInv'
    <3>1. CASE \E kind \in PadKinds[a] : Pads!Enumerate(a, kind)
      BY <3>1, PadsEnumerate
    <3>2. CASE Pads!Close(a)
      BY <3>2, PadsClose
    <3>3. ASSUME NEW i \in 1 .. MaxInsts,
                 \/ Pads!Sent(a, i) \/ Pads!TransferFailed(a, i) \/ Pads!AnnounceReceived(a, i)
                 \/ \E r \in PadReports : Pads!InputReceived(a, i, r)
                 \/ \E on \in BOOLEAN : Pads!LinkReceived(a, i, on) \/ Pads!GuideReceived(a, i, on)
          PROVE  PadsInv'
      <4>1. CASE Pads!Sent(a, i)
        BY <4>1, PadsSent
      <4>2. CASE Pads!AnnounceReceived(a, i)
        BY <4>2, PadsAnnounced
      <4> QED
        BY <3>3, <4>1, <4>2, PadsHeard, Zenon
    <3> QED
      BY <2>4, <3>1, <3>2, <3>3, Zenon DEF Pads!Event
  <2>5. Pads!Next \/ UNCHANGED padVars
    BY DEF SumNext, sumVars, padVars
  <2> QED
    BY <2>1, <2>2, <2>3, <2>4, <2>5, Zenon DEF Pads!Next
<1> QED
  BY <1>1, PadsInitially, PTL DEF SumSpec

\* Whatever is plugged in, pulled, announced or lost while the driver waits for a
\* pad, at any number of addresses and depth of calls: no pad has two calls in
\* progress, each interface waits for a report or will be asked for one, and no
\* pad that was pulled drives a port (xinput_host.c, xinput_atari.cpp).
THEOREM PadsSafe == SumSpec => []PadsSound
<1>1. PadsInv => PadsSound
  BY PadsInvSound DEF PadsSound
<1> QED
  BY <1>1, PadsInductive, PTL

-------------------------------------------------------------------------------
(* The live pages, the panel and the parser: PanelAndParserProofs has what     *)
(* their steps keep.                                                            *)

\* The two live pages in every state: the serial page lists the last bytes the
\* log accepted, in their order, and gets on the panel within a period; the test
\* page shows every movement since its last frame, within a period of the timer.
THEOREM PagesLive == SumSpec => [](Serial!LivePagesTrue /\ Test!LivePagesTrue)
<1>1. SumInit => LiveInv
  BY LiveStarts DEF SumInit
<1>2. LiveInv /\ [SumNext]_sumVars => LiveInv'
  <2> SUFFICES ASSUME LiveInv, [SumNext]_sumVars PROVE LiveInv'
    OBVIOUS
  <2>1. Serial!Next \/ Test!Next \/ UNCHANGED liveVars
    BY DEF SumNext, sumVars
  <2> QED
    BY <2>1, LiveStep, LiveKeeps
<1> QED
  BY <1>1, <1>2, LiveTrue, PTL DEF SumSpec

\* The panel in every state: the dots are those of the texts of the page that
\* was drawn last, unless the last frame did not arrive, and the live pages
\* show what happened last.
THEOREM PictureShown == SumSpec => []PictureTrue
<1>1. SumInit => PanelInv
  BY Zenon, PanelStarts DEF SumInit
<1>2. PanelInv /\ [SumNext]_sumVars => PanelInv'
  <2> SUFFICES ASSUME PanelInv, [SumNext]_sumVars PROVE PanelInv'
    OBVIOUS
  <2>1. Panel!Next \/ UNCHANGED displayVars
    BY DEF SumNext, sumVars
  <2> QED
    BY Zenon, <2>1, PanelKeeps
<1>3. PanelInv /\ Serial!LivePagesTrue /\ Test!LivePagesTrue => PictureTrue
  BY Zenon DEF PanelInv, PictureTrue, Panel!PictureTrue
<1> QED
  BY <1>1, <1>2, <1>3, PagesLive, PTL DEF SumSpec

\* The tables of the parser in every state, whatever the descriptor: they keep
\* their bounds, the chain of paths is the collections that are open, every
\* control is found at its bits, no two items share a bit, and the interface is
\* taken for what its descriptor declares.
THEOREM TablesTrue == SumSpec => []TableTrue
<1>1. SumInit => ParserInv
  <2> SUFFICES ASSUME SumInit PROVE ParserInv
    OBVIOUS
  <2>1. Parser!Init \/ ParserIdle
    BY Zenon DEF SumInit
  <2>2. /\ device \in HidDevices \/ desc = <<>>
        /\ p = Parser!Start /\ open = <<>> /\ fields = <<>> /\ idRestored = FALSE
    BY Zenon, <2>1 DEF Parser!Init, ParserIdle
  <2>3. desc = device.items
    BY <2>1 DEF Parser!Init, ParserIdle
  <2> QED
    BY Zenon, <2>2, <2>3, ParserStarts
<1>2. ParserInv /\ [SumNext]_sumVars => ParserInv'
  <2> SUFFICES ASSUME ParserInv, [SumNext]_sumVars PROVE ParserInv'
    OBVIOUS
  <2>1. Parser!Next \/ UNCHANGED parserVars
    BY Zenon DEF SumNext, sumVars
  <2> QED
    BY Zenon, <2>1, ParserKeeps
<1>3. ParserInv => TableTrue
  BY Zenon, ReadTyped, ReadNested, ReadFound, ReadApart, ReadDeclared DEF TableTrue, Parser!TableTrue
<1> QED
  BY <1>1, <1>2, <1>3, PTL DEF SumSpec
===============================================================================
