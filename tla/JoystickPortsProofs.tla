------------------------- MODULE JoystickPortsProofs -------------------------
(***************************************************************************)
(* The two Atari ports and the devices that drive them, for any addresses,  *)
(* any mix of kinds and any number of DualShock 4 controllers.              *)
(***************************************************************************)
EXTENDS JoystickPorts, FiniteSetTheorems, TLAPS

-------------------------------------------------------------------------------
(* What hid_joystick_assign_slot and hid_joystick_release_slot make of a list   *)
(* of ports without repetition. *)

Distinct(list) == \A p, q \in 1 .. Len(list) : list[p] = list[q] => p = q

\* hid_joystick_assign_slot adds at most the address, once.
LEMMA Assigned ==
  ASSUME NEW S, NEW list \in Seq(S), Len(list) <= 2, Distinct(list), NEW a \in S
  PROVE  /\ AssignSlot(list, a) \in Seq(S)
         /\ Len(AssignSlot(list, a)) <= 2
         /\ Distinct(AssignSlot(list, a))
         /\ \A p \in 1 .. Len(AssignSlot(list, a)) :
              AssignSlot(list, a)[p] = a \/ \E q \in 1 .. Len(list) : AssignSlot(list, a)[p] = list[q]
<1>1. CASE a \in ToSet(list) \/ Len(list) = 2
  BY <1>1 DEF AssignSlot
<1>2. CASE a \notin ToSet(list) /\ Len(list) # 2
  <2>1. \A q \in 1 .. Len(list) : list[q] # a
    BY <1>2 DEF ToSet
  <2> DEFINE r == Append(list, a)
  <2>2. /\ r \in Seq(S) /\ Len(r) = Len(list) + 1 /\ r[Len(list) + 1] = a
        /\ \A q \in 1 .. Len(list) : r[q] = list[q]
    OBVIOUS
  <2>3. AssignSlot(list, a) = r
    BY <1>2 DEF AssignSlot
  <2> HIDE DEF r
  <2>4. Len(list) \in Nat /\ Len(r) <= 2
    <3>1. Len(list) \in Nat
      OBVIOUS
    <3>2. Len(list) # 2
      BY <1>2
    <3>3. \A n \in Nat : n <= 2 /\ n # 2 => n + 1 <= 2
      OBVIOUS
    <3>4. Len(r) = Len(list) + 1
      BY <2>2
    <3> QED
      BY <3>1, <3>2, <3>3, <3>4, Zenon
  <2>5. \A p \in 1 .. Len(r) : r[p] = a \/ \E q \in 1 .. Len(list) : r[p] = list[q]
    BY <2>2, <2>4
  <2>6. Distinct(r)
    BY <2>1, <2>2, <2>4 DEF Distinct
  <2> QED
    BY <2>2, <2>3, <2>4, <2>5, <2>6
<1> QED
  BY <1>1, <1>2

\* hid_joystick_release_slot removes the address and closes the gap.
LEMMA Released ==
  ASSUME NEW S, NEW list \in Seq(S), Len(list) <= 2, Distinct(list), NEW a \in S
  PROVE  /\ ReleaseSlot(list, a) \in Seq(S)
         /\ Len(ReleaseSlot(list, a)) <= 2
         /\ Distinct(ReleaseSlot(list, a))
         /\ \A p \in 1 .. Len(ReleaseSlot(list, a)) :
              /\ ReleaseSlot(list, a)[p] # a
              /\ \E q \in 1 .. Len(list) : ReleaseSlot(list, a)[p] = list[q]
<1>1. CASE ~ \E i \in 1 .. Len(list) : list[i] = a
  BY <1>1 DEF ReleaseSlot, RemoveFirst
<1>2. ASSUME NEW k \in 1 .. Len(list), list[k] = a
      PROVE  ReleaseSlot(list, a) = RemoveAt(list, k)
  <2>1. {i \in 1 .. Len(list) : list[i] = a} = {k}
    BY <1>2 DEF Distinct
  <2>2. Min({k}) = k
    BY DEF Min
  <2>3. SelectInSeq(list, LAMBDA v : v = a) = k
    BY <2>1, <2>2 DEF SelectInSeq
  <2> QED
    BY <1>2, <2>3 DEF ReleaseSlot, RemoveFirst
<1>3. ASSUME NEW k \in 1 .. Len(list), list[k] = a
      PROVE  /\ RemoveAt(list, k) \in Seq(S)
             /\ Len(RemoveAt(list, k)) = Len(list) - 1
             /\ \A p \in 1 .. Len(list) - 1 :
                  RemoveAt(list, k)[p] = IF p < k THEN list[p] ELSE list[p + 1]
  <2> DEFINE u == SubSeq(list, 1, k - 1)
             v == SubSeq(list, k + 1, Len(list))
  <2>1. /\ u \in Seq(S) /\ Len(u) = k - 1
        /\ \A p \in 1 .. k - 1 : u[p] = list[p]
    OBVIOUS
  <2>2. /\ v \in Seq(S) /\ Len(v) = Len(list) - k
        /\ \A p \in 1 .. Len(list) - k : v[p] = list[p + k]
    OBVIOUS
  <2>3. RemoveAt(list, k) = u \o v
    BY DEF RemoveAt
  <2> HIDE DEF u, v
  <2>4. u \o v \in Seq(S) /\ Len(u \o v) = Len(list) - 1 /\ Len(list) \in Nat
    BY <2>1, <2>2
  <2>5. \A p \in 1 .. Len(list) - 1 : (u \o v)[p] = IF p < k THEN u[p] ELSE v[p - k + 1]
    BY <2>1, <2>2
  <2> QED
    BY <2>1, <2>2, <2>3, <2>4, <2>5
<1>4. ASSUME NEW k \in 1 .. Len(list), list[k] = a
      PROVE  /\ Distinct(RemoveAt(list, k))
             /\ \A p \in 1 .. Len(RemoveAt(list, k)) :
                  /\ RemoveAt(list, k)[p] # a
                  /\ \E q \in 1 .. Len(list) : RemoveAt(list, k)[p] = list[q]
  <2> DEFINE r == RemoveAt(list, k)
  <2>1. /\ Len(r) = Len(list) - 1 /\ Len(list) \in Nat
        /\ \A p \in 1 .. Len(list) - 1 : r[p] = IF p < k THEN list[p] ELSE list[p + 1]
    BY <1>3, <1>4
  <2> HIDE DEF r
  <2>2. \A p \in 1 .. Len(r) : r[p] # a /\ \E q \in 1 .. Len(list) : r[p] = list[q]
    BY <1>4, <2>1 DEF Distinct
  <2>3. Distinct(r)
    BY <2>1 DEF Distinct
  <2> QED
    BY <2>2, <2>3 DEF r
<1> QED
  BY <1>1, <1>2, <1>3, <1>4

-------------------------------------------------------------------------------
(* The invariant. *)

\* The list of ports names no joystick twice.
IInv == TypeOK /\ Distinct(usbJoy)

-------------------------------------------------------------------------------
(* What a port is offered. *)

\* An entry of the port list is an address.
LEMMA EntryTypes ==
  ASSUME IInv, NEW p \in Ports, Entry(p) <= Len(usbJoy)
  PROVE  usbJoy[Entry(p)] \in Addrs
<1>1. Entry(p) \in 1 .. Len(usbJoy)
  BY DEF Entry, Ports, IInv, TypeOK
<1> QED
  BY <1>1 DEF IInv, TypeOK

\* What is known of a DualShock 4 and of an input, field by field.
LEMMA InputFields ==
  /\ \A i \in Inputs : i.dir \in BOOLEAN /\ i.fire \in BOOLEAN
  /\ Rest \in Inputs /\ Push \in Inputs /\ Blank \in Inputs
  BY DEF Inputs, Rest, Push, Blank
LEMMA PadFields ==
  ASSUME IInv, NEW i \in 1 .. Len(pads)
  PROVE  /\ pads[i] \in [addr : Addrs, val : Inputs]
         /\ pads[i].addr \in Addrs /\ pads[i].val \in Inputs
<1> DEFINE R == [addr : Addrs, val : Inputs]
<1>1. \A r \in R : r.addr \in Addrs /\ r.val \in Inputs
  OBVIOUS
<1>2. pads \in Seq(R)
  BY DEF IInv, TypeOK
<1> HIDE DEF R
<1>3. pads[i] \in R
  BY <1>2
<1> QED
  BY <1>1, <1>3 DEF R

\* It is what a device of the list reported.
LEMMA InputTypes ==
  ASSUME IInv, NEW p \in Ports
  PROVE  UsbInput(p) \subseteq [src : Addrs, val : Inputs]
<1>1. CASE StickReady(p)
  <2>1. usbJoy[Entry(p)] \in Addrs
    BY <1>1, EntryTypes DEF StickReady
  <2>2. latest[usbJoy[Entry(p)]] \in Inputs
    BY <2>1 DEF IInv, TypeOK
  <2> QED
    BY <1>1, <2>1, <2>2 DEF UsbInput
<1>2. CASE ~StickReady(p) /\ Entry(p) <= Len(pads)
  <2>1. Entry(p) \in 1 .. Len(pads)
    BY <1>2 DEF Entry, Ports, IInv, TypeOK
  <2>2. pads[Entry(p)].addr \in Addrs /\ pads[Entry(p)].val \in Inputs
    BY <2>1, PadFields
  <2> QED
    BY <1>2, <2>2 DEF UsbInput
<1>3. CASE ~StickReady(p) /\ ~(Entry(p) <= Len(pads))
  <2>1. \A a \in XboxAt(Entry(p)) : a \in Addrs /\ latest[a] \in Inputs
    BY DEF XboxAt, IInv, TypeOK
  <2> QED
    BY <1>3, <2>1 DEF UsbInput
<1> QED
  BY <1>1, <1>2, <1>3

\* What is taken of it, when there is something, is one of these.
LEMMA Taken ==
  ASSUME IInv, NEW p \in Ports, UsbInput(p) # {}
  PROVE  LET i == CHOOSE i \in UsbInput(p) : TRUE
         IN  i.val.dir \in BOOLEAN /\ i.val.fire \in BOOLEAN
<1> DEFINE i == CHOOSE i \in UsbInput(p) : TRUE
<1>1. i \in UsbInput(p)
  OBVIOUS
<1>2. i \in [src : Addrs, val : Inputs]
  BY <1>1, InputTypes
<1> HIDE DEF i
<1>3. i.val.dir \in BOOLEAN /\ i.val.fire \in BOOLEAN
  BY <1>2, InputFields
<1> QED
  BY <1>3, Zenon DEF i

-------------------------------------------------------------------------------
(* The inductive invariant. *)

LEMMA Initially == Init => IInv
<1> SUFFICES ASSUME Init PROVE IInv
  OBVIOUS
<1> USE JoystickAssumption
<1>1. Rest \in Inputs
  BY DEF Rest, Inputs
<1> QED
  BY <1>1 DEF Init, IInv, TypeOK, Distinct, Ports

\* A device is plugged in.
LEMMA PlugKeeps ==
  ASSUME IInv, NEW a \in Addrs, NEW kind \in Kinds, Plug(a, kind)
  PROVE  IInv'
<1> USE JoystickAssumption DEF Plug, devVars, outVars
<1>1. CASE kind = "xbox"
  BY <1>1 DEF IInv, TypeOK, Ports
<1>2. CASE kind # "xbox"
  <2>1. /\ usbJoy' \in Seq(Addrs) /\ Len(usbJoy') <= 2 /\ Distinct(usbJoy')
    BY <1>2, Assigned DEF IInv, TypeOK
  <2>2. pads' \in Seq([addr : Addrs, val : Inputs]) /\ Len(pads') <= MaxPads
    <3>1. [addr |-> a, val |-> Blank] \in [addr : Addrs, val : Inputs]
      BY InputFields
    <3>2. pads \in Seq([addr : Addrs, val : Inputs]) /\ Len(pads) \in Nat /\ Len(pads) <= MaxPads
      BY DEF IInv, TypeOK
    <3> DEFINE R == [addr : Addrs, val : Inputs]
               new == [addr |-> a, val |-> Blank]
    <3>3. pads' = IF kind = "pad" /\ Len(pads) < MaxPads THEN Append(pads, new) ELSE pads
      BY <1>2
    <3> HIDE DEF R, new
    <3>4. new \in R /\ pads \in Seq(R)
      BY <3>1, <3>2 DEF R, new
    <3>5. pads' \in Seq(R) /\ Len(pads') <= MaxPads
      BY <3>2, <3>3, <3>4
    <3> QED
      BY <3>5 DEF R
  <2>3. armed' \subseteq Addrs
    BY <1>2 DEF IInv, TypeOK
  <2>4. usb' \in [Addrs -> Kinds \cup {"none"}]
    BY DEF IInv, TypeOK
  <2> QED
    BY <2>1, <2>2, <2>3, <2>4 DEF IInv, TypeOK
<1> QED
  BY <1>1, <1>2

\* A device is pulled.
LEMMA UnplugKeeps ==
  ASSUME IInv, NEW a \in Addrs, Unplug(a)
  PROVE  IInv'
<1> USE DEF Unplug, outVars
<1>1. usbJoy' \in Seq(Addrs) /\ Len(usbJoy') <= 2 /\ Distinct(usbJoy')
  BY Released DEF IInv, TypeOK
<1>2. Rest \in Inputs
  BY DEF Rest, Inputs
<1> QED
  BY <1>1, <1>2 DEF IInv, TypeOK

\* A device reports.
LEMMA ReportKeeps ==
  ASSUME IInv, NEW a \in Addrs, Report(a)
  PROVE  IInv'
<1>1. held[a] \in Inputs
  BY DEF IInv, TypeOK
<1>2. CASE ReportStick(a)
  BY <1>1, <1>2 DEF ReportStick, outVars, IInv, TypeOK
<1>3. CASE ReportPad(a)
  <2> DEFINE new(i) == IF i \in PadOf(a) THEN [pads[i] EXCEPT !.val = held[a]] ELSE pads[i]
  <2>1. Len(pads) \in Nat /\ pads' = [i \in 1 .. Len(pads) |-> new(i)]
    BY <1>3 DEF ReportPad, IInv, TypeOK
  <2>2. \A i \in 1 .. Len(pads) : new(i) \in [addr : Addrs, val : Inputs]
    <3> SUFFICES ASSUME NEW i \in 1 .. Len(pads) PROVE new(i) \in [addr : Addrs, val : Inputs]
      OBVIOUS
    <3>1. /\ pads[i] \in [addr : Addrs, val : Inputs]
          /\ pads[i].addr \in Addrs /\ pads[i].val \in Inputs
      BY PadFields
    <3>2. [pads[i] EXCEPT !.val = held[a]] \in [addr : Addrs, val : Inputs]
      BY <1>1, <3>1
    <3> QED
      BY <3>1, <3>2
  <2> HIDE DEF new
  <2>3. pads' \in Seq([addr : Addrs, val : Inputs]) /\ Len(pads') = Len(pads)
    BY <2>1, <2>2
  <2> QED
    BY <1>3, <2>3 DEF ReportPad, outVars, IInv, TypeOK
<1>4. CASE ReportXbox(a)
  BY <1>1, <1>4 DEF ReportXbox, outVars, IInv, TypeOK
<1> QED
  BY <1>2, <1>3, <1>4 DEF Report

\* A pass of handle_joystick.
LEMMA PollKeeps ==
  ASSUME IInv, NEW gpio \in [Ports -> {Rest, Push}], HandleJoystick(gpio)
  PROVE  IInv'
<1> DEFINE in(p) == CHOOSE i \in UsbInput(p) : TRUE
           got   == {p \in Ports : Polled(p) /\ UsbInput(p) # {}}
           newRaw == [p \in Ports |-> IF p \in dsub THEN FALSE
                                      ELSE IF p \in got THEN in(p).val.fire ELSE raw[p]]
           newDir == [p \in Ports |-> IF FromSocket(p) THEN gpio[p].dir
                                      ELSE IF p \in got THEN in(p).val.dir ELSE dir[p]]
           newFire == [p \in Ports |-> \/ p \in dsub /\ gpio[p].fire
                                       \/ Polled(p) /\ newRaw[p]
                                       \/ p = 1 /\ gpio[p].fire]
<1>1. \A p \in Ports : gpio[p].dir \in BOOLEAN /\ gpio[p].fire \in BOOLEAN
  <2>1. \A p \in Ports : gpio[p] = Rest \/ gpio[p] = Push
    OBVIOUS
  <2> QED
    BY <2>1, InputFields
<1>2. \A p \in got : in(p).val.dir \in BOOLEAN /\ in(p).val.fire \in BOOLEAN
  BY Taken
<1>3. \A p \in Ports : raw[p] \in BOOLEAN /\ dir[p] \in BOOLEAN
  BY DEF IInv, TypeOK
<1>4. /\ raw' = newRaw /\ dir' = newDir /\ fire' = newFire
      /\ armed' = armed \cup {usbJoy[Entry(p)] : p \in {q \in got : StickReady(q)}}
      /\ UNCHANGED <<usb, held, usbJoy, latest, pads, dsub, mouseOn>>
  BY DEF HandleJoystick
<1>5. \A p \in got : StickReady(p) => usbJoy[Entry(p)] \in Addrs
  BY EntryTypes DEF StickReady
<1> HIDE DEF in, got
<1>6. newRaw \in [Ports -> BOOLEAN] /\ newDir \in [Ports -> BOOLEAN]
  BY <1>1, <1>2, <1>3
<1>7. newFire \in [Ports -> BOOLEAN]
  OBVIOUS
<1>8. armed' \subseteq Addrs
  BY <1>4, <1>5 DEF IInv, TypeOK
<1> HIDE DEF newRaw, newDir, newFire
<1> QED
  BY <1>4, <1>6, <1>7, <1>8 DEF IInv, TypeOK

LEMMA Preserved == IInv /\ [Next]_vars => IInv'
<1> SUFFICES ASSUME IInv, [Next]_vars PROVE IInv'
  OBVIOUS
<1>1. ASSUME NEW a \in Addrs, NEW kind \in Kinds, Plug(a, kind) PROVE IInv'
  BY <1>1, PlugKeeps
<1>2. ASSUME NEW a \in Addrs, Unplug(a) PROVE IInv'
  BY <1>2, UnplugKeeps
<1>3. ASSUME NEW a \in Addrs, Report(a) PROVE IInv'
  BY <1>3, ReportKeeps
<1>4. ASSUME NEW a \in Addrs, Move(a) PROVE IInv'
  <2>1. Rest \in Inputs /\ Push \in Inputs
    BY DEF Rest, Push, Inputs
  <2> QED
    BY <1>4, <2>1 DEF Move, devVars, outVars, IInv, TypeOK
<1>5. CASE Poll
  BY <1>5, PollKeeps DEF Poll
<1>6. ASSUME NEW p \in Ports, ToggleSource(p) PROVE IInv'
  BY <1>6 DEF ToggleSource, devVars, outVars, IInv, TypeOK
<1>7. CASE ToggleMouse
  BY <1>7 DEF ToggleMouse, devVars, outVars, IInv, TypeOK
<1>8. CASE UNCHANGED vars
  BY <1>8 DEF vars, devVars, outVars, IInv, TypeOK
<1> QED
  BY <1>1, <1>2, <1>3, <1>4, <1>5, <1>6, <1>7, <1>8 DEF Next

\* The tables of the joysticks keep their types and bounds, and the list of
\* ports never names a joystick twice (hid_joystick_assign_slot,
\* hid_joystick_release_slot, ps4_mount_cb).
THEOREM Inductive == Spec => []IInv
  BY Initially, Preserved, PTL DEF Spec

-------------------------------------------------------------------------------
(* No device drives both ports. *)

\* Two Xbox pads of different rank are different.
LEMMA RanksDiffer == \A a \in XboxAt(1), b \in XboxAt(2) : a # b
  BY DEF XboxAt

\* The source of what a port is offered is a stick that owns it, a pad of the
\* port's own entry, or the Xbox pad of its rank.
LEMMA Sources ==
  ASSUME IInv, PadsConnected, NEW p \in Ports, NEW i \in UsbInput(p)
  PROVE  \/ usb[i.src] = "stick" /\ Entry(p) \in 1 .. Len(usbJoy) /\ i.src = usbJoy[Entry(p)]
         \/ usb[i.src] = "pad" /\ Entry(p) \in PadOf(i.src)
         \/ usb[i.src] = "xbox" /\ i.src \in XboxAt(Entry(p))
<1>1. Entry(p) \in {1, 2} /\ Len(usbJoy) \in Nat /\ Len(pads) \in Nat
  BY DEF Entry, Ports, IInv, TypeOK
<1>2. CASE StickReady(p)
  BY <1>1, <1>2 DEF UsbInput, StickReady
<1>3. CASE ~StickReady(p) /\ Entry(p) <= Len(pads)
  <2>1. i.src = pads[Entry(p)].addr
    BY <1>3 DEF UsbInput
  <2>2. Entry(p) \in 1 .. Len(pads)
    BY <1>1, <1>3
  <2> QED
    BY <2>1, <2>2 DEF PadsConnected
<1>4. CASE ~StickReady(p) /\ ~(Entry(p) <= Len(pads))
  <2>1. i.src \in XboxAt(Entry(p))
    BY <1>4 DEF UsbInput
  <2> QED
    BY <2>1 DEF XboxAt
<1> QED
  BY <1>2, <1>3, <1>4

\* However sticks, DualShock 4 and Xbox pads come, go and change places, the two
\* ports are never offered the same device (get_usb_joystick,
\* ps4_to_atari_joystick, xinput_to_atari_joystick).
THEOREM Apart == Spec => []OnePortEach
<1>1. IInv => OnePortEach
  <2> SUFFICES ASSUME IInv, PadsConnected, NEW i \in UsbInput(0), NEW j \in UsbInput(1)
               PROVE  i.src # j.src
    BY DEF OnePortEach, IInv
  <2>1. 0 \in Ports /\ 1 \in Ports /\ Entry(0) = 2 /\ Entry(1) = 1
    BY DEF Ports, Entry
  <2>2. \/ usb[i.src] = "stick" /\ 2 \in 1 .. Len(usbJoy) /\ i.src = usbJoy[2]
        \/ usb[i.src] = "pad" /\ 2 \in PadOf(i.src)
        \/ usb[i.src] = "xbox" /\ i.src \in XboxAt(2)
    BY <2>1, Sources
  <2>3. \/ usb[j.src] = "stick" /\ 1 \in 1 .. Len(usbJoy) /\ j.src = usbJoy[1]
        \/ usb[j.src] = "pad" /\ 1 \in PadOf(j.src)
        \/ usb[j.src] = "xbox" /\ j.src \in XboxAt(1)
    BY <2>1, Sources
  <2>4. 1 \in 1 .. Len(usbJoy) /\ 2 \in 1 .. Len(usbJoy) => usbJoy[1] # usbJoy[2]
    BY DEF IInv, Distinct
  <2>5. \A a : ~(1 \in PadOf(a) /\ 2 \in PadOf(a))
    BY DEF PadOf
  <2> QED
    BY <2>2, <2>3, <2>4, <2>5, RanksDiffer, Zenon
<1> QED
  BY <1>1, Inductive, PTL
===============================================================================
