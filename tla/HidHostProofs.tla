---------------------------- MODULE HidHostProofs ----------------------------
(***************************************************************************)
(* The tables of the HID host, for any addresses, any number of slots, any  *)
(* kinds of device and any order in which they come and go.                *)
(***************************************************************************)
EXTENDS HidHost, FiniteSetTheorems, WellFoundedInduction, TLAPS

-------------------------------------------------------------------------------
(* What hid_joystick_assign_slot and hid_joystick_release_slot make of a list   *)
(* of ports without repetition. *)

Distinct(list) == \A p, q \in 1 .. Len(list) : list[p] = list[q] => p = q

\* hid_joystick_assign_slot adds at most the address, once.
LEMMA Assigned ==
  ASSUME NEW S, NEW list \in Seq(S), Len(list) <= 2, Distinct(list), NEW a \in S
  PROVE  /\ AssignSlot(list, a) \in Seq(S)
         /\ Len(AssignSlot(list, a)) <= 2
         /\ Distinct(AssignSlot(list, a))
         /\ \A p \in 1 .. Len(AssignSlot(list, a)) :
              AssignSlot(list, a)[p] = a \/ \E q \in 1 .. Len(list) : AssignSlot(list, a)[p] = list[q]
<1>1. CASE a \in ToSet(list) \/ Len(list) = 2
  BY <1>1 DEF AssignSlot
<1>2. CASE a \notin ToSet(list) /\ Len(list) # 2
  <2>1. \A q \in 1 .. Len(list) : list[q] # a
    BY <1>2 DEF ToSet
  <2> DEFINE r == Append(list, a)
  <2>2. /\ r \in Seq(S) /\ Len(r) = Len(list) + 1 /\ r[Len(list) + 1] = a
        /\ \A q \in 1 .. Len(list) : r[q] = list[q]
    OBVIOUS
  <2>3. AssignSlot(list, a) = r
    BY <1>2 DEF AssignSlot
  <2> HIDE DEF r
  <2>4. Len(list) \in Nat /\ Len(r) <= 2
    <3>1. Len(list) \in Nat
      OBVIOUS
    <3>2. Len(list) # 2
      BY <1>2
    <3>3. \A n \in Nat : n <= 2 /\ n # 2 => n + 1 <= 2
      OBVIOUS
    <3>4. Len(r) = Len(list) + 1
      BY <2>2
    <3> QED
      BY <3>1, <3>2, <3>3, <3>4, Zenon
  <2>5. \A p \in 1 .. Len(r) : r[p] = a \/ \E q \in 1 .. Len(list) : r[p] = list[q]
    BY <2>2, <2>4
  <2>6. Distinct(r)
    BY <2>1, <2>2, <2>4 DEF Distinct
  <2> QED
    BY <2>2, <2>3, <2>4, <2>5, <2>6
<1> QED
  BY <1>1, <1>2

\* hid_joystick_release_slot removes the address and closes the gap.
LEMMA Released ==
  ASSUME NEW S, NEW list \in Seq(S), Len(list) <= 2, Distinct(list), NEW a \in S
  PROVE  /\ ReleaseSlot(list, a) \in Seq(S)
         /\ Len(ReleaseSlot(list, a)) <= 2
         /\ Distinct(ReleaseSlot(list, a))
         /\ \A p \in 1 .. Len(ReleaseSlot(list, a)) :
              /\ ReleaseSlot(list, a)[p] # a
              /\ \E q \in 1 .. Len(list) : ReleaseSlot(list, a)[p] = list[q]
<1>1. CASE ~ \E i \in 1 .. Len(list) : list[i] = a
  BY <1>1 DEF ReleaseSlot, RemoveFirst
<1>2. ASSUME NEW k \in 1 .. Len(list), list[k] = a
      PROVE  ReleaseSlot(list, a) = RemoveAt(list, k)
  <2>1. {i \in 1 .. Len(list) : list[i] = a} = {k}
    BY <1>2 DEF Distinct
  <2>2. Min({k}) = k
    BY DEF Min
  <2>3. SelectInSeq(list, LAMBDA v : v = a) = k
    BY <2>1, <2>2 DEF SelectInSeq
  <2> QED
    BY <1>2, <2>3 DEF ReleaseSlot, RemoveFirst
<1>3. ASSUME NEW k \in 1 .. Len(list), list[k] = a
      PROVE  /\ RemoveAt(list, k) \in Seq(S)
             /\ Len(RemoveAt(list, k)) = Len(list) - 1
             /\ \A p \in 1 .. Len(list) - 1 :
                  RemoveAt(list, k)[p] = IF p < k THEN list[p] ELSE list[p + 1]
  <2> DEFINE u == SubSeq(list, 1, k - 1)
             v == SubSeq(list, k + 1, Len(list))
  <2>1. /\ u \in Seq(S) /\ Len(u) = k - 1
        /\ \A p \in 1 .. k - 1 : u[p] = list[p]
    OBVIOUS
  <2>2. /\ v \in Seq(S) /\ Len(v) = Len(list) - k
        /\ \A p \in 1 .. Len(list) - k : v[p] = list[p + k]
    OBVIOUS
  <2>3. RemoveAt(list, k) = u \o v
    BY DEF RemoveAt
  <2> HIDE DEF u, v
  <2>4. u \o v \in Seq(S) /\ Len(u \o v) = Len(list) - 1 /\ Len(list) \in Nat
    BY <2>1, <2>2
  <2>5. \A p \in 1 .. Len(list) - 1 : (u \o v)[p] = IF p < k THEN u[p] ELSE v[p - k + 1]
    BY <2>1, <2>2
  <2> QED
    BY <2>1, <2>2, <2>3, <2>4, <2>5
<1>4. ASSUME NEW k \in 1 .. Len(list), list[k] = a
      PROVE  /\ Distinct(RemoveAt(list, k))
             /\ \A p \in 1 .. Len(RemoveAt(list, k)) :
                  /\ RemoveAt(list, k)[p] # a
                  /\ \E q \in 1 .. Len(list) : RemoveAt(list, k)[p] = list[q]
  <2> DEFINE r == RemoveAt(list, k)
  <2>1. /\ Len(r) = Len(list) - 1 /\ Len(list) \in Nat
        /\ \A p \in 1 .. Len(list) - 1 : r[p] = IF p < k THEN list[p] ELSE list[p + 1]
    BY <1>3, <1>4
  <2> HIDE DEF r
  <2>2. \A p \in 1 .. Len(r) : r[p] # a /\ \E q \in 1 .. Len(list) : r[p] = list[q]
    BY <1>4, <2>1 DEF Distinct
  <2>3. Distinct(r)
    BY <2>1 DEF Distinct
  <2> QED
    BY <2>2, <2>3 DEF r
<1> QED
  BY <1>1, <1>2, <1>3, <1>4

-------------------------------------------------------------------------------
(* The invariants. *)

\* The keys registered as a type.
OfType(t) == {k \in Keys : device[k] = t}

Counted == \A t \in Types : IsFiniteSet(OfType(t)) /\ count[t] = Cardinality(OfType(t))

\* Only a mouse is registered under a marked key.
MarkedMice == \A k \in Keys : k[2] = 128 => device[k] \in {"none", "mouse"}

\* What a table holds is open on the bus, one slot for each interface; the
\* interfaces that were closed are gone from it.
Open(s, bus, mounted, left) ==
  /\ \A i \in SlotIds : IF s[i].mounted
       THEN /\ s[i].addr \in Addrs
            /\ bus[s[i].addr] # "none"
            /\ s[i].inst < mounted[s[i].addr]
            /\ left # <<>> /\ left[1] = s[i].addr => left[2] <= s[i].inst
       ELSE s[i] = FreeSlot
  /\ \A i, j \in SlotIds :
       s[i].mounted /\ s[j].mounted /\ s[i].addr = s[j].addr /\ s[i].inst = s[j].inst => i = j

\* DestLive and NoOrphan of a table and a set of registered keys.
Live(s, held) == \A i \in SlotIds :
  s[i].dest # NoKey => s[i].mounted /\ s[i].dest \in held /\ s[i].dest[1] = s[i].addr
Backed(s, held) == \A k \in held : \E i \in SlotIds : s[i].mounted /\ s[i].addr = k[1]

Sound(s, held, bus, mounted, left) ==
  /\ s \in [SlotIds -> SlotRecords]
  /\ Open(s, bus, mounted, left)
  /\ Live(s, held)
  /\ Backed(s, held)

\* The ports of the joysticks, as a list and a map of devices.
Ports(list, dev) ==
  /\ list \in Seq(Addrs) /\ Len(list) <= 2 /\ Distinct(list)
  /\ \A p \in 1 .. Len(list) : dev[<<list[p], 0>>] = "joystick"

Registry ==
  /\ device \in [Keys -> Types \cup {"none"}] /\ count \in [Types -> Int]
  /\ Counted /\ MarkedMice
  /\ Ports(usbJoy, device)

Bus ==
  /\ usb \in [Addrs -> Kinds \cup {"none"}]
  /\ opened \in [Addrs -> Nat]
  /\ closing = <<>> \/ closing \in Addrs \X Nat
  /\ phase \in {"usb", "keyboard", "mouse", "joystick"}
  /\ fresh \subseteq Keys

IInv == Bus /\ Registry /\ Sound(slots, Held, usb, opened, closing)

LEMMA Least ==
  ASSUME NEW S \in SUBSET Nat, S # {}
  PROVE  \E n \in S : \A m \in S : n <= m
<1>1. PICK n \in S : \A m \in S : ~ (<<m, n>> \in OpToRel(<, Nat))
  BY NatLessThanWellFounded, WFMin
<1>2. \A m \in S : m \in Nat /\ ~ (m < n)
  BY <1>1 DEF OpToRel
<1> QED
  BY <1>2

-------------------------------------------------------------------------------
(* The counters and the set of registered devices. *)

\* A device is added under a free key.
LEMMA CountedOneMore ==
  ASSUME Registry, NEW k \in Keys, NEW t \in Types, device[k] = "none",
         device' = [device EXCEPT ![k] = t], count' = [count EXCEPT ![t] = @ + 1]
  PROVE  Counted'
<1> SUFFICES ASSUME NEW u \in Types
             PROVE  IsFiniteSet(OfType(u)') /\ count'[u] = Cardinality(OfType(u)')
  BY DEF Counted
<1>1. IsFiniteSet(OfType(u)) /\ count[u] = Cardinality(OfType(u))
  BY DEF Registry, Counted
<1>2. k \notin OfType(u)
  BY DEF OfType, Types
<1>3. CASE u = t
  <2>1. OfType(u)' = OfType(u) \cup {k}
    BY <1>3 DEF OfType, Registry
  <2>2. count'[u] = count[u] + 1
    BY <1>3 DEF Registry
  <2> QED
    BY <1>1, <1>2, <2>1, <2>2, FS_AddElement
<1>4. CASE u # t
  <2>1. OfType(u)' = OfType(u)
    BY <1>2, <1>4 DEF OfType, Registry
  <2>2. count'[u] = count[u]
    BY <1>4 DEF Registry
  <2> QED
    BY <1>1, <2>1, <2>2
<1> QED
  BY <1>3, <1>4

\* Some keys are released.
LEMMA CountedFewer ==
  ASSUME Registry, NEW K \in SUBSET Keys,
         device' = [k \in Keys |-> IF k \in K THEN "none" ELSE device[k]],
         count' = [t \in Types |-> count[t] - Cardinality({k \in K : device[k] = t})]
  PROVE  Counted' /\ count' \in [Types -> Int]
<1> SUFFICES ASSUME NEW u \in Types
             PROVE  IsFiniteSet(OfType(u)') /\ count'[u] = Cardinality(OfType(u)') /\ count'[u] \in Int
  BY DEF Counted
<1>1. IsFiniteSet(OfType(u)) /\ count[u] = Cardinality(OfType(u))
  BY DEF Registry, Counted
<1>2. OfType(u)' = OfType(u) \ K
  BY DEF OfType, Types
<1>3. {k \in K : device[k] = u} = OfType(u) \cap K
  BY DEF OfType
<1>4. IsFiniteSet(OfType(u) \ K) /\ Cardinality(OfType(u) \ K) = Cardinality(OfType(u)) - Cardinality(OfType(u) \cap K)
  BY <1>1, FS_Difference
<1>5. Cardinality(OfType(u) \ K) \in Nat
  BY <1>4, FS_CardinalityType
<1>6. count'[u] = count[u] - Cardinality(OfType(u) \cap K)
  BY <1>3
<1> QED
  BY <1>1, <1>2, <1>4, <1>5, <1>6

-------------------------------------------------------------------------------
(* The table of interfaces. *)

\* s1 is s with buffers of registered keys handed to interfaces of their devices.
Armed(s, s1, held) ==
  /\ s1 = [i \in SlotIds |-> s1[i]]
  /\ \A i \in SlotIds :
       \/ s1[i] = s[i]
       \/ \E k \in held : s[i].mounted /\ s[i].addr = k[1] /\ s1[i] = [s[i] EXCEPT !.dest = k]

\* A report is asked for from an interface of the buffer's own device only.
LEMMA ArmedSound ==
  ASSUME NEW held \in SUBSET Keys, NEW bus, NEW mounted, NEW left, NEW s, NEW s1,
         Sound(s, held, bus, mounted, left), Armed(s, s1, held)
  PROVE  Sound(s1, held, bus, mounted, left)
<1>1. \A i \in SlotIds : s[i] \in SlotRecords
  BY DEF Sound
<1>2. \A i \in SlotIds : /\ s1[i] \in SlotRecords
                         /\ s1[i].mounted = s[i].mounted /\ s1[i].addr = s[i].addr
                         /\ s1[i].inst = s[i].inst
                         /\ s1[i] = s[i] \/ (s[i].mounted /\ s1[i].dest \in held /\ s1[i].dest[1] = s[i].addr)
  <2> SUFFICES ASSUME NEW i \in SlotIds
               PROVE  /\ s1[i] \in SlotRecords
                      /\ s1[i].mounted = s[i].mounted /\ s1[i].addr = s[i].addr
                      /\ s1[i].inst = s[i].inst
                      /\ s1[i] = s[i] \/ (s[i].mounted /\ s1[i].dest \in held /\ s1[i].dest[1] = s[i].addr)
    OBVIOUS
  <2>1. CASE s1[i] = s[i]
    BY <1>1, <2>1
  <2>2. ASSUME NEW k \in held, s[i].mounted, s[i].addr = k[1], s1[i] = [s[i] EXCEPT !.dest = k]
        PROVE  /\ s1[i] \in SlotRecords
               /\ s1[i].mounted = s[i].mounted /\ s1[i].addr = s[i].addr
               /\ s1[i].inst = s[i].inst /\ s1[i].dest = k
    <3>1. k \in Keys
      OBVIOUS
    <3>2. s[i] \in SlotRecords
      BY <1>1
    <3> DEFINE r == s[i]
    <3>3. /\ [r EXCEPT !.dest = k] \in SlotRecords
          /\ [r EXCEPT !.dest = k].mounted = r.mounted /\ [r EXCEPT !.dest = k].addr = r.addr
          /\ [r EXCEPT !.dest = k].inst = r.inst /\ [r EXCEPT !.dest = k].dest = k
      <4> HIDE DEF r
      <4>1. r \in SlotRecords
        BY <3>2 DEF r
      <4> QED
        BY <3>1, <4>1 DEF SlotRecords
    <3> QED
      BY <2>2, <3>3
  <2> QED
    BY <2>1, <2>2 DEF Armed
<1>3. s1 \in [SlotIds -> SlotRecords]
  BY <1>2 DEF Armed
<1>4. Open(s1, bus, mounted, left)
  BY <1>1, <1>2 DEF Sound, Open
<1>5. Live(s1, held)
  BY <1>2 DEF Sound, Live
<1>6. Backed(s1, held)
  BY <1>2 DEF Sound, Backed
<1> QED
  BY <1>3, <1>4, <1>5, <1>6 DEF Sound

\* What the search for an interface finds.
LEMMA Found ==
  ASSUME NEW s, NEW k, NEW i \in Find(s, k)
  PROVE  i \in SlotIds /\ s[i].mounted /\ s[i].addr = k[1]
BY DEF Find, Lowest

\* tuh_hid_mounted_cb for a device with an interface in the table.
LEMMA MountedCbSound ==
  ASSUME IInv, NEW a \in Addrs, NEW s, NEW marked \in BOOLEAN, NEW bus, NEW mounted, NEW left,
         Sound(s, Held, bus, mounted, left), \E i \in SlotIds : s[i].mounted /\ s[i].addr = a,
         MountedCb(s, a, marked)
  PROVE  /\ Sound(slots', Held', bus, mounted, left)
         /\ Registry'
<1> DEFINE type == IF marked THEN "mouse" ELSE GetType(s, <<a, 0>>)
           new == NewKeys(device, a, type)
<1>1. /\ device \in [Keys -> Types \cup {"none"}] /\ count \in [Types -> Int]
      /\ Counted /\ MarkedMice /\ Ports(usbJoy, device)
  BY DEF IInv, Registry
<1>2. CASE new = {}
  <2>1. slots' = s /\ UNCHANGED <<device, count, usbJoy>>
    BY <1>2 DEF MountedCb
  <2> QED
    BY <1>1, <2>1 DEF Held, Registry, Counted, OfType, MarkedMice
<1>3. CASE new # {}
  <2>1. PICK k \in new : /\ slots' = RequestReport(s, k, k)
                         /\ device' = [device EXCEPT ![k] = type]
                         /\ count' = [count EXCEPT ![type] = @ + 1]
                         /\ usbJoy' = IF type = "joystick" THEN AssignSlot(usbJoy, a) ELSE usbJoy
    BY <1>3 DEF MountedCb
  <2>2. /\ type \in Types /\ k \in Keys /\ k[1] = a /\ device[k] = "none"
        /\ k = <<a, 0>> \/ (k[2] = 128 /\ type = "mouse")
    <3>1. type \in Types
      BY DEF NewKeys
    <3>2. <<a, 0>> \in Keys /\ <<a, 128>> \in Keys
      BY DEF Keys
    <3>3. CASE device[<<a, 0>>] = "none"
      BY <3>1, <3>2, <3>3 DEF NewKeys
    <3>4. CASE device[<<a, 0>>] # "none"
      BY <3>1, <3>2, <3>4 DEF NewKeys
    <3> QED
      BY <3>3, <3>4
  <2> HIDE DEF type, new
  <2>3. Held' = Held \cup {k}
    BY <1>1, <2>1, <2>2 DEF Held, Types
  <2>4. Sound(s, Held', bus, mounted, left)
    BY <2>2, <2>3 DEF Sound, Live, Backed
  <2>5. Armed(s, slots', Held')
    <3>1. slots' = [i \in SlotIds |-> IF i \in Find(s, k) THEN [s[i] EXCEPT !.dest = k] ELSE s[i]]
      BY <2>1 DEF RequestReport
    <3> QED
      BY <2>3, <3>1, Found DEF Armed
  <2>6. Sound(slots', Held', bus, mounted, left)
    <3>1. Held' \in SUBSET Keys
      BY DEF Held
    <3> QED
      BY <2>4, <2>5, <3>1, ArmedSound
  <2>7. Counted'
    BY <2>1, <2>2, CountedOneMore DEF IInv
  <2>8. MarkedMice'
    BY <1>1, <2>1, <2>2 DEF MarkedMice
  <2>9. device' \in [Keys -> Types \cup {"none"}] /\ count' \in [Types -> Int]
    BY <1>1, <2>1, <2>2
  <2>10. Ports(usbJoy', device')
    <3>1. \A p \in 1 .. Len(usbJoy) : device'[<<usbJoy[p], 0>>] = "joystick"
      <4> SUFFICES ASSUME NEW p \in 1 .. Len(usbJoy) PROVE device'[<<usbJoy[p], 0>>] = "joystick"
        OBVIOUS
      <4>1. usbJoy[p] \in Addrs /\ device[<<usbJoy[p], 0>>] = "joystick"
        BY <1>1 DEF Ports
      <4>2. <<usbJoy[p], 0>> \in Keys /\ <<usbJoy[p], 0>> # k
        BY <2>2, <4>1 DEF Keys
      <4> QED
        BY <1>1, <2>1, <4>1, <4>2
    <3>2. CASE type = "joystick"
      <4>1. device'[<<a, 0>>] = "joystick"
        BY <1>1, <2>1, <2>2, <3>2
      <4>2. usbJoy' = AssignSlot(usbJoy, a)
        BY <2>1, <3>2
      <4>3. /\ usbJoy \in Seq(Addrs) /\ Len(usbJoy) <= 2 /\ Distinct(usbJoy)
        BY <1>1 DEF Ports
      <4>4. /\ usbJoy' \in Seq(Addrs) /\ Len(usbJoy') <= 2 /\ Distinct(usbJoy')
            /\ \A p \in 1 .. Len(usbJoy') :
                 usbJoy'[p] = a \/ \E q \in 1 .. Len(usbJoy) : usbJoy'[p] = usbJoy[q]
        <5>1. /\ AssignSlot(usbJoy, a) \in Seq(Addrs) /\ Len(AssignSlot(usbJoy, a)) <= 2
              /\ Distinct(AssignSlot(usbJoy, a))
              /\ \A p \in 1 .. Len(AssignSlot(usbJoy, a)) :
                   \/ AssignSlot(usbJoy, a)[p] = a
                   \/ \E q \in 1 .. Len(usbJoy) : AssignSlot(usbJoy, a)[p] = usbJoy[q]
          BY <4>3, Assigned
        <5> QED
          BY <4>2, <5>1, Zenon
      <4>5. \A p \in 1 .. Len(usbJoy') : device'[<<usbJoy'[p], 0>>] = "joystick"
        BY <3>1, <4>1, <4>4
      <4> QED
        BY <4>4, <4>5 DEF Ports
    <3>3. CASE type # "joystick"
      BY <1>1, <2>1, <3>1, <3>3 DEF Ports
    <3> QED
      BY <3>2, <3>3
  <2> QED
    BY <2>6, <2>7, <2>8, <2>9, <2>10 DEF Registry
<1> QED
  BY <1>2, <1>3

-------------------------------------------------------------------------------
(* A device comes. *)

ItfNames == MouseItfs \cup {"keyboard", "stick", "pad", "other", "mute"}

LEMMA InterfaceNames ==
  ASSUME NEW kind \in Kinds, NEW n \in Nat, n < Len(Interfaces(kind))
  PROVE  Interfaces(kind)[n + 1] \in ItfNames
<1>1. kind \in {"keyboard", "mouse", "boot_mouse", "odd_mouse", "stick", "pad", "combo", "receiver"}
  BY HidHostAssumption
<1>2. /\ <<"keyboard">> \in Seq(ItfNames) /\ <<"mouse">> \in Seq(ItfNames)
      /\ <<"boot_mouse">> \in Seq(ItfNames) /\ <<"odd_mouse">> \in Seq(ItfNames)
      /\ <<"stick">> \in Seq(ItfNames) /\ <<"pad">> \in Seq(ItfNames)
      /\ <<"keyboard", "mouse">> \in Seq(ItfNames)
      /\ <<"keyboard", "mouse", "other", "mute">> \in Seq(ItfNames)
  BY DEF ItfNames, MouseItfs
<1>3. Interfaces(kind) \in
        { <<"keyboard">>, <<"mouse">>, <<"boot_mouse">>, <<"odd_mouse">>, <<"stick">>, <<"pad">>,
          <<"keyboard", "mouse">>, <<"keyboard", "mouse", "other", "mute">> }
  BY <1>1 DEF Interfaces
<1>4. Interfaces(kind) \in Seq(ItfNames)
  BY <1>2, <1>3, Zenon
<1> QED
  BY <1>4

LEMMA NewSlotType ==
  ASSUME NEW a \in Addrs, NEW inst \in Nat, NEW itf \in ItfNames
  PROVE  /\ NewSlot(a, inst, itf) \in SlotRecords
         /\ NewSlot(a, inst, itf).mounted /\ NewSlot(a, inst, itf).addr = a
         /\ NewSlot(a, inst, itf).inst = inst /\ NewSlot(a, inst, itf).dest = NoKey
<1>1. TypeOf(itf) \in Types \cup {"undefined"}
  BY DEF TypeOf, Types, ItfNames, MouseItfs
<1>2. (itf \in {"mouse", "odd_mouse", "stick", "other"}) \in BOOLEAN
  OBVIOUS
<1> QED
  BY <1>1, <1>2 DEF NewSlot, SlotRecords, ItfNames, MouseItfs

\* tuh_hid_mount_cb puts the next interface of a device into a free slot.
LEMMA SlotTaken ==
  ASSUME IInv, closing = <<>>, NEW a \in Addrs, usb[a] # "none", NEW itf \in ItfNames,
         NEW i \in SlotIds, ~slots[i].mounted
  PROVE  Sound([slots EXCEPT ![i] = NewSlot(a, opened[a], itf)], Held, usb,
               [opened EXCEPT ![a] = @ + 1], <<>>)
<1> DEFINE n == NewSlot(a, opened[a], itf)
           s == [slots EXCEPT ![i] = n]
           o == [opened EXCEPT ![a] = @ + 1]
<1>1. opened \in [Addrs -> Nat] /\ slots \in [SlotIds -> SlotRecords] /\ opened[a] \in Nat
  BY DEF IInv, Bus, Sound
<1>2. /\ n \in SlotRecords /\ n.mounted /\ n.addr = a /\ n.inst = opened[a] /\ n.dest = NoKey
  BY <1>1, NewSlotType
<1> HIDE DEF n
<1>3. s \in [SlotIds -> SlotRecords] /\ s[i] = n /\ \A j \in SlotIds \ {i} : s[j] = slots[j]
  BY <1>1, <1>2
<1>4. o[a] = opened[a] + 1 /\ \A b \in Addrs \ {a} : o[b] = opened[b]
  BY <1>1
<1>5. /\ \A j \in SlotIds : IF slots[j].mounted
           THEN slots[j].addr \in Addrs /\ usb[slots[j].addr] # "none"
                /\ slots[j].inst < opened[slots[j].addr]
           ELSE slots[j] = FreeSlot
      /\ \A j, l \in SlotIds : slots[j].mounted /\ slots[l].mounted /\ slots[j].addr = slots[l].addr
                                 /\ slots[j].inst = slots[l].inst => j = l
  BY DEF IInv, Sound, Open
<1>6. \A j \in SlotIds : slots[j].inst \in Nat
  BY <1>1 DEF SlotRecords
<1> HIDE DEF s, o
<1>7. Open(s, usb, o, <<>>)
  <2>1. \A j \in SlotIds : IF s[j].mounted
           THEN s[j].addr \in Addrs /\ usb[s[j].addr] # "none" /\ s[j].inst < o[s[j].addr]
           ELSE s[j] = FreeSlot
    <3> SUFFICES ASSUME NEW j \in SlotIds
                 PROVE  IF s[j].mounted
                          THEN s[j].addr \in Addrs /\ usb[s[j].addr] # "none" /\ s[j].inst < o[s[j].addr]
                          ELSE s[j] = FreeSlot
      OBVIOUS
    <3>1. CASE j = i
      BY <1>1, <1>2, <1>3, <1>4, <3>1
    <3>2. CASE j # i
      <4>1. s[j] = slots[j]
        BY <1>3, <3>2
      <4>2. slots[j].mounted => opened[slots[j].addr] <= o[slots[j].addr] /\ opened[slots[j].addr] \in Nat
                                /\ o[slots[j].addr] \in Nat
        BY <1>1, <1>4, <1>5
      <4> QED
        BY <1>5, <1>6, <4>1, <4>2
    <3> QED
      BY <3>1, <3>2
  <2>2. \A j, l \in SlotIds : s[j].mounted /\ s[l].mounted /\ s[j].addr = s[l].addr
                                /\ s[j].inst = s[l].inst => j = l
    <3>1. \A j \in SlotIds \ {i} : slots[j].mounted /\ slots[j].addr = a => slots[j].inst # opened[a]
      BY <1>1, <1>5, <1>6
    <3> QED
      BY <1>2, <1>3, <1>5, <3>1
  <2> QED
    BY <2>1, <2>2 DEF Open
<1>8. Live(s, Held)
  BY <1>2, <1>3 DEF IInv, Sound, Live
<1>9. Backed(s, Held)
  <2> SUFFICES ASSUME NEW k \in Held
               PROVE  \E j \in SlotIds : s[j].mounted /\ s[j].addr = k[1]
    BY DEF Backed
  <2>1. PICK j \in SlotIds : slots[j].mounted /\ slots[j].addr = k[1]
    BY DEF IInv, Sound, Backed
  <2> QED
    BY <1>3, <2>1
<1>10. Sound(s, Held, usb, o, <<>>)
  BY <1>3, <1>7, <1>8, <1>9 DEF Sound
<1> QED
  BY <1>10 DEF s, o, n

LEMMA MountStep == ASSUME IInv, NEW a \in Addrs, Mount(a) PROVE IInv'
<1> DEFINE inst == opened[a]
           itf == Interfaces(usb[a])[inst + 1]
           free == Lowest({i \in SlotIds : ~slots[i].mounted})
<1>1. /\ closing = <<>> /\ usb[a] # "none" /\ inst < Len(Interfaces(usb[a]))
      /\ opened' = [opened EXCEPT ![a] = @ + 1]
      /\ UNCHANGED <<usb, closing, phase, fresh>>
  BY DEF Mount, InTask, Enumerating
<1>2. Bus'
  BY <1>1 DEF IInv, Bus
<1>3. itf \in ItfNames
  <2>1. usb[a] \in Kinds /\ inst \in Nat
    BY <1>1 DEF IInv, Bus
  <2> QED
    BY <1>1, <2>1, InterfaceNames
<1>4. CASE free = {}
  <2>1. UNCHANGED <<slots, device, count, usbJoy>>
    BY <1>4 DEF Mount
  <2>2. Registry' /\ Held' = Held
    BY <2>1 DEF IInv, Registry, Counted, OfType, MarkedMice, Held
  <2>3. \A b \in Addrs : opened[b] \in Nat /\ opened'[b] \in Nat /\ opened[b] <= opened'[b]
    BY <1>1 DEF IInv, Bus
  <2>4. Open(slots, usb', opened', closing')
    <3>1. Open(slots, usb, opened, closing) /\ \A j \in SlotIds : slots[j].inst \in Nat
      BY DEF IInv, Sound, SlotRecords
    <3> QED
      BY <1>1, <2>3, <3>1 DEF Open
  <2> QED
    BY <1>2, <2>1, <2>2, <2>4 DEF IInv, Sound
<1>5. CASE free # {}
  <2> DEFINE i == CHOOSE i \in free : TRUE
             s == [slots EXCEPT ![i] = NewSlot(a, inst, itf)]
             isMouse == itf \in {"mouse", "boot_mouse"}
  <2>1. i \in SlotIds /\ ~slots[i].mounted
    <3>1. i \in free
      BY <1>5
    <3> QED
      BY <3>1 DEF Lowest
  <2>2. MountedCb(s, a, isMouse) \/ (slots' = s /\ UNCHANGED <<device, count, usbJoy>>)
    BY <1>5 DEF Mount
  <2> HIDE DEF i, free, itf
  <2>3. Sound(s, Held, usb', opened', closing')
    BY <1>1, <1>3, <2>1, SlotTaken
  <2>4. s[i].mounted /\ s[i].addr = a
    <3>1. s[i] = NewSlot(a, inst, itf)
      BY <2>1 DEF IInv, Sound
    <3>2. inst \in Nat
      BY DEF IInv, Bus
    <3> QED
      BY <1>3, <3>1, <3>2, NewSlotType
  <2>5. isMouse \in BOOLEAN
    OBVIOUS
  <2> HIDE DEF s, isMouse
  <2>6. CASE MountedCb(s, a, isMouse)
    <3>1. Sound(slots', Held', usb', opened', closing') /\ Registry'
      BY <2>1, <2>3, <2>4, <2>5, <2>6, MountedCbSound
    <3> QED
      BY <1>2, <3>1 DEF IInv
  <2>7. CASE slots' = s /\ UNCHANGED <<device, count, usbJoy>>
    <3>1. Registry' /\ Held' = Held
      BY <2>7 DEF IInv, Registry, Counted, OfType, MarkedMice, Held
    <3> QED
      BY <1>2, <2>3, <2>7, <3>1 DEF IInv
  <2> QED
    BY <2>2, <2>6, <2>7
<1> QED
  BY <1>4, <1>5

-------------------------------------------------------------------------------
(* A device goes. *)

\* tuh_hid_unmounted_cb forgets the device altogether.
LEMMA UnmountedCbForgets ==
  ASSUME Registry, fresh \subseteq Keys, NEW a \in Addrs, UnmountedCb(a)
  PROVE  /\ Registry' /\ fresh' \subseteq Keys
         /\ Held' = {k \in Held : k[1] # a}
<1>1. Registered(a) = {k \in Held : k[1] = a}
  BY DEF Registered, Held, Keys
<1>2. Registered(a) \in SUBSET Keys
  BY <1>1 DEF Held
<1>3. device' = [k \in Keys |-> IF k \in Registered(a) THEN "none" ELSE device[k]]
  BY DEF UnmountedCb
<1>4. Held' = {k \in Held : k[1] # a}
  BY <1>1, <1>3 DEF Held
<1>5. Counted' /\ count' \in [Types -> Int]
  BY <1>2, <1>3, CountedFewer DEF UnmountedCb
<1>6. device' \in [Keys -> Types \cup {"none"}] /\ MarkedMice'
  BY <1>3 DEF Registry, MarkedMice
<1>7. /\ usbJoy \in Seq(Addrs) /\ Len(usbJoy) <= 2 /\ Distinct(usbJoy)
      /\ \A q \in 1 .. Len(usbJoy) : device[<<usbJoy[q], 0>>] = "joystick" /\ usbJoy[q] \in Addrs
  BY DEF Registry, Ports
<1>8. \A b \in Addrs : b # a => device'[<<b, 0>>] = device[<<b, 0>>]
  BY <1>1, <1>3 DEF Keys
<1>9. Ports(usbJoy', device')
  <2>1. CASE \E k \in Registered(a) : device[k] = "joystick"
    <3>1. usbJoy' = ReleaseSlot(usbJoy, a)
      BY <2>1 DEF UnmountedCb
    <3>2. /\ usbJoy' \in Seq(Addrs) /\ Len(usbJoy') <= 2 /\ Distinct(usbJoy')
          /\ \A p \in 1 .. Len(usbJoy') :
               usbJoy'[p] # a /\ \E q \in 1 .. Len(usbJoy) : usbJoy'[p] = usbJoy[q]
      <4>1. /\ usbJoy \in Seq(Addrs) /\ Len(usbJoy) <= 2 /\ Distinct(usbJoy)
        BY <1>7
      <4>2. \A p \in 1 .. Len(ReleaseSlot(usbJoy, a)) :
              /\ ReleaseSlot(usbJoy, a)[p] # a
              /\ \E q \in 1 .. Len(usbJoy) : ReleaseSlot(usbJoy, a)[p] = usbJoy[q]
        BY <4>1, Released
      <4>3. /\ ReleaseSlot(usbJoy, a) \in Seq(Addrs)
            /\ Len(ReleaseSlot(usbJoy, a)) <= 2 /\ Distinct(ReleaseSlot(usbJoy, a))
        BY <4>1, Released
      <4> QED
        BY <3>1, <4>2, <4>3
    <3>3. \A p \in 1 .. Len(usbJoy') : device'[<<usbJoy'[p], 0>>] = "joystick"
      BY <1>7, <1>8, <3>2
    <3> QED
      BY <3>2, <3>3 DEF Ports
  <2>2. CASE ~ \E k \in Registered(a) : device[k] = "joystick"
    <3>1. usbJoy' = usbJoy
      BY <2>2 DEF UnmountedCb
    <3>2. \A q \in 1 .. Len(usbJoy) : usbJoy[q] # a
      <4> SUFFICES ASSUME NEW q \in 1 .. Len(usbJoy), usbJoy[q] = a PROVE FALSE
        OBVIOUS
      <4>1. device[<<a, 0>>] = "joystick"
        BY <1>7
      <4>2. <<a, 0>> \in Registered(a)
        BY <4>1 DEF Registered
      <4> QED
        BY <2>2, <4>1, <4>2
    <3>3. \A q \in 1 .. Len(usbJoy) : device'[<<usbJoy[q], 0>>] = "joystick"
      BY <1>7, <1>8, <3>2
    <3> QED
      BY <1>7, <3>1, <3>3 DEF Ports
  <2> QED
    BY <2>1, <2>2
<1>10. fresh' \subseteq Keys
  BY DEF UnmountedCb
<1> QED
  BY <1>4, <1>5, <1>6, <1>9, <1>10 DEF Registry

\* tuh_hid_umount_cb frees the slot of one interface, and with the last one the device.
LEMMA UmountSound ==
  ASSUME IInv, NEW a \in Addrs, NEW n \in Nat, closing = <<a, n>>, Umount(a, n)
  PROVE  /\ Registry' /\ fresh' \subseteq Keys
         /\ Sound(slots', Held', usb, opened, <<a, n + 1>>)
<1> DEFINE found == {i \in SlotIds : slots[i].mounted /\ slots[i].addr = a /\ slots[i].inst = n}
<1>1. slots \in [SlotIds -> SlotRecords] /\ \A j \in SlotIds : slots[j].inst \in Nat
  BY DEF IInv, Sound, SlotRecords
<1>2. /\ \A j \in SlotIds : IF slots[j].mounted
           THEN slots[j].addr \in Addrs /\ usb[slots[j].addr] # "none"
                /\ slots[j].inst < opened[slots[j].addr]
                /\ (slots[j].addr = a => n <= slots[j].inst)
           ELSE slots[j] = FreeSlot
      /\ \A j, l \in SlotIds : slots[j].mounted /\ slots[l].mounted /\ slots[j].addr = slots[l].addr
                                 /\ slots[j].inst = slots[l].inst => j = l
  BY DEF IInv, Sound, Open
<1>3. Registry /\ fresh \subseteq Keys /\ Live(slots, Held) /\ Backed(slots, Held)
  BY DEF IInv, Bus, Sound
<1>4. CASE found = {}
  <2>1. UNCHANGED <<slots, device, count, usbJoy, fresh>>
    BY <1>4 DEF Umount
  <2>2. Registry' /\ Held' = Held
    BY <1>3, <2>1 DEF Registry, Counted, OfType, MarkedMice, Held
  <2>3. \A j \in SlotIds : slots[j].mounted /\ slots[j].addr = a => n + 1 <= slots[j].inst
    BY <1>1, <1>2, <1>4
  <2>4. Open(slots, usb, opened, <<a, n + 1>>)
    BY <1>2, <2>3 DEF Open
  <2> QED
    BY <1>1, <1>3, <2>1, <2>2, <2>4 DEF Sound
<1>5. CASE found # {}
  <2> DEFINE i == CHOOSE i \in found : TRUE
  <2>1. i \in SlotIds /\ slots[i].mounted /\ slots[i].addr = a /\ slots[i].inst = n
    <3>1. i \in found
      BY <1>5
    <3> QED
      BY <3>1
  <2>2. /\ slots' = [slots EXCEPT ![i] = FreeSlot]
        /\ IF Others(slots, i) = {} THEN UnmountedCb(a) ELSE UNCHANGED <<device, count, usbJoy, fresh>>
    BY <1>5 DEF Umount
  <2> HIDE DEF i, found
  <2>3. FreeSlot \in SlotRecords /\ ~FreeSlot.mounted /\ FreeSlot.dest = NoKey
    BY DEF FreeSlot, SlotRecords
  <2>4. /\ slots' \in [SlotIds -> SlotRecords] /\ slots'[i] = FreeSlot
        /\ \A j \in SlotIds \ {i} : slots'[j] = slots[j]
    BY <1>1, <2>1, <2>2, <2>3
  <2>5. Open(slots', usb, opened, <<a, n + 1>>)
    <3>1. \A j \in SlotIds \ {i} : slots[j].mounted /\ slots[j].addr = a => n + 1 <= slots[j].inst
      BY <1>1, <1>2, <2>1
    <3> QED
      BY <1>2, <2>3, <2>4, <3>1 DEF Open
  <2>6. CASE Others(slots, i) = {}
    <3>1. Registry' /\ fresh' \subseteq Keys /\ Held' = {k \in Held : k[1] # a}
      BY <1>3, <2>2, <2>6, UnmountedCbForgets
    <3>2. \A j \in SlotIds \ {i} : slots[j].mounted => slots[j].addr # a
      BY <2>1, <2>6 DEF Others
    <3>3. Live(slots', Held')
      BY <1>3, <2>3, <2>4, <3>1, <3>2 DEF Live
    <3>4. Backed(slots', Held')
      <4> SUFFICES ASSUME NEW k \in Held, k[1] # a
                   PROVE  \E j \in SlotIds : slots'[j].mounted /\ slots'[j].addr = k[1]
        BY <3>1 DEF Backed
      <4>1. PICK j \in SlotIds : slots[j].mounted /\ slots[j].addr = k[1]
        BY <1>3 DEF Backed
      <4> QED
        BY <2>1, <2>4, <4>1
    <3> QED
      BY <2>4, <2>5, <3>1, <3>3, <3>4 DEF Sound
  <2>7. CASE Others(slots, i) # {}
    <3>1. UNCHANGED <<device, count, usbJoy, fresh>>
      BY <2>2, <2>7
    <3>2. Registry' /\ Held' = Held
      BY <1>3, <3>1 DEF Registry, Counted, OfType, MarkedMice, Held
    <3>3. Live(slots', Held)
      BY <1>3, <2>3, <2>4 DEF Live
    <3>4. Backed(slots', Held)
      <4> SUFFICES ASSUME NEW k \in Held
                   PROVE  \E j \in SlotIds : slots'[j].mounted /\ slots'[j].addr = k[1]
        BY DEF Backed
      <4>1. PICK j \in SlotIds : slots[j].mounted /\ slots[j].addr = k[1]
        BY <1>3 DEF Backed
      <4>2. CASE j # i
        BY <2>4, <4>1, <4>2
      <4>3. CASE j = i
        <5>1. PICK l \in SlotIds \ {i} : slots[l].mounted /\ slots[l].addr = slots[i].addr
          BY <2>7 DEF Others
        <5> QED
          BY <2>4, <4>1, <4>3, <5>1
      <4> QED
        BY <4>2, <4>3
    <3> QED
      BY <1>3, <2>4, <2>5, <3>1, <3>2, <3>3, <3>4 DEF Sound
  <2> QED
    BY <2>6, <2>7
<1> QED
  BY <1>4, <1>5

LEMMA CloseStep == IInv /\ CloseNext => IInv'
<1> SUFFICES ASSUME IInv, CloseNext PROVE IInv'
  OBVIOUS
<1>1. PICK a \in Addrs, n \in Nat : closing = <<a, n>>
  BY DEF CloseNext, IInv, Bus
<1>2. closing[1] = a /\ closing[2] = n /\ phase' = phase
  BY <1>1 DEF CloseNext
<1>3. CASE n < opened[a]
  <2>1. Umount(a, n) /\ closing' = <<a, n + 1>> /\ UNCHANGED <<usb, opened>>
    BY <1>2, <1>3 DEF CloseNext
  <2>2. Registry' /\ fresh' \subseteq Keys /\ Sound(slots', Held', usb, opened, <<a, n + 1>>)
    BY <1>1, <2>1, UmountSound
  <2>3. Bus'
    BY <1>2, <2>1, <2>2 DEF IInv, Bus
  <2> QED
    BY <2>1, <2>2, <2>3 DEF IInv
<1>4. CASE ~(n < opened[a])
  <2>1. /\ usb' = [usb EXCEPT ![a] = "none"] /\ opened' = [opened EXCEPT ![a] = 0] /\ closing' = <<>>
        /\ UNCHANGED <<slots, device, count, usbJoy, fresh>>
    BY <1>2, <1>4 DEF CloseNext
  <2>2. Registry' /\ Held' = Held
    BY <2>1 DEF IInv, Registry, Counted, OfType, MarkedMice, Held
  <2>3. Bus'
    BY <1>2, <2>1 DEF IInv, Bus
  <2>4. \A j \in SlotIds : slots[j].mounted => slots[j].addr # a
    <3>1. slots \in [SlotIds -> SlotRecords] /\ \A j \in SlotIds : slots[j].inst \in Nat
      BY DEF IInv, Sound, SlotRecords
    <3>2. opened[a] \in Nat
      BY DEF IInv, Bus
    <3>3. \A j \in SlotIds : slots[j].mounted /\ slots[j].addr = a =>
                                slots[j].inst < opened[a] /\ n <= slots[j].inst
      BY <1>1, <1>2 DEF IInv, Sound, Open
    <3> QED
      BY <1>4, <3>1, <3>2, <3>3
  <2>5. Open(slots, usb', opened', closing')
    <3>1. \A b \in Addrs \ {a} : usb'[b] = usb[b] /\ opened'[b] = opened[b]
      BY <2>1 DEF IInv, Bus
    <3>2. Open(slots, usb, opened, closing)
      BY DEF IInv, Sound
    <3> QED
      BY <2>1, <2>4, <3>1, <3>2 DEF Open
  <2> QED
    BY <2>1, <2>2, <2>3, <2>5 DEF IInv, Sound
<1> QED
  BY <1>3, <1>4

-------------------------------------------------------------------------------
(* Reports and handlers. *)

\* A step that only fills or hands out buffers.
LEMMA BufferStep ==
  ASSUME IInv, Sound(slots', Held, usb, opened, closing), fresh' \subseteq Keys,
         phase' \in {"usb", "keyboard", "mouse", "joystick"},
         UNCHANGED <<usb, opened, closing, device, count, usbJoy>>
  PROVE  IInv'
<1>1. Registry' /\ Held' = Held
  BY DEF IInv, Registry, Counted, OfType, MarkedMice, Held
<1>2. Bus'
  BY DEF IInv, Bus
<1> QED
  BY <1>1, <1>2 DEF IInv

LEMMA HandlerSound ==
  ASSUME IInv, Armed(slots, slots', Held)
  PROVE  Sound(slots', Held, usb, opened, closing)
<1>1. Held \in SUBSET Keys
  BY DEF Held
<1> QED
  BY <1>1, ArmedSound DEF IInv

\* handle_keyboard re-arms with the key it found the interface by,
LEMMA KeyboardStep == IInv /\ HandleKeyboard => IInv'
<1> SUFFICES ASSUME IInv, HandleKeyboard PROVE IInv'
  OBVIOUS
<1> DEFINE ready == {k \in Held : GetType(slots, k) = "keyboard" /\ IsMounted(slots, k) /\ ~IsBusy(slots, k)}
<1>1. /\ fresh' = fresh \ ready /\ phase' = "mouse"
      /\ slots' = [i \in SlotIds |->
                     IF \E k \in ready : i \in Find(slots, k)
                       THEN [slots[i] EXCEPT !.dest = CHOOSE k \in ready : i \in Find(slots, k)]
                       ELSE slots[i]]
      /\ UNCHANGED <<usb, opened, closing, device, count, usbJoy>>
  BY DEF HandleKeyboard
<1>2. ready \subseteq Held
  OBVIOUS
<1> HIDE DEF ready
<1>3. Armed(slots, slots', Held)
  <2> SUFFICES ASSUME NEW i \in SlotIds, \E k \in ready : i \in Find(slots, k)
               PROVE  \E k \in Held : slots[i].mounted /\ slots[i].addr = k[1]
                                        /\ slots'[i] = [slots[i] EXCEPT !.dest = k]
    BY <1>1 DEF Armed
  <2> DEFINE k == CHOOSE k \in ready : i \in Find(slots, k)
  <2>1. k \in ready /\ i \in Find(slots, k)
    OBVIOUS
  <2>2. slots'[i] = [slots[i] EXCEPT !.dest = k]
    BY <1>1
  <2> HIDE DEF k
  <2> QED
    BY <1>2, <2>1, <2>2, Found
<1> QED
  BY <1>1, <1>3, HandlerSound, BufferStep DEF IInv, Bus

\* handle_mouse with the key of the plain address's device,
LEMMA MouseStep == IInv /\ HandleMouse => IInv'
<1> SUFFICES ASSUME IInv, HandleMouse PROVE IInv'
  OBVIOUS
<1>1. PICK armed \in SUBSET Held :
         slots' = [i \in SlotIds |->
                     IF \E k \in armed : i \in Find(slots, Plain(k))
                       THEN [slots[i] EXCEPT
                               !.dest = CHOOSE k \in armed : i \in Find(slots, Plain(k))]
                       ELSE slots[i]]
  <2> DEFINE ready == {k \in Held : /\ GetType(slots, k) = "mouse"
                                    /\ IsMounted(slots, Plain(k)) /\ ~IsBusy(slots, Plain(k))}
             armed == {k \in ready : k = Plain(k) \/ Plain(k) \notin ready}
  <2>1. armed \in SUBSET Held
    OBVIOUS
  <2>2. slots' = [i \in SlotIds |->
                     IF \E k \in armed : i \in Find(slots, Plain(k))
                       THEN [slots[i] EXCEPT
                               !.dest = CHOOSE k \in armed : i \in Find(slots, Plain(k))]
                       ELSE slots[i]]
    BY DEF HandleMouse
  <2> HIDE DEF armed
  <2> QED
    BY <2>1, <2>2
<1>2. fresh' \subseteq fresh /\ phase' = "joystick" /\ UNCHANGED <<usb, opened, closing, device, count, usbJoy>>
  BY DEF HandleMouse
<1>3. Armed(slots, slots', Held)
  <2> SUFFICES ASSUME NEW i \in SlotIds, \E k \in armed : i \in Find(slots, Plain(k))
               PROVE  \E k \in Held : slots[i].mounted /\ slots[i].addr = k[1]
                                        /\ slots'[i] = [slots[i] EXCEPT !.dest = k]
    BY <1>1 DEF Armed
  <2> DEFINE k == CHOOSE k \in armed : i \in Find(slots, Plain(k))
  <2>1. k \in armed /\ i \in Find(slots, Plain(k))
    OBVIOUS
  <2>2. slots'[i] = [slots[i] EXCEPT !.dest = k]
    BY <1>1
  <2>3. Plain(k)[1] = k[1]
    BY DEF Plain
  <2> HIDE DEF k
  <2> QED
    BY <2>1, <2>2, <2>3, Found
<1> QED
  BY <1>2, <1>3, HandlerSound, BufferStep DEF IInv, Bus

\* handle_joystick with the plain key of a port's address.
LEMMA JoystickStep == IInv /\ HandleJoystick => IInv'
<1> SUFFICES ASSUME IInv, HandleJoystick PROVE IInv'
  OBVIOUS
<1>1. PICK ports \in SUBSET (1 .. Len(usbJoy)) :
        LET ready == {k \in {<<usbJoy[p], 0>> : p \in ports} :
                        /\ device[k] # "none"
                        /\ IsMounted(slots, k) /\ ~IsBusy(slots, k)
                        /\ HasInfo(slots, k)}
        IN /\ fresh' = fresh \ ready
           /\ slots' = [i \in SlotIds |->
                          IF \E k \in ready : i \in Find(slots, k)
                            THEN [slots[i] EXCEPT !.dest = CHOOSE k \in ready : i \in Find(slots, k)]
                            ELSE slots[i]]
  BY DEF HandleJoystick
<1> DEFINE ready == {k \in {<<usbJoy[p], 0>> : p \in ports} :
                       /\ device[k] # "none"
                       /\ IsMounted(slots, k) /\ ~IsBusy(slots, k)
                       /\ HasInfo(slots, k)}
<1>2. /\ phase' = "usb" /\ UNCHANGED <<usb, opened, closing, device, count, usbJoy>>
      /\ fresh' = fresh \ ready
      /\ slots' = [i \in SlotIds |->
                     IF \E k \in ready : i \in Find(slots, k)
                       THEN [slots[i] EXCEPT !.dest = CHOOSE k \in ready : i \in Find(slots, k)]
                       ELSE slots[i]]
  BY <1>1 DEF HandleJoystick
<1>3. ready \subseteq Held
  <2>1. \A p \in ports : usbJoy[p] \in Addrs
    BY DEF IInv, Registry, Ports
  <2> QED
    BY <2>1 DEF Held, Keys
<1> HIDE DEF ready
<1>4. Armed(slots, slots', Held)
  <2> SUFFICES ASSUME NEW i \in SlotIds, \E k \in ready : i \in Find(slots, k)
               PROVE  \E k \in Held : slots[i].mounted /\ slots[i].addr = k[1]
                                        /\ slots'[i] = [slots[i] EXCEPT !.dest = k]
    BY <1>2 DEF Armed
  <2> DEFINE k == CHOOSE k \in ready : i \in Find(slots, k)
  <2>1. k \in ready /\ i \in Find(slots, k)
    OBVIOUS
  <2>2. slots'[i] = [slots[i] EXCEPT !.dest = k]
    BY <1>2
  <2> HIDE DEF k
  <2> QED
    BY <1>3, <2>1, <2>2, Found
<1> QED
  BY <1>2, <1>4, HandlerSound, BufferStep DEF IInv, Bus

\* A report goes into the buffer that was asked for, which is then no longer lent.
LEMMA ReportStep == ASSUME IInv, NEW i \in SlotIds, Report(i) PROVE IInv'
<1>1. /\ slots' = [slots EXCEPT ![i].dest = NoKey] /\ slots[i].mounted
      /\ fresh' = fresh \cup {slots[i].dest} /\ slots[i].dest # NoKey
      /\ UNCHANGED <<usb, opened, closing, phase, device, count, usbJoy>>
  BY DEF Report
<1>2. slots \in [SlotIds -> SlotRecords] /\ slots[i] \in SlotRecords
  BY DEF IInv, Sound
<1> DEFINE r == [slots[i] EXCEPT !.dest = NoKey]
<1>3. /\ r \in SlotRecords /\ r.mounted = slots[i].mounted /\ r.addr = slots[i].addr
      /\ r.inst = slots[i].inst /\ r.dest = NoKey
  BY <1>2 DEF SlotRecords
<1>4. slots' = [slots EXCEPT ![i] = r]
  BY <1>1
<1> HIDE DEF r
<1>5. /\ slots' \in [SlotIds -> SlotRecords] /\ slots'[i] = r
      /\ \A j \in SlotIds \ {i} : slots'[j] = slots[j]
  BY <1>2, <1>3, <1>4
<1>6. Open(slots', usb, opened, closing)
  BY <1>1, <1>3, <1>5 DEF IInv, Sound, Open
<1>7. Live(slots', Held)
  BY <1>3, <1>5 DEF IInv, Sound, Live
<1>8. Backed(slots', Held)
  BY <1>3, <1>5 DEF IInv, Sound, Backed
<1>9. fresh' \subseteq Keys
  BY <1>1, <1>2 DEF IInv, Bus, SlotRecords
<1> QED
  BY <1>1, <1>5, <1>6, <1>7, <1>8, <1>9, BufferStep DEF Sound, IInv, Bus

\* A plug, and the announcement of a removal.
LEMMA PlugStep == ASSUME IInv, NEW a \in Addrs, Plug(a) PROVE IInv'
<1>1. PICK kind \in Kinds : usb' = [usb EXCEPT ![a] = kind]
  BY DEF Plug
<1>2. /\ closing = <<>> /\ usb[a] = "none"
      /\ UNCHANGED <<opened, closing, phase, slots, device, count, usbJoy, fresh>>
  BY DEF Plug, InTask
<1>3. Bus'
  BY <1>1, <1>2 DEF IInv, Bus
<1>4. Registry' /\ Held' = Held
  BY <1>2 DEF IInv, Registry, Counted, OfType, MarkedMice, Held
<1>5. \A b \in Addrs : usb[b] # "none" => usb'[b] = usb[b]
  BY <1>1, <1>2 DEF IInv, Bus
<1>6. Open(slots, usb', opened, closing)
  BY <1>5 DEF IInv, Sound, Open
<1> QED
  BY <1>2, <1>3, <1>4, <1>6 DEF IInv, Sound

LEMMA UnplugStep == ASSUME IInv, NEW a \in Addrs, Unplug(a) PROVE IInv'
<1>1. /\ closing = <<>> /\ closing' = <<a, 0>>
      /\ UNCHANGED <<usb, opened, phase, slots, device, count, usbJoy, fresh>>
  BY DEF Unplug, InTask
<1>2. Bus'
  BY <1>1 DEF IInv, Bus
<1>3. Registry' /\ Held' = Held
  BY <1>1 DEF IInv, Registry, Counted, OfType, MarkedMice, Held
<1>4. Open(slots, usb, opened, <<a, 0>>)
  <2>1. \A j \in SlotIds : slots[j].inst \in Nat
    BY DEF IInv, Sound, SlotRecords
  <2> QED
    BY <2>1 DEF IInv, Sound, Open
<1> QED
  BY <1>1, <1>2, <1>3, <1>4 DEF IInv, Sound

-------------------------------------------------------------------------------
LEMMA Initially == Init => IInv
<1> SUFFICES ASSUME Init PROVE IInv
  OBVIOUS
<1> USE DEF Init
<1>1. Bus
  BY DEF Bus
<1>2. Held = {}
  BY DEF Held
<1>3. Counted
  <2> SUFFICES ASSUME NEW t \in Types PROVE IsFiniteSet(OfType(t)) /\ count[t] = Cardinality(OfType(t))
    BY DEF Counted
  <2>1. OfType(t) = {}
    BY DEF OfType, Types
  <2>2. count[t] = 0
    OBVIOUS
  <2> QED
    BY <2>1, <2>2, FS_EmptySet
<1>4. Ports(usbJoy, device)
  BY DEF Ports, Distinct
<1>5. Registry
  BY <1>3, <1>4 DEF Registry, MarkedMice
<1>6. FreeSlot \in SlotRecords /\ ~FreeSlot.mounted /\ FreeSlot.dest = NoKey
  BY DEF FreeSlot, SlotRecords
<1>7. slots \in [SlotIds -> SlotRecords] /\ \A i \in SlotIds : slots[i] = FreeSlot
  BY <1>6
<1>8. Sound(slots, {}, usb, opened, closing)
  BY <1>6, <1>7 DEF Sound, Open, Live, Backed
<1> QED
  BY <1>1, <1>2, <1>5, <1>8 DEF IInv

LEMMA Preserved == IInv /\ [Next]_vars => IInv'
<1> SUFFICES ASSUME IInv, [Next]_vars PROVE IInv'
  OBVIOUS
<1>1. CASE \E a \in Addrs : Plug(a) \/ Mount(a) \/ Unplug(a)
  BY <1>1, PlugStep, MountStep, UnplugStep
<1>2. CASE CloseNext
  BY <1>2, CloseStep
<1>3. CASE \E i \in SlotIds : Report(i)
  BY <1>3, ReportStep
<1>4. CASE TaskDone \/ UNCHANGED vars
  <2>1. UNCHANGED <<usb, opened, closing, slots, device, count, usbJoy, fresh>>
    BY <1>4 DEF TaskDone, vars
  <2>2. phase' \in {"usb", "keyboard", "mouse", "joystick"}
    BY <1>4 DEF TaskDone, vars, IInv, Bus
  <2> QED
    BY <2>1, <2>2, BufferStep DEF IInv, Bus
<1>5. CASE HandleKeyboard \/ HandleMouse \/ HandleJoystick
  BY <1>5, KeyboardStep, MouseStep, JoystickStep
<1> QED
  BY <1>1, <1>2, <1>3, <1>4, <1>5 DEF Next

\* With every address empty no slot is taken, so no key is held and nothing counted.
LEMMA NothingStays == IInv => NoLeak
<1> SUFFICES ASSUME IInv, \A a \in Addrs : usb[a] = "none"
             PROVE  /\ \A i \in SlotIds : slots[i] = FreeSlot
                    /\ Held = {} /\ (\A t \in Types : count[t] = 0) /\ usbJoy = <<>>
  BY DEF NoLeak
<1>1. \A i \in SlotIds : slots[i] = FreeSlot
  BY DEF IInv, Sound, Open
<1>2. Held = {}
  BY <1>1 DEF IInv, Sound, Backed, FreeSlot
<1>3. \A t \in Types : count[t] = 0
  <2> SUFFICES ASSUME NEW t \in Types PROVE count[t] = 0
    OBVIOUS
  <2>1. OfType(t) = {}
    BY <1>2 DEF OfType, Held, Types
  <2> QED
    BY <2>1, FS_EmptySet DEF IInv, Registry, Counted
<1>4. usbJoy = <<>>
  <2>1. usbJoy \in Seq(Addrs)
    BY DEF IInv, Registry, Ports
  <2>2. ASSUME NEW p \in 1 .. Len(usbJoy) PROVE FALSE
    <3>1. <<usbJoy[p], 0>> \in Keys /\ device[<<usbJoy[p], 0>>] = "joystick"
      BY <2>1 DEF IInv, Registry, Ports, Keys
    <3> QED
      BY <1>2, <3>1 DEF Held
  <2> QED
    BY <2>1, <2>2
<1> QED
  BY <1>1, <1>2, <1>3, <1>4

LEMMA Consequences == IInv => CountsMatch /\ DestLive /\ NothingLeft /\ PortsHeld
<1> SUFFICES ASSUME IInv PROVE CountsMatch /\ DestLive /\ NothingLeft /\ PortsHeld
  OBVIOUS
<1>1. TypeOK
  BY DEF IInv, Bus, Registry, Ports, Sound, TypeOK
<1>2. CountsMatch
  BY <1>1 DEF CountsMatch, IInv, Registry, Counted, OfType
<1>3. DestLive
  BY DEF DestLive, IInv, Sound, Live
<1>4. NothingLeft
  BY NothingStays DEF NothingLeft, NoOrphan, IInv, Sound, Backed
<1>5. PortsHeld
  BY DEF PortsHeld, IInv, Registry, Ports, Distinct
<1> QED
  BY <1>2, <1>3, <1>4, <1>5

-------------------------------------------------------------------------------
(* The agreement of the table and the map. *)

\* It is claimed where TinyUSB keeps the interfaces of a device together: either
\* nothing is removed while a device is being enumerated, or no device has two.
Together == ~Restless \/ Kinds \cap {"combo", "receiver"} = {}

\* A slot holds what the bus has there.
Described(s, bus) == \A i \in SlotIds : s[i].mounted =>
  /\ s[i].inst < Len(Interfaces(bus[s[i].addr]))
  /\ s[i].itf = Interfaces(bus[s[i].addr])[s[i].inst + 1]
  /\ s[i].type = TypeOf(s[i].itf)

Leaving(left, a) == left # <<>> /\ left[1] = a
Enters(bus, mounted, a) == bus[a] # "none" /\ mounted[a] < Len(Interfaces(bus[a]))
Has(s, i, a, n) == s[i].mounted /\ s[i].addr = a /\ s[i].inst = n

\* The interfaces of a device stand in the table in their order, and none is
\* missing before one that is there.
Ordered(s, left) == \A i \in SlotIds : \A m \in Nat :
  s[i].mounted /\ ~Leaving(left, s[i].addr) /\ m < s[i].inst =>
    \E j \in SlotIds : j < i /\ Has(s, j, s[i].addr, m)

\* While a device is being enumerated every interface it has mounted so far
\* stands before every free slot.
Filling(s, bus, mounted, left) == \A a \in Addrs : \A i \in SlotIds : \A m \in Nat :
  Enters(bus, mounted, a) /\ ~Leaving(left, a) /\ ~s[i].mounted /\ m < mounted[a] =>
    \E j \in SlotIds : j < i /\ Has(s, j, a, m)

\* A device that is removed has nobody else's enumeration to disturb.
Alone(bus, mounted, left) ==
  /\ \A a \in Addrs : bus[a] = "none" => mounted[a] = 0
  /\ \A a \in Addrs : left # <<>> /\ left[1] # a /\ Enters(bus, mounted, a) => mounted[a] = 0

\* The first interface of a device has the plain key, a mouse behind it the marked one.
Keyed(s, dev, left) ==
  /\ \A i \in SlotIds : s[i].mounted /\ ~Leaving(left, s[i].addr) /\ s[i].type \in Types =>
       IF s[i].inst = 0 THEN dev[<<s[i].addr, 0>>] = s[i].type
       ELSE s[i].type = "mouse" /\ dev[<<s[i].addr, 128>>] = "mouse"
  /\ \A a \in Addrs : ~Leaving(left, a) /\ dev[<<a, 128>>] # "none" =>
       \E i \in SlotIds : s[i].mounted /\ s[i].addr = a /\ s[i].inst > 0 /\ s[i].type = "mouse"

AInv ==
  /\ Described(slots, usb) /\ Ordered(slots, closing)
  /\ Filling(slots, usb, opened, closing) /\ Alone(usb, opened, closing)
  /\ Keyed(slots, device, closing)

\* What the claims are about: all fields of the slots but the buffers.
Same(s, s1) == \A i \in SlotIds :
  /\ s1[i].mounted = s[i].mounted /\ s1[i].addr = s[i].addr /\ s1[i].inst = s[i].inst
  /\ s1[i].itf = s[i].itf /\ s1[i].type = s[i].type

LEMMA SameKeeps ==
  ASSUME NEW s, NEW s1, Same(s, s1), NEW bus, NEW mounted, NEW left, NEW dev
  PROVE  /\ Described(s, bus) => Described(s1, bus)
         /\ Ordered(s, left) => Ordered(s1, left)
         /\ Filling(s, bus, mounted, left) => Filling(s1, bus, mounted, left)
         /\ Keyed(s, dev, left) => Keyed(s1, dev, left)
<1>1. Described(s, bus) => Described(s1, bus)
  BY DEF Same, Described
<1>2. Ordered(s, left) => Ordered(s1, left)
  BY DEF Same, Ordered, Has
<1>3. Filling(s, bus, mounted, left) => Filling(s1, bus, mounted, left)
  BY DEF Same, Filling, Has
<1>4. Keyed(s, dev, left) => Keyed(s1, dev, left)
  BY DEF Same, Keyed
<1> QED
  BY <1>1, <1>2, <1>3, <1>4

LEMMA DestOnly ==
  ASSUME NEW r \in SlotRecords, NEW d
  PROVE  LET r1 == [r EXCEPT !.dest = d] IN
         /\ r1.mounted = r.mounted /\ r1.addr = r.addr /\ r1.inst = r.inst
         /\ r1.itf = r.itf /\ r1.type = r.type
BY DEF SlotRecords

LEMMA AskedSame ==
  ASSUME NEW s \in [SlotIds -> SlotRecords], NEW k, NEW b
  PROVE  Same(s, RequestReport(s, k, b))
BY DestOnly DEF RequestReport, Same

\* The devices that are plugged in: the first interface is of a type, and what is
\* behind it is a mouse behind a keyboard or of no type.
LEMMA Devices ==
  ASSUME NEW kind \in Kinds
  PROVE  /\ Len(Interfaces(kind)) \in Nat /\ Len(Interfaces(kind)) > 0
         /\ TypeOf(Interfaces(kind)[1]) \in Types /\ Interfaces(kind)[1] # "mute"
         /\ Interfaces(kind)[1] \in {"mouse", "boot_mouse"} => TypeOf(Interfaces(kind)[1]) = "mouse"
         /\ \A n \in Nat : 0 < n /\ n < Len(Interfaces(kind)) =>
              /\ kind \in {"combo", "receiver"} /\ TypeOf(Interfaces(kind)[1]) = "keyboard"
              /\ \/ n = 1 /\ Interfaces(kind)[n + 1] = "mouse"
                 \/ n # 1 /\ Interfaces(kind)[n + 1] \in {"other", "mute"}
<1> DEFINE list == Interfaces(kind)
<1>0. TypeOf("keyboard") = "keyboard" /\ "keyboard" \in Types
  BY DEF TypeOf, Types, MouseItfs
<1>1. kind \in {"keyboard", "mouse", "boot_mouse", "odd_mouse", "stick", "pad", "combo", "receiver"}
  BY HidHostAssumption
<1>2. CASE kind \notin {"combo", "receiver"}
  <2>1. Len(list) = 1 /\ list[1] \in {"keyboard", "mouse", "boot_mouse", "odd_mouse", "stick", "pad"}
    BY <1>1, <1>2 DEF Interfaces
  <2>2. TypeOf(list[1]) \in Types
    BY <2>1 DEF TypeOf, Types, MouseItfs
  <2>3. list[1] \in {"mouse", "boot_mouse"} => TypeOf(list[1]) = "mouse"
    BY DEF TypeOf, MouseItfs
  <2> QED
    BY <2>1, <2>2, <2>3
<1>3. CASE kind = "combo"
  <2>1. list = <<"keyboard", "mouse">>
    BY <1>3 DEF Interfaces
  <2>2. Len(list) = 2 /\ list[1] = "keyboard" /\ list[2] = "mouse"
    BY <2>1
  <2>3. \A n \in Nat : 0 < n /\ n < 2 => n = 1
    OBVIOUS
  <2>4. \A n \in Nat : 0 < n /\ n < Len(list) => n = 1 /\ list[n + 1] = "mouse"
    BY <2>2, <2>3
  <2>5. Len(list) \in Nat /\ Len(list) > 0
    BY <2>2
  <2> HIDE DEF list
  <2> QED
    BY <1>0, <1>3, <2>2, <2>4, <2>5, Zenon DEF list
<1>4. CASE kind = "receiver"
  <2>1. list = <<"keyboard", "mouse", "other", "mute">>
    BY <1>4 DEF Interfaces
  <2>3. \A n \in Nat : 0 < n /\ n < 4 => n = 1 \/ n = 2 \/ n = 3
    OBVIOUS
  <2>4. Len(list) = 4 /\ list[1] = "keyboard" /\ list[2] = "mouse" /\ list[3] = "other" /\ list[4] = "mute"
    BY <2>1
  <2>5. \A n \in Nat : 0 < n /\ n < Len(list) =>
          \/ n = 1 /\ list[n + 1] = "mouse"
          \/ n # 1 /\ list[n + 1] \in {"other", "mute"}
    BY <2>3, <2>4
  <2>6. Len(list) \in Nat /\ Len(list) > 0
    BY <2>4
  <2> HIDE DEF list
  <2> QED
    BY <1>0, <1>4, <2>4, <2>5, <2>6, Zenon DEF list
<1> QED
  BY <1>1, <1>2, <1>3, <1>4

LEMMA MouseType == TypeOf("mouse") = "mouse" /\ TypeOf("other") = "undefined" /\ TypeOf("mute") = "undefined"
BY DEF TypeOf, MouseItfs

\* What the invariants say of the table, without their names.
LEMMA TableFacts ==
  ASSUME IInv
  PROVE  /\ slots \in [SlotIds -> SlotRecords] /\ opened \in [Addrs -> Nat]
         /\ usb \in [Addrs -> Kinds \cup {"none"}] /\ device \in [Keys -> Types \cup {"none"}]
         /\ \A i \in SlotIds : slots[i].inst \in Nat /\ slots[i].mounted \in BOOLEAN
         /\ \A i \in SlotIds : slots[i].mounted => /\ slots[i].addr \in Addrs
                                                   /\ usb[slots[i].addr] \in Kinds
                                                   /\ slots[i].inst < opened[slots[i].addr]
         /\ \A i, j \in SlotIds : slots[i].mounted /\ slots[j].mounted /\ slots[i].addr = slots[j].addr
                                    /\ slots[i].inst = slots[j].inst => i = j
         /\ \A k \in Keys : device[k] # "none" => \E i \in SlotIds : slots[i].mounted /\ slots[i].addr = k[1]
BY DEF IInv, Bus, Sound, Open, Backed, Held, Registry, SlotRecords

\* Steps of the handlers and of tuh_task that touch the buffers only.
LEMMA AgreeSame ==
  ASSUME AInv, Same(slots, slots'), UNCHANGED <<usb, opened, closing, device>>
  PROVE  AInv'
<1>1. Described(slots', usb) /\ Ordered(slots', closing) /\ Filling(slots', usb, opened, closing)
      /\ Keyed(slots', device, closing)
  BY SameKeeps DEF AInv
<1> QED
  BY <1>1 DEF AInv

LEMMA HandlersAgree == AInv /\ IInv /\ (HandleKeyboard \/ HandleMouse \/ HandleJoystick) => AInv'
<1> SUFFICES ASSUME AInv, IInv, HandleKeyboard \/ HandleMouse \/ HandleJoystick PROVE AInv'
  OBVIOUS
<1>1. slots \in [SlotIds -> SlotRecords]
  BY TableFacts
<1>2. UNCHANGED <<usb, opened, closing, device>>
  BY DEF HandleKeyboard, HandleMouse, HandleJoystick
<1>3. \A i \in SlotIds : slots'[i] = slots[i] \/ \E d : slots'[i] = [slots[i] EXCEPT !.dest = d]
  BY DEF HandleKeyboard, HandleMouse, HandleJoystick
<1>4. Same(slots, slots')
  <2> SUFFICES ASSUME NEW i \in SlotIds
               PROVE  /\ slots'[i].mounted = slots[i].mounted /\ slots'[i].addr = slots[i].addr
                      /\ slots'[i].inst = slots[i].inst
                      /\ slots'[i].itf = slots[i].itf /\ slots'[i].type = slots[i].type
    BY DEF Same
  <2>1. ASSUME NEW d, slots'[i] = [slots[i] EXCEPT !.dest = d]
        PROVE  /\ slots'[i].mounted = slots[i].mounted /\ slots'[i].addr = slots[i].addr
               /\ slots'[i].inst = slots[i].inst
               /\ slots'[i].itf = slots[i].itf /\ slots'[i].type = slots[i].type
    BY <1>1, <2>1, DestOnly
  <2> QED
    BY <1>3, <2>1
<1> QED
  BY <1>2, <1>4, AgreeSame

LEMMA ReportAgrees == ASSUME AInv, IInv, NEW i \in SlotIds, Report(i) PROVE AInv'
<1>1. slots \in [SlotIds -> SlotRecords]
  BY TableFacts
<1>2. slots' = [slots EXCEPT ![i] = [slots[i] EXCEPT !.dest = NoKey]] /\ UNCHANGED <<usb, opened, closing, device>>
  BY DEF Report
<1>3. Same(slots, slots')
  BY <1>1, <1>2, DestOnly DEF Same
<1> QED
  BY <1>2, <1>3, AgreeSame

\* A plug, the announcement of a removal, and the removal.
LEMMA PlugAgrees == ASSUME AInv, IInv, NEW a \in Addrs, Plug(a) PROVE AInv'
<1>1. PICK kind \in Kinds : usb' = [usb EXCEPT ![a] = kind]
  BY DEF Plug
<1>2. closing = <<>> /\ usb[a] = "none" /\ UNCHANGED <<opened, closing, slots, device>>
  BY DEF Plug, InTask
<1>3. opened[a] = 0 /\ opened \in [Addrs -> Nat]
  BY <1>2, TableFacts DEF AInv, Alone
<1>4. usb'[a] = kind /\ \A b \in Addrs \ {a} : usb'[b] = usb[b]
  BY <1>1, TableFacts
<1>5. \A i \in SlotIds : slots[i].mounted => slots[i].addr \in Addrs \ {a}
  BY <1>2, <1>3, TableFacts
<1>6. Described(slots, usb')
  BY <1>4, <1>5 DEF AInv, Described
<1>7. Filling(slots, usb', opened, closing)
  <2> SUFFICES ASSUME NEW b \in Addrs, NEW i \in SlotIds, NEW m \in Nat,
                      Enters(usb', opened, b), ~Leaving(closing, b), ~slots[i].mounted, m < opened[b]
               PROVE  \E j \in SlotIds : j < i /\ Has(slots, j, b, m)
    BY DEF Filling
  <2>1. b # a
    BY <1>3
  <2>2. Enters(usb, opened, b)
    BY <1>4, <2>1 DEF Enters
  <2> QED
    BY <2>2 DEF AInv, Filling
<1>8. Alone(usb', opened, closing)
  <2>1. kind # "none"
    BY HidHostAssumption
  <2> QED
    BY <1>2, <1>4, <2>1 DEF AInv, Alone
<1> QED
  BY <1>2, <1>6, <1>7, <1>8 DEF AInv

LEMMA UnplugAgrees == ASSUME Together, AInv, IInv, NEW a \in Addrs, Unplug(a) PROVE AInv'
<1>1. closing = <<>> /\ closing' = <<a, 0>> /\ UNCHANGED <<usb, opened, slots, device>>
  BY DEF Unplug, InTask
<1>2. \A b : Leaving(closing', b) <=> b = a
  BY <1>1 DEF Leaving
<1>3. \A b : ~Leaving(closing, b)
  BY <1>1 DEF Leaving
<1>4. Ordered(slots, closing') /\ Filling(slots, usb, opened, closing') /\ Keyed(slots, device, closing')
  BY <1>3 DEF AInv, Ordered, Filling, Keyed
<1>5. Alone(usb, opened, closing')
  <2> SUFFICES ASSUME NEW b \in Addrs, b # a, Enters(usb, opened, b) PROVE opened[b] = 0
    BY <1>1 DEF AInv, Alone
  <2>1. Enumerating(b)
    BY DEF Enters, Enumerating
  <2>2. Restless
    BY <2>1 DEF Unplug
  <2>3. usb[b] \in Kinds /\ opened[b] \in Nat
    BY TableFacts DEF Enters
  <2>4. usb[b] \notin {"combo", "receiver"}
    BY <2>2, <2>3 DEF Together
  <2>5. Len(Interfaces(usb[b])) = 1
    <3>1. usb[b] \in {"keyboard", "mouse", "boot_mouse", "odd_mouse", "stick", "pad"}
      BY <2>3, <2>4, HidHostAssumption
    <3> QED
      BY <3>1 DEF Interfaces
  <2> QED
    BY <2>3, <2>5 DEF Enters
<1> QED
  BY <1>1, <1>4, <1>5 DEF AInv

LEMMA CloseAgrees == ASSUME AInv, IInv, CloseNext PROVE AInv'
<1>1. PICK a \in Addrs, n \in Nat : closing = <<a, n>>
  BY DEF CloseNext, IInv, Bus
<1>2. closing # <<>> /\ closing[1] = a /\ closing[2] = n
  BY <1>1
<1>3. \A b : Leaving(closing, b) <=> b = a
  BY <1>2 DEF Leaving
<1>4. IInv'
  BY CloseStep
<1>5. CASE n < opened[a]
  <2>1. Umount(a, n) /\ closing' = <<a, n + 1>> /\ UNCHANGED <<usb, opened>>
    BY <1>2, <1>5 DEF CloseNext
  <2>2. \A b : Leaving(closing', b) <=> b = a
    BY <2>1 DEF Leaving
  <2>3. \A i \in SlotIds : \/ slots'[i] = slots[i]
                           \/ slots[i].addr = a /\ ~slots'[i].mounted
    <3>1. \A i \in SlotIds : slots'[i] = slots[i] \/ (slots[i].addr = a /\ slots'[i] = FreeSlot)
      BY TableFacts, <2>1 DEF Umount
    <3> QED
      BY <3>1 DEF FreeSlot
  <2>4. \A b \in Addrs \ {a} : device'[<<b, 0>>] = device[<<b, 0>>] /\ device'[<<b, 128>>] = device[<<b, 128>>]
    <3>1. UNCHANGED device \/ device' = [k \in Keys |-> IF k \in Registered(a) THEN "none" ELSE device[k]]
      BY <2>1 DEF Umount, UnmountedCb
    <3>2. \A b \in Addrs \ {a} : \A m \in {0, 128} : <<b, m>> \in Keys /\ <<b, m>> \notin Registered(a)
      BY DEF Registered, Keys
    <3> QED
      BY <3>1, <3>2
  <2>5. \A i \in SlotIds : slots'[i].mounted => slots[i].mounted /\ slots'[i] = slots[i]
    BY <2>3
  <2>6. \A i \in SlotIds : slots[i].mounted /\ slots[i].addr # a => slots'[i] = slots[i]
    BY <2>3
  <2>7. Described(slots', usb)
    BY <2>5 DEF AInv, Described
  <2>8. Ordered(slots', closing')
    <3> SUFFICES ASSUME NEW i \in SlotIds, NEW m \in Nat, slots'[i].mounted, slots'[i].addr # a,
                        m < slots'[i].inst
                 PROVE  \E j \in SlotIds : j < i /\ Has(slots', j, slots'[i].addr, m)
      BY <2>2 DEF Ordered
    <3>1. slots'[i] = slots[i]
      BY <2>5
    <3>2. PICK j \in SlotIds : j < i /\ Has(slots, j, slots[i].addr, m)
      BY <1>3, <3>1 DEF AInv, Ordered
    <3>3. slots'[j] = slots[j]
      BY <2>6, <3>1, <3>2 DEF Has
    <3> QED
      BY <3>1, <3>2, <3>3 DEF Has
  <2>9. Filling(slots', usb, opened, closing')
    <3> SUFFICES ASSUME NEW b \in Addrs, NEW m \in Nat, Enters(usb, opened, b), b # a, m < opened[b]
                 PROVE  FALSE
      BY <2>2 DEF Filling
    <3>1. opened[b] = 0
      BY <1>2 DEF AInv, Alone
    <3> QED
      BY <3>1
  <2>10. Alone(usb, opened, closing')
    <3>1. closing' # <<>> /\ closing'[1] = a
      BY <2>1
    <3> QED
      BY <1>2, <3>1 DEF AInv, Alone
  <2>11. Keyed(slots', device', closing')
    <3>1. ASSUME NEW i \in SlotIds, slots'[i].mounted, slots'[i].addr # a, slots'[i].type \in Types
          PROVE  IF slots'[i].inst = 0 THEN device'[<<slots'[i].addr, 0>>] = slots'[i].type
                 ELSE slots'[i].type = "mouse" /\ device'[<<slots'[i].addr, 128>>] = "mouse"
      <4>1. slots[i].mounted /\ slots'[i] = slots[i] /\ slots[i].addr \in Addrs \ {a}
        BY <2>5, <3>1, TableFacts
      <4> QED
        BY <1>3, <2>4, <3>1, <4>1 DEF AInv, Keyed
    <3>2. ASSUME NEW b \in Addrs, b # a, device'[<<b, 128>>] # "none"
          PROVE  \E i \in SlotIds : slots'[i].mounted /\ slots'[i].addr = b /\ slots'[i].inst > 0
                                      /\ slots'[i].type = "mouse"
      <4>0. ~Leaving(closing, b) /\ device[<<b, 128>>] # "none"
        BY <1>3, <2>4, <3>2
      <4>1. PICK i \in SlotIds : slots[i].mounted /\ slots[i].addr = b /\ slots[i].inst > 0
                                      /\ slots[i].type = "mouse"
        BY <4>0 DEF AInv, Keyed
      <4> QED
        BY <2>6, <3>2, <4>1
    <3> QED
      BY <2>2, <3>1, <3>2 DEF Keyed
  <2> QED
    BY <2>1, <2>7, <2>8, <2>9, <2>10, <2>11 DEF AInv
<1>6. CASE ~(n < opened[a])
  <2>1. /\ usb' = [usb EXCEPT ![a] = "none"] /\ opened' = [opened EXCEPT ![a] = 0] /\ closing' = <<>>
        /\ UNCHANGED <<slots, device, count, usbJoy, fresh>>
    BY <1>2, <1>6 DEF CloseNext
  <2>2. /\ usb'[a] = "none" /\ opened'[a] = 0
        /\ \A b \in Addrs \ {a} : usb'[b] = usb[b] /\ opened'[b] = opened[b]
    BY <2>1, TableFacts
  <2>3. \A i \in SlotIds : slots[i].mounted => slots[i].addr \in Addrs \ {a}
    BY <1>4, <2>1, <2>2 DEF IInv, Sound, Open
  <2>4. \A k \in Keys : device[k] # "none" => k[1] # a
    BY <2>3, TableFacts
  <2>5. Described(slots, usb')
    BY <2>2, <2>3 DEF AInv, Described
  <2>6. Ordered(slots, closing')
    BY <1>3, <2>3 DEF AInv, Ordered
  <2>7. Filling(slots, usb', opened', closing')
    <3> SUFFICES ASSUME NEW b \in Addrs, NEW m \in Nat, Enters(usb', opened', b), m < opened'[b]
                 PROVE  FALSE
      BY DEF Filling
    <3>1. b # a /\ opened[b] = 0
      BY <1>2, <2>2 DEF AInv, Alone, Enters
    <3> QED
      BY <2>2, <3>1
  <2>8. Alone(usb', opened', closing')
    BY <2>1, <2>2 DEF AInv, Alone
  <2>9. Keyed(slots, device, closing')
    <3>1. \A b \in Addrs : device[<<b, 128>>] # "none" => b # a
      BY <2>4 DEF Keys
    <3> QED
      BY <1>3, <2>3, <3>1 DEF AInv, Keyed
  <2> QED
    BY <2>1, <2>5, <2>6, <2>7, <2>8, <2>9 DEF AInv
<1> QED
  BY <1>5, <1>6

\* What find_device finds: with a plain key an interface of the address, with the
\* marked key a mouse of it.
LEMMA PlainFound ==
  ASSUME NEW s, NEW a
  PROVE  Find(s, <<a, 0>>) = Lowest({j \in SlotIds : s[j].mounted /\ s[j].addr = a})
<1> DEFINE k == <<a, 0>>
           S == {j \in SlotIds : /\ s[j].mounted /\ s[j].addr = k[1]
                                 /\ k[2] = 128 => s[j].type = "mouse"}
           T == {j \in SlotIds : s[j].mounted /\ s[j].addr = a}
<1>1. k[1] = a /\ k[2] # 128
  OBVIOUS
<1>2. Find(s, k) = Lowest(S)
  BY DEF Find
<1> HIDE DEF k
<1>3. ASSUME NEW j PROVE j \in S <=> j \in T
  BY <1>1
<1> HIDE DEF S, T
<1>4. S = T
  BY <1>3
<1> QED
  BY <1>2, <1>4 DEF k, T

LEMMA MarkedFound ==
  ASSUME NEW s, NEW a
  PROVE  Find(s, <<a, 128>>) =
           Lowest({j \in SlotIds : s[j].mounted /\ s[j].addr = a /\ s[j].type = "mouse"})
<1> DEFINE k == <<a, 128>>
           S == {j \in SlotIds : /\ s[j].mounted /\ s[j].addr = k[1]
                                 /\ k[2] = 128 => s[j].type = "mouse"}
           T == {j \in SlotIds : s[j].mounted /\ s[j].addr = a /\ s[j].type = "mouse"}
<1>1. k[1] = a /\ k[2] = 128
  OBVIOUS
<1>2. Find(s, k) = Lowest(S)
  BY DEF Find
<1> HIDE DEF k
<1>3. ASSUME NEW j PROVE j \in S <=> j \in T
  BY <1>1
<1> HIDE DEF S, T
<1>4. S = T
  BY <1>3
<1> QED
  BY <1>2, <1>4 DEF k, T

\* The search for a free slot misses none.
LEMMA LowestFound ==
  ASSUME NEW S \in SUBSET SlotIds, S # {}
  PROVE  \E i \in S : Lowest(S) = {i} /\ \A j \in S : i <= j
<1>1. S \in SUBSET Nat
  BY HidHostAssumption DEF SlotIds
<1>2. PICK i \in S : \A j \in S : i <= j
  BY <1>1, Least
<1>3. ASSUME NEW j \in Lowest(S) PROVE j = i
  <2>1. j \in S /\ j <= i /\ i <= j
    BY <1>2, <1>3 DEF Lowest
  <2> QED
    BY <1>1, <2>1
<1>4. i \in Lowest(S)
  BY <1>2 DEF Lowest
<1>5. Lowest(S) = {i}
  BY <1>3, <1>4
<1> QED
  BY <1>2, <1>5

\* tuh_hid_mounted_cb registers the interface i that has just come, the first one
\* of its device or a mouse behind the first.
LEMMA MountedCbRegisters ==
  ASSUME NEW a \in Addrs, NEW s \in [SlotIds -> SlotRecords], NEW marked \in BOOLEAN,
         MountedCb(s, a, marked), NEW k, NEW type,
         type = IF marked THEN "mouse" ELSE GetType(s, <<a, 0>>),
         NewKeys(device, a, type) = {k}
  PROVE  device' = [device EXCEPT ![k] = type] /\ Same(s, slots')
<1>1. (CHOOSE l \in {k} : TRUE) = k
  OBVIOUS
<1>2. {k} # {}
  OBVIOUS
<1>3. slots' = RequestReport(s, k, k) /\ device' = [device EXCEPT ![k] = type]
  BY <1>1, <1>2 DEF MountedCb
<1> QED
  BY <1>3, AskedSame

\* A device's first interface.
LEMMA FirstAgrees ==
  ASSUME AInv, IInv, NEW a \in Addrs, Mount(a), opened[a] = 0,
         NEW i \in SlotIds, ~slots[i].mounted, Lowest({j \in SlotIds : ~slots[j].mounted}) = {i}
  PROVE  /\ Same([slots EXCEPT ![i] = NewSlot(a, 0, Interfaces(usb[a])[1])], slots')
         /\ device' = [device EXCEPT ![<<a, 0>>] = TypeOf(Interfaces(usb[a])[1])]
         /\ device[<<a, 128>>] = "none"
<1> DEFINE itf == Interfaces(usb[a])[1]
           s == [slots EXCEPT ![i] = NewSlot(a, 0, itf)]
           isMouse == itf \in {"mouse", "boot_mouse"}
           type == IF isMouse THEN "mouse" ELSE GetType(s, <<a, 0>>)
<1>1. usb[a] \in Kinds /\ slots \in [SlotIds -> SlotRecords]
  BY TableFacts DEF Mount, Enumerating
<1>2. TypeOf(itf) \in Types /\ itf # "mute" /\ (isMouse => TypeOf(itf) = "mouse")
  BY <1>1, Devices
<1>3. \A j \in SlotIds : slots[j].mounted => slots[j].addr # a
  BY TableFacts
<1>4. device[<<a, 0>>] = "none" /\ device[<<a, 128>>] = "none"
  <2>1. <<a, 0>> \in Keys /\ <<a, 128>> \in Keys /\ <<a, 0>>[1] = a /\ <<a, 128>>[1] = a
    BY DEF Keys
  <2> QED
    BY <1>3, <2>1, TableFacts
<1>5. itf \in ItfNames
  <2>1. 0 \in Nat /\ 0 < Len(Interfaces(usb[a])) /\ 0 + 1 = 1
    BY <1>1, Devices
  <2> QED
    BY <1>1, <2>1, InterfaceNames
<1>6. NewSlot(a, 0, itf) \in SlotRecords /\ NewSlot(a, 0, itf).mounted /\ NewSlot(a, 0, itf).addr = a
  BY <1>5, NewSlotType
<1>7. NewSlot(a, 0, itf).type = TypeOf(itf)
  BY DEF NewSlot
<1> HIDE DEF itf
<1>8. s \in [SlotIds -> SlotRecords] /\ s[i] = NewSlot(a, 0, itf) /\ \A j \in SlotIds \ {i} : s[j] = slots[j]
  BY <1>1, <1>6
<1> HIDE DEF s
<1>9. MountedCb(s, a, isMouse)
  <2>1. (CHOOSE j \in {i} : TRUE) = i /\ {i} # {}
    OBVIOUS
  <2>2. Others(s, i) = {}
    BY <1>3, <1>6, <1>8 DEF Others
  <2> DEFINE free == Lowest({j \in SlotIds : ~slots[j].mounted})
             taken == CHOOSE j \in free : TRUE
             t == [slots EXCEPT ![taken] = NewSlot(a, 0, Interfaces(usb[a])[0 + 1])]
  <2>3. free # {} /\ taken = i
    BY <2>1
  <2> HIDE DEF taken, free
  <2>4. t = s
    <3>1. 0 + 1 = 1
      OBVIOUS
    <3>2. t = [slots EXCEPT ![taken] = NewSlot(a, 0, Interfaces(usb[a])[1])]
      BY <3>1
    <3> QED
      BY <2>3, <3>2 DEF s, itf
  <2>5. IF isMouse \/ itf = "pad" \/ (itf # "mute" /\ Others(t, taken) = {})
          THEN MountedCb(t, a, isMouse)
          ELSE slots' = t /\ UNCHANGED <<device, count, usbJoy>>
    <3>1. Interfaces(usb[a])[0 + 1] = itf
      BY DEF itf
    <3> HIDE DEF itf
    <3> QED
      BY <2>3, <3>1 DEF Mount, taken, free
  <2> HIDE DEF t
  <2> QED
    BY <1>2, <2>2, <2>3, <2>4, <2>5
<1>10. type = TypeOf(itf)
  <2>1. CASE isMouse
    BY <1>2, <2>1
  <2>2. CASE ~isMouse
    <3>1. {j \in SlotIds : s[j].mounted /\ s[j].addr = a} = {i}
      BY <1>3, <1>6, <1>8
    <3>2. Find(s, <<a, 0>>) = {i}
      <4>1. Find(s, <<a, 0>>) = Lowest({i})
        BY <3>1, PlainFound
      <4>2. i <= i
        BY HidHostAssumption DEF SlotIds
      <4> QED
        BY <4>1, <4>2 DEF Lowest
    <3>3. GetType(s, <<a, 0>>) = s[i].type
      BY <3>2 DEF GetType
    <3> QED
      BY <1>7, <1>8, <2>2, <3>3
  <2> QED
    BY <2>1, <2>2
<1>11. isMouse \in BOOLEAN
  OBVIOUS
<1> HIDE DEF isMouse, type
<1>12. NewKeys(device, a, type) = {<<a, 0>>}
  BY <1>2, <1>4, <1>10 DEF NewKeys
<1>13. device' = [device EXCEPT ![<<a, 0>>] = type] /\ Same(s, slots')
  <2>1. type = IF isMouse THEN "mouse" ELSE GetType(s, <<a, 0>>)
    BY DEF type
  <2> QED
    BY <1>8, <1>9, <1>11, <1>12, <2>1, MountedCbRegisters
<1> QED
  BY <1>4, <1>10, <1>13 DEF s, itf

\* An interface behind the first: only a mouse is registered, under the marked key.
LEMMA NextAgrees ==
  ASSUME AInv, IInv, NEW a \in Addrs, Mount(a), opened[a] > 0,
         NEW i \in SlotIds, ~slots[i].mounted, Lowest({j \in SlotIds : ~slots[j].mounted}) = {i},
         NEW itf, itf = Interfaces(usb[a])[opened[a] + 1]
  PROVE  /\ Same([slots EXCEPT ![i] = NewSlot(a, opened[a], itf)], slots')
         /\ \/ itf = "mouse" /\ device' = [device EXCEPT ![<<a, 128>>] = "mouse"]
            \/ TypeOf(itf) \notin Types /\ device' = device
<1> DEFINE s == [slots EXCEPT ![i] = NewSlot(a, opened[a], itf)]
<1>1. /\ usb[a] \in Kinds /\ slots \in [SlotIds -> SlotRecords] /\ opened[a] \in Nat
      /\ closing = <<>> /\ opened[a] < Len(Interfaces(usb[a]))
  BY TableFacts DEF Mount, Enumerating, InTask
<1>2. /\ usb[a] \in {"combo", "receiver"} /\ TypeOf(Interfaces(usb[a])[1]) = "keyboard"
      /\ \/ opened[a] = 1 /\ itf = "mouse"
         \/ opened[a] # 1 /\ itf \in {"other", "mute"}
  BY <1>1, Devices
<1>3. itf \in ItfNames
  BY <1>1, InterfaceNames
<1>4. NewSlot(a, opened[a], itf) \in SlotRecords
  BY <1>1, <1>3, NewSlotType
<1>5. s \in [SlotIds -> SlotRecords] /\ s[i].mounted /\ s[i].addr = a /\ \A j \in SlotIds \ {i} : s[j] = slots[j]
  BY <1>1, <1>3, <1>4, NewSlotType
<1>6. PICK f \in SlotIds : f < i /\ Has(slots, f, a, 0)
  <2>1. Enters(usb, opened, a) /\ ~Leaving(closing, a)
    BY <1>1 DEF Enters, Leaving, Mount, Enumerating
  <2>2. 0 \in Nat /\ 0 < opened[a]
    BY <1>1
  <2> QED
    BY <2>1, <2>2 DEF AInv, Filling
<1>7. device[<<a, 0>>] = "keyboard"
  <2>1. slots[f].mounted /\ slots[f].addr = a /\ slots[f].inst = 0
    BY <1>6 DEF Has
  <2>2. slots[f].type = "keyboard"
    BY <1>2, <2>1 DEF AInv, Described
  <2>3. ~Leaving(closing, a)
    BY <1>1 DEF Leaving
  <2> QED
    BY <2>1, <2>2, <2>3 DEF AInv, Keyed, Types
<1>8. f # i /\ s[f].mounted /\ s[f].addr = a
  <2>1. f # i
    BY <1>6, HidHostAssumption DEF SlotIds
  <2> QED
    BY <1>5, <1>6, <2>1 DEF Has
<1>9. Others(s, i) # {}
  BY <1>5, <1>8 DEF Others
<1>10. (CHOOSE j \in {i} : TRUE) = i /\ {i} # {}
  OBVIOUS
<1>11. CASE itf = "mouse"
  <2>1. MountedCb(s, a, TRUE)
    BY <1>10, <1>11 DEF Mount
  <2>2. device[<<a, 128>>] = "none"
    <3> SUFFICES ASSUME device[<<a, 128>>] # "none" PROVE FALSE
      OBVIOUS
    <3>1. ~Leaving(closing, a)
      BY <1>1 DEF Leaving
    <3>2. PICK j \in SlotIds : slots[j].mounted /\ slots[j].addr = a /\ slots[j].inst > 0
      BY <3>1 DEF AInv, Keyed
    <3>3. slots[j].inst < opened[a] /\ slots[j].inst \in Nat
      BY <3>2, TableFacts
    <3> QED
      BY <1>2, <1>11, <3>2, <3>3
  <2>3. NewKeys(device, a, "mouse") = {<<a, 128>>}
    BY <1>7, <2>2 DEF NewKeys, Types
  <2> HIDE DEF s
  <2>4. device' = [device EXCEPT ![<<a, 128>>] = "mouse"] /\ Same(s, slots')
    BY <1>5, <2>1, <2>3, MountedCbRegisters, ZenonT(40)
  <2> QED
    BY <1>11, <2>4 DEF s
<1>12. CASE itf # "mouse"
  <2>1. itf \in {"other", "mute"}
    BY <1>2, <1>12
  <2>2. slots' = s /\ device' = device
    BY <1>9, <1>10, <2>1 DEF Mount
  <2>3. TypeOf(itf) \notin Types
    BY <2>1, MouseType DEF Types
  <2> QED
    BY <2>2, <2>3 DEF Same
<1> QED
  BY <1>11, <1>12


\* The table with the new interface n of the device a in the free slot i.
LEMMA EnteredAgrees ==
  ASSUME AInv, IInv, NEW a \in Addrs, Mount(a),
         NEW i \in SlotIds, ~slots[i].mounted, \A j \in SlotIds : ~slots[j].mounted => i <= j,
         NEW itf, itf = Interfaces(usb[a])[opened[a] + 1],
         NEW s, s = [slots EXCEPT ![i] = NewSlot(a, opened[a], itf)]
  PROVE  /\ Described(s, usb') /\ Ordered(s, closing')
         /\ Filling(s, usb', opened', closing') /\ Alone(usb', opened', closing')
<1>1. /\ closing = <<>> /\ usb[a] # "none" /\ opened[a] < Len(Interfaces(usb[a]))
      /\ opened' = [opened EXCEPT ![a] = @ + 1] /\ UNCHANGED <<usb, closing>>
  BY DEF Mount, InTask, Enumerating
<1>2. usb[a] \in Kinds /\ slots \in [SlotIds -> SlotRecords] /\ opened[a] \in Nat
  BY <1>1, TableFacts
<1>3. itf \in ItfNames
  BY <1>1, <1>2, InterfaceNames
<1>4. /\ s[i].mounted /\ s[i].addr = a /\ s[i].inst = opened[a] /\ s[i].itf = itf /\ s[i].type = TypeOf(itf)
      /\ \A j \in SlotIds \ {i} : s[j] = slots[j]
  <2>1. s[i] = NewSlot(a, opened[a], itf) /\ \A j \in SlotIds \ {i} : s[j] = slots[j]
    BY <1>2
  <2> QED
    BY <2>1 DEF NewSlot
<1>5. opened'[a] = opened[a] + 1 /\ \A b \in Addrs \ {a} : opened'[b] = opened[b]
  BY <1>1, TableFacts
<1>6. Enters(usb, opened, a) /\ \A b : ~Leaving(closing, b)
  BY <1>1 DEF Enters, Leaving
<1>7. \A j \in SlotIds : slots[j].mounted => j # i
  OBVIOUS
<1>8. \A j \in SlotIds : ~s[j].mounted => ~slots[j].mounted /\ j # i /\ i < j
  <2>1. SlotIds \subseteq Nat
    BY HidHostAssumption DEF SlotIds
  <2> QED
    BY <1>4, <2>1
<1>9. \A j \in SlotIds : \A b, m : Has(slots, j, b, m) => Has(s, j, b, m)
  BY <1>4, <1>7 DEF Has
<1>10. Described(s, usb')
  BY <1>1, <1>4 DEF AInv, Described
<1>11. Ordered(s, closing')
  <2> SUFFICES ASSUME NEW j \in SlotIds, NEW m \in Nat, s[j].mounted, m < s[j].inst
               PROVE  \E l \in SlotIds : l < j /\ Has(s, l, s[j].addr, m)
    BY DEF Ordered
  <2>1. CASE j = i
    <3>1. PICK l \in SlotIds : l < i /\ Has(slots, l, a, m)
      BY <1>4, <1>6, <2>1 DEF AInv, Filling
    <3>2. Has(s, l, s[j].addr, m)
      BY <1>4, <1>9, <2>1, <3>1
    <3> QED
      BY <2>1, <3>1, <3>2
  <2>2. CASE j # i
    <3>1. s[j] = slots[j]
      BY <1>4, <2>2
    <3>2. \E l \in SlotIds : l < j /\ Has(slots, l, slots[j].addr, m)
      BY <1>6, <3>1 DEF AInv, Ordered
    <3> QED
      BY <1>9, <3>1, <3>2
  <2> QED
    BY <2>1, <2>2
<1>12. Filling(s, usb', opened', closing')
  <2> SUFFICES ASSUME NEW b \in Addrs, NEW j \in SlotIds, NEW m \in Nat,
                      Enters(usb', opened', b), ~s[j].mounted, m < opened'[b]
               PROVE  \E l \in SlotIds : l < j /\ Has(s, l, b, m)
    BY DEF Filling
  <2>1. ~slots[j].mounted /\ i < j
    BY <1>8
  <2>2. CASE b = a /\ m = opened[a]
    BY <1>4, <2>1, <2>2 DEF Has
  <2>3. CASE ~(b = a /\ m = opened[a])
    <3>1. Enters(usb, opened, b) /\ m < opened[b]
      BY <1>1, <1>2, <1>5, <1>6, <2>3 DEF Enters
    <3> QED
      BY <1>6, <1>9, <2>1, <3>1 DEF AInv, Filling
  <2> QED
    BY <2>2, <2>3
<1>13. Alone(usb', opened', closing')
  BY <1>1, <1>5 DEF AInv, Alone
<1> QED
  BY <1>10, <1>11, <1>12, <1>13

LEMMA MountAgrees == ASSUME AInv, IInv, NEW a \in Addrs, Mount(a) PROVE AInv'
<1> DEFINE S == {j \in SlotIds : ~slots[j].mounted}
           itf == Interfaces(usb[a])[opened[a] + 1]
<1>1. /\ closing = <<>> /\ usb[a] # "none" /\ opened[a] \in Nat
      /\ opened' = [opened EXCEPT ![a] = @ + 1] /\ UNCHANGED <<usb, closing>>
  BY TableFacts DEF Mount, InTask, Enumerating
<1>2. \A b : ~Leaving(closing, b)
  BY <1>1 DEF Leaving
<1>3. CASE S = {}
  <2>1. Lowest(S) = {}
    BY <1>3 DEF Lowest
  <2>2. UNCHANGED <<slots, device>>
    BY <2>1 DEF Mount
  <2>3. Filling(slots, usb', opened', closing')
    BY <1>3 DEF Filling
  <2>4. Alone(usb', opened', closing')
    <3>1. \A b \in Addrs \ {a} : opened'[b] = opened[b]
      BY <1>1, TableFacts
    <3> QED
      BY <1>1, <3>1 DEF AInv, Alone
  <2> QED
    BY <1>1, <2>2, <2>3, <2>4 DEF AInv
<1>4. CASE S # {}
  <2>1. PICK i \in S : Lowest(S) = {i} /\ \A j \in S : i <= j
    BY <1>4, LowestFound
  <2> DEFINE s == [slots EXCEPT ![i] = NewSlot(a, opened[a], itf)]
  <2>2. /\ Described(s, usb') /\ Ordered(s, closing')
        /\ Filling(s, usb', opened', closing') /\ Alone(usb', opened', closing')
    BY <2>1, EnteredAgrees
  <2>3. /\ s[i].mounted /\ s[i].addr = a /\ s[i].inst = opened[a] /\ s[i].type = TypeOf(itf)
        /\ \A j \in SlotIds \ {i} : s[j] = slots[j]
    <3>1. s[i] = NewSlot(a, opened[a], itf) /\ \A j \in SlotIds \ {i} : s[j] = slots[j]
      BY <2>1, TableFacts
    <3> QED
      BY <3>1 DEF NewSlot
  <2>4. /\ <<a, 0>> \in Keys /\ <<a, 128>> \in Keys
        /\ \A b \in Addrs \ {a} : <<b, 0>> \in Keys \ {<<a, 0>>, <<a, 128>>}
                                    /\ <<b, 128>> \in Keys \ {<<a, 0>>, <<a, 128>>}
        /\ <<a, 0>> # <<a, 128>>
    BY DEF Keys
  <2>5. /\ device \in [Keys -> Types \cup {"none"}]
        /\ \A j \in SlotIds : slots[j].mounted => slots[j].addr \in Addrs /\ slots[j].inst < opened[slots[j].addr]
        /\ \A j \in SlotIds : slots[j].inst \in Nat
    BY TableFacts
  <2>6. Same(s, slots') /\ Keyed(s, device', closing')
    <3>1. CASE opened[a] = 0
      <4>0. 0 + 1 = 1
        OBVIOUS
      <4>1. itf = Interfaces(usb[a])[1] /\ s = [slots EXCEPT ![i] = NewSlot(a, 0, Interfaces(usb[a])[1])]
        BY <3>1, <4>0
      <4>2. Same(s, slots') /\ device' = [device EXCEPT ![<<a, 0>>] = TypeOf(itf)] /\ device[<<a, 128>>] = "none"
        BY <2>1, <3>1, <4>1, FirstAgrees
      <4> HIDE DEF s, itf
      <4>3. /\ device'[<<a, 0>>] = TypeOf(itf) /\ device'[<<a, 128>>] = "none"
            /\ \A b \in Addrs \ {a} : device'[<<b, 0>>] = device[<<b, 0>>] /\ device'[<<b, 128>>] = device[<<b, 128>>]
        BY <2>4, <2>5, <4>2
      <4>4. \A j \in SlotIds : slots[j].mounted => j # i /\ s[j] = slots[j] /\ slots[j].addr \in Addrs \ {a}
        BY <2>1, <2>3, <2>5, <3>1
      <4>5. \A j \in SlotIds \ {i} : s[j].mounted => slots[j].mounted /\ s[j] = slots[j] /\ slots[j].addr \in Addrs \ {a}
        BY <2>3, <4>4
      <4>6. Keyed(s, device', closing')
        <5>1. ASSUME NEW j \in SlotIds, s[j].mounted, s[j].type \in Types
              PROVE  IF s[j].inst = 0 THEN device'[<<s[j].addr, 0>>] = s[j].type
                     ELSE s[j].type = "mouse" /\ device'[<<s[j].addr, 128>>] = "mouse"
          <6>1. CASE j = i
            BY <2>3, <3>1, <4>3, <6>1
          <6>2. CASE j # i
            BY <1>2, <4>3, <4>5, <5>1, <6>2, SMTT(20) DEF AInv, Keyed
          <6> QED
            BY <6>1, <6>2
        <5>2. ASSUME NEW b \in Addrs, device'[<<b, 128>>] # "none"
              PROVE  \E j \in SlotIds : s[j].mounted /\ s[j].addr = b /\ s[j].inst > 0 /\ s[j].type = "mouse"
          <6>1. b # a /\ device[<<b, 128>>] # "none"
            BY <4>3, <5>2
          <6>2. PICK j \in SlotIds : slots[j].mounted /\ slots[j].addr = b /\ slots[j].inst > 0
                                       /\ slots[j].type = "mouse"
            BY <1>2, <6>1 DEF AInv, Keyed
          <6> QED
            BY <4>4, <6>2
        <5> QED
          BY <5>1, <5>2 DEF Keyed
      <4> QED
        BY <4>2, <4>6
    <3>2. CASE opened[a] > 0
      <4>1. /\ Same(s, slots')
            /\ \/ itf = "mouse" /\ device' = [device EXCEPT ![<<a, 128>>] = "mouse"]
               \/ TypeOf(itf) \notin Types /\ device' = device
        BY <2>1, <3>2, NextAgrees
      <4> HIDE DEF s, itf
      <4>2. \A j \in SlotIds : slots[j].mounted => s[j] = slots[j]
        BY <2>1, <2>3
      <4>3. \A j \in SlotIds \ {i} : s[j].mounted => slots[j].mounted /\ s[j] = slots[j]
        BY <2>3
      <4>4. CASE itf = "mouse" /\ device' = [device EXCEPT ![<<a, 128>>] = "mouse"]
        <5>1. s[i].type = "mouse" /\ s[i].inst > 0
          BY <2>3, <3>2, <4>4, MouseType
        <5>2. /\ device'[<<a, 128>>] = "mouse" /\ device'[<<a, 0>>] = device[<<a, 0>>]
              /\ \A b \in Addrs \ {a} : device'[<<b, 0>>] = device[<<b, 0>>] /\ device'[<<b, 128>>] = device[<<b, 128>>]
          BY <2>4, <2>5, <4>4
        <5>3. ASSUME NEW j \in SlotIds, s[j].mounted, s[j].type \in Types
              PROVE  IF s[j].inst = 0 THEN device'[<<s[j].addr, 0>>] = s[j].type
                     ELSE s[j].type = "mouse" /\ device'[<<s[j].addr, 128>>] = "mouse"
          <6>1. CASE j = i
            BY <2>3, <5>1, <5>2, <6>1
          <6>2. CASE j # i
            <7>1. slots[j].mounted /\ s[j] = slots[j] /\ slots[j].addr \in Addrs
              BY <2>5, <4>3, <5>3, <6>2
            <7>2. IF s[j].inst = 0 THEN device[<<s[j].addr, 0>>] = s[j].type
                  ELSE s[j].type = "mouse" /\ device[<<s[j].addr, 128>>] = "mouse"
              BY <1>2, <5>3, <7>1 DEF AInv, Keyed
            <7>3. device'[<<s[j].addr, 0>>] = device[<<s[j].addr, 0>>]
              BY <5>2, <7>1
            <7>4. device[<<s[j].addr, 128>>] = "mouse" => device'[<<s[j].addr, 128>>] = "mouse"
              BY <5>2, <7>1
            <7> QED
              BY <7>2, <7>3, <7>4
          <6> QED
            BY <6>1, <6>2
        <5>4. ASSUME NEW b \in Addrs, device'[<<b, 128>>] # "none"
              PROVE  \E j \in SlotIds : s[j].mounted /\ s[j].addr = b /\ s[j].inst > 0 /\ s[j].type = "mouse"
          <6>1. CASE b = a
            BY <2>1, <2>3, <5>1, <6>1
          <6>2. CASE b # a
            <7>1. device[<<b, 128>>] # "none"
              BY <5>2, <5>4, <6>2
            <7>2. PICK j \in SlotIds : slots[j].mounted /\ slots[j].addr = b /\ slots[j].inst > 0
                                         /\ slots[j].type = "mouse"
              BY <1>2, <7>1 DEF AInv, Keyed
            <7> QED
              BY <4>2, <7>2
          <6> QED
            BY <6>1, <6>2
        <5>5. Keyed(s, device', closing')
          BY <5>3, <5>4 DEF Keyed
        <5> QED
          BY <4>1, <5>5
      <4>5. CASE TypeOf(itf) \notin Types /\ device' = device
        <5>1. ASSUME NEW j \in SlotIds, s[j].mounted, s[j].type \in Types
              PROVE  IF s[j].inst = 0 THEN device'[<<s[j].addr, 0>>] = s[j].type
                     ELSE s[j].type = "mouse" /\ device'[<<s[j].addr, 128>>] = "mouse"
          <6>1. j # i
            BY <2>3, <4>5, <5>1
          <6>2. slots[j].mounted /\ s[j] = slots[j]
            BY <4>3, <5>1, <6>1
          <6> QED
            BY <1>2, <4>5, <5>1, <6>2 DEF AInv, Keyed
        <5>2. ASSUME NEW b \in Addrs, device'[<<b, 128>>] # "none"
              PROVE  \E j \in SlotIds : s[j].mounted /\ s[j].addr = b /\ s[j].inst > 0 /\ s[j].type = "mouse"
          BY <1>2, <4>2, <4>5, <5>2 DEF AInv, Keyed
        <5>3. Keyed(s, device', closing')
          BY <5>1, <5>2 DEF Keyed
        <5> QED
          BY <4>1, <5>3
      <4> QED
        BY <4>1, <4>4, <4>5
    <3> QED
      BY <1>1, <3>1, <3>2
  <2> HIDE DEF s
  <2>7. Described(slots', usb') /\ Ordered(slots', closing') /\ Filling(slots', usb', opened', closing')
        /\ Keyed(slots', device', closing')
    BY <2>2, <2>6, SameKeeps
  <2> QED
    BY <2>2, <2>7 DEF AInv
<1> QED
  BY <1>3, <1>4

LEMMA InitiallyAgree == Init => AInv
<1> SUFFICES ASSUME Init PROVE AInv
  OBVIOUS
<1>1. /\ \A i \in SlotIds : ~slots[i].mounted
      /\ \A a \in Addrs : usb[a] = "none" /\ opened[a] = 0
      /\ \A a \in Addrs : device[<<a, 128>>] = "none"
  BY DEF Init, FreeSlot, Keys
<1> QED
  BY <1>1 DEF AInv, Described, Ordered, Filling, Alone, Keyed, Enters

LEMMA AgreementKept == ASSUME Together, AInv, IInv, [Next]_vars PROVE AInv'
<1>1. CASE \E a \in Addrs : Plug(a) \/ Mount(a) \/ Unplug(a)
  BY <1>1, PlugAgrees, MountAgrees, UnplugAgrees
<1>2. CASE CloseNext
  BY <1>2, CloseAgrees
<1>3. CASE \E i \in SlotIds : Report(i)
  BY <1>3, ReportAgrees
<1>4. CASE TaskDone \/ UNCHANGED vars
  BY <1>4, AgreeSame DEF TaskDone, vars, Same
<1>5. CASE HandleKeyboard \/ HandleMouse \/ HandleJoystick
  BY <1>5, HandlersAgree
<1> QED
  BY <1>1, <1>2, <1>3, <1>4, <1>5 DEF Next

\* The first interface of a device, and its mouse behind the first, are the ones
\* its two keys find.
LEMMA PlainKeyFinds ==
  ASSUME AInv, IInv, closing = <<>>, NEW i \in SlotIds, slots[i].mounted
  PROVE  \E f \in SlotIds : Has(slots, f, slots[i].addr, 0) /\ Find(slots, <<slots[i].addr, 0>>) = {f}
<1> DEFINE a == slots[i].addr
           S == {j \in SlotIds : slots[j].mounted /\ slots[j].addr = a}
<1>1. PICK f \in S : Lowest(S) = {f} /\ \A j \in S : f <= j
  <2>1. S \in SUBSET SlotIds /\ S # {}
    OBVIOUS
  <2> QED
    BY <2>1, LowestFound
<1>2. slots[f].inst = 0
  <2> SUFFICES ASSUME slots[f].inst # 0 PROVE FALSE
    OBVIOUS
  <2>1. 0 \in Nat /\ 0 < slots[f].inst /\ ~Leaving(closing, slots[f].addr)
    BY TableFacts DEF Leaving
  <2>2. PICK j \in SlotIds : j < f /\ Has(slots, j, slots[f].addr, 0)
    BY <2>1 DEF AInv, Ordered
  <2>3. j \in S
    BY <2>2 DEF Has
  <2>4. f <= j /\ SlotIds \subseteq Nat
    BY <1>1, <2>3, HidHostAssumption DEF SlotIds
  <2> QED
    BY <2>2, <2>4
<1> HIDE DEF a
<1>3. Find(slots, <<a, 0>>) = {f}
  BY <1>1, PlainFound
<1>4. Has(slots, f, a, 0)
  BY <1>1, <1>2 DEF Has
<1> QED
  BY <1>3, <1>4 DEF a

LEMMA MarkedKeyFinds ==
  ASSUME AInv, IInv, closing = <<>>, NEW a \in Addrs, device[<<a, 128>>] # "none"
  PROVE  \E f \in SlotIds : slots[f].mounted /\ slots[f].addr = a /\ slots[f].type = "mouse"
                              /\ slots[f].inst = 1 /\ Find(slots, <<a, 128>>) = {f}
<1> DEFINE S == {j \in SlotIds : slots[j].mounted /\ slots[j].addr = a /\ slots[j].type = "mouse"}
<1>1. PICK i \in SlotIds : slots[i].mounted /\ slots[i].addr = a /\ slots[i].inst > 0 /\ slots[i].type = "mouse"
  BY DEF AInv, Keyed, Leaving
<1>2. PICK f \in S : Lowest(S) = {f}
  <2>1. S \in SUBSET SlotIds /\ S # {}
    BY <1>1
  <2> QED
    BY <2>1, LowestFound
<1>3. usb[a] \in Kinds /\ TypeOf(Interfaces(usb[a])[1]) = "keyboard"
  <2>1. slots[i].inst \in Nat /\ 0 < slots[i].inst /\ usb[a] \in Kinds /\ slots[i].inst < Len(Interfaces(usb[a]))
    BY <1>1, TableFacts DEF AInv, Described
  <2> QED
    BY <2>1, Devices
<1>4. slots[f].mounted /\ slots[f].addr = a /\ slots[f].type = "mouse"
  OBVIOUS
<1>5. slots[f].inst = 1
  <2>1. /\ slots[f].inst \in Nat /\ slots[f].inst < Len(Interfaces(usb[a]))
        /\ TypeOf(Interfaces(usb[a])[slots[f].inst + 1]) = "mouse"
    BY <1>4, TableFacts DEF AInv, Described
  <2>2. slots[f].inst # 0
    <3> SUFFICES ASSUME slots[f].inst = 0 PROVE FALSE
      OBVIOUS
    <3>1. 0 + 1 = 1
      OBVIOUS
    <3> QED
      BY <1>3, <2>1, <3>1
  <2>3. CASE slots[f].inst # 1
    <3>1. Interfaces(usb[a])[slots[f].inst + 1] \in {"other", "mute"}
      BY <1>3, <2>1, <2>2, <2>3, Devices
    <3> QED
      BY <2>1, <3>1, MouseType
  <2> QED
    BY <2>3
<1>6. Find(slots, <<a, 128>>) = {f}
  BY <1>2, MarkedFound, ZenonT(40)
<1> QED
  BY <1>4, <1>5, <1>6

LEMMA Agreeing == AInv /\ IInv => TablesAgree
<1> SUFFICES ASSUME AInv, IInv, closing = <<>> PROVE TypeAgrees /\ Reachable
  BY DEF TablesAgree, TypeAgrees, Reachable
<1>0. \A a : ~Leaving(closing, a)
  BY DEF Leaving
<1>1. ASSUME NEW k \in Held PROVE GetType(slots, k) = device[k]
  <2>1. PICK a \in Addrs : k = <<a, 0>> \/ k = <<a, 128>>
    BY DEF Held, Keys
  <2>2. CASE k = <<a, 0>>
    <3>1. PICK i \in SlotIds : slots[i].mounted /\ slots[i].addr = a
      <4>1. k \in Keys /\ device[k] # "none" /\ k[1] = a
        BY <2>2 DEF Held
      <4> QED
        BY <4>1, TableFacts
    <3>2. PICK f \in SlotIds : Has(slots, f, a, 0) /\ Find(slots, k) = {f}
      BY <2>2, <3>1, PlainKeyFinds
    <3>3. slots[f].type \in Types
      <4>1. usb[a] \in Kinds /\ slots[f].type = TypeOf(Interfaces(usb[a])[0 + 1])
        BY <3>2, TableFacts DEF Has, AInv, Described
      <4>2. 0 + 1 = 1
        OBVIOUS
      <4>3. slots[f].type = TypeOf(Interfaces(usb[a])[1])
        BY <4>1, <4>2
      <4> QED
        BY <4>1, <4>3, Devices
    <3>4. device[k] = slots[f].type
      BY <1>0, <2>2, <3>2, <3>3 DEF Has, AInv, Keyed
    <3>5. (CHOOSE j \in {f} : TRUE) = f /\ {f} # {}
      OBVIOUS
    <3> QED
      BY <3>2, <3>4, <3>5 DEF GetType
  <2>3. CASE k = <<a, 128>>
    <3>1. device[<<a, 128>>] # "none"
      BY <2>3 DEF Held
    <3>2. PICK f \in SlotIds : slots[f].mounted /\ slots[f].addr = a /\ slots[f].type = "mouse"
                              /\ slots[f].inst = 1 /\ Find(slots, k) = {f}
      BY <2>3, <3>1, MarkedKeyFinds
    <3>3. device[k] = "mouse"
      <4>1. slots[f].type \in Types /\ slots[f].inst # 0 /\ ~Leaving(closing, slots[f].addr)
        BY <1>0, <3>2 DEF Types
      <4>2. device[<<slots[f].addr, 128>>] = "mouse"
        BY <3>2, <4>1 DEF AInv, Keyed
      <4> QED
        BY <2>3, <3>2, <4>2
    <3>4. (CHOOSE j \in {f} : TRUE) = f /\ {f} # {}
      OBVIOUS
    <3> QED
      BY <3>2, <3>3, <3>4 DEF GetType
  <2> QED
    BY <2>1, <2>2, <2>3
<1>2. ASSUME NEW i \in SlotIds, slots[i].mounted, slots[i].type \in Types
      PROVE  \E k \in Held : device[k] = slots[i].type /\ i \in Find(slots, k)
  <2>1. slots[i].addr \in Addrs /\ usb[slots[i].addr] \in Kinds
    BY <1>2, TableFacts
  <2> DEFINE a == slots[i].addr
  <2>2. "none" \notin Types /\ <<a, 0>> \in Keys /\ <<a, 128>> \in Keys
    BY <2>1 DEF Types, Keys
  <2>3. CASE slots[i].inst = 0
    <3>1. PICK f \in SlotIds : Has(slots, f, a, 0) /\ Find(slots, <<a, 0>>) = {f}
      BY <1>2, PlainKeyFinds
    <3>2. f = i
      BY <1>2, <2>3, <3>1, TableFacts DEF Has
    <3>3. device[<<a, 0>>] = slots[i].type
      BY <1>0, <1>2, <2>3 DEF AInv, Keyed
    <3> QED
      BY <1>2, <2>2, <3>1, <3>2, <3>3 DEF Held
  <2>4. CASE slots[i].inst # 0
    <3>1. slots[i].type = "mouse" /\ device[<<a, 128>>] = "mouse"
      BY <1>0, <1>2, <2>4 DEF AInv, Keyed
    <3>2. PICK f \in SlotIds : slots[f].mounted /\ slots[f].addr = a /\ slots[f].type = "mouse"
                              /\ slots[f].inst = 1 /\ Find(slots, <<a, 128>>) = {f}
      BY <2>1, <3>1, MarkedKeyFinds
    <3>3. slots[i].inst = 1
      <4>1. /\ slots[i].inst \in Nat /\ 0 < slots[i].inst /\ slots[i].inst < Len(Interfaces(usb[a]))
            /\ TypeOf(Interfaces(usb[a])[slots[i].inst + 1]) = "mouse"
        BY <1>2, <2>4, <3>1, TableFacts DEF AInv, Described
      <4> SUFFICES ASSUME slots[i].inst # 1 PROVE FALSE
        OBVIOUS
      <4>2. Interfaces(usb[a])[slots[i].inst + 1] \in {"other", "mute"}
        BY <2>1, <4>1, Devices
      <4> QED
        BY <4>1, <4>2, MouseType
    <3>4. f = i
      BY <1>2, <3>2, <3>3, TableFacts
    <3> QED
      BY <2>2, <3>1, <3>2, <3>4 DEF Held
  <2> QED
    BY <2>3, <2>4
<1>3. TypeAgrees
  BY <1>1 DEF TypeAgrees
<1>4. Reachable
  BY <1>2 DEF Reachable
<1> QED
  BY <1>3, <1>4

-------------------------------------------------------------------------------
\* The inductive invariant: what the table holds is open on the bus and once in it,
\* what is registered is in the table, the buffers lent are of registered devices.
THEOREM Inductive == Spec => []IInv
<1>1. Init => IInv
  BY Initially
<1>2. IInv /\ [Next]_vars => IInv'
  BY Preserved
<1> QED
  BY <1>1, <1>2, PTL DEF Spec

\* The counters of the menus are the numbers of registered devices
\* (tuh_hid_mounted_cb, tuh_hid_unmounted_cb), with the types of all variables.
THEOREM Counters == Spec => []CountsMatch
<1>1. IInv => CountsMatch
  BY Consequences
<1> QED
  BY <1>1, Inductive, PTL

\* No report is copied into a freed buffer (tuh_hid_report_received_cb).
THEOREM BuffersLive == Spec => []DestLive
<1>1. IInv => DestLive
  BY Consequences
<1> QED
  BY <1>1, Inductive, PTL

\* A registered device is in the table of interfaces, and one that is gone has
\* left nothing behind (tuh_hid_umount_cb).
THEOREM Forgotten == Spec => []NothingLeft
<1>1. IInv => NothingLeft
  BY Consequences
<1> QED
  BY <1>1, Inductive, PTL

\* A port belongs to one registered joystick (hid_joystick_assign_slot,
\* hid_joystick_release_slot).
THEOREM PortOwners == Spec => []PortsHeld
<1>1. IInv => PortsHeld
  BY Consequences
<1> QED
  BY <1>1, Inductive, PTL

\* The table of interfaces and the map of devices agree on what every key is, and
\* every interface of a type is reachable under a key (tuh_hid_mounted_cb,
\* find_device), as long as TinyUSB keeps the interfaces of a device together.
THEOREM Agree == Together => (Spec => []TablesAgree)
<1>1. Init => AInv
  BY InitiallyAgree
<1>2. ASSUME Together PROVE IInv /\ AInv /\ [Next]_vars => AInv'
  BY <1>2, AgreementKept
<1>3. AInv /\ IInv => TablesAgree
  BY Agreeing
<1>4. ASSUME Together PROVE Spec => []TablesAgree
  BY <1>1, <1>2, <1>3, <1>4, Inductive, PTL DEF Spec
<1> QED
  BY <1>4

===============================================================================
