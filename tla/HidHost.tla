------------------------------- MODULE HidHost -------------------------------
(***************************************************************************)
(* The USB HID host on core 0: the table of interfaces that hid_app_host.c  *)
(* keeps, the device map of HidInput_common.cpp, and the hand-over of a     *)
(* report buffer between the two.                                          *)
(*                                                                         *)
(* TinyUSB mounts and unmounts interfaces, and delivers reports, inside     *)
(* tuh_task; every 10 ms the main loop runs tuh_task and then the keyboard, *)
(* mouse and joystick handlers.  A map key is <<address, 0>>, or            *)
(* <<address, 128>> for the mouse interface of a device that already holds  *)
(* the plain key.  A buffer is named by its key.                            *)
(***************************************************************************)
EXTENDS PortList, FiniteSets

CONSTANTS
  Addrs,    \* USB addresses
  NSlots,   \* CFG_TUH_HID
  Kinds,    \* kinds of device that are plugged in
  Restless  \* a device may be removed while another is being enumerated

ASSUME HidHostAssumption ==
  /\ Addrs \subseteq Nat \ {0}
  /\ NSlots \in Nat \ {0}
  /\ Kinds \subseteq {"keyboard", "mouse", "boot_mouse", "odd_mouse", "stick",
                      "pad", "combo", "receiver"}
  /\ Restless \in BOOLEAN

VARIABLES
  \* The bus, as TinyUSB sees it.
  usb,      \* kind of the device at each address, or "none"
  opened,   \* number of its interfaces TinyUSB has mounted
  closing,  \* <<address, instance>> TinyUSB is about to unmount, or <<>>
  \* The program.
  phase,    \* what the 10 ms poll is doing
  slots,    \* hid_devices
  device,   \* device_type: the type recorded under each key, or "none"
  count,    \* kb_count, mouse_count, joy_count
  usbJoy,   \* s_usb_joy, without the trailing empty entries
  fresh     \* history: keys whose buffer holds a report no handler has read

vars == <<usb, opened, closing, phase, slots, device, count, usbJoy, fresh>>

Keys == Addrs \X {0, 128}
NoKey == <<0, 0>>
Types == {"keyboard", "mouse", "joystick"}

\* The interfaces of a device, in the order of their instance numbers.
\* "boot_mouse" is a mouse whose report descriptor was not usable, "odd_mouse"
\* one that claims the keyboard protocol, "mute" an interface without a usable
\* descriptor, "other" one that is none of the types.
Interfaces(kind) ==
  CASE kind = "keyboard"   -> <<"keyboard">>
    [] kind = "mouse"      -> <<"mouse">>
    [] kind = "boot_mouse" -> <<"boot_mouse">>
    [] kind = "odd_mouse"  -> <<"odd_mouse">>
    [] kind = "stick"      -> <<"stick">>
    [] kind = "pad"        -> <<"pad">>
    [] kind = "combo"      -> <<"keyboard", "mouse">>
    [] kind = "receiver"   -> <<"keyboard", "mouse", "other", "mute">>

MouseItfs == {"mouse", "boot_mouse", "odd_mouse"}
TypeOf(itf) == CASE itf = "keyboard"                -> "keyboard"
                 [] itf \in MouseItfs               -> "mouse"
                 [] itf \in {"stick", "pad"}        -> "joystick"
                 [] itf \in {"other", "mute"}       -> "undefined"

-------------------------------------------------------------------------------
(* The interface table. *)

SlotIds == 1 .. NSlots
FreeSlot == [mounted |-> FALSE, addr |-> 0, inst |-> 0, itf |-> "none",
             type |-> "undefined", info |-> FALSE, dest |-> NoKey]
NewSlot(a, inst, itf) ==
  [mounted |-> TRUE, addr |-> a, inst |-> inst, itf |-> itf,
   type |-> TypeOf(itf), info |-> itf \in {"mouse", "odd_mouse", "stick", "other"},
   dest |-> NoKey]

\* The slot with the lowest index among those that satisfy a test, as a set of
\* at most one element.
Lowest(S) == {i \in S : \A j \in S : i <= j}

FindAnyType(s, key) ==
  Lowest({i \in SlotIds : s[i].mounted /\ s[i].addr = key[1]})
\* find_device: a marked key finds the mouse interface, a plain key the first.
Find(s, key) ==
  Lowest({i \in SlotIds : /\ s[i].mounted /\ s[i].addr = key[1]
                          /\ key[2] = 128 => s[i].type = "mouse"})

GetType(s, key) ==
  IF Find(s, key) = {} THEN "undefined" ELSE s[CHOOSE i \in Find(s, key) : TRUE].type
IsMounted(s, key) == Find(s, key) # {}
IsBusy(s, key)    == \E i \in Find(s, key) : s[i].dest # NoKey
HasInfo(s, key)   == \E i \in Find(s, key) : s[i].info

\* hid_app_request_report(key, the buffer of bufferKey)
RequestReport(s, key, bufferKey) ==
  [i \in SlotIds |-> IF i \in Find(s, key) THEN [s[i] EXCEPT !.dest = bufferKey]
                     ELSE s[i]]

Others(s, i) == {j \in SlotIds \ {i} : s[j].mounted /\ s[j].addr = s[i].addr}

Init ==
  /\ usb = [a \in Addrs |-> "none"]
  /\ opened = [a \in Addrs |-> 0]
  /\ closing = <<>>
  /\ phase = "usb"
  /\ slots = [i \in SlotIds |-> FreeSlot]
  /\ device = [k \in Keys |-> "none"]
  /\ count = [t \in Types |-> 0]
  /\ usbJoy = <<>>
  /\ fresh = {}

-------------------------------------------------------------------------------
(* The application callbacks of HidInput_common.cpp. *)

\* The key tuh_hid_mounted_cb registers: a mouse that finds its plain key
\* taken uses the marked one.
NewKeys(dev, a, type) ==
  IF type \notin Types THEN {}
  ELSE IF dev[<<a, 0>>] = "none" THEN {<<a, 0>>}
  ELSE IF type = "mouse" /\ dev[<<a, 128>>] = "none" THEN {<<a, 128>>}
  ELSE {}

\* tuh_hid_mounted_cb, on the interface table s.
MountedCb(s, a, marked) ==
  LET type == IF marked THEN "mouse" ELSE GetType(s, <<a, 0>>)
      new  == NewKeys(device, a, type)
  IN IF new = {}
       THEN slots' = s /\ UNCHANGED <<device, count, usbJoy>>
       ELSE LET k == CHOOSE k \in new : TRUE
            IN /\ slots' = RequestReport(s, k, k)
               /\ device' = [device EXCEPT ![k] = type]
               /\ count' = [count EXCEPT ![type] = @ + 1]
               /\ usbJoy' = IF type = "joystick" THEN AssignSlot(usbJoy, a) ELSE usbJoy

Registered(a) == {k \in {<<a, 0>>, <<a, 128>>} : device[k] # "none"}

\* tuh_hid_unmounted_cb: both keys of the address are released, the counters
\* going by the types recorded at mount time.
UnmountedCbPlain(a) ==
  /\ device' = [device EXCEPT ![<<a, 0>>] = "none"]
  /\ count' = [t \in Types |-> IF device[<<a, 0>>] = t THEN count[t] - 1 ELSE count[t]]
  /\ usbJoy' = IF device[<<a, 0>>] = "joystick" THEN ReleaseSlot(usbJoy, a) ELSE usbJoy
  /\ fresh' = fresh \ {<<a, 0>>}
UnmountedCbByLastType(a) ==
  LET last == GetType(slots, <<a, 0>>)
      keys == Registered(a)
  IN /\ device' = [k \in Keys |-> IF k \in keys THEN "none" ELSE device[k]]
     /\ count' = [t \in Types |-> IF t = last THEN count[t] - Cardinality(keys)
                                              ELSE count[t]]
     /\ usbJoy' = IF last = "joystick" THEN ReleaseSlot(usbJoy, a) ELSE usbJoy
     /\ fresh' = fresh \ keys
UnmountedCbKeepsPort(a) ==
  LET keys == Registered(a)
  IN /\ device' = [k \in Keys |-> IF k \in keys THEN "none" ELSE device[k]]
     /\ count' = [t \in Types |-> count[t] - Cardinality({k \in keys : device[k] = t})]
     /\ fresh' = fresh \ keys
     /\ UNCHANGED usbJoy
UnmountedCb(a) ==
  LET keys == Registered(a)
  IN /\ device' = [k \in Keys |-> IF k \in keys THEN "none" ELSE device[k]]
     /\ count' = [t \in Types |-> count[t] - Cardinality({k \in keys : device[k] = t})]
     /\ usbJoy' = IF \E k \in keys : device[k] = "joystick"
                    THEN ReleaseSlot(usbJoy, a) ELSE usbJoy
     /\ fresh' = fresh \ keys

-------------------------------------------------------------------------------
(* tuh_task: plugging, enumeration, removal, reports. *)

Enumerating(a) == usb[a] # "none" /\ opened[a] < Len(Interfaces(usb[a]))
InTask == phase = "usb" /\ closing = <<>>

\* TinyUSB enumerates one device at a time.
Plug(a) ==
  /\ InTask
  /\ usb[a] = "none"
  /\ \A b \in Addrs : ~Enumerating(b)
  /\ \E kind \in Kinds : usb' = [usb EXCEPT ![a] = kind]
  /\ UNCHANGED <<opened, closing, phase, slots, device, count, usbJoy, fresh>>

\* tuh_hid_mount_cb for the next interface of a device.  A keyboard or another
\* interface is announced only if it is the first of its address, a mouse
\* always and with the marker, a gamepad always; an interface without a
\* usable descriptor never.
MountFirstOnly(a) ==
  LET inst == opened[a]
      itf  == Interfaces(usb[a])[inst + 1]
      free == Lowest({i \in SlotIds : ~slots[i].mounted})
  IN /\ InTask
     /\ Enumerating(a)
     /\ opened' = [opened EXCEPT ![a] = @ + 1]
     /\ IF free = {}
          THEN UNCHANGED <<slots, device, count, usbJoy>>
          ELSE LET i == CHOOSE i \in free : TRUE
                   s == [slots EXCEPT ![i] = NewSlot(a, inst, itf)]
               IN IF itf # "mute" /\ Others(s, i) = {}
                    THEN MountedCb(s, a, itf \in {"mouse", "boot_mouse"})
                    ELSE slots' = s /\ UNCHANGED <<device, count, usbJoy>>
     /\ UNCHANGED <<usb, closing, phase, fresh>>
Mount(a) ==
  LET inst == opened[a]
      itf  == Interfaces(usb[a])[inst + 1]
      free == Lowest({i \in SlotIds : ~slots[i].mounted})
      isMouse == itf \in {"mouse", "boot_mouse"}
  IN /\ InTask
     /\ Enumerating(a)
     /\ opened' = [opened EXCEPT ![a] = @ + 1]
     /\ IF free = {}
          THEN UNCHANGED <<slots, device, count, usbJoy>>
          ELSE LET i == CHOOSE i \in free : TRUE
                   s == [slots EXCEPT ![i] = NewSlot(a, inst, itf)]
               IN IF isMouse \/ itf = "pad" \/ (itf # "mute" /\ Others(s, i) = {})
                    THEN MountedCb(s, a, isMouse)
                    ELSE slots' = s /\ UNCHANGED <<device, count, usbJoy>>
     /\ UNCHANGED <<usb, closing, phase, fresh>>

\* A device is removed; TinyUSB then closes its interfaces one by one.
Unplug(a) ==
  /\ InTask
  /\ usb[a] # "none"
  /\ Restless \/ \A b \in Addrs \ {a} : ~Enumerating(b)
  /\ closing' = <<a, 0>>
  /\ UNCHANGED <<usb, opened, phase, slots, device, count, usbJoy, fresh>>

\* tuh_hid_umount_cb: the callback runs with the last interface only.
UmountAlways(a, inst) ==
  LET found == {i \in SlotIds : /\ slots[i].mounted /\ slots[i].addr = a
                                /\ slots[i].inst = inst}
  IN IF found = {}
       THEN UNCHANGED <<slots, device, count, usbJoy, fresh>>
       ELSE LET i == CHOOSE i \in found : TRUE
            IN /\ slots' = [slots EXCEPT ![i] = FreeSlot]
               /\ UnmountedCb(a)
UmountKeepsSlot(a, inst) ==
  LET found == {i \in SlotIds : /\ slots[i].mounted /\ slots[i].addr = a
                                /\ slots[i].inst = inst}
  IN IF found = {}
       THEN UNCHANGED <<slots, device, count, usbJoy, fresh>>
       ELSE LET i == CHOOSE i \in found : TRUE
            IN IF Others(slots, i) = {}
                 THEN UnmountedCb(a) /\ slots' = [slots EXCEPT ![i].dest = NoKey]
                 ELSE /\ slots' = [slots EXCEPT ![i] = FreeSlot]
                      /\ UNCHANGED <<device, count, usbJoy, fresh>>
Umount(a, inst) ==
  LET found == {i \in SlotIds : /\ slots[i].mounted /\ slots[i].addr = a
                                /\ slots[i].inst = inst}
  IN IF found = {}
       THEN UNCHANGED <<slots, device, count, usbJoy, fresh>>
       ELSE LET i == CHOOSE i \in found : TRUE
            IN /\ slots' = [slots EXCEPT ![i] = FreeSlot]
               /\ IF Others(slots, i) = {}
                    THEN UnmountedCb(a)
                    ELSE UNCHANGED <<device, count, usbJoy, fresh>>

CloseNext ==
  /\ closing # <<>>
  /\ LET a == closing[1]
         inst == closing[2]
     IN IF inst < opened[a]
          THEN /\ Umount(a, inst)
               /\ closing' = <<a, inst + 1>>
               /\ UNCHANGED <<usb, opened>>
          ELSE /\ usb' = [usb EXCEPT ![a] = "none"]
               /\ opened' = [opened EXCEPT ![a] = 0]
               /\ closing' = <<>>
               /\ UNCHANGED <<slots, device, count, usbJoy, fresh>>
  /\ UNCHANGED phase

\* tuh_hid_report_received_cb: without a request the report is dropped.  A
\* gamepad's reports take another way, a mute interface has none.
Report(i) ==
  /\ InTask
  /\ slots[i].mounted
  /\ slots[i].itf \notin {"pad", "mute"}
  /\ slots[i].dest # NoKey
  /\ fresh' = fresh \cup {slots[i].dest}
  /\ slots' = [slots EXCEPT ![i].dest = NoKey]
  /\ UNCHANGED <<usb, opened, closing, phase, device, count, usbJoy>>

TaskDone ==
  /\ InTask
  /\ phase' = "keyboard"
  /\ UNCHANGED <<usb, opened, closing, slots, device, count, usbJoy, fresh>>

-------------------------------------------------------------------------------
(* The handlers. *)

Held == {k \in Keys : device[k] # "none"}

\* handle_keyboard reads and re-arms every keyboard that has reported.
HandleKeyboardPrimary ==
  LET ready == {k \in Held : /\ GetType(slots, k) = "keyboard"
                             /\ IsMounted(slots, k) /\ ~IsBusy(slots, k)}
      first == {k \in ready : \A l \in ready : k[1] <= l[1]}
  IN /\ phase = "keyboard"
     /\ fresh' = fresh \ first
     /\ slots' = [i \in SlotIds |->
                    IF \E k \in first : i \in Find(slots, k)
                      THEN [slots[i] EXCEPT !.dest = CHOOSE k \in first : i \in Find(slots, k)]
                      ELSE slots[i]]
     /\ phase' = "mouse"
     /\ UNCHANGED <<usb, opened, closing, device, count, usbJoy>>
HandleKeyboard ==
  LET ready == {k \in Held : /\ GetType(slots, k) = "keyboard"
                             /\ IsMounted(slots, k) /\ ~IsBusy(slots, k)}
  IN /\ phase = "keyboard"
     /\ fresh' = fresh \ ready
     /\ slots' = [i \in SlotIds |->
                    IF \E k \in ready : i \in Find(slots, k)
                      THEN [slots[i] EXCEPT !.dest = CHOOSE k \in ready : i \in Find(slots, k)]
                      ELSE slots[i]]
     /\ phase' = "mouse"
     /\ UNCHANGED <<usb, opened, closing, device, count, usbJoy>>

\* handle_mouse looks up the type under the map key but asks for the state of,
\* and re-arms, the plain address.  A mouse without report information is
\* read under the marked key only.
Plain(k) == <<k[1], 0>>

HandleMouse ==
  LET ready == {k \in Held : /\ GetType(slots, k) = "mouse"
                             /\ IsMounted(slots, Plain(k))
                             /\ ~IsBusy(slots, Plain(k))}
      understood == {k \in ready : HasInfo(slots, k) \/ k[2] = 128}
      \* the plain key comes first in the map; when both are ready the later
      \* key finds the interface busy again
      armed == {k \in ready : k = Plain(k) \/ Plain(k) \notin ready}
  IN /\ phase = "mouse"
     /\ fresh' = fresh \ (understood \cap armed)
     /\ slots' = [i \in SlotIds |->
                    IF \E k \in armed : i \in Find(slots, Plain(k))
                      THEN [slots[i] EXCEPT
                              !.dest = CHOOSE k \in armed : i \in Find(slots, Plain(k))]
                      ELSE slots[i]]
     /\ phase' = "joystick"
     /\ UNCHANGED <<usb, opened, closing, device, count, usbJoy>>

\* handle_joystick polls the stick of a port whose source is USB: the ports so
\* set are any.
HandleJoystick ==
  /\ phase = "joystick"
  /\ \E ports \in SUBSET (1 .. Len(usbJoy)) :
       LET ready == {k \in {<<usbJoy[p], 0>> : p \in ports} :
                       /\ device[k] # "none"
                       /\ IsMounted(slots, k) /\ ~IsBusy(slots, k)
                       /\ HasInfo(slots, k)}
       IN /\ fresh' = fresh \ ready
          /\ slots' = [i \in SlotIds |->
                         IF \E k \in ready : i \in Find(slots, k)
                           THEN [slots[i] EXCEPT
                                   !.dest = CHOOSE k \in ready : i \in Find(slots, k)]
                           ELSE slots[i]]
  /\ phase' = "usb"
  /\ UNCHANGED <<usb, opened, closing, device, count, usbJoy>>

-------------------------------------------------------------------------------
Next == \/ \E a \in Addrs : Plug(a) \/ Mount(a) \/ Unplug(a)
        \/ CloseNext
        \/ \E i \in SlotIds : Report(i)
        \/ TaskDone
        \/ HandleKeyboard \/ HandleMouse \/ HandleJoystick

Spec == Init /\ [][Next]_vars

(***************************************************************************)
(* tuh_task returns once its event queue is empty, whatever is plugged and  *)
(* unplugged meanwhile, and the handlers always run.  Nothing is assumed of *)
(* the devices.                                                            *)
(***************************************************************************)
Fairness == /\ WF_vars(CloseNext)
            /\ SF_vars(TaskDone)
            /\ WF_vars(HandleKeyboard)
            /\ WF_vars(HandleMouse)
            /\ WF_vars(HandleJoystick)

FairSpec == Spec /\ Fairness

-------------------------------------------------------------------------------
(* Properties. *)

SlotRecords == [mounted : BOOLEAN, addr : Addrs \cup {0}, inst : Nat,
                itf : MouseItfs \cup {"none", "keyboard", "stick", "pad",
                                      "other", "mute"},
                type : Types \cup {"undefined"}, info : BOOLEAN,
                dest : Keys \cup {NoKey}]

TypeOK ==
  /\ usb \in [Addrs -> Kinds \cup {"none"}]
  /\ opened \in [Addrs -> Nat]
  /\ closing = <<>> \/ closing \in Addrs \X Nat
  /\ phase \in {"usb", "keyboard", "mouse", "joystick"}
  /\ slots \in [SlotIds -> SlotRecords]
  /\ device \in [Keys -> Types \cup {"none"}]
  /\ count \in [Types -> Int]
  /\ usbJoy \in Seq(Addrs) /\ Len(usbJoy) <= 2
  /\ fresh \subseteq Keys

\* The counters the menus show are the number of registered devices of each
\* type, combos included, however devices come and go.
CountsMatch ==
  /\ TypeOK
  /\ \A t \in Types : count[t] = Cardinality({k \in Keys : device[k] = t})

\* A registered device is really there: an interface of its address is in the
\* table.  (The handlers index the map by what the table says.)
NoOrphan == \A k \in Held : \E i \in SlotIds : slots[i].mounted /\ slots[i].addr = k[1]

\* A report is only ever copied into a live buffer of the device it comes from.
DestLive == \A i \in SlotIds :
  slots[i].dest # NoKey =>
    /\ slots[i].mounted
    /\ slots[i].dest \in Held
    /\ slots[i].dest[1] = slots[i].addr

\* While all interfaces of a device are mounted, the table and the map agree on
\* what each of its keys is: no handler reads another type's buffer.
TypeAgrees == \A k \in Held :
  closing = <<>> => GetType(slots, k) = device[k]

\* Every usable interface that found a slot is reachable under a key.
Reachable == \A i \in SlotIds :
  slots[i].mounted /\ slots[i].type \in Types /\ closing = <<>> =>
    \E k \in Held : device[k] = slots[i].type /\ i \in Find(slots, k)

\* The table of interfaces and the map of devices tell the same story, in both
\* directions.
TablesAgree == TypeAgrees /\ Reachable

\* When everything is unplugged, nothing is left in the table, the map, the
\* counters or the port list.
NoLeak ==
  (\A a \in Addrs : usb[a] = "none") =>
    /\ \A i \in SlotIds : slots[i] = FreeSlot
    /\ Held = {}
    /\ \A t \in Types : count[t] = 0
    /\ usbJoy = <<>>

\* What is registered is there, and what is gone has left nothing behind.
NothingLeft == NoOrphan /\ NoLeak

\* A port belongs to a joystick that is still registered, and to one only.
PortsHeld ==
  /\ \A p \in 1 .. Len(usbJoy) : device[<<usbJoy[p], 0>>] = "joystick"
  /\ \A p, q \in 1 .. Len(usbJoy) : usbJoy[p] = usbJoy[q] => p = q

\* A report in the buffer of a keyboard or mouse is read by its handler (or the
\* device is unplugged).
ReportsRead == \A k \in Keys :
  (k \in fresh /\ device[k] \in {"keyboard", "mouse"}) ~> (k \notin fresh)
===============================================================================
