---------------------------- MODULE KeyboardProofs ----------------------------
(***************************************************************************)
(* The keyboards for every number of them, every report, every key map of  *)
(* keys the ST has and every report id an LED byte is taken under: what    *)
(* the ROM finds pressed, what the LEDs show, and what capture mode hides. *)
(***************************************************************************)
EXTENDS Keyboard, FiniteSetTheorems, WellFoundedInduction, TLAPS

\* The types, part by part.
UsbOK == mounted \subseteq Keyboards /\ ready \in [Keyboards -> BOOLEAN] /\ buf \in [Keyboards -> Report]
LedsOK ==
  /\ currentLed \in LedBytes
  /\ led \in [Keyboards -> LedBytes \cup {0}]
  /\ lastLed \in [Keyboards -> LedBytes \cup {Unknown}]
  /\ ledRid \in [Keyboards -> 0 .. 2 \cup {Unknown}]
  /\ control \in [dev : Keyboards, rid : 0 .. 2 \cup {SetProtocol}, byte : LedBytes] \cup {NoTransfer}
EffectsOK ==
  /\ last \in [Shortcuts -> BOOLEAN]
  /\ caps \in [hw : BOOLEAN, on : BOOLEAN, pulse : BOOLEAN]
  /\ mouseOn \in BOOLEAN /\ joyUsb \in [0 .. 1 -> BOOLEAN]
  /\ overclocked \in BOOLEAN /\ resetFlag \in BOOLEAN
RestOK ==
  /\ at0 \in {"poll", "modifiers"} /\ capture \in BOOLEAN /\ captured \in HidCodes
  /\ down \subseteq 1 .. 127 /\ shown \subseteq Keyboards

Types == UsbOK /\ LedsOK /\ EffectsOK /\ RestOK

ShortcutKeys == {ShortcutKey[s] : s \in Shortcuts}

\* Between the two halves of the writes key_states holds the first half of what
\* the primary keyboard's report asks for, and capture mode is off.
Halfway ==
  at0 = "modifiers" =>
    /\ ~capture /\ Ready # {} /\ shown = {}
    /\ down = KeyStates(buf[Primary], caps.pulse)
    /\ caps.pulse <=> CapsLock \in buf[Primary].keys

\* After both halves it holds what the keyboard that was taken asks for.
Shows == at0 = "poll" => \A k \in shown : down = Wanted(buf[k])

\* The pulse of Caps Lock lasts as long as the key is held.
Steady == caps.pulse = caps.hw /\ captured \notin ShortcutKeys

Matrix == Halfway /\ Shows /\ Steady

\* The control transfer in progress is for a keyboard that is there: setting its
\* protocol, looking for its report id from 0 up while it was sent no LED byte,
\* or sending it the byte that dev_last_led has under the id found.
Probing ==
  control # NoTransfer =>
    LET k == control.dev IN
    /\ k \in mounted
    /\ control.rid = SetProtocol => lastLed[k] = Unknown
    /\ control.rid # SetProtocol /\ LedRid[k] <= 2 =>
         \/ lastLed[k] = Unknown /\ ledRid[k] = Unknown /\ control.rid <= LedRid[k]
         \/ ledRid[k] = LedRid[k] /\ control.rid = LedRid[k] /\ control.byte = lastLed[k]

\* The report id of a keyboard without a transfer is known, and one that is not
\* there was sent nothing.
Known ==
  \A k \in Keyboards :
    IF k \in mounted THEN control.dev # k /\ LedRid[k] <= 2 => ledRid[k] = LedRid[k]
    ELSE lastLed[k] = Unknown

Leds == Probing /\ Known /\ LedTrue

IInv == Types /\ Matrix /\ Leds

-------------------------------------------------------------------------------
(* The tables. *)

LEMMA ModCodesAre == ModCodes = {29, 42, 54, 56} /\ ModCode \in [Mods -> {29, 42, 54, 56}]
BY DEF ModCodes, ModCode, Mods, LShift, RShift, Control, Alternate

\* No other crossing of the ROM's matrix has the code of a modifier or of Caps
\* Lock.
LEMMA NoModifier == \A n \in 1 .. 88 : RomMatrix[n] \notin {29, 42, 54, 56}
BY DEF RomMatrix

LEMMA OneCapsLock == \A n \in 1 .. 88 : RomMatrix[n] = 58 <=> n = 56
BY DEF RomMatrix

LEMMA CrossingOfModifier ==
  /\ Crossings(29) = {<<4, 0>>} /\ Crossings(42) = {<<5, 1>>}
  /\ Crossings(56) = {<<6, 2>>} /\ Crossings(54) = {<<7, 3>>}
<1>1. Crossings(29) = {<<4, 0>>}
  BY NoModifier DEF Crossings, get_scancode, Bits, Columns, RomFunction, RomModifiers
<1>2. Crossings(42) = {<<5, 1>>}
  BY NoModifier DEF Crossings, get_scancode, Bits, Columns, RomFunction, RomModifiers
<1>3. Crossings(56) = {<<6, 2>>}
  BY NoModifier DEF Crossings, get_scancode, Bits, Columns, RomFunction, RomModifiers
<1>4. Crossings(54) = {<<7, 3>>}
  BY NoModifier DEF Crossings, get_scancode, Bits, Columns, RomFunction, RomModifiers
<1> QED
  BY <1>1, <1>2, <1>3, <1>4

LEMMA CrossingOfCaps == Crossings(58) = {<<7, 10>>}
<1>1. ASSUME NEW bit \in Bits, NEW column \in Columns
      PROVE  get_scancode(bit, column) = 58 <=> bit = 7 /\ column = 10
  <2>1. CASE column >= 4
    <3>1. get_scancode(bit, column) = RomMatrix[1 + bit + (column - 4) * 8]
      BY <2>1 DEF get_scancode
    <3>2. 1 + bit + (column - 4) * 8 \in 1 .. 88
      BY <2>1 DEF Bits, Columns
    <3>3. 1 + bit + (column - 4) * 8 = 56 <=> bit = 7 /\ column = 10
      BY <2>1 DEF Bits, Columns
    <3> QED
      BY <3>1, <3>2, <3>3, OneCapsLock
  <2>2. CASE column < 4
    BY <2>2 DEF get_scancode, Bits, Columns, RomFunction, RomModifiers
  <2> QED
    BY <2>1, <2>2 DEF Columns
<1>2. <<7, 10>> \in Bits \X Columns
  BY DEF Bits, Columns
<1> QED
  BY <1>1, <1>2 DEF Crossings

\* A scan of the matrix finds the crossings of the codes that are down.
LEMMA ScanFinds == ASSUME NEW d PROVE Scan(d) = UNION {Crossings(c) : c \in d}
<1>1. ASSUME NEW p \in Scan(d) PROVE p \in UNION {Crossings(c) : c \in d}
  <2>1. PICK bit \in Bits, column \in Columns : p = <<bit, column>> /\ get_scancode(bit, column) \in d
    BY <1>1 DEF Scan, dr1_getb
  <2>2. p \in Crossings(get_scancode(bit, column))
    BY <2>1 DEF Crossings
  <2> QED
    BY <2>1, <2>2
<1>2. ASSUME NEW c \in d, NEW p \in Crossings(c) PROVE p \in Scan(d)
  <2>1. p \in Bits \X Columns /\ get_scancode(p[1], p[2]) = c
    BY <1>2 DEF Crossings
  <2>2. PICK bit \in Bits, column \in Columns : p = <<bit, column>>
    BY <2>1
  <2>3. bit \in dr1_getb(d, {column})
    BY <1>2, <2>1, <2>2 DEF dr1_getb
  <2>4. p \in {<<b, column>> : b \in dr1_getb(d, {column})}
    BY <2>2, <2>3
  <2> QED
    BY <2>4, Zenon DEF Scan
<1> QED
  BY <1>1, <1>2

\* Every key a user can want is at one crossing.
LEMMA OneCrossing ==
  ASSUME NEW r \in Report, NEW c \in Wanted(r)
  PROVE  Cardinality(Crossings(c)) = 1 /\ c \in 1 .. 127
<1>0. \A x : Cardinality({x}) = 1
  BY FS_Singleton
<1>1. CASE c = CapsCode
  <2>1. Crossings(c) = {<<7, 10>>}
    BY <1>1, CrossingOfCaps DEF CapsCode
  <2>2. Cardinality(Crossings(c)) = 1
    BY <1>0, <2>1, Zenon
  <2> QED
    BY <1>1, <2>2 DEF CapsCode
<1>2. CASE c \in {29, 42, 54, 56}
  <2>1. \E x : Crossings(c) = {x}
    BY <1>2, CrossingOfModifier, Zenon
  <2>2. Cardinality(Crossings(c)) = 1
    BY <1>0, <2>1, Zenon
  <2> QED
    BY <1>2, <2>2
<1>3. CASE \E h \in HidCodes : c = KeyMap[h] /\ c # 0
  BY <1>3, KeyboardAssumption DEF ScanCodes
<1> QED
  BY <1>1, <1>2, <1>3, ModCodesAre DEF Wanted, Report

\* The two halves of the writes make of a report what its user wants.
LEMMA HalvesMake ==
  ASSUME NEW r \in Report, NEW pulse, pulse <=> CapsLock \in r.keys
  PROVE  (KeyStates(r, pulse) \ ModCodes) \cup {ModCode[m] : m \in r.mods} = Wanted(r)
<1> DEFINE hidden == {ShortcutKey[s] : s \in {s \in Shortcuts : Chord(s, r)}}
<1>1. {StKey(r, h) : h \in r.keys} \ {0} = {KeyMap[h] : h \in (r.keys \cap HidCodes) \ hidden} \ {0}
  BY DEF StKey
<1>2. CapsCode \notin ModCodes
  BY ModCodesAre DEF CapsCode
<1> QED
  BY <1>1, <1>2 DEF KeyStates, Wanted

LEMMA StKeyType == ASSUME NEW r \in Report, NEW h PROVE StKey(r, h) \in 0 .. 127
BY KeyboardAssumption DEF StKey, ScanCodes

-------------------------------------------------------------------------------
(* The least of a set of keyboards. *)

LEMMA MinIn == ASSUME NEW S \in SUBSET Nat, S # {} PROVE Min(S) \in S
<1>1. PICK n \in S : \A m \in S : ~ (<<m, n>> \in OpToRel(<, Nat))
  BY NatLessThanWellFounded, WFMin
<1>2. \A m \in S : m \in Nat /\ ~ (m < n)
  BY <1>1 DEF OpToRel
<1>3. \A m \in S : n <= m
  BY <1>2
<1> QED
  BY <1>3 DEF Min

LEMMA PrimaryReady == ASSUME Types, Ready # {} PROVE Primary \in Ready
<1>1. \A k \in Keyboards : k \in Nat
  BY KeyboardAssumption
<1>2. mounted \subseteq Keyboards
  BY DEF Types, UsbOK
<1>3. Ready \subseteq mounted
  BY Zenon DEF Ready
<1>4. \A k \in Ready : k \in Nat
  BY <1>1, <1>2, <1>3
<1> QED
  BY <1>4, MinIn DEF Primary

-------------------------------------------------------------------------------
(* The types. *)

LEMMA BufferType ==
  ASSUME Types, Ready # {}
  PROVE  Primary \in Keyboards /\ Primary \in mounted /\ buf[Primary] \in Report
<1>1. Primary \in Ready
  BY PrimaryReady
<1>2. Primary \in mounted
  BY <1>1 DEF Ready
<1> QED
  BY <1>2 DEF Types, UsbOK

LEMMA StaleIn ==
  ASSUME Types, {k \in Ready : lastLed[k] # currentLed} # {}
  PROVE  LET k == Min({k \in Ready : lastLed[k] # currentLed})
         IN  k \in Ready /\ lastLed[k] # currentLed /\ k \in mounted /\ k \in Keyboards
<1> DEFINE stale == {k \in Ready : lastLed[k] # currentLed}
<1>1. \A k \in Keyboards : k \in Nat
  BY KeyboardAssumption
<1>2. Ready \subseteq mounted /\ mounted \subseteq Keyboards
  BY Zenon DEF Ready, Types, UsbOK
<1>3. \A k \in stale : k \in Nat
  BY <1>1, <1>2
<1>4. Min(stale) \in stale
  BY <1>3, MinIn
<1> QED
  BY <1>2, <1>4

LEMMA CapsType ==
  ASSUME NEW r, caps \in [hw : BOOLEAN, on : BOOLEAN, pulse : BOOLEAN]
  PROVE  /\ CapsNext(r) \in [hw : BOOLEAN, on : BOOLEAN, pulse : BOOLEAN]
         /\ caps.pulse = caps.hw =>
              CapsNext(r).pulse = CapsNext(r).hw /\ (CapsNext(r).pulse <=> CapsLock \in r.keys)
<1>1. CASE CapsLock \in r.keys /\ ~caps.hw
  <2>1. CapsNext(r) = [hw |-> TRUE, on |-> ~caps.on, pulse |-> TRUE]
    BY <1>1 DEF CapsNext
  <2> QED
    BY <1>1, <2>1
<1>2. CASE CapsLock \notin r.keys
  <2>1. CapsNext(r) = [caps EXCEPT !.hw = FALSE, !.pulse = FALSE]
    BY <1>2 DEF CapsNext
  <2> QED
    BY <1>2, <2>1
<1>3. CASE CapsLock \in r.keys /\ caps.hw
  <2>1. CapsNext(r) = caps
    BY <1>3 DEF CapsNext
  <2> QED
    BY <1>3, <2>1
<1> QED
  BY <1>1, <1>2, <1>3

LEMMA KeyStatesType ==
  ASSUME NEW r \in Report, NEW pulse \in BOOLEAN
  PROVE  KeyStates(r, pulse) \subseteq 1 .. 127
<1>1. {StKey(r, h) : h \in r.keys} \subseteq 0 .. 127
  BY StKeyType
<1> QED
  BY <1>1 DEF KeyStates, CapsCode

LEMMA InitTypes == Init => Types
<1> SUFFICES ASSUME Init PROVE Types
  OBVIOUS
<1> USE DEF Init
<1>1. UsbOK
  BY DEF UsbOK, Report, Released
<1>2. LedsOK
  BY DEF LedsOK, LedBytes, NumLock, NoTransfer
<1>3. EffectsOK
  <2>1. caps \in [hw : BOOLEAN, on : BOOLEAN, pulse : BOOLEAN]
    OBVIOUS
  <2>2. last \in [Shortcuts -> BOOLEAN] /\ joyUsb \in [0 .. 1 -> BOOLEAN]
    OBVIOUS
  <2>3. mouseOn \in BOOLEAN /\ overclocked \in BOOLEAN /\ resetFlag \in BOOLEAN
    BY Zenon
  <2> QED
    BY <2>1, <2>2, <2>3 DEF EffectsOK
<1>4. RestOK
  <2>1. capture \in BOOLEAN
    BY Zenon
  <2> QED
    BY <2>1 DEF RestOK, HidCodes
<1> QED
  BY <1>1, <1>2, <1>3, <1>4 DEF Types

LEMMA CaptureTypes == ASSUME Types, PollCapture PROVE Types'
<1>1. Capturable(buf[Max(Ready)]) \subseteq HidCodes
  BY DEF Capturable, HidCodes
<1>2. captured' \in HidCodes
  BY <1>1 DEF PollCapture, HidCodes
<1>3. UsbOK' /\ RestOK'
  BY <1>2 DEF Types, PollCapture, UsbOK, RestOK
<1>4. LedsOK' /\ EffectsOK'
  BY DEF Types, PollCapture, LedsOK, EffectsOK, leds, effects
<1> QED
  BY <1>3, <1>4 DEF Types

LEMMA KeysTypes == ASSUME Types, PollKeys PROVE Types'
<1>1. Primary \in Keyboards /\ Primary \in mounted /\ buf[Primary] \in Report
  BY BufferType DEF PollKeys
<1>2. caps' \in [hw : BOOLEAN, on : BOOLEAN, pulse : BOOLEAN]
  BY CapsType DEF Types, PollKeys, EffectsOK
<1>3. UsbOK'
  BY DEF Types, PollKeys, UsbOK, usb
<1>4. LedsOK'
  <2>1. LedByte(caps'.on) \in LedBytes
    BY DEF LedByte, LedBytes, NumLock
  <2> QED
    BY <2>1 DEF Types, PollKeys, LedsOK
<1>5. EffectsOK'
  <2>1. /\ last' = [s \in Shortcuts |-> Chord(s, buf[Primary])]
        /\ mouseOn' = (mouseOn # Fires("mouse"))
        /\ joyUsb' = [j \in 0 .. 1 |-> joyUsb[j] # Fires(IF j = 0 THEN "joy0" ELSE "joy1")]
        /\ overclocked' = (~Fires("slow") /\ (overclocked \/ Fires("fast")))
        /\ resetFlag' = (resetFlag \/ Fires("reset"))
    BY DEF PollKeys, RunShortcuts
  <2>2. last' \in [Shortcuts -> BOOLEAN] /\ joyUsb' \in [0 .. 1 -> BOOLEAN]
    BY <2>1 DEF Chord
  <2>3. mouseOn' \in BOOLEAN /\ overclocked' \in BOOLEAN /\ resetFlag' \in BOOLEAN
    BY <2>1, Zenon
  <2> QED
    BY <1>2, <2>2, <2>3 DEF EffectsOK
<1>6. RestOK'
  <2>1. down' \subseteq 1 .. 127
    BY <1>1, <1>2, KeyStatesType DEF PollKeys
  <2> QED
    BY <2>1 DEF Types, PollKeys, RestOK, capturing
<1> QED
  BY <1>3, <1>4, <1>5, <1>6 DEF Types

LEMMA ModifiersTypes == ASSUME Types, Halfway, PollModifiers PROVE Types'
<1>1. Primary \in Keyboards /\ Primary \in mounted /\ buf[Primary] \in Report
  BY BufferType DEF PollModifiers, Halfway
<1>2. UsbOK'
  BY DEF Types, PollModifiers, UsbOK
<1>3. LedsOK'
  <2> DEFINE stale == {k \in Ready : lastLed[k] # currentLed}
             k == Min(stale)
  <2>1. currentLed' = currentLed /\ led' = led /\ ledRid' = ledRid
    BY DEF PollModifiers
  <2>2. CASE UNCHANGED <<control, lastLed>>
    BY <2>1, <2>2 DEF Types, LedsOK
  <2>3. CASE /\ stale # {}
             /\ control' = [dev |-> k, rid |-> IF ledRid[k] = Unknown THEN 0 ELSE ledRid[k],
                            byte |-> currentLed]
             /\ lastLed' = [lastLed EXCEPT ![k] = currentLed]
    <3>1. k \in Keyboards
      BY <2>3, StaleIn
    <3> HIDE DEF k
    <3>2. (IF ledRid[k] = Unknown THEN 0 ELSE ledRid[k]) \in 0 .. 2
      BY <3>1 DEF Types, LedsOK
    <3> QED
      BY <2>1, <2>3, <3>1, <3>2 DEF Types, LedsOK
  <2> QED
    BY <2>2, <2>3 DEF PollModifiers, SendLeds
<1>4. EffectsOK'
  BY DEF Types, PollModifiers, EffectsOK, effects
<1>5. RestOK'
  <2>1. down' \subseteq 1 .. 127
    <3>1. {ModCode[m] : m \in buf[Primary].mods} \subseteq 1 .. 127
      BY <1>1, ModCodesAre DEF Report
    <3> QED
      BY <3>1 DEF Types, RestOK, PollModifiers
  <2> QED
    BY <1>1, <2>1 DEF Types, PollModifiers, RestOK, capturing
<1> QED
  BY <1>2, <1>3, <1>4, <1>5 DEF Types

LEMMA BusTypes ==
  ASSUME Types, NEW k \in Keyboards, Mount(k) \/ Unmount(k)
  PROVE  Types'
<1>1. UsbOK'
  <2>1. Released \in Report
    BY DEF Released, Report
  <2> QED
    BY <2>1 DEF Types, UsbOK, Mount, Unmount
<1>2. LedsOK'
  <2>1. NumLock \in LedBytes
    BY DEF NumLock, LedBytes
  <2> QED
    BY <2>1 DEF Types, LedsOK, Mount, Unmount
<1>3. EffectsOK'
  BY DEF Types, EffectsOK, Mount, Unmount, effects
<1>4. RestOK'
  BY DEF Types, RestOK, Mount, Unmount, capturing
<1> QED
  BY <1>1, <1>2, <1>3, <1>4 DEF Types

LEMMA ControlTypes == ASSUME Types, SetProtocolComplete \/ SetReportComplete PROVE Types'
<1>1. UsbOK' /\ RestOK' /\ EffectsOK'
  BY DEF Types, UsbOK, RestOK, EffectsOK, SetProtocolComplete, SetReportComplete, usb, effects, capturing
<1>2. control # NoTransfer /\ control \in [dev : Keyboards, rid : 0 .. 2 \cup {SetProtocol}, byte : LedBytes]
  BY DEF Types, LedsOK, SetProtocolComplete, SetReportComplete, NoTransfer, SetProtocol
<1>3. CASE SetProtocolComplete
  <2>1. control' \in [dev : Keyboards, rid : 0 .. 2 \cup {SetProtocol}, byte : LedBytes]
    BY <1>2, <1>3 DEF SetProtocolComplete, Probe
  <2>2. ledRid' \in [Keyboards -> 0 .. 2 \cup {Unknown}]
    BY <1>2, <1>3 DEF SetProtocolComplete, Types, LedsOK
  <2>3. LedsOK'
    BY <1>3, <2>1, <2>2 DEF SetProtocolComplete, Types, LedsOK
  <2> QED
    BY <1>1, <2>3 DEF Types
<1>4. CASE SetReportComplete
  <2>1. control.dev \in Keyboards /\ control.byte \in LedBytes /\ control.rid \in 0 .. 2
    BY <1>2, <1>4 DEF SetReportComplete
  <2>2. /\ led' = led \/ led' = [led EXCEPT ![control.dev] = control.byte]
        /\ ledRid' = ledRid \/ ledRid' = [ledRid EXCEPT ![control.dev] = control.rid]
        /\ control' = NoTransfer \/ (control.rid < 2 /\ Probe(control.dev, control.rid + 1))
        /\ UNCHANGED <<currentLed, lastLed>>
    BY <1>4 DEF SetReportComplete
  <2>3. control' = NoTransfer
        \/ control' \in [dev : Keyboards, rid : 0 .. 2 \cup {SetProtocol}, byte : LedBytes]
    BY <2>1, <2>2 DEF Probe
  <2>4. led' \in [Keyboards -> LedBytes \cup {0}] /\ ledRid' \in [Keyboards -> 0 .. 2 \cup {Unknown}]
    BY <2>1, <2>2 DEF Types, LedsOK
  <2>5. LedsOK'
    BY <2>2, <2>3, <2>4 DEF Types, LedsOK
  <2> QED
    BY <1>1, <2>5 DEF Types
<1> QED
  BY <1>1, <1>3, <1>4 DEF Types

LEMMA OtherTypes ==
  ASSUME Types,
         \/ \E b \in BOOLEAN : SetCapture(b)
         \/ \E k \in Keyboards : \E r \in Reports[k] : Type(k, r)
         \/ TakeReset
  PROVE  Types'
<1>1. UsbOK'
  <2>1. CASE \E k \in Keyboards : \E r \in Reports[k] : Type(k, r)
    <3>1. PICK k \in Keyboards : \E r \in Reports[k] : Type(k, r)
      BY <2>1
    <3>2. PICK r \in Reports[k] : Type(k, r)
      BY <3>1
    <3>3. r \in Report
      BY KeyboardAssumption
    <3> QED
      BY <3>2, <3>3 DEF Types, UsbOK, Type
  <2>2. CASE UNCHANGED usb
    BY <2>2 DEF Types, UsbOK, usb
  <2> QED
    BY <2>1, <2>2 DEF SetCapture, TakeReset, usb
<1>2. LedsOK'
  BY DEF Types, LedsOK, SetCapture, Type, TakeReset, leds
<1>3. EffectsOK'
  BY DEF Types, EffectsOK, SetCapture, Type, TakeReset, effects
<1>4. RestOK'
  BY DEF Types, RestOK, SetCapture, Type, TakeReset, capturing, HidCodes
<1> QED
  BY <1>1, <1>2, <1>3, <1>4 DEF Types

LEMMA TypesStep == ASSUME Types, Halfway, [Next]_vars PROVE Types'
<1>1. CASE UNCHANGED vars
  BY <1>1 DEF Types, UsbOK, LedsOK, EffectsOK, RestOK, vars, usb, leds, effects, capturing
<1> QED
  BY <1>1, CaptureTypes, KeysTypes, ModifiersTypes, BusTypes, ControlTypes, OtherTypes DEF Next, Poll

-------------------------------------------------------------------------------
(* The key states. *)

LEMMA KeysMatrix == ASSUME Types, Matrix, PollKeys PROVE Matrix'
<1>1. Primary \in Keyboards /\ buf[Primary] \in Report
  BY BufferType DEF PollKeys
<1>2. UNCHANGED <<mounted, ready, buf, capture, captured>>
  BY DEF PollKeys, usb, capturing
<1>3. Ready' = Ready
  BY <1>2, Zenon DEF Ready
<1>4. Primary' = Primary
  BY <1>3, Zenon DEF Primary
<1>5. at0' = "modifiers" /\ shown' = {} /\ ~capture /\ Ready # {} /\ caps' = CapsNext(buf[Primary])
      /\ down' = KeyStates(buf[Primary], caps'.pulse)
  BY DEF PollKeys
<1>6. caps'.pulse = caps'.hw /\ (caps'.pulse <=> CapsLock \in buf[Primary].keys)
  BY <1>5, CapsType DEF Types, EffectsOK, Matrix, Steady
<1> QED
  BY <1>2, <1>3, <1>4, <1>5, <1>6 DEF Matrix, Halfway, Shows, Steady

LEMMA ModifiersMatrix == ASSUME Types, Matrix, PollModifiers PROVE Matrix'
<1>1. Ready # {} /\ ~capture /\ down = KeyStates(buf[Primary], caps.pulse)
      /\ (caps.pulse <=> CapsLock \in buf[Primary].keys)
  BY DEF Matrix, Halfway, PollModifiers
<1>2. Primary \in Keyboards /\ buf[Primary] \in Report
  BY <1>1, BufferType
<1>3. (KeyStates(buf[Primary], caps.pulse) \ ModCodes) \cup {ModCode[m] : m \in buf[Primary].mods}
      = Wanted(buf[Primary])
  BY <1>1, <1>2, HalvesMake
<1>4. at0' = "poll" /\ shown' = {Primary} /\ UNCHANGED <<buf, caps, captured>>
      /\ down' = (down \ ModCodes) \cup {ModCode[m] : m \in buf[Primary].mods}
  BY DEF PollModifiers, effects, capturing
<1>5. down' = Wanted(buf[Primary])
  BY <1>1, <1>3, <1>4
<1> QED
  BY <1>4, <1>5 DEF Matrix, Halfway, Shows, Steady

\* Capture mode takes no key that works a shortcut.
LEMMA CaptureHides ==
  ASSUME captured \notin ShortcutKeys, PollCapture
  PROVE  captured' \notin ShortcutKeys
<1>1. Capturable(buf[Max(Ready)]) \cap ShortcutKeys = {}
  BY DEF Capturable, ShortcutKeys
<1>2. 0 \notin ShortcutKeys
  BY DEF ShortcutKeys, Shortcuts, ShortcutKey
<1> QED
  BY <1>1, <1>2 DEF PollCapture

LEMMA PollMatrix == ASSUME Types, Matrix, Poll PROVE Matrix'
<1>1. CASE PollCapture
  <2>1. at0 = "poll" /\ UNCHANGED <<buf, caps, at0, down, shown>>
    BY <1>1 DEF PollCapture, effects
  <2>2. captured' \notin ShortcutKeys
    BY <1>1, CaptureHides DEF Matrix, Steady
  <2> QED
    BY <2>1, <2>2 DEF Matrix, Halfway, Shows, Steady
<1> QED
  BY <1>1, KeysMatrix, ModifiersMatrix DEF Poll

\* The bus, the user and core 1.
LEMMA OtherMatrix ==
  ASSUME Types, Matrix,
         \/ \E b \in BOOLEAN : SetCapture(b)
         \/ \E k \in Keyboards : Mount(k) \/ Unmount(k)
         \/ SetProtocolComplete \/ SetReportComplete
         \/ \E k \in Keyboards : \E r \in Reports[k] : Type(k, r)
         \/ TakeReset
  PROVE  Matrix'
<1>1. UNCHANGED <<at0, caps, down>>
  BY DEF SetCapture, Mount, Unmount, SetProtocolComplete, SetReportComplete, Type, TakeReset, effects
<1>2. captured' = captured \/ captured' = 0
  BY DEF SetCapture, Mount, Unmount, SetProtocolComplete, SetReportComplete, Type, TakeReset, capturing
<1>3. 0 \notin ShortcutKeys
  BY DEF ShortcutKeys, Shortcuts, ShortcutKey
<1>4. Steady'
  BY <1>1, <1>2, <1>3 DEF Matrix, Steady
<1>5. Shows'
  <2>1. shown' \subseteq shown /\ \A k \in shown' : buf'[k] = buf[k]
    BY DEF SetCapture, Mount, Unmount, SetProtocolComplete, SetReportComplete, Type, TakeReset, usb,
           Types, UsbOK, RestOK
  <2> QED
    BY <1>1, <2>1 DEF Matrix, Shows
<1>6. Halfway'
  <2>1. CASE at0 = "poll"
    BY <1>1, <2>1 DEF Halfway
  <2>2. CASE UNCHANGED <<mounted, ready, buf, capture, shown, at0, down, caps>>
    <3>1. Ready' = Ready
      BY <2>2, Zenon DEF Ready
    <3>2. Primary' = Primary
      BY <3>1, Zenon DEF Primary
    <3> QED
      BY <2>2, <3>1, <3>2 DEF Matrix, Halfway
  <2> QED
    BY <2>1, <2>2 DEF SetCapture, Mount, Unmount, SetProtocolComplete, SetReportComplete, Type, TakeReset, usb,
                      capturing
<1> QED
  BY <1>4, <1>5, <1>6 DEF Matrix

LEMMA MatrixStep == ASSUME Types, Matrix, [Next]_vars PROVE Matrix'
<1>1. CASE UNCHANGED vars
  <2>1. UNCHANGED <<mounted, ready, buf, capture, captured, shown, at0, down, caps>>
    BY <1>1 DEF vars, usb, effects, capturing
  <2>2. Ready' = Ready
    BY <2>1, Zenon DEF Ready
  <2>3. Primary' = Primary
    BY <2>2, Zenon DEF Primary
  <2> QED
    BY <2>1, <2>2, <2>3 DEF Matrix, Halfway, Shows, Steady
<1> QED
  BY <1>1, PollMatrix, OtherMatrix DEF Next

-------------------------------------------------------------------------------
(* The LEDs. *)

LEMMA ControlIs ==
  ASSUME Types
  PROVE  /\ NoTransfer.dev \notin Keyboards
         /\ control # NoTransfer =>
              control \in [dev : Keyboards, rid : 0 .. 2 \cup {SetProtocol}, byte : LedBytes]
         /\ \A k \in Keyboards : LedRid[k] \in 0 .. 3
<1>1. 0 \notin Keyboards
  BY KeyboardAssumption
<1> QED
  BY <1>1, KeyboardAssumption DEF NoTransfer, Types, LedsOK

LEMMA SendLedsStep ==
  ASSUME Types, Leds, SendLeds, UNCHANGED <<mounted, led, currentLed, ledRid>>
  PROVE  Leds'
<1> DEFINE stale == {k \in Ready : lastLed[k] # currentLed}
           k == Min(stale)
           rid == IF ledRid[k] = Unknown THEN 0 ELSE ledRid[k]
<1>1. CASE UNCHANGED <<control, lastLed>>
  BY <1>1 DEF Leds, Probing, Known, LedTrue
<1>2. CASE /\ control = NoTransfer /\ stale # {}
           /\ control' = [dev |-> k, rid |-> rid, byte |-> currentLed]
           /\ lastLed' = [lastLed EXCEPT ![k] = currentLed]
  <2>1. k \in mounted /\ k \in Keyboards
    BY <1>2, StaleIn
  <2>2. LedRid[k] <= 2 => ledRid[k] = LedRid[k] /\ rid = LedRid[k]
    BY <1>2, <2>1, ControlIs DEF Leds, Known, Unknown
  <2>3. rid \in 0 .. 2
    BY <2>1 DEF Types, LedsOK
  <2>4. mounted \subseteq Keyboards /\ lastLed \in [Keyboards -> LedBytes \cup {Unknown}]
        /\ control'.dev = k /\ control'.rid = rid /\ control'.byte = currentLed
        /\ lastLed'[k] = currentLed /\ (\A j \in Keyboards \ {k} : lastLed'[j] = lastLed[j])
    BY <1>2, <2>1 DEF Types, UsbOK, LedsOK
  <2> HIDE DEF k, rid
  <2>5. Probing'
    BY <2>1, <2>2, <2>3, <2>4 DEF Probing, SetProtocol
  <2>6. Known'
    <3>1. \A j \in Keyboards : j # control.dev
      BY <1>2, ControlIs
    <3> QED
      BY <2>1, <2>4, <3>1 DEF Leds, Known
  <2>7. LedTrue'
    <3>1. \A j \in Keyboards : j # control.dev
      BY <1>2, ControlIs
    <3> QED
      BY <2>1, <2>4, <3>1 DEF Leds, LedTrue
  <2> QED
    BY <2>5, <2>6, <2>7 DEF Leds
<1> QED
  BY <1>1, <1>2 DEF SendLeds

LEMMA MountLeds == ASSUME Types, Leds, NEW k \in Keyboards, Mount(k) PROVE Leds'
<1>1. /\ k \notin mounted /\ control = NoTransfer /\ mounted' = mounted \cup {k}
      /\ control' = [dev |-> k, rid |-> SetProtocol, byte |-> NumLock]
      /\ UNCHANGED <<led, currentLed, lastLed, ledRid>>
  BY DEF Mount
<1>2. lastLed[k] = Unknown
  BY <1>1 DEF Leds, Known
<1>3. \A j \in Keyboards : j # control.dev
  BY <1>1, ControlIs
<1>4. mounted \subseteq Keyboards /\ control'.dev = k /\ control'.rid = SetProtocol
  BY <1>1 DEF Types, UsbOK
<1>5. Probing'
  BY <1>1, <1>2, <1>4 DEF Probing
<1>6. Known'
  BY <1>1, <1>3, <1>4 DEF Leds, Known
<1>7. LedTrue'
  BY <1>1, <1>3, <1>4 DEF Leds, LedTrue
<1> QED
  BY <1>5, <1>6, <1>7 DEF Leds

LEMMA UnmountLeds == ASSUME Types, Leds, NEW k \in Keyboards, Unmount(k) PROVE Leds'
<1>1. /\ mounted' = mounted \ {k} /\ led' = [led EXCEPT ![k] = 0]
      /\ lastLed' = [lastLed EXCEPT ![k] = Unknown] /\ ledRid' = [ledRid EXCEPT ![k] = Unknown]
      /\ control' = IF control.dev = k THEN NoTransfer ELSE control
  BY DEF Unmount
<1>2. mounted \subseteq Keyboards
      /\ \A j \in Keyboards \ {k} : led'[j] = led[j] /\ lastLed'[j] = lastLed[j] /\ ledRid'[j] = ledRid[j]
  BY <1>1 DEF Types, UsbOK, LedsOK
<1>3. lastLed'[k] = Unknown
  BY <1>1 DEF Types, LedsOK
<1>4. \A j \in Keyboards : control'.dev = j => control.dev = j /\ j # k
  BY <1>1, ControlIs
<1>5. Probing'
  <2>1. CASE control.dev = k
    BY <1>1, <2>1 DEF Probing
  <2>2. CASE control.dev # k
    BY <1>1, <1>2, <2>2, ControlIs DEF Leds, Probing
  <2> QED
    BY <2>1, <2>2
<1>6. \A j \in mounted' : control'.dev # j => control.dev # j
  BY <1>1
<1>7. Known'
  BY <1>1, <1>2, <1>3, <1>6 DEF Leds, Known
<1>8. LedTrue'
  BY <1>1, <1>2, <1>6 DEF Leds, LedTrue
<1> QED
  BY <1>5, <1>7, <1>8 DEF Leds

LEMMA ProtocolLeds == ASSUME Types, Leds, SetProtocolComplete PROVE Leds'
<1> DEFINE k == control.dev
<1>1. control # NoTransfer /\ control.rid = SetProtocol
  BY DEF SetProtocolComplete, NoTransfer, SetProtocol
<1>2. k \in Keyboards /\ k \in mounted /\ lastLed[k] = Unknown
  BY <1>1, ControlIs DEF Leds, Probing
<1>3. /\ control'.dev = k /\ control'.rid = 0
      /\ ledRid' = [ledRid EXCEPT ![k] = Unknown]
      /\ UNCHANGED <<mounted, led, currentLed, lastLed>>
  BY DEF SetProtocolComplete, Probe, usb
<1>4. mounted \subseteq Keyboards /\ ledRid'[k] = Unknown /\ (\A j \in Keyboards \ {k} : ledRid'[j] = ledRid[j])
  BY <1>2, <1>3 DEF Types, UsbOK, LedsOK
<1>5. Probing'
  BY <1>2, <1>3, <1>4, ControlIs DEF Probing, SetProtocol
<1>6. Known'
  BY <1>3, <1>4 DEF Leds, Known
<1>7. LedTrue'
  BY <1>3, <1>4 DEF Leds, LedTrue
<1> QED
  BY <1>5, <1>6, <1>7 DEF Leds

LEMMA ReportLeds == ASSUME Types, Leds, SetReportComplete PROVE Leds'
<1> DEFINE k == control.dev
           taken == control.rid = LedRid[k]
<1>1. control # NoTransfer /\ control.rid # SetProtocol
  BY DEF SetReportComplete
<1>2. k \in Keyboards /\ k \in mounted /\ control.rid \in 0 .. 2 /\ LedRid[k] \in 0 .. 3
  BY <1>1, ControlIs DEF Leds, Probing
<1>3. LedRid[k] <= 2 =>
         \/ lastLed[k] = Unknown /\ ledRid[k] = Unknown /\ control.rid <= LedRid[k]
         \/ ledRid[k] = LedRid[k] /\ control.rid = LedRid[k] /\ control.byte = lastLed[k]
  BY <1>1 DEF Leds, Probing
<1>4. /\ led' = IF taken THEN [led EXCEPT ![k] = control.byte] ELSE led
      /\ ledRid' = IF taken /\ ledRid[k] = Unknown THEN [ledRid EXCEPT ![k] = control.rid] ELSE ledRid
      /\ IF ~taken /\ ledRid[k] = Unknown /\ control.rid < 2
         THEN Probe(k, control.rid + 1) ELSE control' = NoTransfer
      /\ UNCHANGED <<mounted, currentLed, lastLed>>
  BY DEF SetReportComplete, usb
<1>5. mounted \subseteq Keyboards
      /\ \A j \in Keyboards \ {k} : led'[j] = led[j] /\ ledRid'[j] = ledRid[j]
  BY <1>2, <1>4 DEF Types, UsbOK, LedsOK
<1>6. CASE ~taken /\ ledRid[k] = Unknown /\ control.rid < 2
  <2>1. control'.dev = k /\ control'.rid = control.rid + 1 /\ UNCHANGED <<led, ledRid>>
    BY <1>4, <1>6 DEF Probe
  <2>2. LedRid[k] <= 2 => lastLed[k] = Unknown /\ control.rid + 1 <= LedRid[k]
    <3>1. control.rid # LedRid[k]
      BY <1>6
    <3> HIDE DEF k, taken
    <3> QED
      BY <1>2, <1>3, <3>1
  <2>3. Probing'
    BY <1>2, <1>4, <1>6, <2>1, <2>2 DEF Probing, SetProtocol
  <2>4. Known' /\ LedTrue'
    BY <1>4, <2>1 DEF Leds, Known, LedTrue
  <2> QED
    BY <2>3, <2>4 DEF Leds
<1>7. CASE ~(~taken /\ ledRid[k] = Unknown /\ control.rid < 2)
  <2>1. control' = NoTransfer
    BY <1>4, <1>7
  <2>2. LedRid[k] <= 2 => taken
    BY <1>2, <1>3, <1>7 DEF Unknown
  <2>3. LedRid[k] <= 2 => ledRid'[k] = LedRid[k]
    BY <1>2, <1>3, <1>4, <2>2 DEF Types, LedsOK
  <2>4. LedRid[k] <= 2 /\ lastLed[k] # Unknown => led'[k] = lastLed[k]
    BY <1>2, <1>3, <1>4, <2>2 DEF Types, LedsOK
  <2>5. Probing'
    BY <2>1 DEF Probing
  <2>6. Known'
    BY <1>2, <1>4, <1>5, <2>3 DEF Leds, Known
  <2>7. LedTrue'
    BY <1>2, <1>4, <1>5, <2>4 DEF Leds, LedTrue
  <2> QED
    BY <2>5, <2>6, <2>7 DEF Leds
<1> QED
  BY <1>6, <1>7

LEMMA LedsStep == ASSUME Types, Leds, [Next]_vars PROVE Leds'
<1>1. CASE UNCHANGED <<mounted, led, control, lastLed, ledRid>>
  BY <1>1 DEF Leds, Probing, Known, LedTrue
<1>2. CASE PollModifiers
  BY <1>2, SendLedsStep DEF PollModifiers
<1> QED
  BY <1>1, <1>2, MountLeds, UnmountLeds, ProtocolLeds, ReportLeds
  DEF Next, Poll, PollCapture, PollKeys, SetCapture, Type, TakeReset, vars, usb, leds

-------------------------------------------------------------------------------

\* The inductive invariant: the types, the key states and the LEDs.
THEOREM Inductive == Spec => []IInv
<1>1. Init => IInv
  <2> SUFFICES ASSUME Init PROVE IInv
    OBVIOUS
  <2>1. Types
    BY InitTypes
  <2>2. Matrix
    BY DEF Init, Matrix, Halfway, Shows, Steady, ShortcutKeys, Shortcuts, ShortcutKey
  <2>3. Leds
    BY DEF Init, Leds, Probing, Known, LedTrue
  <2> QED
    BY <2>1, <2>2, <2>3 DEF IInv
<1>2. IInv /\ [Next]_vars => IInv'
  <2> SUFFICES ASSUME IInv, [Next]_vars PROVE IInv'
    OBVIOUS
  <2>1. Types /\ Matrix /\ Leds /\ Halfway
    BY DEF IInv, Matrix
  <2> QED
    BY <2>1, TypesStep, MatrixStep, LedsStep DEF IInv
<1> QED
  BY <1>1, <1>2, PTL DEF Spec

\* Whatever keyboards there are, once a keyboard's report has been taken the ROM
\* finds pressed the crossings of the keys held and no others (handle_keyboard of
\* HidInput_keyboard.cpp, st_keydown, dr1_getb).
THEOREM Matched == Spec => []KeysMatchHeld
<1>1. IInv => KeysMatchHeld
  <2> SUFFICES ASSUME IInv PROVE KeysMatchHeld
    OBVIOUS
  <2>1. TypeOK
    BY DEF IInv, Types, UsbOK, LedsOK, EffectsOK, RestOK, TypeOK
  <2>2. ASSUME at0 = "poll", NEW k \in shown
        PROVE  /\ Scan(down) = UNION {Crossings(c) : c \in Wanted(buf[k])}
               /\ \A c \in Wanted(buf[k]) : Cardinality(Crossings(c)) = 1
    <3>1. buf[k] \in Report
      BY DEF IInv, Types, UsbOK, RestOK
    <3>2. down = Wanted(buf[k])
      BY <2>2 DEF IInv, Matrix, Shows
    <3> QED
      BY <3>1, <3>2, ScanFinds, OneCrossing
  <2> QED
    BY <2>1, <2>2 DEF KeysMatchHeld
<1> QED
  BY <1>1, Inductive, PTL

\* dev_last_led is what a keyboard shows, through every order of plugging, probing
\* for the report id and sending (handle_keyboard, tuh_hid_set_report_complete_cb).
THEOREM LedsTold == Spec => []LedTrue
<1>1. IInv => LedTrue
  BY DEF IInv, Leds
<1> QED
  BY <1>1, Inductive, PTL

\* Capture mode changes nothing the ST sees, also when it begins between two
\* polls, and gives the menu no shortcut's key (handle_keyboard).
THEOREM Isolated == Spec => CaptureIsolated
<1>1. IInv /\ [Next]_vars =>
        [capture => /\ down' = down
                    /\ captured' \notin {ShortcutKey[s] : s \in Shortcuts}]_vars
  <2> SUFFICES ASSUME IInv, [Next]_vars, capture
               PROVE  down' = down /\ captured' \notin ShortcutKeys
    BY DEF ShortcutKeys
  <2>1. Matrix'
    BY MatrixStep DEF IInv
  <2>2. ~PollKeys /\ ~PollModifiers
    BY DEF PollKeys, PollModifiers, IInv, Matrix, Halfway
  <2>3. down' = down
    BY <2>2
    DEF Next, Poll, PollCapture, SetCapture, Mount, Unmount, SetProtocolComplete, SetReportComplete, Type,
        TakeReset, vars
  <2> QED
    BY <2>1, <2>3 DEF Matrix, Steady
<1> QED
  BY <1>1, Inductive, PTL DEF Spec, CaptureIsolated
=============================================================================
