------------------------------ MODULE Keyboard ------------------------------
(***************************************************************************)
(* handle_keyboard, the key matrix it feeds and the keyboards' LEDs.  Core *)
(* 0 polls the keyboards whose report has come in; of those the first is   *)
(* primary: it alone works the shortcuts, Caps Lock and the key states the *)
(* emulated ROM scans from core 1.  Core 1 may read key_states between any *)
(* two steps, and handle_keyboard writes them in two: the loop over all    *)
(* scan codes, which takes the modifiers for released, then the modifiers. *)
(*                                                                         *)
(* A report is the set of its keycodes and of its modifiers; a keyboard    *)
(* reports when its keys change.                                           *)
(***************************************************************************)
EXTENDS KeyTables, FiniteSets, FiniteSetsExt

CONSTANTS
  Keyboards,  \* device addresses
  Reports,    \* the reports the user of each may cause
  KeyMap,     \* key_remap: USB keycode to scan code
  LedRid      \* the report id each keyboard takes LED bytes under, 3 for none

Mods == {"ctrl", "alt", "lshift", "rshift"}
Report == [keys : SUBSET (1 .. 255), mods : SUBSET Mods]
Released == [keys |-> {}, mods |-> {}]

\* The key map holds keys of the ST only: the layout table and the pages of the
\* menu that change it have no other code.
ASSUME KeyboardAssumption ==
  /\ Keyboards \subseteq 1 .. 15
  /\ \A k \in Keyboards : Reports[k] \subseteq Report
  /\ KeyMap \in [HidCodes -> ScanCodes]
  /\ \A h \in HidCodes : KeyMap[h] # 0 => Cardinality(Crossings(KeyMap[h])) = 1
  /\ LedRid \in [Keyboards -> 0 .. 3]

VARIABLES
  \* The keyboards and the USB stack.
  mounted, ready,  \* ready: a report has come in and none is requested
  buf,             \* the last report of each
  led,             \* the LED byte each shows
  control,         \* the control transfer in progress
  \* Core 0.
  at0,             \* "poll", or "modifiers" between the two halves of the writes
  capture, captured,
  last,            \* the statics of one_shot
  caps,            \* last_capslock_hw, capslock_on, capslock_pulse
  mouseOn, joyUsb, overclocked,
  resetFlag,       \* hd6301_trigger_reset's
  currentLed, lastLed, ledRid,
  \* Shared with core 1.
  down,            \* key_states: the scan codes that are 1
  shown            \* history: the keyboards whose last report is what key_states shows

usb == <<mounted, ready, buf>>
leds == <<led, control, currentLed, lastLed, ledRid>>
effects == <<last, caps, mouseOn, joyUsb, overclocked, resetFlag>>
capturing == <<capture, captured>>
vars == <<usb, leds, effects, capturing, at0, down, shown>>

Unknown == 255  \* KB_LED_RID_UNKNOWN; in lastLed, never sent
NoTransfer == [dev |-> 0, rid |-> 0, byte |-> 0]
SetProtocol == 4       \* as control.rid: SET_PROTOCOL in progress
NumLock == 1
LedBytes == {1, 3}

-------------------------------------------------------------------------------
(* Reports. *)

CapsLock == 57
Shortcuts == {"mouse", "reset", "joy0", "joy1", "fast", "slow"}
ShortcutKey == [joy0 |-> 66, joy1 |-> 67, reset |-> 68, mouse |-> 69, slow |-> 86, fast |-> 87]
ShortcutMod(s) == IF s \in {"fast", "slow"} THEN "alt" ELSE "ctrl"
Chord(s, r) == ShortcutKey[s] \in r.keys /\ ShortcutMod(s) \in r.mods

\* Capture leaves the shortcuts' keys alone, whatever is held with them.
Capturable(r) == (r.keys \cap 1 .. 127) \ {ShortcutKey[s] : s \in Shortcuts}

StKey(r, h) ==
  IF h \notin HidCodes \/ \E s \in Shortcuts : ShortcutKey[s] = h /\ Chord(s, r)
  THEN 0 ELSE KeyMap[h]

LShift == 42
RShift == 54
Control == 29
Alternate == 56
CapsCode == 58
ModCode == [lshift |-> LShift, rshift |-> RShift, ctrl |-> Control, alt |-> Alternate]
ModCodes == {ModCode[m] : m \in Mods}

\* The loop over the scan codes from 1.
KeyStatesAdded(r, pulse) ==
  down \cup ({StKey(r, h) : h \in r.keys} \ {0, CapsCode}) \cup IF pulse THEN {CapsCode} ELSE {}
KeyStates(r, pulse) ==
  (({StKey(r, h) : h \in r.keys} \ {0}) \ {CapsCode}) \cup IF pulse THEN {CapsCode} ELSE {}

LedByteCapsOnly(on) == IF on THEN 2 ELSE 0
LedByte(on) == NumLock + IF on THEN 2 ELSE 0

CapsNext(r) ==
  LET pressed == CapsLock \in r.keys IN
  IF pressed /\ ~caps.hw THEN [hw |-> TRUE, on |-> ~caps.on, pulse |-> TRUE]
  ELSE IF ~pressed THEN [caps EXCEPT !.hw = FALSE, !.pulse = FALSE]
  ELSE caps

-------------------------------------------------------------------------------
(* The poll. *)

Ready == {k \in mounted : ready[k]}
Primary == Min(Ready)

PollCaptureDeaf ==
  /\ at0 = "poll" /\ capture
  /\ Ready # {}
  /\ captured' \in IF Capturable(buf[Max(Ready)]) = {} THEN {0} ELSE Capturable(buf[Max(Ready)])
  /\ UNCHANGED <<usb, leds, effects, capture, at0, down, shown>>
PollCapture ==
  /\ at0 = "poll" /\ capture
  /\ Ready # {}
  /\ LET keys == Capturable(buf[Max(Ready)])
     IN captured' \in IF keys = {} THEN {0} ELSE keys
  /\ ready' = [k \in Keyboards |-> FALSE]
  /\ UNCHANGED <<mounted, buf, leds, effects, capture, at0, down, shown>>

Fires(s) == Chord(s, buf[Primary]) /\ ~last[s]

RunShortcuts ==
  /\ last' = [s \in Shortcuts |-> Chord(s, buf[Primary])]
  /\ mouseOn' = (mouseOn # Fires("mouse"))
  /\ joyUsb' = [j \in 0 .. 1 |-> joyUsb[j] # Fires(IF j = 0 THEN "joy0" ELSE "joy1")]
  /\ overclocked' = (~Fires("slow") /\ (overclocked \/ Fires("fast")))
  /\ resetFlag' = (resetFlag \/ Fires("reset"))

PollKeysAlways ==
  /\ at0 = "poll"
  /\ Ready # {}
  /\ RunShortcuts
  /\ caps' = CapsNext(buf[Primary])
  /\ currentLed' = IF caps'.on # caps.on THEN LedByte(caps'.on) ELSE currentLed
  /\ down' = KeyStates(buf[Primary], caps'.pulse)
  /\ at0' = "modifiers"
  /\ shown' = {}
  /\ UNCHANGED <<usb, led, control, lastLed, ledRid, capturing>>
PollKeys ==
  /\ at0 = "poll" /\ ~capture
  /\ Ready # {}
  /\ RunShortcuts
  /\ caps' = CapsNext(buf[Primary])
  /\ currentLed' = IF caps'.on # caps.on THEN LedByte(caps'.on) ELSE currentLed
  /\ down' = KeyStates(buf[Primary], caps'.pulse)
  /\ at0' = "modifiers"
  /\ shown' = {}
  /\ UNCHANGED <<usb, led, control, lastLed, ledRid, capturing>>

\* The first keyboard that lacks the current LED byte gets the one control
\* pipe, unless it is busy.
SendLeds ==
  LET stale == {k \in Ready : lastLed[k] # currentLed}
  IN IF control = NoTransfer /\ stale # {}
     THEN LET k == Min(stale) IN
          /\ control' = [dev |-> k, rid |-> IF ledRid[k] = Unknown THEN 0 ELSE ledRid[k],
                         byte |-> currentLed]
          /\ lastLed' = [lastLed EXCEPT ![k] = currentLed]
     ELSE UNCHANGED <<control, lastLed>>

PollModifiers ==
  /\ at0 = "modifiers"
  /\ down' = (down \ ModCodes) \cup {ModCode[m] : m \in buf[Primary].mods}
  /\ SendLeds
  /\ ready' = [k \in Keyboards |-> FALSE]
  /\ at0' = "poll"
  /\ shown' = {Primary}
  /\ UNCHANGED <<mounted, buf, led, currentLed, ledRid, effects, capturing>>

\* The remap page of the menu.
SetCapture(b) ==
  /\ at0 = "poll" /\ capture # b
  /\ capture' = b
  /\ captured' = 0
  /\ UNCHANGED <<usb, leds, effects, at0, down, shown>>

-------------------------------------------------------------------------------
(* The USB stack, which runs in main's poll before handle_keyboard, and the *)
(* keyboards. *)

\* The stack has one control pipe, which it has just used to enumerate.
Mount(k) ==
  /\ at0 = "poll" /\ k \notin mounted
  /\ control = NoTransfer
  /\ control' = [dev |-> k, rid |-> SetProtocol, byte |-> NumLock]
  /\ mounted' = mounted \cup {k}
  /\ UNCHANGED <<ready, buf, led, currentLed, lastLed, ledRid, effects, capturing, at0, down, shown>>

\* The byte of a probe is a local of a function that has returned when the
\* stack sends it.
Probe(k, rid) == \E b \in LedBytes : control' = [dev |-> k, rid |-> rid, byte |-> b]

SetProtocolComplete ==
  /\ at0 = "poll" /\ control.rid = SetProtocol
  /\ Probe(control.dev, 0)
  /\ ledRid' = [ledRid EXCEPT ![control.dev] = Unknown]
  /\ UNCHANGED <<usb, led, currentLed, lastLed, effects, capturing, at0, down, shown>>

SetReportComplete ==
  /\ at0 = "poll" /\ control # NoTransfer /\ control.rid # SetProtocol
  /\ LET k == control.dev
         taken == control.rid = LedRid[k]
     IN /\ led' = IF taken THEN [led EXCEPT ![k] = control.byte] ELSE led
        /\ ledRid' = IF taken /\ ledRid[k] = Unknown
                     THEN [ledRid EXCEPT ![k] = control.rid] ELSE ledRid
        /\ IF ~taken /\ ledRid[k] = Unknown /\ control.rid < 2
           THEN Probe(k, control.rid + 1) ELSE control' = NoTransfer
  /\ UNCHANGED <<usb, currentLed, lastLed, effects, capturing, at0, down, shown>>

UnmountKeepsLed(k) ==
  /\ at0 = "poll" /\ k \in mounted
  /\ mounted' = mounted \ {k}
  /\ ready' = [ready EXCEPT ![k] = FALSE]
  /\ buf' = [buf EXCEPT ![k] = Released]
  /\ led' = [led EXCEPT ![k] = 0]
  /\ ledRid' = [ledRid EXCEPT ![k] = Unknown]
  /\ control' = IF control.dev = k THEN NoTransfer ELSE control
  /\ shown' = shown \ {k}
  /\ UNCHANGED <<lastLed, currentLed, effects, capturing, at0, down>>
Unmount(k) ==
  /\ at0 = "poll" /\ k \in mounted
  /\ mounted' = mounted \ {k}
  /\ ready' = [ready EXCEPT ![k] = FALSE]
  /\ buf' = [buf EXCEPT ![k] = Released]
  /\ led' = [led EXCEPT ![k] = 0]
  /\ lastLed' = [lastLed EXCEPT ![k] = Unknown]
  /\ ledRid' = [ledRid EXCEPT ![k] = Unknown]
  /\ control' = IF control.dev = k THEN NoTransfer ELSE control
  /\ shown' = shown \ {k}
  /\ UNCHANGED <<currentLed, effects, capturing, at0, down>>

Type(k, r) ==
  /\ at0 = "poll" /\ k \in mounted
  /\ ~ready[k] /\ r # buf[k]
  /\ buf' = [buf EXCEPT ![k] = r]
  /\ ready' = [ready EXCEPT ![k] = TRUE]
  /\ shown' = shown \ {k}
  /\ UNCHANGED <<mounted, leds, effects, capturing, at0, down>>

\* Core 1 takes the reset.
TakeReset ==
  /\ resetFlag
  /\ resetFlag' = FALSE
  /\ UNCHANGED <<usb, leds, last, caps, mouseOn, joyUsb, overclocked, capturing, at0, down, shown>>

-------------------------------------------------------------------------------

Init ==
  /\ mounted = {} /\ ready = [k \in Keyboards |-> FALSE]
  /\ buf = [k \in Keyboards |-> Released]
  /\ led = [k \in Keyboards |-> 0] /\ control = NoTransfer
  /\ at0 = "poll" /\ capture = FALSE /\ captured = 0
  /\ last = [s \in Shortcuts |-> FALSE]
  /\ caps = [hw |-> FALSE, on |-> FALSE, pulse |-> FALSE]
  /\ mouseOn = TRUE /\ joyUsb = [j \in 0 .. 1 |-> FALSE] /\ overclocked = FALSE
  /\ resetFlag = FALSE
  /\ currentLed = NumLock
  /\ lastLed = [k \in Keyboards |-> Unknown] /\ ledRid = [k \in Keyboards |-> Unknown]
  /\ down = {} /\ shown = {}

Poll == PollCapture \/ PollKeys \/ PollModifiers

Next ==
  \/ Poll
  \/ \E b \in BOOLEAN : SetCapture(b)
  \/ \E k \in Keyboards : Mount(k) \/ Unmount(k)
  \/ SetProtocolComplete \/ SetReportComplete
  \/ \E k \in Keyboards : \E r \in Reports[k] : Type(k, r)
  \/ TakeReset

\* main polls every 10 ms, in a loop that never ends.
Spec == Init /\ [][Next]_vars /\ WF_vars(Poll)

-------------------------------------------------------------------------------
(* Properties. *)

TypeOK ==
  /\ mounted \subseteq Keyboards
  /\ ready \in [Keyboards -> BOOLEAN]
  /\ buf \in [Keyboards -> Report]
  /\ at0 \in {"poll", "modifiers"}
  /\ capture \in BOOLEAN /\ captured \in HidCodes
  /\ last \in [Shortcuts -> BOOLEAN]
  /\ caps \in [hw : BOOLEAN, on : BOOLEAN, pulse : BOOLEAN]
  /\ mouseOn \in BOOLEAN /\ joyUsb \in [0 .. 1 -> BOOLEAN]
  /\ overclocked \in BOOLEAN /\ resetFlag \in BOOLEAN
  /\ currentLed \in LedBytes
  /\ led \in [Keyboards -> LedBytes \cup {0}]
  /\ lastLed \in [Keyboards -> LedBytes \cup {Unknown}]
  /\ ledRid \in [Keyboards -> 0 .. 2 \cup {Unknown}]
  /\ control \in [dev : Keyboards, rid : 0 .. 2 \cup {SetProtocol}, byte : LedBytes] \cup {NoTransfer}
  /\ down \subseteq 1 .. 127
  /\ shown \subseteq Keyboards

\* What a user who holds the keys of report r expects the ST's keyboard to show.
Wanted(r) ==
  LET hidden == {ShortcutKey[s] : s \in {s \in Shortcuts : Chord(s, r)}}
  IN   ({KeyMap[h] : h \in (r.keys \cap HidCodes) \ hidden} \ (ModCodes \cup {0, CapsCode}))
  \cup {ModCode[m] : m \in r.mods}
  \cup (IF CapsLock \in r.keys THEN {CapsCode} ELSE {})

\* Once a keyboard's last report has been taken, the ROM's scan of the matrix
\* finds pressed exactly the crossings of its keys, one each: no shortcut's key,
\* no key left over from another keyboard, no crossing that has no key.
KeysMatchHeld ==
  /\ TypeOK
  /\ at0 = "poll" =>
       \A k \in shown :
         /\ Scan(down) = UNION {Crossings(c) : c \in Wanted(buf[k])}
         /\ \A c \in Wanted(buf[k]) : Cardinality(Crossings(c)) = 1

\* dev_last_led holds the byte a keyboard shows, whatever probe of its report
\* id came between, and across its unplugging and another's plugging in: else
\* handle_keyboard would take a wrong LED for a right one and not send again.
LedTrue ==
  \A k \in mounted :
    lastLed[k] # Unknown /\ control.dev # k /\ LedRid[k] <= 2 => led[k] = lastLed[k]

\* In capture mode the ST sees no change (HidInput.h), and the menu is never
\* given a key that works a shortcut.
CaptureIsolated ==
  [][capture => /\ down' = down
                /\ captured' \notin {ShortcutKey[s] : s \in Shortcuts}]_vars

\* A report that came in is taken and the next one requested, by the capture
\* branch too: no keyboard goes deaf.
Rearmed == \A k \in Keyboards : ready[k] ~> ~ready[k]

=============================================================================
