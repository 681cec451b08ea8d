-------------------------------- MODULE Menu --------------------------------
(***************************************************************************)
(* The user interface: three buttons walk through the pages of a small     *)
(* panel and edit the settings, which are written to the flash once no     *)
(* change was made for a while.  main calls update every 10 ms; update     *)
(* runs the buttons first, which here are actions of their own (Press, any *)
(* number of times between two updates), then writes, puts the panel to    *)
(* sleep, takes the key captured for remapping and draws.                  *)
(*                                                                         *)
(* What the panel shows is abstracted to whether it is what the state      *)
(* calls for: fresh is TRUE from a drawing to the next change of View.     *)
(***************************************************************************)
EXTENDS Settings, Labels, FiniteSetsExt

CONSTANTS
  Groups,       \* the scan codes of the remap pages
  CaptureKeys,  \* the keys the user presses on a remap page
  Images,       \* what the flash may hold when the program is first run
  MaxChanges    \* bound on the changes of settings, clock and devices

ASSUME MenuAssumption ==
  /\ Groups \in [1 .. 4 -> Seq(ScanCodes)]
  /\ \A g \in 1 .. 4 : /\ Len(Groups[g]) > 0 /\ Range(Groups[g]) \subseteq Range(RemapGroups[g])
                       /\ ~sc_is_iso_key(Groups[g][1])
  /\ CaptureKeys \subseteq HidCodes \ ({0} \cup ShortcutKeys)
  /\ CaptureKeys \ hid_is_system_reserved \subseteq RemapKeys
  /\ Images \subseteq Settings
  /\ MaxChanges \in Nat

VARIABLES
  page, cursor, entry, confirm,  \* what is on the screen
  pending, latched, capture,     \* remapping; capture is HidInput's mode and key
  nv, unsaved, flash,
  booting,                       \* the images the boot has still to write
  dirty, asleep, contrast,
  devices, overclocked,
  changes,
  fresh, latchedAt               \* history: see above; the entry the pending key was pressed at

screen == <<page, cursor, entry, confirm>>
remapping == <<pending, latched, capture, latchedAt>>
store == <<nv, unsaved, changes>>
world == <<devices, overclocked>>
panel == <<asleep, contrast>>
vars == <<screen, remapping, store, flash, booting, panel, dirty, world, fresh>>

Pages ==
  {"splash", "mouse", "joy", "menu1", "menu2", "language", "layout", "deadzone", "screen",
   "autofire", "help1", "help2", "mouse_debug", "serial", "usb_debug", "remap_group", "remap_list"}
Buttons == {"left", "middle", "right"}
Items == [joy |-> 2, menu1 |-> 5, menu2 |-> 6, autofire |-> 4, screen |-> 2, group |-> 6]
ClearAll == 5
NoKey == 255  \* last_captured_hid off the remap page

Skipped(code) == ~IsOffered(nv.layout, code)
CodeAt(e) == Groups[e.group][e.index + 1]

brightness_to_contrast(step) == (step * 255) \div BrightMax

-------------------------------------------------------------------------------
(* What each page shows. *)

Status == <<devices, nv.language, nv.mouse_enabled, overclocked>>
Slider(x, low, high) == Clamp(x - low, 0, high)

update_mouse == <<nv.language, Slider(nv.mouse_speed, MouseMin, 15)>>
update_joy == <<cursor.joy, nv.joy_device>>
update_menu1 == <<nv.language, cursor.menu1>>
update_menu2 == <<nv.language, cursor.menu2>>
update_language == <<nv.language>>
update_layout == <<nv.language, nv.layout % Layouts>>
update_deadzone == <<nv.language, nv.dead_zone>>
update_screen == <<nv.language, cursor.screen, SleepPresets[nv.sleep + 1], Slider(nv.brightness, 0, BrightMax)>>
update_autofire ==
  <<cursor.autofire, nv.autofire_mode, nv.autofire_rate,
    [j \in Joys |-> Slider(nv.autofire_rate[j], RateMin, RateMax)]>>
update_remap_group == <<nv.language, confirm.clear, IF confirm.clear THEN 0 ELSE cursor.group>>

\* The key named beside the ST's: the pending one, or the lowest mapped to it.
UsbKey == IF pending # 0 THEN pending ELSE MappedTo(nv.key_remap, CodeAt(entry))

update_remap_list ==
  <<confirm.exit>> \o
  IF confirm.exit THEN <<nv.language>>
  ELSE IF Skipped(CodeAt(entry)) THEN <<entry>>
  ELSE <<entry, Caps(nv.layout, CodeAt(entry), UsbKey)>>

update_help_1 == <<nv.language>>
update_usb_debug == <<devices>>

View ==
  <<page>> \o
  CASE page = "mouse" -> Status \o update_mouse
    [] page = "joy" -> Status \o update_joy
    [] page = "menu1" -> update_menu1
    [] page = "menu2" -> update_menu2
    [] page = "language" -> update_language
    [] page = "layout" -> update_layout
    [] page = "deadzone" -> update_deadzone
    [] page = "screen" -> update_screen
    [] page = "autofire" -> update_autofire
    [] page = "remap_group" -> update_remap_group
    [] page = "remap_list" -> update_remap_list
    [] page \in {"help1", "help2"} -> update_help_1
    [] page = "usb_debug" -> update_usb_debug
    [] OTHER -> <<>>

-------------------------------------------------------------------------------
(* Changes of the settings. *)

Count == changes < MaxChanges /\ changes' = changes + 1

schedule_settings_write == Count /\ unsaved' = TRUE

Set(s) == nv' = s /\ schedule_settings_write

\* A page on which nothing but the setting changes.
Edit(s) ==
  /\ Set(s)
  /\ dirty' = TRUE
  /\ contrast' = brightness_to_contrast(s.brightness)
  /\ UNCHANGED <<screen, remapping, asleep>>

\* One step of a slider, which at its end leaves everything as it is.
Slide(x, low, high, d, s) ==
  \/ low <= x + d /\ x + d <= high /\ Edit(s)
  \/ ~(low <= x + d /\ x + d <= high) /\ UNCHANGED <<screen, remapping, store, dirty, panel>>

-------------------------------------------------------------------------------
(* The middle button. *)

Show(p, c) ==
  /\ page' = p /\ cursor' = c
  /\ dirty' = TRUE
  /\ UNCHANGED <<entry, confirm, remapping, store, panel>>

AfterMiddle ==
  [splash |-> "mouse", language |-> "menu2", layout |-> "menu2", deadzone |-> "menu2",
   help1 |-> "help2", help2 |-> "menu1", mouse_debug |-> "serial", serial |-> "usb_debug",
   usb_debug |-> "menu1"]
Leave == page \in DOMAIN AfterMiddle /\ Show(AfterMiddle[page], cursor)

MiddleMouse == page = "mouse" /\ Show("joy", [cursor EXCEPT !.joy = 0])

MiddleJoy ==
  /\ page = "joy"
  /\ IF cursor.joy = 0 THEN Show("joy", [cursor EXCEPT !.joy = 1])
     ELSE Show("menu1", [cursor EXCEPT !.joy = 0])

Menu1Pages == <<"mouse", "autofire", "menu2", "help1", "mouse_debug">>
MiddleMenu1 ==
  /\ page = "menu1"
  /\ Show(Menu1Pages[cursor.menu1 + 1],
          IF cursor.menu1 = 1 THEN [cursor EXCEPT !.autofire = 0] ELSE cursor)

Menu2Pages == <<"menu1", "language", "layout", "deadzone", "remap_group", "screen">>
MiddleMenu2 ==
  /\ page = "menu2"
  /\ Show(Menu2Pages[cursor.menu2 + 1],
          CASE cursor.menu2 = 4 -> [cursor EXCEPT !.group = 0]
            [] cursor.menu2 = 5 -> [cursor EXCEPT !.screen = 0]
            [] OTHER -> cursor)

MiddleScreen ==
  /\ page = "screen"
  /\ IF cursor.screen = 0 THEN Show("screen", [cursor EXCEPT !.screen = 1])
     ELSE Show("menu2", [cursor EXCEPT !.screen = 0])

MiddleAutofire ==
  /\ page = "autofire"
  /\ IF cursor.autofire < 3 THEN Show("autofire", [cursor EXCEPT !.autofire = @ + 1])
     ELSE Show("menu1", [cursor EXCEPT !.autofire = 0])

NoEntry == [group |-> 0, index |-> 0]
DropPending == pending' = 0 /\ latchedAt' = NoEntry

set_capture_mode(b) == capture' = [on |-> b, key |-> 0]

ConfirmClear ==
  /\ page = "remap_group" /\ confirm.clear
  /\ confirm' = [confirm EXCEPT !.clear = FALSE]
  /\ Set([nv EXCEPT !.key_remap = get_layout_table(nv.layout)])
  /\ dirty' = TRUE
  /\ UNCHANGED <<page, cursor, entry, remapping, panel>>

AskClear ==
  /\ page = "remap_group" /\ ~confirm.clear /\ cursor.group = ClearAll
  /\ confirm' = [confirm EXCEPT !.clear = TRUE]
  /\ dirty' = TRUE
  /\ UNCHANGED <<page, cursor, entry, remapping, store, panel>>

LeaveGroups ==
  /\ page = "remap_group" /\ ~confirm.clear /\ cursor.group = 0
  /\ Show("menu2", cursor)

OpenGroup ==
  /\ page = "remap_group" /\ ~confirm.clear /\ cursor.group \in 1 .. 4
  /\ page' = "remap_list"
  /\ entry' = [group |-> cursor.group, index |-> 0]
  /\ DropPending
  /\ set_capture_mode(TRUE)
  /\ dirty' = TRUE
  /\ UNCHANGED <<cursor, confirm, latched, store, panel>>

\* commit_pending_remap.
CommitKeepsKey ==
  IF pending # 0 /\ nv.key_remap[pending] # CodeAt(entry)
  THEN Set([nv EXCEPT !.key_remap[pending] = CodeAt(entry)]) /\ UNCHANGED <<pending, latchedAt>>
  ELSE UNCHANGED <<store, pending, latchedAt>>
Commit ==
  /\ IF pending # 0 /\ nv.key_remap[pending] # CodeAt(entry)
     THEN Set([nv EXCEPT !.key_remap[pending] = CodeAt(entry)])
     ELSE UNCHANGED store
  /\ DropPending

ConfirmExitCaptures ==
  /\ page = "remap_list" /\ confirm.exit
  /\ confirm' = [confirm EXCEPT !.exit = FALSE]
  /\ DropPending
  /\ page' = "remap_group"
  /\ dirty' = TRUE
  /\ UNCHANGED <<cursor, entry, latched, capture, store, panel>>
ConfirmExitAsks ==
  /\ page = "remap_list" /\ confirm.exit
  /\ DropPending
  /\ set_capture_mode(FALSE)
  /\ page' = "remap_group"
  /\ dirty' = TRUE
  /\ UNCHANGED <<cursor, entry, confirm, latched, store, panel>>
ConfirmExit ==
  /\ page = "remap_list" /\ confirm.exit
  /\ confirm' = [confirm EXCEPT !.exit = FALSE]
  /\ DropPending
  /\ set_capture_mode(FALSE)
  /\ page' = "remap_group"
  /\ dirty' = TRUE
  /\ UNCHANGED <<cursor, entry, latched, store, panel>>

ConfirmRemap ==
  /\ page = "remap_list" /\ ~confirm.exit /\ pending # 0
  /\ Commit
  /\ dirty' = TRUE
  /\ UNCHANGED <<screen, latched, capture, panel>>

AskExit ==
  /\ page = "remap_list" /\ ~confirm.exit /\ pending = 0
  /\ confirm' = [confirm EXCEPT !.exit = TRUE]
  /\ dirty' = TRUE
  /\ UNCHANGED <<page, cursor, entry, remapping, store, panel>>

Middle ==
  \/ Leave \/ MiddleMouse \/ MiddleJoy \/ MiddleMenu1 \/ MiddleMenu2 \/ MiddleScreen \/ MiddleAutofire
  \/ ConfirmClear \/ AskClear \/ LeaveGroups \/ OpenGroup
  \/ ConfirmExit \/ ConfirmRemap \/ AskExit

-------------------------------------------------------------------------------
(* The left and right buttons, d being -1 and 1. *)

SlideMouse(d) ==
  /\ page = "mouse"
  /\ Slide(nv.mouse_speed, MouseMin, MouseMax, d, [nv EXCEPT !.mouse_speed = @ + d])

Flip(bits, j) == IF (bits \div 2 ^ j) % 2 = 0 THEN bits + 2 ^ j ELSE bits - 2 ^ j
FlipJoy == page = "joy" /\ Edit([nv EXCEPT !.joy_device = Flip(@, cursor.joy)])

\* The menus: the page, its cursor and nothing else.
TurnPastEnd(p, item, d) ==
  /\ page = p
  /\ Show(p, [cursor EXCEPT ![item] = (@ + d + Items[item]) % (Items[item] + 1)])
Turn(p, item, d) ==
  /\ page = p
  /\ Show(p, [cursor EXCEPT ![item] = (@ + d) % Items[item]])

\* The items of the autofire page: mode and rate of joystick 1, then of 0.
AutofireJoy == IF cursor.autofire < 2 THEN 1 ELSE 0
EditAutofire(d) ==
  /\ page = "autofire"
  /\ LET j == AutofireJoy IN
     IF cursor.autofire % 2 = 0
     THEN Edit([nv EXCEPT !.autofire_mode[j] = IF @ # 0 THEN 0 ELSE 1])
     ELSE Slide(nv.autofire_rate[j], RateMin, RateMax, d, [nv EXCEPT !.autofire_rate[j] = @ + d])

TurnGroup(d) == ~confirm.clear /\ Turn("remap_group", "group", d)

Cancel ==
  /\ \/ page = "remap_group" /\ confirm.clear
     \/ page = "remap_list" /\ confirm.exit
  /\ confirm' = [exit |-> FALSE, clear |-> FALSE]
  /\ dirty' = TRUE
  /\ UNCHANGED <<page, cursor, entry, remapping, store, panel>>

\* Where the cursor of a remap page stops, at most one full round away.
NextIndexAny(d) == (entry.index + d) % Len(Groups[entry.group])
NextIndex(d) ==
  LET n == Len(Groups[entry.group])
      At(k) == (entry.index + k * d) % n
      steps == Min({k \in 1 .. n : k = n \/ ~Skipped(Groups[entry.group][At(k) + 1])})
  IN  At(steps)

TurnEntry(d) ==
  /\ page = "remap_list" /\ ~confirm.exit
  /\ Commit
  /\ entry' = [entry EXCEPT !.index = NextIndex(d)]
  /\ dirty' = TRUE
  /\ UNCHANGED <<page, cursor, confirm, latched, capture, panel>>

TurnLanguage(d) == page = "language" /\ Edit([nv EXCEPT !.language = (@ + d) % Languages])

TurnLayout(d) ==
  /\ page = "layout"
  /\ LET layout == (nv.layout + d) % Layouts
     IN  Edit([nv EXCEPT !.layout = layout, !.key_remap = get_layout_table(layout)])

SlideDeadZone(d) ==
  /\ page = "deadzone"
  /\ Slide(nv.dead_zone, 0, DeadZoneMax, d, [nv EXCEPT !.dead_zone = @ + d])

EditScreen(d) ==
  /\ page = "screen"
  /\ IF cursor.screen = 0
     THEN Edit([nv EXCEPT !.sleep = (@ + d) % Len(SleepPresets)])
     ELSE Slide(nv.brightness, 0, BrightMax, d, [nv EXCEPT !.brightness = @ + d])

Side(d) ==
  \/ SlideMouse(d) \/ FlipJoy \/ Turn("menu1", "menu1", d) \/ Turn("menu2", "menu2", d)
  \/ EditAutofire(d) \/ TurnGroup(d) \/ Cancel \/ TurnEntry(d)
  \/ TurnLanguage(d) \/ TurnLayout(d) \/ SlideDeadZone(d) \/ EditScreen(d)

Left == Side(-1)
Right == Side(1)

\* on_button_down: the press that wakes the panel does nothing else.
Wake ==
  /\ asleep
  /\ asleep' = FALSE
  /\ dirty' = TRUE
  /\ UNCHANGED <<screen, remapping, store, contrast>>

Press(b) ==
  /\ \/ Wake
     \/ ~asleep /\ b = "left" /\ Left
     \/ ~asleep /\ b = "middle" /\ Middle
     \/ ~asleep /\ b = "right" /\ Right
  /\ UNCHANGED <<flash, world>>

-------------------------------------------------------------------------------
(* The rest of update.  What the clock and the other tasks have done is     *)
(* left open: settled, 1.5 s have passed since the last change of the       *)
(* settings; idle, the sleep timeout since the last press; due, the time of *)
(* a page that has one; live, the timer of the live pages has fired or the  *)
(* serial log has grown.                                                    *)

FlushSettingsForgets(settled) ==
  /\ unsaved' = (unsaved /\ ~settled)
  /\ UNCHANGED flash
FlushSettingsAwake(settled) ==
  IF unsaved /\ settled /\ ~asleep
  THEN flash' = nv /\ unsaved' = FALSE
  ELSE UNCHANGED <<flash, unsaved>>
FlushSettings(settled) ==
  IF unsaved /\ settled
  THEN flash' = nv /\ unsaved' = FALSE
  ELSE UNCHANGED <<flash, unsaved>>

MaySleep == SleepPresets[nv.sleep + 1] > 0 /\ page # "splash"

LatchKey ==
  IF page = "remap_list"
  THEN /\ latched' = capture.key
       /\ IF capture.key \notin {latched, 0} \cup hid_is_system_reserved
          THEN pending' = capture.key /\ latchedAt' = entry
          ELSE UNCHANGED <<pending, latchedAt>>
  ELSE latched' = NoKey /\ UNCHANGED <<pending, latchedAt>>

LivePages == {"deadzone", "autofire", "mouse_debug"}
PacedPages == {"serial", "usb_debug"}

Update(settled, idle, due, live) ==
  LET awake == ~asleep /\ ~(idle /\ MaySleep)
      wanted == \/ dirty
                \/ live /\ page = "serial"
                \/ awake /\ live /\ page \in LivePages
                \/ awake /\ page = "remap_list" /\ capture.key # latched
      draws == awake /\ wanted /\ (page \in PacedPages => due)
  IN
  /\ FlushSettings(settled)
  /\ asleep' = ~awake
  /\ IF awake THEN LatchKey ELSE UNCHANGED <<pending, latched, latchedAt>>
  /\ dirty' = (wanted /\ ~draws)
  /\ page' = IF draws /\ page = "splash" /\ due THEN "mouse" ELSE page
  /\ UNCHANGED <<cursor, entry, confirm, capture, nv, changes, contrast, world>>
  /\ fresh' = (draws \/ (fresh /\ View' = View))

-------------------------------------------------------------------------------
(* The rest of the program, time, and the power. *)

\* Keyboard!PollCapture.
PressKey(h) ==
  /\ capture.on /\ capture.key # h
  /\ capture' = [capture EXCEPT !.key = h]
  /\ UNCHANGED <<screen, pending, latched, latchedAt, store, flash, panel, dirty, world>>

\* The shortcuts of handle_keyboard, which capture mode does not look for.
set_mouse_enabled ==
  /\ ~capture.on
  /\ Set([nv EXCEPT !.mouse_enabled = IF @ = 0 THEN 1 ELSE 0])
  /\ dirty' = TRUE
  /\ UNCHANGED <<screen, remapping, flash, panel, world>>

toggle_joystick_source(j) ==
  /\ ~capture.on
  /\ Set([nv EXCEPT !.joy_device = Flip(@, j)])
  /\ dirty' = TRUE
  /\ UNCHANGED <<screen, remapping, flash, panel, world>>

set_cpu_speed(fast) ==
  /\ ~capture.on
  /\ overclocked # fast => Count
  /\ overclocked = fast => UNCHANGED changes
  /\ overclocked' = fast
  /\ dirty' = TRUE
  /\ UNCHANGED <<screen, remapping, nv, unsaved, flash, panel, devices>>

usb_connect_state_quiet(n) ==
  /\ n # devices /\ Count
  /\ devices' = n
  /\ UNCHANGED <<screen, remapping, nv, unsaved, flash, panel, dirty, overclocked>>
usb_connect_state(n) ==
  /\ n # devices /\ Count
  /\ devices' = n
  /\ dirty' = TRUE
  /\ UNCHANGED <<screen, remapping, nv, unsaved, flash, panel, overclocked>>

\* The state init leaves.  nv is what the boot ends with: nothing reads it before.
Booted(image) ==
  [page |-> "splash", cursor |-> [i \in DOMAIN Items |-> 0],
   entry |-> NoEntry, confirm |-> [exit |-> FALSE, clear |-> FALSE],
   capture |-> [on |-> FALSE, key |-> 0], nv |-> Boot(image), flash |-> image,
   booting |-> BootWrites(image),
   contrast |-> brightness_to_contrast(Boot(image).brightness)]

\* NVSettings::write during the boot, with no change waiting: the sector is erased,
\* then programmed with the next image.
Running == booting = <<>>

BootErase ==
  /\ ~Running /\ flash # Blank
  /\ flash' = Blank
  /\ UNCHANGED <<screen, remapping, store, booting, panel, dirty, world, fresh>>

BootProgram ==
  /\ ~Running /\ flash = Blank
  /\ flash' = Head(booting) /\ booting' = Tail(booting)
  /\ UNCHANGED <<screen, remapping, store, panel, dirty, world, fresh>>

\* What the flash may hold after the power is cut: if a write of a change is due,
\* the cut may come before, between the erasing and the programming, or after.
AfterCut == {flash} \cup IF unsaved THEN {Blank, nv} ELSE {}

\* At any moment, the boot's own included.
PowerCut ==
  \E b \in {Booted(image) : image \in AfterCut} :
    /\ page' = b.page /\ cursor' = b.cursor /\ entry' = b.entry /\ confirm' = b.confirm
    /\ pending' = 0 /\ latched' = NoKey /\ capture' = b.capture /\ latchedAt' = b.entry
    /\ nv' = b.nv /\ flash' = b.flash /\ booting' = b.booting /\ contrast' = b.contrast
    /\ unsaved' = FALSE
    /\ dirty' = TRUE /\ asleep' = FALSE
    /\ devices' = 0 /\ overclocked' = FALSE
    /\ UNCHANGED changes
    /\ fresh' = FALSE

-------------------------------------------------------------------------------

Init ==
  \E b \in {Booted(image) : image \in Images} :
    /\ page = b.page /\ cursor = b.cursor /\ entry = b.entry /\ confirm = b.confirm
    /\ pending = 0 /\ latched = NoKey /\ capture = b.capture /\ latchedAt = b.entry
    /\ nv = b.nv /\ flash = b.flash /\ booting = b.booting /\ contrast = b.contrast
    /\ unsaved = FALSE
    /\ dirty = TRUE /\ asleep = FALSE
    /\ devices = 0 /\ overclocked = FALSE
    /\ changes = 0
    /\ fresh = FALSE

\* Whether the panel still shows the state after a step that does not draw.
Seen == fresh' = (fresh /\ View' = View)

Others ==
  \/ \E b \in Buttons : Press(b)
  \/ \E h \in CaptureKeys \cup {0} : PressKey(h)
  \/ set_mouse_enabled
  \/ \E j \in Joys : toggle_joystick_source(j)
  \/ \E fast \in BOOLEAN : set_cpu_speed(fast)
  \/ \E n \in 0 .. 1 : usb_connect_state(n)

\* An input is left open where update looks at it.
Open(condition) == IF condition THEN BOOLEAN ELSE {FALSE}
UpdateStep ==
  \E settled \in Open(unsaved), idle \in Open(~asleep /\ MaySleep),
     due \in Open(page \in PacedPages \cup {"splash"}), live \in Open(page \in LivePages \cup {"serial"}) :
    Update(settled, idle, due, live)

\* An update after the times have passed.
LateUpdate == \E idle, live \in BOOLEAN : Update(TRUE, idle, TRUE, live)

Next ==
  \/ Running /\ UpdateStep /\ UNCHANGED booting
  \/ Running /\ Others /\ Seen /\ UNCHANGED booting
  \/ BootErase
  \/ BootProgram
  \/ PowerCut

\* main's loop does not end, and time passes.
Spec ==
  /\ Init /\ [][Next]_vars
  /\ WF_vars(Running /\ LateUpdate /\ UNCHANGED booting)

-------------------------------------------------------------------------------
(* Properties. *)

TypeOK ==
  /\ page \in Pages
  /\ cursor \in [DOMAIN Items -> 0 .. 5] /\ \A i \in DOMAIN Items : cursor[i] < Items[i]
  /\ entry \in [group : 0 .. 4, index : Nat]
  /\ entry.group > 0 => entry.index < Len(Groups[entry.group])
  /\ page = "remap_list" => entry.group > 0
  /\ confirm \in [exit : BOOLEAN, clear : BOOLEAN]
  /\ pending \in {0} \cup CaptureKeys
  /\ latched \in {0, NoKey} \cup CaptureKeys
  /\ capture \in [on : BOOLEAN, key : {0} \cup CaptureKeys]
  /\ nv \in Settings /\ flash \in Settings /\ booting \in Seq(Settings)
  /\ nv.mouse_speed \in MouseMin .. MouseMax /\ nv.layout < Layouts /\ nv.sleep < Len(SleepPresets)
  /\ nv.dead_zone <= DeadZoneMax /\ nv.brightness <= BrightMax
  /\ unsaved \in BOOLEAN /\ dirty \in BOOLEAN /\ asleep \in BOOLEAN
  /\ devices \in 0 .. 1 /\ overclocked \in BOOLEAN
  /\ changes \in 0 .. MaxChanges
  /\ fresh \in BOOLEAN /\ latchedAt \in [group : 0 .. 4, index : Nat]

\* The keyboard is captured on the remap page and nowhere else: on any other page
\* the ST would have no keyboard, and on that one it would type what is remapped.
CaptureOnlyInList == capture.on <=> page = "remap_list"

\* The key that the next press takes for the entry on the screen was pressed
\* while that entry was on the screen, and is not one the system keeps.
PendingForEntry ==
  pending # 0 => latchedAt = entry /\ pending \notin hid_is_system_reserved

\* A question is only ever asked on its page: none comes up again on a later
\* visit, where the press that opens the page's first entry would answer it.
OverlaysBelong ==
  /\ confirm.exit => page = "remap_list"
  /\ confirm.clear => page = "remap_group" /\ cursor.group = ClearAll

\* Left alone, the panel shows the state: every change of what a page shows, by
\* a button, a shortcut, a device or the keyboard, asks for a redraw, and the
\* panel's contrast is the brightness set.
ScreenTrue ==
  /\ ~asleep /\ ~dirty => fresh
  /\ contrast = brightness_to_contrast(nv.brightness)

\* No entry of the remap pages is the key that ANSI keyboards lack while the layout
\* chosen is an ANSI one, by the name kLayouts gives it: EN-US and PL-PL have that
\* key nowhere (st_key_layout_label.cpp:282), and their rows of k_overrides no label
\* for it.  EN-US is excepted: layout_has_iso_key, told to refuse index 5, refuses
\* EN-UK there, and under EN-US the list does offer the key.
AnsiLayouts == {"EN-US", "PL-PL"}
ListSkipsIso ==
  page = "remap_list" /\ kLayouts[nv.layout + 1] \in AnsiLayouts \ {"EN-US"}
    => ~sc_is_iso_key(CodeAt(entry))

\* Each mode is on the page it belongs to and a pending key with the entry it was
\* pressed for, over every sequence of buttons, keys, updates and power cuts.
ModesBelong == CaptureOnlyInList /\ OverlaysBelong /\ PendingForEntry

\* The page, its cursors and the settings are in range, and the entry on the
\* screen is not the key of ISO keyboards under the Polish layout, which is an
\* ANSI one.  Under EN-US, the other one, the entry may be that key.
EntryMeant == TypeOK /\ ListSkipsIso

\* A changed setting is written in the end, also with the panel asleep and
\* whatever page is open.
SettingsSaved == unsaved ~> ~unsaved

\* The flash and the settings implement the abstract store: what was saved comes
\* back after a cut as NVSettings::read and init read it, unchanged if this version
\* wrote it with all settings in bounds; all settings can be lost only by a cut
\* while a change waits or in a boot that rewrites the sector, which a boot from a
\* current image does not do.
Durable ==
  INSTANCE DurableSettings WITH
    Read <- Boot, value <- nv, saved <- flash, waiting <- unsaved, booting <- ~Running
SavesDurably == Durable!Spec

=============================================================================
