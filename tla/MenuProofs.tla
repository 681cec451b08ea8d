----------------------------- MODULE MenuProofs -----------------------------
(***************************************************************************)
(* The user interface, for every content of the remap pages, every set of   *)
(* keys and of flash images, and any number of changes.  Three arguments:   *)
(* what a boot makes of the settings; the page, the questions, the capture  *)
(* mode and the pending key through every button (IInv); and the settings,  *)
(* the entry and the drawing through every step (SInv).  With the first and *)
(* the last, the flash and the settings implement DurableSettings.          *)
(***************************************************************************)
EXTENDS Menu, WellFoundedInduction, TLAPS

\* The records that are updated field by field, and the two menus' cursors within
\* their items: what lies past a menu's end is not a page.
Shape ==
  /\ confirm \in [exit : BOOLEAN, clear : BOOLEAN]
  /\ capture \in [on : BOOLEAN, key : CaptureKeys \cup {0}]
Cursors ==
  /\ cursor \in [{"joy", "menu1", "menu2", "autofire", "screen", "group"} -> Nat]
  /\ cursor.menu1 < 5 /\ cursor.menu2 < 6

IInv == Shape /\ Cursors /\ ModesBelong

\* A step that leaves the modes and the pending key as they are.  The cursor may
\* move while no question is asked about what it points at.
Kept ==
  /\ UNCHANGED <<page, confirm, entry, capture>>
  /\ UNCHANGED <<pending, latchedAt>> \/ pending' = 0
  /\ confirm.clear => cursor' = cursor
  /\ Cursors'

LEMMA KeptStep == IInv /\ Kept => IInv'
BY DEF Kept, IInv, Shape, ModesBelong, CaptureOnlyInList, OverlaysBelong, PendingForEntry

LEMMA EditKeeps == ASSUME Cursors, NEW s, Edit(s) PROVE Kept
BY DEF Edit, Kept, Cursors, screen, remapping

LEMMA SlideKeeps ==
  ASSUME Cursors, NEW x, NEW low, NEW high, NEW d, NEW s, Slide(x, low, high, d, s)
  PROVE  Kept
BY EditKeeps DEF Slide, Kept, Cursors, screen, remapping

LEMMA CommitDrops == Commit => pending' = 0
BY DEF Commit, DropPending

\* From a page without modes to another, or to itself.
LEMMA ShowStep ==
  ASSUME IInv, NEW p, NEW c, Show(p, c), page # "remap_list", p # "remap_list", ~confirm.clear,
         Cursors'
  PROVE  IInv'
BY DEF Show, remapping, IInv, Shape, ModesBelong, CaptureOnlyInList, OverlaysBelong, PendingForEntry

LEMMA LeaveStep == IInv /\ Leave => IInv'
<1> SUFFICES ASSUME IInv, Leave PROVE IInv'
  OBVIOUS
<1>1. /\ page \notin {"remap_list", "remap_group"} /\ AfterMiddle[page] # "remap_list"
      /\ Show(AfterMiddle[page], cursor)
  BY DEF Leave, AfterMiddle
<1>2. ~confirm.clear
  BY <1>1 DEF IInv, ModesBelong, OverlaysBelong
<1>3. Cursors'
  BY <1>1 DEF IInv, Show, Cursors
<1> QED
  BY <1>1, <1>2, <1>3, ShowStep

\* The middle button on the pages without modes.
LEMMA WalkStep ==
  /\ IInv
  /\ MiddleMouse \/ MiddleJoy \/ MiddleMenu1 \/ MiddleMenu2 \/ MiddleScreen \/ MiddleAutofire
  => IInv'
<1> SUFFICES ASSUME IInv,
                    MiddleMouse \/ MiddleJoy \/ MiddleMenu1 \/ MiddleMenu2 \/ MiddleScreen
                    \/ MiddleAutofire
             PROVE  IInv'
  OBVIOUS
<1>1. page \in {"mouse", "joy", "menu1", "menu2", "screen", "autofire"}
  BY DEF MiddleMouse, MiddleJoy, MiddleMenu1, MiddleMenu2, MiddleScreen, MiddleAutofire
<1>2. ~confirm.clear /\ Cursors
  BY <1>1 DEF IInv, ModesBelong, OverlaysBelong
<1>3. CASE MiddleMouse
  <2>1. Cursors'
    BY <1>2, <1>3 DEF MiddleMouse, Show, Cursors
  <2> QED
    BY <1>1, <1>2, <1>3, <2>1, ShowStep DEF MiddleMouse
<1>4. CASE MiddleJoy
  <2>1. Cursors'
    BY <1>2, <1>4 DEF MiddleJoy, Show, Cursors
  <2> QED
    BY <1>1, <1>2, <1>4, <2>1, ShowStep DEF MiddleJoy
<1>5. CASE MiddleScreen
  <2>1. Cursors'
    BY <1>2, <1>5 DEF MiddleScreen, Show, Cursors
  <2> QED
    BY <1>1, <1>2, <1>5, <2>1, ShowStep DEF MiddleScreen
<1>6. CASE MiddleAutofire
  <2>1. Cursors'
    BY <1>2, <1>6 DEF MiddleAutofire, Show, Cursors
  <2> QED
    BY <1>1, <1>2, <1>6, <2>1, ShowStep DEF MiddleAutofire
<1>7. CASE MiddleMenu1
  <2>1. Menu1Pages[cursor.menu1 + 1] # "remap_list"
    BY <1>2 DEF Cursors, Menu1Pages
  <2>2. Cursors'
    BY <1>2, <1>7 DEF MiddleMenu1, Show, Cursors
  <2> QED
    BY <1>1, <1>2, <1>7, <2>1, <2>2, ShowStep DEF MiddleMenu1
<1>8. CASE MiddleMenu2
  <2>1. Menu2Pages[cursor.menu2 + 1] # "remap_list"
    BY <1>2 DEF Cursors, Menu2Pages
  <2>2. Cursors'
    BY <1>2, <1>8 DEF MiddleMenu2, Show, Cursors
  <2> QED
    BY <1>1, <1>2, <1>8, <2>1, <2>2, ShowStep DEF MiddleMenu2
<1> QED
  BY <1>3, <1>4, <1>5, <1>6, <1>7, <1>8

\* The middle button on the two remap pages.
LEMMA GroupStep == IInv /\ (ConfirmClear \/ AskClear \/ LeaveGroups \/ OpenGroup) => IInv'
<1> SUFFICES ASSUME IInv, ConfirmClear \/ AskClear \/ LeaveGroups \/ OpenGroup PROVE IInv'
  OBVIOUS
<1> USE DEF IInv, Shape, Cursors
<1>1. page = "remap_group" /\ ~confirm.exit /\ ~capture.on
  BY DEF ConfirmClear, AskClear, LeaveGroups, OpenGroup, ModesBelong, OverlaysBelong, CaptureOnlyInList
<1>2. CASE ConfirmClear
  BY <1>1, <1>2
  DEF ConfirmClear, remapping, ModesBelong, OverlaysBelong, CaptureOnlyInList, PendingForEntry
<1>3. CASE AskClear
  BY <1>1, <1>3
  DEF AskClear, remapping, ModesBelong, OverlaysBelong, CaptureOnlyInList, PendingForEntry
<1>4. CASE LeaveGroups
  BY <1>1, <1>4, ShowStep DEF LeaveGroups, Show
<1>5. CASE OpenGroup
  BY <1>1, <1>5
  DEF OpenGroup, DropPending, set_capture_mode, ModesBelong, OverlaysBelong, CaptureOnlyInList,
      PendingForEntry
<1> QED
  BY <1>2, <1>3, <1>4, <1>5

LEMMA ListStep == IInv /\ (ConfirmExit \/ ConfirmRemap \/ AskExit) => IInv'
<1> SUFFICES ASSUME IInv, ConfirmExit \/ ConfirmRemap \/ AskExit PROVE IInv'
  OBVIOUS
<1> USE DEF IInv, Shape, Cursors
<1>1. page = "remap_list" /\ ~confirm.clear /\ capture.on
  BY DEF ConfirmExit, ConfirmRemap, AskExit, ModesBelong, OverlaysBelong, CaptureOnlyInList
<1>2. CASE ConfirmExit
  BY <1>1, <1>2
  DEF ConfirmExit, DropPending, set_capture_mode, ModesBelong, OverlaysBelong, CaptureOnlyInList,
      PendingForEntry
<1>3. CASE ConfirmRemap
  <2>1. Kept
    BY <1>3, CommitDrops DEF ConfirmRemap, screen, Kept
  <2> QED
    BY <2>1, KeptStep
<1>4. CASE AskExit
  BY <1>1, <1>4
  DEF AskExit, remapping, ModesBelong, OverlaysBelong, CaptureOnlyInList, PendingForEntry
<1> QED
  BY <1>2, <1>3, <1>4

LEMMA MiddleStep == IInv /\ Middle => IInv'
BY LeaveStep, WalkStep, GroupStep, ListStep DEF Middle

\* The left and right buttons.
LEMMA TurnStep ==
  ASSUME IInv, NEW d \in {-1, 1},
         Turn("menu1", "menu1", d) \/ Turn("menu2", "menu2", d) \/ TurnGroup(d)
  PROVE  IInv'
<1>1. page \in {"menu1", "menu2", "remap_group"} /\ ~confirm.clear
  BY DEF Turn, TurnGroup, IInv, ModesBelong, OverlaysBelong
<1>2. ASSUME NEW item \in {"menu1", "menu2", "group"}, Turn(page, item, d) PROVE Cursors'
  BY <1>2 DEF Turn, Show, Items, IInv, Cursors
<1>3. Cursors'
  BY <1>2 DEF Turn, TurnGroup
<1> QED
  BY <1>1, <1>3, ShowStep DEF Turn, TurnGroup

LEMMA CancelStep == IInv /\ Cancel => IInv'
BY DEF Cancel, remapping, IInv, Shape, Cursors, ModesBelong, OverlaysBelong, CaptureOnlyInList, PendingForEntry

\* The entry on the screen changes, with nothing pending for it yet.
LEMMA TurnEntryStep == ASSUME IInv, NEW d, TurnEntry(d) PROVE IInv'
<1>1. pending' = 0
  BY CommitDrops DEF TurnEntry
<1> QED
  BY <1>1
  DEF TurnEntry, IInv, Shape, Cursors, ModesBelong, OverlaysBelong, CaptureOnlyInList, PendingForEntry

LEMMA SideStep == ASSUME IInv, NEW d \in {-1, 1}, Side(d) PROVE IInv'
<1>1. Cursors
  BY DEF IInv
<1>2. CASE \/ SlideMouse(d) \/ FlipJoy \/ EditAutofire(d)
           \/ TurnLanguage(d) \/ TurnLayout(d) \/ SlideDeadZone(d) \/ EditScreen(d)
  <2>1. Kept
    BY <1>1, <1>2, EditKeeps, SlideKeeps
    DEF SlideMouse, FlipJoy, EditAutofire, TurnLanguage, TurnLayout, SlideDeadZone, EditScreen
  <2> QED
    BY <2>1, KeptStep
<1>3. CASE Turn("menu1", "menu1", d) \/ Turn("menu2", "menu2", d) \/ TurnGroup(d)
  BY <1>3, TurnStep
<1>4. CASE Cancel
  BY <1>4, CancelStep
<1>5. CASE TurnEntry(d)
  BY <1>5, TurnEntryStep
<1> QED
  BY <1>2, <1>3, <1>4, <1>5 DEF Side

LEMMA PressStep == ASSUME IInv, NEW b \in Buttons, Press(b) PROVE IInv'
<1>1. CASE Wake
  <2>1. Kept
    BY <1>1 DEF Wake, screen, remapping, Kept, IInv, Cursors
  <2> QED
    BY <2>1, KeptStep
<1> QED
  BY <1>1, MiddleStep, SideStep DEF Press, Left, Right

\* update takes a captured key for the entry that is on the screen.
LEMMA UpdateStepKeeps ==
  ASSUME IInv, NEW settled, NEW idle, NEW due, NEW live, Update(settled, idle, due, live)
  PROVE  IInv'
<1>1. Shape' /\ Cursors' /\ UNCHANGED <<cursor, entry, confirm, capture>>
  BY DEF Update, IInv, Shape, Cursors
<1>2. page' = page \/ (page = "splash" /\ page' = "mouse")
  BY DEF Update
<1>3. CaptureOnlyInList' /\ OverlaysBelong'
  BY <1>1, <1>2 DEF IInv, ModesBelong, CaptureOnlyInList, OverlaysBelong
<1>4. PendingForEntry'
  <2>1. CASE UNCHANGED <<pending, latchedAt>>
    BY <1>1, <2>1 DEF IInv, ModesBelong, PendingForEntry
  <2>2. CASE LatchKey
    BY <1>1, <2>2 DEF LatchKey, IInv, ModesBelong, PendingForEntry
  <2> QED
    BY <2>1, <2>2 DEF Update
<1> QED
  BY <1>1, <1>3, <1>4 DEF IInv, ModesBelong

\* The other actors: the key pressed is looked for in capture mode only, and the
\* shortcuts leave the modes alone.
LEMMA OtherStep == IInv /\ Others => IInv'
<1> SUFFICES ASSUME IInv, Others PROVE IInv'
  OBVIOUS
<1>1. CASE \E b \in Buttons : Press(b)
  BY <1>1, PressStep
<1>2. CASE \E h \in CaptureKeys \cup {0} : PressKey(h)
  BY <1>2
  DEF PressKey, screen, IInv, Shape, Cursors, ModesBelong, OverlaysBelong, CaptureOnlyInList,
      PendingForEntry
<1>3. CASE \/ set_mouse_enabled \/ \E j \in Joys : toggle_joystick_source(j)
           \/ \E fast \in BOOLEAN : set_cpu_speed(fast) \/ \E n \in 0 .. 1 : usb_connect_state(n)
  <2>1. Kept
    BY <1>3
    DEF set_mouse_enabled, toggle_joystick_source, set_cpu_speed, usb_connect_state, screen,
        remapping, Kept, IInv, Cursors
  <2> QED
    BY <2>1, KeptStep
<1> QED
  BY <1>1, <1>2, <1>3 DEF Others

\* What init leaves has no mode on.
LEMMA BootState ==
  ASSUME NEW image
  PROVE  /\ Booted(image).page = "splash"
         /\ Booted(image).cursor = [i \in DOMAIN Items |-> 0]
         /\ Booted(image).confirm = [exit |-> FALSE, clear |-> FALSE]
         /\ Booted(image).capture = [on |-> FALSE, key |-> 0]
BY DEF Booted

LEMMA Initially == Init => IInv
<1> SUFFICES ASSUME NEW image \in Images,
                    page = Booted(image).page, cursor = Booted(image).cursor,
                    confirm = Booted(image).confirm, pending = 0,
                    capture = Booted(image).capture
             PROVE  IInv
  BY DEF Init
<1>1. Cursors
  BY BootState DEF Cursors, Items
<1>2. Shape
  <2>1. [exit |-> FALSE, clear |-> FALSE] \in [exit : BOOLEAN, clear : BOOLEAN]
        /\ [on |-> FALSE, key |-> 0] \in [on : BOOLEAN, key : CaptureKeys \cup {0}]
    OBVIOUS
  <2>2. confirm = [exit |-> FALSE, clear |-> FALSE] /\ capture = [on |-> FALSE, key |-> 0]
    BY BootState
  <2> QED
    BY <2>1, <2>2, Zenon DEF Shape
<1>3. page = "splash" /\ ~confirm.exit /\ ~confirm.clear /\ ~capture.on
  BY BootState
<1>4. ModesBelong
  BY <1>3 DEF ModesBelong, OverlaysBelong, CaptureOnlyInList, PendingForEntry
<1> QED
  BY <1>1, <1>2, <1>4 DEF IInv

LEMMA CutStep == PowerCut => IInv'
<1> SUFFICES ASSUME NEW image \in AfterCut,
                    page' = Booted(image).page, cursor' = Booted(image).cursor,
                    confirm' = Booted(image).confirm, pending' = 0,
                    capture' = Booted(image).capture
             PROVE  IInv'
  BY DEF PowerCut
<1>1. Cursors'
  BY BootState DEF Cursors, Items
<1>2. Shape'
  <2>1. [exit |-> FALSE, clear |-> FALSE] \in [exit : BOOLEAN, clear : BOOLEAN]
        /\ [on |-> FALSE, key |-> 0] \in [on : BOOLEAN, key : CaptureKeys \cup {0}]
    OBVIOUS
  <2>2. confirm' = [exit |-> FALSE, clear |-> FALSE] /\ capture' = [on |-> FALSE, key |-> 0]
    BY BootState
  <2> QED
    BY <2>1, <2>2, Zenon DEF Shape
<1>3. page' = "splash" /\ ~confirm'.exit /\ ~confirm'.clear /\ ~capture'.on
  BY BootState
<1>4. ModesBelong'
  BY <1>3 DEF ModesBelong, OverlaysBelong, CaptureOnlyInList, PendingForEntry
<1> QED
  BY <1>1, <1>2, <1>4 DEF IInv

LEMMA Preserved == IInv /\ [Next]_vars => IInv'
<1> SUFFICES ASSUME IInv, [Next]_vars PROVE IInv'
  OBVIOUS
<1>1. CASE UpdateStep
  BY <1>1, UpdateStepKeeps DEF UpdateStep, Open
<1>2. CASE Others
  BY <1>2, OtherStep
<1>3. CASE BootErase \/ BootProgram \/ UNCHANGED vars
  <2>1. Kept
    BY <1>3 DEF BootErase, BootProgram, vars, screen, remapping, Kept, IInv, Cursors
  <2> QED
    BY <2>1, KeptStep
<1>4. CASE PowerCut
  BY <1>4, CutStep
<1> QED
  BY <1>1, <1>2, <1>3, <1>4 DEF Next

-------------------------------------------------------------------------------
(* What a boot makes of the settings. *)

\* Two settings that differ in the fields of F only.
SameBut(r, s, F) == \A f \in DOMAIN s \ F : r[f] = s[f]

\* What NVSettings::read leaves, and what UserInterface::init leaves on top of it.
Migrated(s) ==
  /\ s \in Settings /\ s.version = 1
  /\ s.layout # 255 /\ s.dead_zone # 255
  /\ \A j \in Joys : s.autofire_mode[j] # 255 /\ s.autofire_rate[j] \notin {0, 255}
  /\ s.key_remap[4] # 255 /\ s.sleep # 255 /\ s.brightness \in 1 .. 8
LayoutSettled(s) == s.mouse_speed \in MouseMin .. MouseMax /\ s.layout < Layouts
ScreenSettled(s) == s.dead_zone <= DeadZoneMax /\ s.sleep < Len(SleepPresets) /\ s.brightness <= BrightMax
Settled(s) == Migrated(s) /\ LayoutSettled(s) /\ s.key_remap[4] # 0 /\ ScreenSettled(s)

\* The default key map is a table of bytes, in which the key A has a scan code.
LEMMA DefaultTable ==
  ASSUME NEW layout
  PROVE  get_layout_table(layout) \in [RemapKeys -> Byte] /\ get_layout_table(layout)[4] = 30
<1>1. LayoutRow \in Seq(Byte)
  BY DEF LayoutRow, Byte
<1>2. Len(LayoutRow) = 128
  BY DEF LayoutRow
<1>3. LayoutRow[5] = 30
  BY DEF LayoutRow
<1>4. st_key_lookup_hid \in [HidCodes -> Byte] /\ st_key_lookup_hid[4] = 30
  <2>1. \A h \in HidCodes : h + 1 \in 1 .. 128
    BY DEF HidCodes
  <2>2. 4 + 1 = 5 /\ 4 \in HidCodes
    BY DEF HidCodes
  <2>3. \A n \in 1 .. Len(LayoutRow) : LayoutRow[n] \in Byte
    BY <1>1
  <2>4. ASSUME NEW h \in HidCodes PROVE LayoutRow[h + 1] \in Byte
    <3>1. h + 1 \in 1 .. Len(LayoutRow)
      BY <1>2, <2>1
    <3> QED
      BY <2>3, <3>1
  <2>5. st_key_lookup_hid \in [HidCodes -> Byte]
    BY <2>4 DEF st_key_lookup_hid
  <2>6. st_key_lookup_hid[4] = LayoutRow[4 + 1]
    BY <2>2 DEF st_key_lookup_hid
  <2> QED
    BY <1>3, <2>2, <2>5, <2>6
<1> QED
  BY <1>4, RemapAssumption DEF get_layout_table

LEMMA MigrateLayoutDoes ==
  ASSUME NEW s \in Settings
  PROVE  /\ MigrateLayout(s) \in Settings /\ MigrateLayout(s).layout # 255
         /\ SameBut(MigrateLayout(s), s, {"layout"})
         /\ s.layout # 255 => MigrateLayout(s) = s
<1> DEFINE v == IF s.layout = 255 THEN 0 ELSE s.layout
<1>1. MigrateLayout(s) = [s EXCEPT !.layout = v]
  BY DEF MigrateLayout
<1>2. v \in Byte /\ v # 255 /\ (s.layout # 255 => v = s.layout)
  BY DEF Settings, Byte
<1> HIDE DEF v
<1> QED
  BY <1>1, <1>2 DEF Settings, SameBut

LEMMA MigrateDeadZoneDoes ==
  ASSUME NEW s \in Settings
  PROVE  /\ MigrateDeadZone(s) \in Settings /\ MigrateDeadZone(s).dead_zone # 255
         /\ SameBut(MigrateDeadZone(s), s, {"dead_zone"})
         /\ s.dead_zone # 255 => MigrateDeadZone(s) = s
<1> DEFINE v == IF s.dead_zone = 255 THEN 8 ELSE s.dead_zone
<1>1. MigrateDeadZone(s) = [s EXCEPT !.dead_zone = v]
  BY DEF MigrateDeadZone
<1>2. v \in Byte /\ v # 255 /\ (s.dead_zone # 255 => v = s.dead_zone)
  BY DEF Settings, Byte
<1> HIDE DEF v
<1> QED
  BY <1>1, <1>2 DEF Settings, SameBut

LEMMA MigrateAutofireDoes ==
  ASSUME NEW s \in Settings
  PROVE  /\ MigrateAutofire(s) \in Settings
         /\ \A j \in Joys : /\ MigrateAutofire(s).autofire_mode[j] # 255
                            /\ MigrateAutofire(s).autofire_rate[j] \notin {0, 255}
         /\ SameBut(MigrateAutofire(s), s, {"autofire_mode", "autofire_rate"})
         /\ (\A j \in Joys : s.autofire_mode[j] # 255 /\ s.autofire_rate[j] \notin {0, 255})
              => MigrateAutofire(s) = s
<1> DEFINE v == [j \in Joys |-> IF s.autofire_mode[j] = 255 THEN 0 ELSE s.autofire_mode[j]]
           w == [j \in Joys |-> IF s.autofire_rate[j] \in {0, 255} THEN 8 ELSE s.autofire_rate[j]]
<1>1. MigrateAutofire(s) = [s EXCEPT !.autofire_mode = v, !.autofire_rate = w]
  BY DEF MigrateAutofire
<1>2. s.autofire_mode \in [Joys -> Byte] /\ s.autofire_rate \in [Joys -> Byte]
  BY DEF Settings
<1>3. /\ v \in [Joys -> Byte] /\ \A j \in Joys : v[j] # 255
      /\ (\A j \in Joys : s.autofire_mode[j] # 255) => v = s.autofire_mode
  BY <1>2 DEF Byte
<1>4. /\ w \in [Joys -> Byte] /\ \A j \in Joys : w[j] \notin {0, 255}
      /\ (\A j \in Joys : s.autofire_rate[j] \notin {0, 255}) => w = s.autofire_rate
  BY <1>2 DEF Byte
<1> HIDE DEF v, w
<1>5. MigrateAutofire(s) \in Settings
  <2>1. v \in [Joys -> Byte]
    BY <1>3
  <2>2. w \in [Joys -> Byte]
    BY <1>4
  <2> QED
    BY <1>1, <2>1, <2>2 DEF Settings
<1>6. MigrateAutofire(s).autofire_mode = v /\ MigrateAutofire(s).autofire_rate = w
  BY <1>1 DEF Settings
<1>7. SameBut(MigrateAutofire(s), s, {"autofire_mode", "autofire_rate"})
  BY <1>1 DEF Settings, SameBut
<1>8. [s EXCEPT !.autofire_mode = s.autofire_mode, !.autofire_rate = s.autofire_rate] = s
  BY DEF Settings
<1> QED
  BY <1>1, <1>3, <1>4, <1>5, <1>6, <1>7, <1>8, ZenonT(40)

LEMMA MigrateRemapDoes ==
  ASSUME NEW s \in Settings
  PROVE  /\ MigrateRemap(s) \in Settings /\ MigrateRemap(s).key_remap[4] # 255
         /\ SameBut(MigrateRemap(s), s, {"key_remap"})
         /\ s.key_remap[4] # 255 => MigrateRemap(s) = s
<1> DEFINE v == IF s.key_remap[4] = 255 THEN Zeroes ELSE s.key_remap
<1>1. MigrateRemap(s) = [s EXCEPT !.key_remap = v]
  BY DEF MigrateRemap
<1>2. Zeroes \in [RemapKeys -> Byte] /\ Zeroes[4] = 0
  BY RemapAssumption DEF Zeroes, Byte
<1>3. v \in [RemapKeys -> Byte] /\ v[4] # 255 /\ (s.key_remap[4] # 255 => v = s.key_remap)
  BY <1>2 DEF Settings
<1> HIDE DEF v
<1> QED
  BY <1>1, <1>3 DEF Settings, SameBut

LEMMA MigrateScreenDoes ==
  ASSUME NEW s \in Settings
  PROVE  /\ MigrateScreen(s) \in Settings
         /\ MigrateScreen(s).sleep # 255 /\ MigrateScreen(s).brightness \in 1 .. 8
         /\ SameBut(MigrateScreen(s), s, {"sleep", "brightness"})
         /\ s.sleep # 255 /\ s.brightness \in 1 .. 8 => MigrateScreen(s) = s
<1> DEFINE v == IF s.sleep = 255 THEN 0 ELSE s.sleep
           w == IF s.brightness = 0 \/ s.brightness > 8 THEN 8 ELSE s.brightness
<1>1. MigrateScreen(s) = [s EXCEPT !.sleep = v, !.brightness = w]
  BY DEF MigrateScreen
<1>2. v \in Byte /\ v # 255 /\ (s.sleep # 255 => v = s.sleep)
  BY DEF Settings, Byte
<1>3. w \in Byte /\ w \in 1 .. 8 /\ (s.brightness \in 1 .. 8 => w = s.brightness)
  BY DEF Settings, Byte
<1> HIDE DEF v, w
<1>4. MigrateScreen(s) \in Settings
  <2>1. v \in Byte
    BY <1>2
  <2>2. w \in Byte
    BY <1>3
  <2> QED
    BY <1>1, <2>1, <2>2 DEF Settings
<1>5. MigrateScreen(s).sleep = v /\ MigrateScreen(s).brightness = w
  BY <1>1 DEF Settings
<1>6. SameBut(MigrateScreen(s), s, {"sleep", "brightness"})
  BY <1>1 DEF Settings, SameBut
<1>7. [s EXCEPT !.sleep = s.sleep, !.brightness = s.brightness] = s
  BY DEF Settings
<1> QED
  BY <1>1, <1>2, <1>3, <1>4, <1>5, <1>6, <1>7

\* The settings as read's migrations take them, one after the other.
Stage1(f) == MigrateLayout(f)
Stage2(f) == MigrateDeadZone(Stage1(f))
Stage3(f) == MigrateAutofire(Stage2(f))
Stage4(f) == MigrateRemap(Stage3(f))
Stage5(f) == MigrateScreen(Stage4(f))

\* Each migration leaves its own field in order and those of the earlier ones as
\* they were.
LEMMA Stages ==
  ASSUME NEW f \in Settings, f.version = 1
  PROVE  /\ Read(f) = Stage5(f) /\ Migrated(Stage5(f))
         /\ Stage1(f) \in Settings /\ Stage1(f).version = 1 /\ Stage1(f).layout # 255
         /\ Stage2(f) \in Settings /\ Stage2(f).version = 1 /\ Stage2(f).layout # 255
         /\ Stage2(f).dead_zone # 255
         /\ Stage3(f) \in Settings /\ Stage3(f).version = 1 /\ Stage3(f).layout # 255
         /\ Stage3(f).dead_zone # 255
         /\ \A j \in Joys : Stage3(f).autofire_mode[j] # 255 /\ Stage3(f).autofire_rate[j] \notin {0, 255}
         /\ Stage4(f) \in Settings /\ Stage4(f).version = 1 /\ Stage4(f).layout # 255
         /\ Stage4(f).dead_zone # 255 /\ Stage4(f).key_remap[4] # 255
         /\ \A j \in Joys : Stage4(f).autofire_mode[j] # 255 /\ Stage4(f).autofire_rate[j] \notin {0, 255}
<1> DEFINE s1 == Stage1(f)
           s2 == Stage2(f)
           s3 == Stage3(f)
           s4 == Stage4(f)
           s5 == Stage5(f)
<1>0. Read(f) = s5
  BY DEF Read, Stage1, Stage2, Stage3, Stage4, Stage5
<1>1. s1 \in Settings /\ s1.layout # 255 /\ SameBut(s1, f, {"layout"})
  BY MigrateLayoutDoes DEF Stage1
<1>2. s2 \in Settings /\ s2.dead_zone # 255 /\ SameBut(s2, s1, {"dead_zone"})
  BY <1>1, MigrateDeadZoneDoes DEF Stage2
<1>3. /\ s3 \in Settings /\ SameBut(s3, s2, {"autofire_mode", "autofire_rate"})
      /\ \A j \in Joys : s3.autofire_mode[j] # 255 /\ s3.autofire_rate[j] \notin {0, 255}
  BY <1>2, MigrateAutofireDoes DEF Stage3
<1>4. s4 \in Settings /\ s4.key_remap[4] # 255 /\ SameBut(s4, s3, {"key_remap"})
  BY <1>3, MigrateRemapDoes DEF Stage4
<1>5. s5 \in Settings /\ s5.sleep # 255 /\ s5.brightness \in 1 .. 8 /\ SameBut(s5, s4, {"sleep", "brightness"})
  BY <1>4, MigrateScreenDoes DEF Stage5
<1> HIDE DEF s1, s2, s3, s4, s5
<1>6. s1.version = 1
  BY <1>1 DEF SameBut, Settings
<1>7. s2.version = 1 /\ s2.layout # 255
  BY <1>1, <1>2, <1>6 DEF SameBut, Settings
<1>8. s3.version = 1 /\ s3.layout # 255 /\ s3.dead_zone # 255
  BY <1>2, <1>3, <1>7 DEF SameBut, Settings
<1>9. /\ s4.version = 1 /\ s4.layout # 255 /\ s4.dead_zone # 255
      /\ s4.autofire_mode = s3.autofire_mode /\ s4.autofire_rate = s3.autofire_rate
  BY <1>3, <1>4, <1>8 DEF SameBut, Settings
<1>10. /\ s5.version = 1 /\ s5.layout # 255 /\ s5.dead_zone # 255 /\ s5.key_remap[4] # 255
       /\ s5.autofire_mode = s3.autofire_mode /\ s5.autofire_rate = s3.autofire_rate
  BY <1>4, <1>5, <1>9 DEF SameBut, Settings
<1>11. Migrated(s5)
  BY <1>3, <1>5, <1>10 DEF Migrated
<1> QED
  BY <1>0, <1>1, <1>2, <1>3, <1>4, <1>6, <1>7, <1>8, <1>9, <1>11 DEF s1, s2, s3, s4, s5

\* NVSettings::read migrates once.
LEMMA ReadMigrates ==
  ASSUME NEW f \in Settings
  PROVE  Migrated(Read(f)) /\ (Migrated(f) => Read(f) = f)
<1>1. CASE f.version # 1
  <2>1. Zeroes \in [RemapKeys -> Byte] /\ Zeroes[4] = 0
    BY RemapAssumption DEF Zeroes, Byte
  <2>2. Migrated(FirstBoot)
    BY <2>1 DEF FirstBoot, Migrated, Settings, Byte
  <2> QED
    BY <1>1, <2>2 DEF Read, Migrated
<1>2. CASE f.version = 1
  <2>1. Read(f) = Stage5(f) /\ Migrated(Stage5(f))
    BY <1>2, Stages
  <2>2. ASSUME Migrated(f) PROVE Stage5(f) = f
    <3>1. Stage1(f) = f
      BY <2>2, MigrateLayoutDoes DEF Migrated, Stage1
    <3>2. Stage2(f) = f
      BY <2>2, <3>1, MigrateDeadZoneDoes DEF Migrated, Stage2
    <3>3. Stage3(f) = f
      BY <2>2, <3>2, MigrateAutofireDoes DEF Migrated, Stage3
    <3>4. Stage4(f) = f
      BY <2>2, <3>3, MigrateRemapDoes DEF Migrated, Stage4
    <3> QED
      BY <2>2, <3>4, MigrateScreenDoes DEF Migrated, Stage5
  <2> QED
    BY <2>1, <2>2
<1> QED
  BY <1>1, <1>2

\* A boot that is cut after any of read's writes takes up where it stopped.
LEMMA StagesRead ==
  ASSUME NEW f \in Settings, f.version = 1
  PROVE  /\ Read(Stage1(f)) = Read(f) /\ Read(Stage2(f)) = Read(f) /\ Read(Stage3(f)) = Read(f)
         /\ Read(Stage4(f)) = Read(f) /\ Read(Stage5(f)) = Read(f)
<1>1. Read(Stage1(f)) = Read(f)
  <2>1. Stage1(Stage1(f)) = Stage1(f)
    BY Stages, MigrateLayoutDoes DEF Stage1
  <2>2. Stage5(Stage1(f)) = Stage5(f)
    BY <2>1 DEF Stage2, Stage3, Stage4, Stage5
  <2> QED
    BY <2>2, Stages
<1>2. Read(Stage2(f)) = Read(f)
  <2>1. Stage1(Stage2(f)) = Stage2(f)
    BY Stages, MigrateLayoutDoes DEF Stage1
  <2>2. Stage2(Stage2(f)) = Stage2(f)
    <3>1. MigrateDeadZone(Stage2(f)) = Stage2(f)
      BY Stages, MigrateDeadZoneDoes
    <3> QED
      BY <2>1, <3>1 DEF Stage2
  <2>3. Stage5(Stage2(f)) = Stage5(f)
    BY <2>2 DEF Stage3, Stage4, Stage5
  <2> QED
    BY <2>3, Stages
<1>3. Read(Stage3(f)) = Read(f)
  <2> DEFINE t == Stage3(f)
  <2>1. MigrateLayout(t) = t /\ MigrateDeadZone(t) = t /\ MigrateAutofire(t) = t
    BY Stages, MigrateLayoutDoes, MigrateDeadZoneDoes, MigrateAutofireDoes
  <2> HIDE DEF t
  <2>2. Stage3(t) = t
    BY <2>1 DEF Stage1, Stage2, Stage3
  <2>3. Stage5(t) = Stage5(f)
    BY <2>2 DEF Stage4, Stage5, t
  <2> QED
    BY <2>3, Stages DEF t
<1>4. Read(Stage4(f)) = Read(f)
  <2> DEFINE t == Stage4(f)
  <2>1. MigrateLayout(t) = t /\ MigrateDeadZone(t) = t /\ MigrateAutofire(t) = t /\ MigrateRemap(t) = t
    BY Stages, MigrateLayoutDoes, MigrateDeadZoneDoes, MigrateAutofireDoes, MigrateRemapDoes
  <2> HIDE DEF t
  <2>2. Stage4(t) = t
    BY <2>1 DEF Stage1, Stage2, Stage3, Stage4
  <2>3. Stage5(t) = Stage5(f)
    BY <2>2 DEF Stage5, t
  <2> QED
    BY <2>3, Stages DEF t
<1>5. Read(Stage5(f)) = Read(f)
  BY Stages, ReadMigrates DEF Migrated
<1> QED
  BY <1>1, <1>2, <1>3, <1>4, <1>5

LEMMA ClampIn ==
  ASSUME NEW low \in Int, NEW high \in Int, low <= high, NEW x \in Int
  PROVE  Clamp(x, low, high) \in low .. high /\ (x \in low .. high => Clamp(x, low, high) = x)
BY DEF Clamp

LEMMA InitLayoutDoes ==
  ASSUME NEW s, Migrated(s)
  PROVE  /\ Migrated(InitLayout(s)) /\ LayoutSettled(InitLayout(s))
         /\ InitLayout(s).key_remap = s.key_remap
         /\ LayoutSettled(s) => InitLayout(s) = s
<1> DEFINE v == Clamp(s.mouse_speed, MouseMin, MouseMax)
           w == IF s.layout >= Layouts THEN 0 ELSE s.layout
<1>1. InitLayout(s) = [s EXCEPT !.mouse_speed = v, !.layout = w]
  BY DEF InitLayout
<1>0. s \in Settings
  BY DEF Migrated
<1>2. /\ v \in MouseMin .. MouseMax /\ v \in -128 .. 127
      /\ s.mouse_speed \in MouseMin .. MouseMax => v = s.mouse_speed
  <2>1. s.mouse_speed \in Int /\ MouseMin \in Int /\ MouseMax \in Int /\ MouseMin <= MouseMax
    BY <1>0 DEF Settings, MouseMin, MouseMax
  <2>2. v \in MouseMin .. MouseMax /\ (s.mouse_speed \in MouseMin .. MouseMax => v = s.mouse_speed)
    BY <2>1, ClampIn
  <2> QED
    BY <2>2 DEF MouseMin, MouseMax
<1>3. w \in Byte /\ w < Layouts /\ w # 255 /\ (s.layout < Layouts => w = s.layout)
  BY DEF Migrated, Settings, Byte, Layouts
<1> HIDE DEF v, w
<1> DEFINE r == InitLayout(s)
<1>4. r \in Settings /\ r.mouse_speed = v /\ r.layout = w /\ SameBut(r, s, {"mouse_speed", "layout"})
  <2>1. r \in Settings
    <3>1. v \in -128 .. 127
      BY <1>2
    <3>2. w \in Byte
      BY <1>3
    <3> QED
      BY <1>0, <1>1, <3>1, <3>2, ZenonT(40) DEF Settings
  <2>2. r.mouse_speed = v /\ r.layout = w
    BY <1>0, <1>1 DEF Settings
  <2>3. SameBut(r, s, {"mouse_speed", "layout"})
    BY <1>0, <1>1 DEF Settings, SameBut
  <2> QED
    BY <2>1, <2>2, <2>3
<1>5. LayoutSettled(s) => r = s
  <2>1. [s EXCEPT !.mouse_speed = s.mouse_speed, !.layout = s.layout] = s
    BY <1>0 DEF Settings
  <2> QED
    BY <1>1, <1>2, <1>3, <2>1 DEF LayoutSettled
<1> HIDE DEF r
<1>6. /\ r.version = s.version /\ r.dead_zone = s.dead_zone /\ r.autofire_mode = s.autofire_mode
      /\ r.autofire_rate = s.autofire_rate /\ r.key_remap = s.key_remap /\ r.sleep = s.sleep
      /\ r.brightness = s.brightness
  BY <1>4 DEF Migrated, Settings, SameBut
<1>7. Migrated(r) /\ LayoutSettled(r)
  BY <1>2, <1>3, <1>4, <1>6 DEF Migrated, LayoutSettled
<1> QED
  BY <1>5, <1>6, <1>7 DEF r

LEMMA InitRemapDoes ==
  ASSUME NEW s, Migrated(s), LayoutSettled(s)
  PROVE  /\ Migrated(InitRemap(s)) /\ LayoutSettled(InitRemap(s)) /\ InitRemap(s).key_remap[4] # 0
         /\ s.key_remap[4] # 0 => InitRemap(s) = s
<1> DEFINE v == IF s.key_remap[4] = 0 THEN get_layout_table(s.layout) ELSE s.key_remap
<1>1. InitRemap(s) = [s EXCEPT !.key_remap = v]
  BY DEF InitRemap
<1>2. v \in [RemapKeys -> Byte] /\ v[4] \notin {0, 255} /\ (s.key_remap[4] # 0 => v = s.key_remap)
  BY DefaultTable DEF Migrated, Settings
<1> HIDE DEF v
<1> DEFINE r == InitRemap(s)
<1>3. r \in Settings /\ r.key_remap = v /\ SameBut(r, s, {"key_remap"}) /\ (s.key_remap[4] # 0 => r = s)
  BY <1>1, <1>2 DEF Migrated, Settings, SameBut
<1> HIDE DEF r
<1>4. /\ r.version = s.version /\ r.dead_zone = s.dead_zone /\ r.autofire_mode = s.autofire_mode
      /\ r.autofire_rate = s.autofire_rate /\ r.layout = s.layout /\ r.sleep = s.sleep
      /\ r.brightness = s.brightness /\ r.mouse_speed = s.mouse_speed
  BY <1>3 DEF Migrated, Settings, SameBut
<1>5. Migrated(r) /\ LayoutSettled(r) /\ r.key_remap[4] # 0
  BY <1>2, <1>3, <1>4 DEF Migrated, LayoutSettled
<1> QED
  BY <1>3, <1>5 DEF r

LEMMA InitScreenDoes ==
  ASSUME NEW s, Migrated(s), LayoutSettled(s), s.key_remap[4] # 0
  PROVE  Settled(InitScreen(s)) /\ (ScreenSettled(s) => InitScreen(s) = s)
<1> DEFINE d == IF s.dead_zone = 255 THEN 0 ELSE Clamp(s.dead_zone, 0, DeadZoneMax)
           v == IF s.sleep >= Len(SleepPresets) THEN 0 ELSE s.sleep
           w == IF s.brightness > BrightMax THEN BrightMax ELSE s.brightness
<1>1. InitScreen(s) = [s EXCEPT !.dead_zone = d, !.sleep = v, !.brightness = w]
  BY DEF InitScreen
<1>2. d \in 0 .. DeadZoneMax /\ (s.dead_zone <= DeadZoneMax => d = s.dead_zone)
  <2>1. Clamp(s.dead_zone, 0, DeadZoneMax) \in 0 .. DeadZoneMax
        /\ (s.dead_zone \in 0 .. DeadZoneMax => Clamp(s.dead_zone, 0, DeadZoneMax) = s.dead_zone)
    <3>1. s.dead_zone \in Int /\ DeadZoneMax \in Int /\ 0 <= DeadZoneMax
      BY DEF Migrated, Settings, Byte, DeadZoneMax
    <3> QED
      BY <3>1 DEF Clamp
  <2> QED
    BY <2>1 DEF Migrated, Settings, Byte, DeadZoneMax
<1>3. Len(SleepPresets) = 9
  BY DEF SleepPresets
<1>4. v \in Byte /\ v < Len(SleepPresets) /\ v # 255 /\ (s.sleep < Len(SleepPresets) => v = s.sleep)
  BY <1>3 DEF Migrated, Settings, Byte
<1>5. w \in 1 .. 7 /\ (s.brightness <= BrightMax => w = s.brightness)
  BY DEF Migrated, BrightMax
<1>6. d \in Byte /\ w \in Byte /\ d <= DeadZoneMax /\ d # 255 /\ w <= BrightMax /\ w \in 1 .. 8
  BY <1>2, <1>5 DEF Byte, DeadZoneMax, BrightMax
<1> HIDE DEF d, v, w
<1> DEFINE r == InitScreen(s)
<1>7. /\ r \in Settings /\ r.dead_zone = d /\ r.sleep = v /\ r.brightness = w
      /\ SameBut(r, s, {"dead_zone", "sleep", "brightness"})
  <2>0. s \in Settings
    BY DEF Migrated
  <2>1. r \in Settings
    <3>1. d \in Byte
      BY <1>6
    <3>2. v \in Byte
      BY <1>4
    <3>3. w \in Byte
      BY <1>6
    <3> QED
      BY <1>1, <2>0, <3>1, <3>2, <3>3 DEF Settings
  <2>2. r.dead_zone = d /\ r.sleep = v /\ r.brightness = w
    BY <1>1, <2>0 DEF Settings
  <2>3. SameBut(r, s, {"dead_zone", "sleep", "brightness"})
    BY <1>1, <2>0 DEF Settings, SameBut
  <2> QED
    BY <2>1, <2>2, <2>3
<1>8. ScreenSettled(s) => r = s
  <2>1. [s EXCEPT !.dead_zone = s.dead_zone, !.sleep = s.sleep, !.brightness = s.brightness] = s
    BY DEF Migrated, Settings
  <2> QED
    BY <1>1, <1>2, <1>4, <1>5, <2>1 DEF ScreenSettled
<1> HIDE DEF r
<1>9. /\ r.version = s.version /\ r.autofire_mode = s.autofire_mode
      /\ r.autofire_rate = s.autofire_rate /\ r.layout = s.layout /\ r.key_remap = s.key_remap
      /\ r.mouse_speed = s.mouse_speed
  BY <1>7 DEF Migrated, Settings, SameBut
<1>10. Settled(r)
  BY <1>4, <1>6, <1>7, <1>9 DEF Settled, Migrated, LayoutSettled, ScreenSettled
<1> QED
  BY <1>8, <1>10 DEF r

\* A boot leaves settings on which the next one has nothing to do,
LEMMA BootSettles ==
  ASSUME NEW f \in Settings
  PROVE  Settled(Boot(f))
BY ReadMigrates, InitLayoutDoes, InitRemapDoes, InitScreenDoes DEF Boot

LEMMA BootIdempotent ==
  ASSUME NEW f, Settled(f)
  PROVE  Boot(f) = f
<1>1. Read(f) = f
  BY ReadMigrates DEF Settled, Migrated
<1>2. InitLayout(f) = f /\ InitRemap(f) = f /\ InitScreen(f) = f
  BY InitLayoutDoes, InitRemapDoes, InitScreenDoes DEF Settled
<1> QED
  BY <1>1, <1>2 DEF Boot

\* and does nothing to.
LEMMA Stays ==
  ASSUME NEW s \in Settings, Current(s)
  PROVE  BootWrites(s) = <<>> /\ (InBounds(s) => Boot(s) = s)
<1>1. Migrated(s) /\ s.layout < Layouts /\ s.key_remap[4] # 0
  <2>1. s.layout < Layouts /\ s.layout # 255
    BY DEF Current, Layouts
  <2> QED
    BY <2>1 DEF Current, Migrated
<1>2. Read(s) = s
  BY <1>1, ReadMigrates
<1>3. MigrateLayout(s) = s /\ MigrateDeadZone(s) = s /\ MigrateAutofire(s) = s /\ MigrateRemap(s) = s
      /\ MigrateScreen(s) = s
  BY <1>1, MigrateLayoutDoes, MigrateDeadZoneDoes, MigrateAutofireDoes, MigrateRemapDoes, MigrateScreenDoes
  DEF Migrated
<1>4. ReadWrites(s) = <<>>
  BY <1>1, <1>3 DEF ReadWrites, Step, Migrated
<1>5. InitRemap(InitLayout(s)) = InitLayout(s)
  <2>1. Migrated(InitLayout(s)) /\ LayoutSettled(InitLayout(s)) /\ InitLayout(s).key_remap = s.key_remap
    BY <1>1, InitLayoutDoes
  <2> QED
    BY <1>1, <2>1, InitRemapDoes
<1>6. InitWrites(s) = <<>>
  <2>1. ~(s.layout >= Layouts)
    BY <1>1 DEF Settings, Byte, Layouts
  <2> QED
    BY <1>5, <2>1 DEF InitWrites, Step
<1>7. BootWrites(s) = <<>>
  BY <1>2, <1>4, <1>6 DEF BootWrites
<1>8. InBounds(s) => Settled(s)
  BY <1>1 DEF InBounds, Settled, LayoutSettled, ScreenSettled
<1> QED
  BY <1>7, <1>8, BootIdempotent

LEMMA SeqWiden ==
  ASSUME NEW A, NEW B, NEW q \in Seq(A), \A w \in A : w \in B
  PROVE  q \in Seq(B)
OBVIOUS

\* What a sequence of images ends with, if it has any.
Ends(q, s) == q # <<>> => q[Len(q)] = s

LEMMA StepWrites ==
  ASSUME NEW S, NEW q \in Seq(S), NEW s, Ends(q, s), NEW t \in S
  PROVE  q \o Step(s, t) \in Seq(S) /\ Ends(q \o Step(s, t), t)
<1>1. CASE t = s
  <2>1. Step(s, t) = <<>>
    BY <1>1 DEF Step
  <2> QED
    BY <1>1, <2>1
<1>2. CASE t # s
  <2>1. Step(s, t) = <<t>>
    BY <1>2 DEF Step
  <2>2. q \o <<t>> \in Seq(S) /\ Len(q \o <<t>>) = Len(q) + 1 /\ (q \o <<t>>)[Len(q) + 1] = t
    OBVIOUS
  <2> QED
    BY <2>1, <2>2 DEF Ends
<1> QED
  BY <1>1, <1>2

\* What read writes reads as the same settings, and the last image is what it read.
LEMMA ReadsAlike ==
  ASSUME NEW f \in Settings
  PROVE  /\ ReadWrites(f) \in Seq({w \in Settings : Read(w) = Read(f)})
         /\ Ends(ReadWrites(f), Read(f))
<1> DEFINE S == {w \in Settings : Read(w) = Read(f)}
<1>1. CASE f.version # 1
  <2>1. Read(f) = FirstBoot /\ ReadWrites(f) = <<FirstBoot>>
    BY <1>1 DEF Read, ReadWrites
  <2>2. FirstBoot \in Settings /\ Read(FirstBoot) = FirstBoot
    BY <2>1, ReadMigrates DEF Migrated
  <2> QED
    BY <2>1, <2>2 DEF Ends
<1>2. CASE f.version = 1
  <2>1. Stage1(f) \in S /\ Stage2(f) \in S /\ Stage3(f) \in S /\ Stage4(f) \in S /\ Stage5(f) \in S
    BY <1>2, Stages, StagesRead DEF Migrated
  <2> HIDE DEF S
  <2> DEFINE q1 == Step(f, Stage1(f))
             q2 == q1 \o Step(Stage1(f), Stage2(f))
             q3 == q2 \o Step(Stage2(f), Stage3(f))
             q4 == q3 \o Step(Stage3(f), Stage4(f))
             q5 == q4 \o Step(Stage4(f), Stage5(f))
  <2>2. ReadWrites(f) = q5
    BY <1>2 DEF ReadWrites, Stage1, Stage2, Stage3, Stage4, Stage5
  <2>3. q1 \in Seq(S) /\ Ends(q1, Stage1(f))
    BY <2>1 DEF Step, Ends
  <2> HIDE DEF q1
  <2>4. q2 \in Seq(S) /\ Ends(q2, Stage2(f))
    BY <2>1, <2>3, StepWrites
  <2> HIDE DEF q2
  <2>5. q3 \in Seq(S) /\ Ends(q3, Stage3(f))
    BY <2>1, <2>4, StepWrites
  <2> HIDE DEF q3
  <2>6. q4 \in Seq(S) /\ Ends(q4, Stage4(f))
    BY <2>1, <2>5, StepWrites
  <2> HIDE DEF q4
  <2>7. q5 \in Seq(S) /\ Ends(q5, Stage5(f))
    BY <2>1, <2>6, StepWrites
  <2> QED
    BY <1>2, <2>2, <2>7, Stages DEF S
<1> QED
  BY <1>1, <1>2

\* The images of a boot all boot to the settings it ends with, and the last of them
\* is one that no later boot rewrites.
LEMMA WritesBoot ==
  ASSUME NEW f \in Settings
  PROVE  /\ BootWrites(f) \in Seq({w \in Settings : Boot(w) = Boot(f)})
         /\ BootWrites(f) # <<>> => Current(BootWrites(f)[Len(BootWrites(f))])
<1> DEFINE S == {w \in Settings : Boot(w) = Boot(f)}
           r == Read(f)
           t == InitLayout(r)
           u == InitRemap(t)
           q == ReadWrites(f)
<1>1. Migrated(r) /\ Read(r) = r
  BY ReadMigrates DEF Migrated
<1>2. Migrated(t) /\ LayoutSettled(t) /\ t.key_remap = r.key_remap /\ InitLayout(t) = t
  BY <1>1, InitLayoutDoes
<1>3. /\ Migrated(u) /\ LayoutSettled(u) /\ u.key_remap[4] # 0 /\ (t.key_remap[4] # 0 => u = t)
      /\ InitLayout(u) = u /\ InitRemap(u) = u
  BY <1>2, InitRemapDoes, InitLayoutDoes
<1>4. t \in S /\ u \in S
  <2>1. Read(t) = t /\ Read(u) = u
    BY <1>2, <1>3, ReadMigrates DEF Migrated
  <2> QED
    BY <1>2, <1>3, <2>1 DEF Boot, Migrated
<1>5. q \in Seq(S) /\ Ends(q, r)
  <2>1. \A w \in {x \in Settings : Read(x) = Read(f)} : w \in S
    BY DEF Boot
  <2> DEFINE A == {x \in Settings : Read(x) = Read(f)}
  <2>2. q \in Seq(A) /\ Ends(q, r)
    BY ReadsAlike
  <2> HIDE DEF A, S, q
  <2>3. \A w \in A : w \in S
    BY <2>1 DEF A
  <2> QED
    BY <2>2, <2>3, SeqWiden
<1>6. Current(u)
  BY <1>3 DEF Current, Migrated, LayoutSettled
<1>7. BootWrites(f) = q \o ((IF r.layout >= Layouts THEN <<t>> ELSE <<>>) \o Step(t, u))
  BY DEF BootWrites, InitWrites
<1> HIDE DEF S, r, t, u, q
<1>8. CASE r.layout >= Layouts
  <2> DEFINE p == q \o <<t>>
  <2>1. p \in Seq(S) /\ Ends(p, t)
    BY <1>4, <1>5 DEF Ends
  <2>2. BootWrites(f) = p \o Step(t, u)
    <3>1. Step(t, u) \in Seq(S)
      BY <1>4 DEF Step
    <3> QED
      BY <1>4, <1>5, <1>7, <1>8, <3>1
  <2> HIDE DEF p
  <2>3. BootWrites(f) \in Seq(S) /\ Ends(BootWrites(f), u)
    BY <1>4, <2>1, <2>2, StepWrites
  <2> QED
    BY <1>6, <2>3 DEF Ends, S
<1>9. CASE ~(r.layout >= Layouts) /\ u = t
  <2>1. BootWrites(f) = q
    BY <1>5, <1>7, <1>9 DEF Step
  <2>2. r.layout < Layouts
    BY <1>1, <1>9 DEF Migrated, Settings, Byte, Layouts
  <2>3. Current(r)
    BY <1>1, <1>2, <1>3, <1>9, <2>2 DEF Current, Migrated
  <2> QED
    BY <1>5, <2>1, <2>3 DEF Ends, S
<1>10. CASE ~(r.layout >= Layouts) /\ u # t
  <2>1. BootWrites(f) = q \o <<u>>
    BY <1>4, <1>5, <1>7, <1>10 DEF Step
  <2>2. q \o <<u>> \in Seq(S) /\ Ends(q \o <<u>>, u)
    BY <1>4, <1>5 DEF Ends
  <2> QED
    BY <1>6, <2>1, <2>2 DEF Ends, S
<1> QED
  BY <1>8, <1>9, <1>10

-------------------------------------------------------------------------------
(* The settings, the entry on the screen and what the panel shows. *)

\* Settings every page can show.
InRange(s) ==
  /\ s \in Settings
  /\ s.mouse_speed \in MouseMin .. MouseMax /\ s.layout < Layouts /\ s.sleep < Len(SleepPresets)
  /\ s.dead_zone <= DeadZoneMax /\ s.brightness <= BrightMax

OnItems(c) == c \in [DOMAIN Items -> 0 .. 5] /\ \A i \in DOMAIN Items : c[i] < Items[i]
OnScreen ==
  /\ page \in Pages /\ OnItems(cursor)
  /\ entry \in [group : 0 .. 4, index : Nat]
  /\ entry.group > 0 => entry.index < Len(Groups[entry.group])
  /\ page = "remap_list" => entry.group > 0
  /\ confirm \in [exit : BOOLEAN, clear : BOOLEAN]
OnKeys ==
  /\ pending \in {0} \cup CaptureKeys
  /\ latched \in {0, NoKey} \cup CaptureKeys
  /\ capture \in [on : BOOLEAN, key : {0} \cup CaptureKeys]
  /\ latchedAt \in [group : 0 .. 4, index : Nat]
OnStore == InRange(nv) /\ flash \in Settings /\ unsaved \in BOOLEAN /\ changes \in 0 .. MaxChanges
OnPanel ==
  /\ dirty \in BOOLEAN /\ asleep \in BOOLEAN /\ fresh \in BOOLEAN
  /\ devices \in 0 .. 1 /\ overclocked \in BOOLEAN
\* What a boot has still to write boots to the settings it ends with, and the last
\* of it is not rewritten.
OnBoot ==
  /\ booting \in Seq({w \in Settings : Boot(w) = nv})
  /\ ~Running => Current(booting[Len(booting)])
\* The entry on the screen is one that the walk does not skip.
Offered == page = "remap_list" => ~Skipped(CodeAt(entry))
SInv == OnScreen /\ OnKeys /\ OnStore /\ OnPanel /\ OnBoot /\ Offered /\ ScreenTrue

\* What a step that is no update does to the settings, and to what is shown.
Stored ==
  /\ changes' \in 0 .. MaxChanges
  /\ \/ UNCHANGED <<nv, unsaved, contrast>>
     \/ InRange(nv') /\ unsaved' = TRUE /\ contrast' = brightness_to_contrast(nv'.brightness)
Drawn ==
  \/ dirty' = TRUE /\ asleep' \in BOOLEAN
  \/ UNCHANGED <<page, cursor, entry, confirm, pending, nv, dirty, asleep>>
Fits == OnScreen' /\ OnKeys' /\ Stored /\ Drawn /\ Offered'

\* A set of naturals has a least element.
LEMMA Least ==
  ASSUME NEW S \in SUBSET Nat, S # {}
  PROVE  \E n \in S : \A m \in S : n <= m
<1>1. PICK n \in S : \A m \in S : ~ (<<m, n>> \in OpToRel(<, Nat))
  BY NatLessThanWellFounded, WFMin
<1>2. \A m \in S : m \in Nat /\ ~ (m < n)
  BY <1>1 DEF OpToRel
<1> QED
  BY <1>2

\* One field of the settings.
LEMMA FieldSet ==
  ASSUME NEW s, InRange(s), NEW v \in Byte
  PROVE  /\ LET r == [s EXCEPT !.mouse_enabled = v]
            IN  InRange(r) /\ r.layout = s.layout /\ r.brightness = s.brightness
         /\ LET r == [s EXCEPT !.joy_device = v]
            IN  InRange(r) /\ r.layout = s.layout /\ r.brightness = s.brightness
         /\ LET r == [s EXCEPT !.language = v] IN InRange(r)
         /\ v < Layouts => LET r == [s EXCEPT !.layout = v] IN InRange(r)
         /\ v <= DeadZoneMax => LET r == [s EXCEPT !.dead_zone = v] IN InRange(r)
         /\ v < Len(SleepPresets) => LET r == [s EXCEPT !.sleep = v] IN InRange(r)
         /\ v <= BrightMax => LET r == [s EXCEPT !.brightness = v] IN InRange(r)
<1>1. LET r == [s EXCEPT !.mouse_enabled = v]
      IN  InRange(r) /\ r.layout = s.layout /\ r.brightness = s.brightness
  BY DEF InRange, Settings
<1>2. LET r == [s EXCEPT !.joy_device = v]
      IN  InRange(r) /\ r.layout = s.layout /\ r.brightness = s.brightness
  BY DEF InRange, Settings
<1>3. LET r == [s EXCEPT !.language = v] IN InRange(r)
  BY DEF InRange, Settings
<1>4. v < Layouts => LET r == [s EXCEPT !.layout = v] IN InRange(r)
  BY DEF InRange, Settings
<1>5. v <= DeadZoneMax => LET r == [s EXCEPT !.dead_zone = v] IN InRange(r)
  BY DEF InRange, Settings
<1>6. v < Len(SleepPresets) => LET r == [s EXCEPT !.sleep = v] IN InRange(r)
  BY DEF InRange, Settings
<1>7. v <= BrightMax => LET r == [s EXCEPT !.brightness = v] IN InRange(r)
  BY DEF InRange, Settings
<1> QED
  BY <1>1, <1>2, <1>3, <1>4, <1>5, <1>6, <1>7

LEMMA SpeedSet ==
  ASSUME NEW s, InRange(s), NEW v \in MouseMin .. MouseMax
  PROVE  InRange([s EXCEPT !.mouse_speed = v])
<1>1. v \in -128 .. 127
  BY DEF MouseMin, MouseMax
<1> QED
  BY <1>1 DEF InRange, Settings

LEMMA RemapSet ==
  ASSUME NEW s, InRange(s), NEW t \in [RemapKeys -> Byte]
  PROVE  LET r == [s EXCEPT !.key_remap = t]
         IN  InRange(r) /\ r.layout = s.layout /\ r.brightness = s.brightness
BY DEF InRange, Settings

LEMMA AutofireSet ==
  ASSUME NEW s, InRange(s), NEW j \in Joys, NEW v \in Byte
  PROVE  /\ InRange([s EXCEPT !.autofire_mode[j] = v])
         /\ InRange([s EXCEPT !.autofire_rate[j] = v])
<1>1. InRange([s EXCEPT !.autofire_mode[j] = v])
  BY DEF InRange, Settings
<1>2. InRange([s EXCEPT !.autofire_rate[j] = v])
  BY DEF InRange, Settings
<1> QED
  BY <1>1, <1>2

\* A bit of the joystick sources.
LEMMA Flipped == ASSUME NEW bits \in Byte, NEW j \in Joys PROVE Flip(bits, j) \in Byte
<1>1. CASE j = 0
  <2>1. Flip(bits, j) = IF (bits \div 1) % 2 = 0 THEN bits + 1 ELSE bits - 1
    BY <1>1 DEF Flip
  <2> QED
    BY <2>1 DEF Byte
<1>2. CASE j = 1
  <2>1. Flip(bits, j) = IF (bits \div 2) % 2 = 0 THEN bits + 2 ELSE bits - 2
    BY <1>2 DEF Flip
  <2> QED
    BY <2>1 DEF Byte
<1> QED
  BY <1>1, <1>2 DEF Joys

LEMMA FieldTypes ==
  ASSUME NEW s, InRange(s)
  PROVE  /\ s.mouse_speed \in Int /\ s.joy_device \in Byte /\ s.language \in Byte /\ s.layout \in 0 .. Layouts - 1
         /\ s.dead_zone \in Nat /\ s.sleep \in Nat /\ s.brightness \in Nat
         /\ s.autofire_mode \in [Joys -> Byte] /\ s.autofire_rate \in [Joys -> Byte]
         /\ s.key_remap \in [RemapKeys -> Byte]
<1>1. /\ s.mouse_speed \in -128 .. 127 /\ s.joy_device \in Byte /\ s.language \in Byte /\ s.layout \in Byte
      /\ s.dead_zone \in Byte /\ s.sleep \in Byte /\ s.brightness \in Byte
      /\ s.autofire_mode \in [Joys -> Byte] /\ s.autofire_rate \in [Joys -> Byte]
      /\ s.key_remap \in [RemapKeys -> Byte]
  BY DEF InRange, Settings
<1>2. s.layout < Layouts
  BY DEF InRange
<1>3. s.layout \in 0 .. Layouts - 1
  BY <1>1, <1>2 DEF Byte, Layouts
<1>4. s.mouse_speed \in Int /\ s.dead_zone \in Nat /\ s.sleep \in Nat /\ s.brightness \in Nat
  BY <1>1, SMTT(20) DEF Byte
<1> QED
  BY <1>1, <1>3, <1>4

LEMMA Bounded == MaxChanges \in Nat
BY MenuAssumption

LEMMA SetStores ==
  ASSUME SInv, NEW s, InRange(s), Set(s), contrast' = brightness_to_contrast(s.brightness)
  PROVE  Stored
<1>1. changes' \in 0 .. MaxChanges
  BY Bounded DEF Set, schedule_settings_write, Count, SInv, OnStore
<1>2. nv' = s /\ unsaved' = TRUE
  BY DEF Set, schedule_settings_write
<1> QED
  BY <1>1, <1>2 DEF Stored

\* A page on which nothing but a setting changes, and one with a slider.
LEMMA EditFits ==
  ASSUME SInv, NEW s, InRange(s), Edit(s), page # "remap_list"
  PROVE  Fits
<1>1. UNCHANGED <<page, cursor, entry, confirm, pending, latched, capture, latchedAt>>
  BY DEF Edit, screen, remapping
<1>2. OnScreen' /\ OnKeys'
  BY <1>1 DEF SInv, OnScreen, OnItems, OnKeys
<1>3. Stored
  BY SetStores DEF Edit
<1>4. Drawn
  BY DEF Edit, Drawn, SInv, OnPanel
<1> QED
  BY <1>1, <1>2, <1>3, <1>4 DEF Fits, Offered

LEMMA SlideFits ==
  ASSUME SInv, NEW x, NEW low, NEW high, NEW d, NEW s, Slide(x, low, high, d, s), page # "remap_list",
         low <= x + d /\ x + d <= high => InRange(s)
  PROVE  Fits
<1>1. CASE Edit(s) /\ low <= x + d /\ x + d <= high
  BY <1>1, EditFits
<1>2. CASE UNCHANGED <<screen, remapping, store, dirty, panel>>
  <2>1. UNCHANGED <<page, cursor, entry, confirm, pending, latched, capture, latchedAt,
                    nv, unsaved, changes, contrast, dirty, asleep>>
    BY <1>2 DEF screen, remapping, store, panel
  <2>2. OnScreen' /\ OnKeys'
    BY <2>1 DEF SInv, OnScreen, OnItems, OnKeys
  <2>3. Stored /\ Drawn
    BY <2>1 DEF Stored, Drawn, SInv, OnStore
  <2> QED
    BY <2>1, <2>2, <2>3 DEF Fits, Offered
<1> QED
  BY <1>1, <1>2 DEF Slide

\* A page or a cursor.
LEMMA ItemSet ==
  ASSUME NEW c, OnItems(c), NEW i \in DOMAIN Items, NEW v \in 0 .. 5, v < Items[i]
  PROVE  OnItems([c EXCEPT ![i] = v])
BY DEF OnItems

LEMMA ItemRange == \A i \in DOMAIN Items : Items[i] \in 1 .. 6
BY DEF Items

LEMMA ShowFits ==
  ASSUME SInv, NEW p \in Pages, p # "remap_list", NEW c, OnItems(c), Show(p, c)
  PROVE  Fits
<1>1. UNCHANGED <<entry, confirm, pending, latched, capture, latchedAt, nv, unsaved, changes, contrast, asleep>>
      /\ page' = p /\ cursor' = c /\ dirty' = TRUE
  BY DEF Show, remapping, store, panel
<1>2. OnScreen' /\ OnKeys'
  BY <1>1 DEF SInv, OnScreen, OnItems, OnKeys
<1>3. Stored /\ Drawn
  BY <1>1 DEF Stored, Drawn, SInv, OnStore, OnPanel
<1> QED
  BY <1>1, <1>2, <1>3 DEF Fits, Offered

LEMMA TurnFits ==
  ASSUME SInv, NEW d \in {-1, 1}, NEW p \in Pages, p # "remap_list", NEW i \in DOMAIN Items, Turn(p, i, d)
  PROVE  Fits
<1> DEFINE v == (cursor[i] + d) % Items[i]
<1>1. Show(p, [cursor EXCEPT ![i] = v])
  BY DEF Turn
<1>2. OnItems(cursor) /\ cursor[i] \in 0 .. 5
  BY DEF SInv, OnScreen, OnItems
<1>3. v \in 0 .. 5 /\ v < Items[i]
  BY <1>2, ItemRange
<1> HIDE DEF v
<1>4. OnItems([cursor EXCEPT ![i] = v])
  BY <1>2, <1>3, ItemSet
<1> QED
  BY <1>1, <1>4, ShowFits

LEMMA WalkFits ==
  ASSUME SInv, Leave \/ MiddleMouse \/ MiddleJoy \/ MiddleMenu1 \/ MiddleMenu2 \/ MiddleScreen \/ MiddleAutofire
               \/ LeaveGroups
  PROVE  Fits
<1>1. OnItems(cursor)
  BY DEF SInv, OnScreen
<1>2. /\ OnItems([cursor EXCEPT !.joy = 0]) /\ OnItems([cursor EXCEPT !.joy = 1])
      /\ OnItems([cursor EXCEPT !.screen = 0]) /\ OnItems([cursor EXCEPT !.screen = 1])
      /\ OnItems([cursor EXCEPT !.autofire = 0]) /\ OnItems([cursor EXCEPT !.group = 0])
  <2>1. OnItems([cursor EXCEPT !.joy = 0])
    BY <1>1 DEF OnItems, Items
  <2>2. OnItems([cursor EXCEPT !.joy = 1])
    BY <1>1 DEF OnItems, Items
  <2>3. OnItems([cursor EXCEPT !.screen = 0])
    BY <1>1 DEF OnItems, Items
  <2>4. OnItems([cursor EXCEPT !.screen = 1])
    BY <1>1 DEF OnItems, Items
  <2>5. OnItems([cursor EXCEPT !.autofire = 0])
    BY <1>1 DEF OnItems, Items
  <2>6. OnItems([cursor EXCEPT !.group = 0])
    BY <1>1 DEF OnItems, Items
  <2> QED
    BY <2>1, <2>2, <2>3, <2>4, <2>5, <2>6
<1>3. CASE Leave \/ LeaveGroups
  <2>1. CASE LeaveGroups
    BY <1>1, <2>1, ShowFits DEF LeaveGroups, Pages
  <2>2. CASE Leave
    <3>1. AfterMiddle[page] \in Pages \ {"remap_list"}
      BY <2>2 DEF Leave, AfterMiddle, Pages
    <3> QED
      BY <1>1, <2>2, <3>1, ShowFits DEF Leave
  <2> QED
    BY <1>3, <2>1, <2>2
<1>4. CASE MiddleMouse \/ MiddleJoy \/ MiddleScreen
  <2>1. {"joy", "menu1", "menu2", "screen"} \subseteq Pages \ {"remap_list"}
    BY DEF Pages
  <2> QED
    BY <1>2, <1>4, <2>1, ShowFits DEF MiddleMouse, MiddleJoy, MiddleScreen
<1>5. CASE MiddleAutofire
  <2>1. {"autofire", "menu1"} \subseteq Pages \ {"remap_list"}
    BY DEF Pages
  <2>2. CASE cursor.autofire < 3
    <3> DEFINE v == cursor.autofire + 1
    <3>1. cursor.autofire \in 0 .. 5 /\ "autofire" \in DOMAIN Items /\ Items.autofire = 4
      BY <1>1 DEF OnItems, Items
    <3>2. v \in 0 .. 5 /\ v < 4
      BY <2>2, <3>1
    <3>3. Show("autofire", [cursor EXCEPT !.autofire = v])
      BY <1>5, <2>2 DEF MiddleAutofire
    <3> HIDE DEF v
    <3>4. OnItems([cursor EXCEPT !.autofire = v])
      BY <1>1, <3>1, <3>2, ItemSet
    <3> QED
      BY <2>1, <3>3, <3>4, ShowFits
  <2>3. CASE ~(cursor.autofire < 3)
    BY <1>2, <1>5, <2>1, <2>3, ShowFits DEF MiddleAutofire
  <2> QED
    BY <2>2, <2>3
<1>6. CASE MiddleMenu1
  <2>1. cursor.menu1 \in 0 .. 4
    BY <1>1 DEF OnItems, Items
  <2>2. Menu1Pages[cursor.menu1 + 1] \in Pages \ {"remap_list"}
    BY <2>1 DEF Menu1Pages, Pages
  <2> QED
    BY <1>1, <1>2, <1>6, <2>2, ShowFits DEF MiddleMenu1
<1>7. CASE MiddleMenu2
  <2>1. cursor.menu2 \in 0 .. 5
    BY <1>1 DEF OnItems, Items
  <2>2. Menu2Pages[cursor.menu2 + 1] \in Pages \ {"remap_list"}
    BY <2>1 DEF Menu2Pages, Pages
  <2>3. PICK c : OnItems(c) /\ Show(Menu2Pages[cursor.menu2 + 1], c)
    BY <1>1, <1>2, <1>7 DEF MiddleMenu2
  <2> QED
    BY <2>2, <2>3, ShowFits
<1> QED
  BY <1>3, <1>4, <1>5, <1>6, <1>7

\* The remap pages: the question, the first entry of a group,
LEMMA GroupFits == ASSUME SInv, ConfirmClear \/ AskClear \/ OpenGroup PROVE Fits
<1>1. CASE ConfirmClear
  <2> DEFINE s == [nv EXCEPT !.key_remap = get_layout_table(nv.layout)]
  <2>1. InRange(s) /\ s.brightness = nv.brightness
    BY DefaultTable, RemapSet DEF SInv, OnStore
  <2>2. Set(s) /\ contrast' = brightness_to_contrast(s.brightness)
    BY <1>1, <2>1 DEF ConfirmClear, panel, SInv, ScreenTrue
  <2>3. Stored
    BY <2>1, <2>2, SetStores
  <2>4. /\ UNCHANGED <<page, cursor, entry, pending, latched, capture, latchedAt, asleep>> /\ dirty' = TRUE
        /\ confirm' = [confirm EXCEPT !.clear = FALSE] /\ page = "remap_group"
    BY <1>1 DEF ConfirmClear, remapping, panel
  <2>5. OnScreen' /\ OnKeys'
    BY <2>4 DEF SInv, OnScreen, OnItems, OnKeys
  <2> QED
    BY <2>3, <2>4, <2>5 DEF Fits, Drawn, Offered, SInv, OnPanel
<1>2. CASE AskClear
  <2>1. /\ UNCHANGED <<page, cursor, entry, pending, latched, capture, latchedAt, nv, unsaved, changes, contrast, asleep>>
        /\ dirty' = TRUE /\ confirm' = [confirm EXCEPT !.clear = TRUE] /\ page = "remap_group"
    BY <1>2 DEF AskClear, remapping, store, panel
  <2>2. OnScreen' /\ OnKeys'
    BY <2>1 DEF SInv, OnScreen, OnItems, OnKeys
  <2> QED
    BY <2>1, <2>2 DEF Fits, Stored, Drawn, Offered, SInv, OnStore, OnPanel
<1>3. CASE OpenGroup
  <2>1. /\ UNCHANGED <<cursor, confirm, latched, nv, unsaved, changes, contrast, asleep>> /\ page' = "remap_list"
        /\ entry' = [group |-> cursor.group, index |-> 0] /\ cursor.group \in 1 .. 4
        /\ pending' = 0 /\ latchedAt' = NoEntry /\ capture' = [on |-> TRUE, key |-> 0] /\ dirty' = TRUE
    BY <1>3 DEF OpenGroup, DropPending, set_capture_mode, store, panel
  <2>2. Len(Groups[cursor.group]) > 0 /\ ~sc_is_iso_key(Groups[cursor.group][1])
    BY <2>1, MenuAssumption
  <2>3. entry'.group = cursor.group /\ entry'.index = 0 /\ entry' \in [group : 0 .. 4, index : Nat]
    BY <2>1
  <2>4. OnScreen'
    BY <2>1, <2>2, <2>3 DEF SInv, OnScreen, OnItems, Pages
  <2>5. OnKeys'
    BY <2>1 DEF SInv, OnKeys, NoEntry
  <2>6. Offered'
    <3>1. 0 + 1 = 1
      OBVIOUS
    <3>2. CodeAt(entry)' = Groups[cursor.group][1]
      BY <2>3, <3>1 DEF CodeAt
    <3> QED
      BY <2>2, <3>2 DEF Offered, Skipped, IsOffered
  <2> QED
    BY <2>1, <2>4, <2>5, <2>6 DEF Fits, Stored, Drawn, SInv, OnStore, OnPanel
<1> QED
  BY <1>1, <1>2, <1>3

\* the key of the entry, which keeps its place in the map,
LEMMA EntryCode == ASSUME SInv, page = "remap_list" PROVE CodeAt(entry) \in Byte
<1>1. /\ entry.group \in 1 .. 4 /\ entry.index \in Nat /\ entry.index < Len(Groups[entry.group])
  BY DEF SInv, OnScreen
<1>2. Groups[entry.group] \in Seq(ScanCodes)
  BY <1>1, MenuAssumption
<1>3. entry.index + 1 \in 1 .. Len(Groups[entry.group])
  BY <1>1, <1>2
<1>4. Groups[entry.group][entry.index + 1] \in ScanCodes
  BY <1>2, <1>3
<1> QED
  BY <1>4 DEF CodeAt, ScanCodes, Byte

LEMMA CommitStores ==
  ASSUME SInv, page = "remap_list", Commit, UNCHANGED contrast
  PROVE  Stored /\ nv'.layout = nv.layout /\ pending' = 0 /\ latchedAt' \in [group : 0 .. 4, index : Nat]
<1>1. pending' = 0 /\ latchedAt' \in [group : 0 .. 4, index : Nat]
  BY DEF Commit, DropPending, NoEntry
<1>2. CASE UNCHANGED store
  BY <1>1, <1>2 DEF store, Stored, SInv, OnStore
<1>3. CASE Set([nv EXCEPT !.key_remap[pending] = CodeAt(entry)])
  <2> DEFINE t == [nv.key_remap EXCEPT ![pending] = CodeAt(entry)]
             s == [nv EXCEPT !.key_remap = t]
  <2>1. t \in [RemapKeys -> Byte]
    BY EntryCode, FieldTypes DEF SInv, OnStore
  <2>2. Set(s)
    BY <1>3
  <2> HIDE DEF t
  <2>3. InRange(s) /\ s.layout = nv.layout /\ s.brightness = nv.brightness
    BY <2>1, RemapSet DEF SInv, OnStore
  <2> HIDE DEF s
  <2>4. contrast' = brightness_to_contrast(s.brightness)
    BY <2>3 DEF SInv, ScreenTrue
  <2>5. Stored
    BY <2>2, <2>3, <2>4, SetStores
  <2>6. nv' = s
    BY <2>2 DEF Set
  <2> QED
    BY <1>1, <2>3, <2>5, <2>6
<1> QED
  BY <1>1, <1>2, <1>3 DEF Commit

LEMMA ListFits == ASSUME SInv, ConfirmExit \/ ConfirmRemap \/ AskExit PROVE Fits
<1>1. CASE ConfirmExit
  <2>1. /\ UNCHANGED <<cursor, entry, latched, nv, unsaved, changes, contrast, asleep>> /\ page' = "remap_group"
        /\ confirm' = [confirm EXCEPT !.exit = FALSE] /\ pending' = 0 /\ latchedAt' = NoEntry
        /\ capture' = [on |-> FALSE, key |-> 0] /\ dirty' = TRUE
    BY <1>1 DEF ConfirmExit, DropPending, set_capture_mode, store, panel
  <2>2. OnScreen'
    BY <2>1 DEF SInv, OnScreen, OnItems, Pages
  <2>3. OnKeys'
    BY <2>1 DEF SInv, OnKeys, NoEntry
  <2> QED
    BY <2>1, <2>2, <2>3 DEF Fits, Stored, Drawn, Offered, SInv, OnStore, OnPanel
<1>2. CASE ConfirmRemap
  <2>1. /\ UNCHANGED <<page, cursor, entry, confirm, latched, capture, contrast, asleep>> /\ dirty' = TRUE
        /\ page = "remap_list" /\ Commit
    BY <1>2 DEF ConfirmRemap, screen, panel
  <2>2. Stored /\ nv'.layout = nv.layout /\ pending' = 0 /\ latchedAt' \in [group : 0 .. 4, index : Nat]
    BY <2>1, CommitStores
  <2>3. OnScreen' /\ OnKeys'
    BY <2>1, <2>2 DEF SInv, OnScreen, OnItems, OnKeys
  <2>4. Offered'
    BY <2>1, <2>2 DEF SInv, Offered, Skipped, CodeAt
  <2> QED
    BY <2>1, <2>2, <2>3, <2>4 DEF Fits, Drawn, SInv, OnPanel
<1>3. CASE AskExit
  <2>1. /\ UNCHANGED <<page, cursor, entry, pending, latched, capture, latchedAt, nv, unsaved, changes, contrast, asleep>>
        /\ dirty' = TRUE /\ confirm' = [confirm EXCEPT !.exit = TRUE]
    BY <1>3 DEF AskExit, remapping, store, panel
  <2>2. OnScreen' /\ OnKeys'
    BY <2>1 DEF SInv, OnScreen, OnItems, OnKeys
  <2>3. Offered'
    BY <2>1 DEF SInv, Offered, Skipped, CodeAt
  <2> QED
    BY <2>1, <2>2, <2>3 DEF Fits, Stored, Drawn, SInv, OnStore, OnPanel
<1> QED
  BY <1>1, <1>2, <1>3

LEMMA MiddleFits == ASSUME SInv, Middle PROVE Fits
BY WalkFits, GroupFits, ListFits DEF Middle

\* and the next entry, which is one this keyboard has: after a full round the
\* cursor is back where it was.
LEMMA NextOffered ==
  ASSUME SInv, page = "remap_list", NEW d \in {-1, 1}
  PROVE  /\ NextIndex(d) \in Nat /\ NextIndex(d) < Len(Groups[entry.group])
         /\ ~Skipped(Groups[entry.group][NextIndex(d) + 1])
<1> DEFINE n == Len(Groups[entry.group])
           At(k) == (entry.index + k * d) % n
           S == {k \in 1 .. n : k = n \/ ~Skipped(Groups[entry.group][At(k) + 1])}
<1>1. /\ entry.group \in 1 .. 4 /\ entry.index \in Nat /\ entry.index < n
      /\ ~Skipped(Groups[entry.group][entry.index + 1])
  BY DEF SInv, OnScreen, Offered, CodeAt
<1>2. n \in Nat /\ n > 0
  <2>1. Groups[entry.group] \in Seq(ScanCodes)
    BY <1>1, MenuAssumption
  <2> QED
    BY <1>1, <2>1
<1>3. Min(S) \in S
  <2>1. S \in SUBSET Nat /\ n \in S
    BY <1>2
  <2>2. \E k \in S : \A m \in S : k <= m
    BY <2>1, Least
  <2> QED
    BY <2>2 DEF Min
<1>4. NextIndex(d) = At(Min(S))
  BY DEF NextIndex
<1> HIDE DEF n
<1>5. ASSUME NEW k \in 1 .. n PROVE At(k) \in 0 .. n - 1
  BY <1>1, <1>2, <1>5
<1>6. At(n) = entry.index
  <2>1. CASE d = 1
    BY <1>1, <1>2, <2>1
  <2>2. CASE d = -1
    BY <1>1, <1>2, <2>2
  <2> QED
    BY <2>1, <2>2
<1> DEFINE k == Min(S)
<1>7. k \in 1 .. n /\ (k = n \/ ~Skipped(Groups[entry.group][At(k) + 1]))
  BY <1>3
<1> HIDE DEF k, At
<1>8. ~Skipped(Groups[entry.group][At(k) + 1])
  BY <1>1, <1>6, <1>7
<1>9. NextIndex(d) = At(k)
  BY <1>4 DEF k
<1> QED
  BY <1>2, <1>5, <1>7, <1>8, <1>9 DEF n

LEMMA TurnEntryFits == ASSUME SInv, NEW d \in {-1, 1}, TurnEntry(d) PROVE Fits
<1>1. /\ UNCHANGED <<page, cursor, confirm, latched, capture, contrast, asleep>> /\ dirty' = TRUE
      /\ page = "remap_list" /\ Commit /\ entry' = [entry EXCEPT !.index = NextIndex(d)]
  BY DEF TurnEntry, panel
<1>2. Stored /\ nv'.layout = nv.layout /\ pending' = 0 /\ latchedAt' \in [group : 0 .. 4, index : Nat]
  BY <1>1, CommitStores
<1>3. entry'.group = entry.group /\ entry'.index = NextIndex(d) /\ entry' \in [group : 0 .. 4, index : Nat]
  BY <1>1, NextOffered DEF SInv, OnScreen
<1>4. OnScreen' /\ OnKeys'
  BY <1>1, <1>2, <1>3, NextOffered DEF SInv, OnScreen, OnItems, OnKeys
<1>5. Offered'
  <2>1. CodeAt(entry)' = Groups[entry.group][NextIndex(d) + 1]
    BY <1>3 DEF CodeAt
  <2> QED
    BY <1>1, <1>2, <2>1, NextOffered DEF Offered, Skipped
<1> QED
  BY <1>1, <1>2, <1>4, <1>5 DEF Fits, Drawn, SInv, OnPanel

\* The pages that edit the settings.
LEMMA EditsFit ==
  ASSUME SInv, NEW d \in {-1, 1},
         SlideMouse(d) \/ FlipJoy \/ EditAutofire(d) \/ TurnLanguage(d) \/ TurnLayout(d) \/ SlideDeadZone(d)
         \/ EditScreen(d)
  PROVE  Fits
<1>0. /\ InRange(nv) /\ nv.mouse_speed \in Int /\ nv.joy_device \in Byte /\ nv.language \in Byte
      /\ nv.layout \in 0 .. Layouts - 1 /\ nv.dead_zone \in Nat /\ nv.sleep \in Nat /\ nv.brightness \in Nat
      /\ nv.autofire_mode \in [Joys -> Byte] /\ nv.autofire_rate \in [Joys -> Byte]
  BY FieldTypes DEF SInv, OnStore
<1>1. CASE SlideMouse(d)
  <2> DEFINE v == nv.mouse_speed + d
  <2>1. page = "mouse" /\ Slide(nv.mouse_speed, MouseMin, MouseMax, d, [nv EXCEPT !.mouse_speed = v])
    BY <1>1 DEF SlideMouse
  <2>2. ASSUME MouseMin <= nv.mouse_speed + d, nv.mouse_speed + d <= MouseMax
        PROVE  InRange([nv EXCEPT !.mouse_speed = v])
    <3>1. v \in MouseMin .. MouseMax
      BY <1>0, <2>2 DEF MouseMin, MouseMax
    <3> HIDE DEF v
    <3> QED
      BY <1>0, <3>1, SpeedSet
  <2> QED
    BY <2>1, <2>2, SlideFits
<1>2. CASE FlipJoy
  <2> DEFINE v == Flip(nv.joy_device, cursor.joy)
  <2>1. page = "joy" /\ Edit([nv EXCEPT !.joy_device = v])
    BY <1>2 DEF FlipJoy
  <2>2. v \in Byte
    <3>1. cursor.joy \in Joys
      BY DEF SInv, OnScreen, OnItems, Items, Joys
    <3> QED
      BY <1>0, <3>1, Flipped
  <2> HIDE DEF v
  <2>3. InRange([nv EXCEPT !.joy_device = v])
    BY <1>0, <2>2, FieldSet
  <2> QED
    BY <2>1, <2>3, EditFits
<1>3. CASE EditAutofire(d)
  <2> DEFINE j == AutofireJoy
  <2>1. j \in Joys /\ page = "autofire"
    BY <1>3 DEF EditAutofire, AutofireJoy, Joys
  <2>2. CASE cursor.autofire % 2 = 0
    <3> DEFINE v == IF nv.autofire_mode[j] # 0 THEN 0 ELSE 1
    <3>1. Edit([nv EXCEPT !.autofire_mode[j] = v])
      BY <1>3, <2>2 DEF EditAutofire
    <3>2. v \in Byte
      BY DEF Byte
    <3> HIDE DEF v, j
    <3>3. InRange([nv EXCEPT !.autofire_mode[j] = v])
      BY <1>0, <2>1, <3>2, AutofireSet
    <3> QED
      BY <2>1, <3>1, <3>3, EditFits
  <2>3. CASE ~(cursor.autofire % 2 = 0)
    <3> DEFINE v == nv.autofire_rate[j] + d
    <3>1. Slide(nv.autofire_rate[j], RateMin, RateMax, d, [nv EXCEPT !.autofire_rate[j] = v])
      BY <1>3, <2>3 DEF EditAutofire
    <3>2. nv.autofire_rate[j] \in Byte
      BY <1>0, <2>1
    <3>3. ASSUME RateMin <= nv.autofire_rate[j] + d, nv.autofire_rate[j] + d <= RateMax
          PROVE  InRange([nv EXCEPT !.autofire_rate[j] = v])
      <4>1. v \in Byte
        BY <3>2, <3>3 DEF Byte, RateMin, RateMax
      <4> HIDE DEF v, j
      <4> QED
        BY <1>0, <2>1, <4>1, AutofireSet
    <3> QED
      BY <2>1, <3>1, <3>3, SlideFits
  <2> QED
    BY <2>2, <2>3
<1>4. CASE TurnLanguage(d)
  <2> DEFINE v == (nv.language + d) % Languages
  <2>1. page = "language" /\ Edit([nv EXCEPT !.language = v])
    BY <1>4 DEF TurnLanguage
  <2>2. v \in Byte
    BY <1>0 DEF Byte, Languages
  <2> HIDE DEF v
  <2>3. InRange([nv EXCEPT !.language = v])
    BY <1>0, <2>2, FieldSet
  <2> QED
    BY <2>1, <2>3, EditFits
<1>5. CASE TurnLayout(d)
  <2> DEFINE v == (nv.layout + d) % Layouts
             t == get_layout_table(v)
             s == [nv EXCEPT !.layout = v]
  <2>1. page = "layout" /\ Edit([s EXCEPT !.key_remap = t])
    BY <1>5 DEF TurnLayout
  <2>2. v \in Byte /\ v < Layouts
    BY <1>0 DEF Byte, Layouts
  <2>3. t \in [RemapKeys -> Byte]
    BY DefaultTable
  <2> HIDE DEF v, t
  <2>4. InRange(s)
    BY <1>0, <2>2, FieldSet
  <2> HIDE DEF s
  <2>5. InRange([s EXCEPT !.key_remap = t])
    BY <2>3, <2>4, RemapSet
  <2> QED
    BY <2>1, <2>5, EditFits
<1>6. CASE SlideDeadZone(d)
  <2> DEFINE v == nv.dead_zone + d
  <2>1. page = "deadzone" /\ Slide(nv.dead_zone, 0, DeadZoneMax, d, [nv EXCEPT !.dead_zone = v])
    BY <1>6 DEF SlideDeadZone
  <2>2. ASSUME 0 <= nv.dead_zone + d, nv.dead_zone + d <= DeadZoneMax
        PROVE  InRange([nv EXCEPT !.dead_zone = v])
    <3>1. v \in Byte /\ v <= DeadZoneMax
      BY <1>0, <2>2 DEF Byte, DeadZoneMax
    <3> HIDE DEF v
    <3> QED
      BY <1>0, <3>1, FieldSet
  <2> QED
    BY <2>1, <2>2, SlideFits
<1>7. CASE EditScreen(d)
  <2>0. page = "screen"
    BY <1>7 DEF EditScreen
  <2>1. CASE cursor.screen = 0
    <3> DEFINE v == (nv.sleep + d) % Len(SleepPresets)
    <3>1. Edit([nv EXCEPT !.sleep = v])
      BY <1>7, <2>1 DEF EditScreen
    <3>2. Len(SleepPresets) = 9
      BY DEF SleepPresets
    <3>3. v \in 0 .. 8
      BY <1>0, <3>2
    <3>4. v \in Byte /\ v < Len(SleepPresets)
      BY <3>2, <3>3 DEF Byte
    <3> HIDE DEF v
    <3>5. InRange([nv EXCEPT !.sleep = v])
      BY <1>0, <3>4, FieldSet
    <3> QED
      BY <2>0, <3>1, <3>5, EditFits
  <2>2. CASE cursor.screen # 0
    <3> DEFINE v == nv.brightness + d
    <3>1. Slide(nv.brightness, 0, BrightMax, d, [nv EXCEPT !.brightness = v])
      BY <1>7, <2>2 DEF EditScreen
    <3>2. ASSUME 0 <= nv.brightness + d, nv.brightness + d <= BrightMax
          PROVE  InRange([nv EXCEPT !.brightness = v])
      <4>1. v \in Byte /\ v <= BrightMax
        BY <1>0, <3>2 DEF Byte, BrightMax
      <4> HIDE DEF v
      <4> QED
        BY <1>0, <4>1, FieldSet
    <3> QED
      BY <2>0, <3>1, <3>2, SlideFits
  <2> QED
    BY <2>1, <2>2
<1> QED
  BY <1>1, <1>2, <1>3, <1>4, <1>5, <1>6, <1>7

LEMMA CancelFits == ASSUME SInv, Cancel PROVE Fits
<1>1. /\ UNCHANGED <<page, cursor, entry, pending, latched, capture, latchedAt, nv, unsaved, changes, contrast, asleep>>
      /\ dirty' = TRUE /\ confirm' = [exit |-> FALSE, clear |-> FALSE]
  BY DEF Cancel, remapping, store, panel
<1>2. OnScreen' /\ OnKeys'
  BY <1>1 DEF SInv, OnScreen, OnItems, OnKeys
<1>3. Offered'
  BY <1>1 DEF SInv, Offered, Skipped, CodeAt
<1> QED
  BY <1>1, <1>2, <1>3 DEF Fits, Stored, Drawn, SInv, OnStore, OnPanel

LEMMA SideFits == ASSUME SInv, NEW d \in {-1, 1}, Side(d) PROVE Fits
<1>1. CASE Turn("menu1", "menu1", d) \/ Turn("menu2", "menu2", d) \/ TurnGroup(d)
  <2>1. {"menu1", "menu2", "remap_group"} \subseteq Pages \ {"remap_list"} /\ {"menu1", "menu2", "group"} \subseteq DOMAIN Items
    BY DEF Pages, Items
  <2> QED
    BY <1>1, <2>1, TurnFits DEF TurnGroup
<1> QED
  BY <1>1, EditsFit, CancelFits, TurnEntryFits DEF Side

LEMMA PressFits == ASSUME SInv, NEW b \in Buttons, Press(b) PROVE Fits /\ UNCHANGED <<flash, devices, overclocked>>
<1>1. CASE Wake
  <2>1. /\ UNCHANGED <<page, cursor, entry, confirm, pending, latched, capture, latchedAt, nv, unsaved, changes, contrast>>
        /\ dirty' = TRUE /\ asleep' = FALSE
    BY <1>1 DEF Wake, screen, remapping, store
  <2>2. OnScreen' /\ OnKeys'
    BY <2>1 DEF SInv, OnScreen, OnItems, OnKeys
  <2>3. Offered'
    BY <2>1 DEF SInv, Offered, Skipped, CodeAt
  <2>4. Fits
    BY <2>1, <2>2, <2>3 DEF Fits, Stored, Drawn, SInv, OnStore, OnPanel
  <2> QED
    BY <2>4 DEF Press, world
<1>2. CASE Left \/ Middle \/ Right
  <2>1. Fits
    BY <1>2, MiddleFits, SideFits DEF Left, Right
  <2> QED
    BY <2>1 DEF Press, world
<1> QED
  BY <1>1, <1>2 DEF Press

\* The keyboard, the shortcuts and the devices.
LEMMA OthersFit ==
  ASSUME SInv, IInv, Others
  PROVE  /\ Fits /\ flash' = flash /\ devices' \in 0 .. 1 /\ overclocked' \in BOOLEAN
         /\ dirty' = TRUE \/ UNCHANGED <<devices, overclocked>>
<1>0. devices \in 0 .. 1 /\ overclocked \in BOOLEAN /\ asleep \in BOOLEAN /\ InRange(nv) /\ changes \in 0 .. MaxChanges
      /\ contrast = brightness_to_contrast(nv.brightness)
  BY DEF SInv, OnPanel, OnStore, ScreenTrue
<1>1. CASE \E b \in Buttons : Press(b)
  BY <1>0, <1>1, PressFits
<1>2. CASE \E h \in CaptureKeys \cup {0} : PressKey(h)
  <2>1. PICK h \in CaptureKeys \cup {0} : capture' = [capture EXCEPT !.key = h]
    BY <1>2 DEF PressKey
  <2>2. UNCHANGED <<page, cursor, entry, confirm, pending, latched, latchedAt, nv, unsaved, changes, flash,
                    contrast, asleep, dirty, devices, overclocked>>
    BY <1>2 DEF PressKey, screen, store, panel, world
  <2>3. OnScreen' /\ OnKeys'
    BY <2>1, <2>2 DEF SInv, OnScreen, OnItems, OnKeys
  <2>4. Offered'
    BY <2>2 DEF SInv, Offered, Skipped, CodeAt
  <2>5. Fits
    BY <1>0, <2>2, <2>3, <2>4 DEF Fits, Stored, Drawn
  <2> QED
    BY <1>0, <2>2, <2>5
<1>3. CASE set_mouse_enabled \/ \E j \in Joys : toggle_joystick_source(j)
  <2>1. PICK s : InRange(s) /\ s.brightness = nv.brightness /\ s.layout = nv.layout /\ Set(s)
    <3>1. CASE set_mouse_enabled
      <4> DEFINE v == IF nv.mouse_enabled = 0 THEN 1 ELSE 0
      <4>1. v \in Byte /\ Set([nv EXCEPT !.mouse_enabled = v])
        BY <3>1 DEF set_mouse_enabled, Byte
      <4> HIDE DEF v
      <4> QED
        BY <1>0, <4>1, FieldSet
    <3>2. ASSUME NEW j \in Joys, toggle_joystick_source(j)
          PROVE  \E s : InRange(s) /\ s.brightness = nv.brightness /\ s.layout = nv.layout /\ Set(s)
      <4> DEFINE v == Flip(nv.joy_device, j)
      <4>1. Set([nv EXCEPT !.joy_device = v])
        BY <3>2 DEF toggle_joystick_source
      <4>2. v \in Byte
        BY <1>0, FieldTypes, Flipped
      <4> HIDE DEF v
      <4> QED
        BY <1>0, <4>1, <4>2, FieldSet
    <3> QED
      BY <1>3, <3>1, <3>2
  <2>2. /\ UNCHANGED <<page, cursor, entry, confirm, pending, latched, capture, latchedAt, flash, contrast, asleep,
                       devices, overclocked>>
        /\ dirty' = TRUE
    BY <1>3 DEF set_mouse_enabled, toggle_joystick_source, screen, remapping, panel, world
  <2>3. Stored
    BY <1>0, <2>1, <2>2, SetStores
  <2>4. OnScreen' /\ OnKeys'
    BY <2>2 DEF SInv, OnScreen, OnItems, OnKeys
  <2>5. Offered'
    <3>1. nv' = s
      BY <2>1 DEF Set
    <3> QED
      BY <2>1, <2>2, <3>1 DEF SInv, Offered, Skipped, CodeAt
  <2>6. Fits
    BY <1>0, <2>2, <2>3, <2>4, <2>5 DEF Fits, Drawn
  <2> QED
    BY <1>0, <2>2, <2>6
<1>4. CASE \/ \E fast \in BOOLEAN : set_cpu_speed(fast)
           \/ \E n \in 0 .. 1 : usb_connect_state(n)
  <2>1. /\ UNCHANGED <<page, cursor, entry, confirm, pending, latched, capture, latchedAt, nv, unsaved, flash,
                       contrast, asleep>>
        /\ dirty' = TRUE
    BY <1>4 DEF set_cpu_speed, usb_connect_state, screen, remapping, panel
  <2>2. changes' \in 0 .. MaxChanges
    BY <1>0, <1>4, Bounded DEF set_cpu_speed, usb_connect_state, Count
  <2>3. devices' \in 0 .. 1 /\ overclocked' \in BOOLEAN
    BY <1>0, <1>4 DEF set_cpu_speed, usb_connect_state
  <2>4. OnScreen' /\ OnKeys'
    BY <2>1 DEF SInv, OnScreen, OnItems, OnKeys
  <2>5. Offered'
    BY <2>1 DEF SInv, Offered, Skipped, CodeAt
  <2>6. Fits
    BY <1>0, <2>1, <2>2, <2>4, <2>5 DEF Fits, Stored, Drawn
  <2> QED
    BY <2>1, <2>3, <2>6
<1> QED
  BY <1>1, <1>2, <1>3, <1>4 DEF Others

-------------------------------------------------------------------------------
(* What the panel shows. *)

\* A page shows nothing but the page, the cursor, the questions, the pending key,
\* the settings and the two facts of the status line.
LEMMA ViewKept ==
  ASSUME UNCHANGED <<page, cursor, entry, confirm, pending, nv, devices, overclocked>>
  PROVE  View' = View
<1>1. Status' = Status
  BY DEF Status
<1>2. update_mouse' = update_mouse /\ update_joy' = update_joy
  BY DEF update_mouse, update_joy
<1>3. update_menu1' = update_menu1 /\ update_menu2' = update_menu2
  BY DEF update_menu1, update_menu2
<1>4. update_language' = update_language /\ update_layout' = update_layout
  BY DEF update_language, update_layout
<1>5. update_deadzone' = update_deadzone /\ update_screen' = update_screen
  BY DEF update_deadzone, update_screen
<1>6. update_autofire' = update_autofire
  BY DEF update_autofire
<1>7. update_remap_group' = update_remap_group
  BY DEF update_remap_group
<1>8. CodeAt(entry)' = CodeAt(entry) /\ UsbKey' = UsbKey /\ Skipped(CodeAt(entry))' = Skipped(CodeAt(entry))
  BY DEF CodeAt, UsbKey, Skipped
<1>9. update_remap_list' = update_remap_list
  BY <1>8, Zenon DEF update_remap_list
<1>10. update_help_1' = update_help_1 /\ update_usb_debug' = update_usb_debug
  BY DEF update_help_1, update_usb_debug
<1> QED
  BY <1>1, <1>2, <1>3, <1>4, <1>5, <1>6, <1>7, <1>9, <1>10, Zenon DEF View

\* A step that is no update.
\* A boot that has nothing to write is not disturbed.
LEMMA RunningOn == ASSUME Running, UNCHANGED booting PROVE OnBoot'
BY DEF Running, OnBoot

LEMMA SeenStep == ASSUME SInv, IInv, Running, Others, Seen, UNCHANGED booting PROVE SInv'
<1>1. /\ Fits /\ flash' = flash /\ devices' \in 0 .. 1 /\ overclocked' \in BOOLEAN
      /\ dirty' = TRUE \/ UNCHANGED <<devices, overclocked>>
  BY OthersFit
<1>2. OnScreen' /\ OnKeys' /\ Stored /\ Drawn /\ Offered'
  BY <1>1 DEF Fits
<1>3. OnStore /\ OnPanel /\ ScreenTrue
  BY DEF SInv
<1>4. OnStore' /\ contrast' = brightness_to_contrast(nv'.brightness)
  <2>1. CASE UNCHANGED <<nv, unsaved, contrast>>
    BY <1>1, <1>2, <1>3, <2>1 DEF Stored, OnStore, InRange, ScreenTrue
  <2>2. CASE InRange(nv') /\ unsaved' = TRUE /\ contrast' = brightness_to_contrast(nv'.brightness)
    BY <1>1, <1>2, <1>3, <2>2 DEF Stored, OnStore
  <2> QED
    BY <1>2, <2>1, <2>2 DEF Stored
<1>5. fresh' \in BOOLEAN /\ fresh' = (fresh /\ View' = View)
  BY DEF Seen
<1>6. dirty' \in BOOLEAN /\ asleep' \in BOOLEAN
  BY <1>2, <1>3 DEF Drawn, OnPanel
<1>7. OnPanel'
  BY <1>1, <1>5, <1>6 DEF OnPanel
<1>8. ~asleep' /\ ~dirty' => fresh'
  <2> SUFFICES ASSUME ~asleep', ~dirty' PROVE fresh'
    OBVIOUS
  <2>1. UNCHANGED <<page, cursor, entry, confirm, pending, nv, dirty, asleep>>
    BY <1>2 DEF Drawn
  <2>2. UNCHANGED <<devices, overclocked>>
    BY <1>1
  <2>3. View' = View
    BY <2>1, <2>2, ViewKept
  <2>4. fresh
    BY <1>3, <2>1 DEF ScreenTrue
  <2> QED
    BY <1>5, <2>3, <2>4
<1> QED
  BY <1>2, <1>4, <1>7, <1>8, RunningOn DEF SInv, ScreenTrue

\* An update that does not draw leaves what the page shows as it was, if nothing
\* asked for a drawing.
LEMMA UpdateDraws ==
  ASSUME SInv, NEW settled \in BOOLEAN, NEW idle \in BOOLEAN, NEW due \in BOOLEAN, NEW live \in BOOLEAN,
         Update(settled, idle, due, live)
  PROVE  /\ dirty' \in BOOLEAN /\ asleep' \in BOOLEAN /\ fresh' \in BOOLEAN
         /\ ~asleep' /\ ~dirty' => fresh'
         /\ page' = page \/ (page = "splash" /\ page' = "mouse")
<1> DEFINE awake == ~asleep /\ ~(idle /\ MaySleep)
           wanted == \/ dirty
                     \/ live /\ page = "serial"
                     \/ awake /\ live /\ page \in LivePages
                     \/ awake /\ page = "remap_list" /\ capture.key # latched
           draws == awake /\ wanted /\ (page \in PacedPages => due)
<1>1. /\ asleep' = ~awake
      /\ IF awake THEN LatchKey ELSE UNCHANGED <<pending, latched, latchedAt>>
      /\ dirty' = (wanted /\ ~draws)
      /\ page' = IF draws /\ page = "splash" /\ due THEN "mouse" ELSE page
      /\ UNCHANGED <<cursor, entry, confirm, nv, devices, overclocked>>
      /\ fresh' = (draws \/ (fresh /\ View' = View))
  BY Zenon DEF Update, world
<1>2. dirty' \in BOOLEAN /\ asleep' \in BOOLEAN /\ fresh' \in BOOLEAN
  <2> HIDE DEF awake, wanted, draws
  <2> QED
    BY <1>1
<1>3. page' = page \/ (page = "splash" /\ page' = "mouse")
  BY <1>1
<1>4. ASSUME ~asleep', ~dirty', ~draws PROVE fresh'
  <2>1. awake /\ ~wanted
    BY <1>1, <1>4
  <2>2. ~asleep /\ ~dirty /\ (page = "remap_list" => capture.key = latched)
    BY <2>1
  <2>3. pending' = pending
    BY <1>1, <2>1, <2>2 DEF LatchKey
  <2>4. page' = page
    BY <1>1, <1>4
  <2>5. View' = View
    BY <1>1, <2>3, <2>4, ViewKept
  <2>6. fresh
    BY <2>2 DEF SInv, ScreenTrue
  <2> QED
    BY <1>1, <2>5, <2>6
<1>5. ~asleep' /\ ~dirty' => fresh'
  <2> HIDE DEF awake, wanted
  <2> QED
    BY <1>1, <1>4
<1> QED
  BY <1>2, <1>3, <1>5, Zenon

LEMMA UpdateFits ==
  ASSUME SInv, Running, UpdateStep, UNCHANGED booting
  PROVE  SInv'
<1>1. PICK settled \in BOOLEAN, idle \in BOOLEAN, due \in BOOLEAN, live \in BOOLEAN :
        Update(settled, idle, due, live)
  BY DEF UpdateStep, Open
<1>2. /\ dirty' \in BOOLEAN /\ asleep' \in BOOLEAN /\ fresh' \in BOOLEAN
      /\ ~asleep' /\ ~dirty' => fresh'
      /\ page' = page \/ (page = "splash" /\ page' = "mouse")
  BY <1>1, UpdateDraws
<1>3. /\ UNCHANGED <<cursor, entry, confirm, capture, nv, changes, contrast, devices, overclocked>>
      /\ FlushSettings(settled)
      /\ LatchKey \/ UNCHANGED <<pending, latched, latchedAt>>
  BY <1>1, Zenon DEF Update, world
<1>4. OnScreen'
  BY <1>2, <1>3 DEF SInv, OnScreen, OnItems, Pages
<1>5. OnKeys'
  BY <1>3 DEF SInv, OnScreen, OnKeys, LatchKey
<1>6. OnStore'
  BY <1>3 DEF SInv, OnStore, FlushSettings, InRange
<1>7. OnPanel'
  BY <1>2, <1>3 DEF SInv, OnPanel
<1>8. Offered'
  BY <1>2, <1>3 DEF SInv, Offered, Skipped, CodeAt
<1>9. ScreenTrue'
  BY <1>2, <1>3 DEF SInv, ScreenTrue
<1> QED
  BY <1>4, <1>5, <1>6, <1>7, <1>8, <1>9, RunningOn DEF SInv

\* What a boot leaves is in range and drawn next.
LEMMA BootedFits ==
  ASSUME NEW image \in Settings
  PROVE  /\ InRange(Boot(image))
         /\ OnItems(Booted(image).cursor) /\ Booted(image).page = "splash"
         /\ Booted(image).entry = NoEntry
         /\ Booted(image).confirm = [exit |-> FALSE, clear |-> FALSE]
         /\ Booted(image).capture = [on |-> FALSE, key |-> 0]
         /\ Booted(image).nv = Boot(image) /\ Booted(image).flash = image
         /\ Booted(image).booting = BootWrites(image)
         /\ Booted(image).contrast = brightness_to_contrast(Boot(image).brightness)
<1>1. Settled(Boot(image))
  BY BootSettles
<1>2. InRange(Boot(image))
  BY <1>1 DEF Settled, Migrated, LayoutSettled, ScreenSettled, InRange
<1>3. OnItems([i \in DOMAIN Items |-> 0])
  BY DEF OnItems, Items
<1> QED
  BY <1>2, <1>3 DEF Booted

LEMMA SInitially == Init => SInv
<1> SUFFICES ASSUME Init PROVE SInv
  OBVIOUS
<1>1. PICK image \in Images :
        /\ page = Booted(image).page /\ cursor = Booted(image).cursor /\ entry = Booted(image).entry
        /\ confirm = Booted(image).confirm /\ capture = Booted(image).capture
        /\ latchedAt = Booted(image).entry
        /\ nv = Booted(image).nv /\ flash = Booted(image).flash /\ contrast = Booted(image).contrast
        /\ booting = Booted(image).booting
  BY DEF Init
<1>2. image \in Settings
  BY MenuAssumption
<1>3. /\ InRange(nv) /\ flash \in Settings /\ OnItems(cursor) /\ page = "splash" /\ entry = NoEntry
      /\ latchedAt = NoEntry /\ confirm = [exit |-> FALSE, clear |-> FALSE]
      /\ capture = [on |-> FALSE, key |-> 0] /\ contrast = brightness_to_contrast(nv.brightness)
  BY <1>1, <1>2, BootedFits
<1>4. /\ pending = 0 /\ latched = NoKey /\ unsaved = FALSE /\ dirty = TRUE /\ asleep = FALSE
      /\ devices = 0 /\ overclocked = FALSE /\ changes = 0 /\ fresh = FALSE
  BY DEF Init
<1>5. NoEntry \in [group : 0 .. 4, index : Nat] /\ NoEntry.group = 0
  BY DEF NoEntry
<1>6. OnScreen
  BY <1>3, <1>5 DEF OnScreen, Pages
<1>7. OnKeys
  BY <1>3, <1>4, <1>5 DEF OnKeys
<1>8. OnStore
  <2>1. unsaved \in BOOLEAN
    BY <1>4, Zenon
  <2>2. changes \in 0 .. MaxChanges
    BY <1>4, Bounded
  <2> QED
    BY <1>3, <2>1, <2>2 DEF OnStore
<1>9. OnPanel
  <2>1. dirty \in BOOLEAN /\ asleep \in BOOLEAN /\ overclocked \in BOOLEAN /\ fresh \in BOOLEAN
    BY <1>4, Zenon
  <2>2. devices \in 0 .. 1
    BY <1>4
  <2> QED
    BY <2>1, <2>2 DEF OnPanel
<1>10. Offered /\ ScreenTrue
  BY <1>3, <1>4 DEF Offered, ScreenTrue
<1>11. OnBoot
  BY <1>1, <1>2, BootedFits, WritesBoot DEF OnBoot, Running
<1> QED
  BY <1>6, <1>7, <1>8, <1>9, <1>10, <1>11 DEF SInv

LEMMA BlankIsSettings == Blank \in Settings
BY DEF Blank, Settings, Byte

LEMMA CutImages ==
  ASSUME SInv, NEW image \in AfterCut
  PROVE  image \in Settings
<1>1. flash \in Settings /\ nv \in Settings
  BY DEF SInv, OnStore, InRange
<1> QED
  BY <1>1, BlankIsSettings DEF AfterCut

LEMMA CutFits == ASSUME SInv, PowerCut PROVE SInv'
<1>1. PICK image \in AfterCut :
        /\ page' = Booted(image).page /\ cursor' = Booted(image).cursor /\ entry' = Booted(image).entry
        /\ confirm' = Booted(image).confirm /\ capture' = Booted(image).capture
        /\ latchedAt' = Booted(image).entry
        /\ nv' = Booted(image).nv /\ flash' = Booted(image).flash /\ contrast' = Booted(image).contrast
        /\ booting' = Booted(image).booting
  BY DEF PowerCut
<1>2. image \in Settings
  BY CutImages
<1>3. /\ InRange(nv') /\ flash' \in Settings /\ OnItems(cursor') /\ page' = "splash" /\ entry' = NoEntry
      /\ latchedAt' = NoEntry /\ confirm' = [exit |-> FALSE, clear |-> FALSE]
      /\ capture' = [on |-> FALSE, key |-> 0] /\ contrast' = brightness_to_contrast(nv'.brightness)
  BY <1>1, <1>2, BootedFits
<1>4. /\ pending' = 0 /\ latched' = NoKey /\ unsaved' = FALSE /\ dirty' = TRUE /\ asleep' = FALSE
      /\ devices' = 0 /\ overclocked' = FALSE /\ changes' = changes /\ fresh' = FALSE
  BY DEF PowerCut
<1>5. NoEntry \in [group : 0 .. 4, index : Nat] /\ NoEntry.group = 0
  BY DEF NoEntry
<1>6. OnScreen'
  BY <1>3, <1>5 DEF OnScreen, OnItems, Pages
<1>7. OnKeys'
  BY <1>3, <1>4, <1>5 DEF OnKeys
<1>8. OnStore'
  BY <1>3, <1>4 DEF OnStore, InRange, SInv
<1>9. OnPanel'
  <2>1. dirty' \in BOOLEAN /\ asleep' \in BOOLEAN /\ overclocked' \in BOOLEAN /\ fresh' \in BOOLEAN
    BY <1>4, Zenon
  <2>2. devices' \in 0 .. 1
    BY <1>4
  <2> QED
    BY <2>1, <2>2 DEF OnPanel
<1>10. Offered' /\ ScreenTrue'
  BY <1>3, <1>4 DEF Offered, ScreenTrue
<1>11. OnBoot'
  BY <1>1, <1>2, BootedFits, WritesBoot DEF OnBoot, Running
<1> QED
  BY <1>6, <1>7, <1>8, <1>9, <1>10, <1>11 DEF SInv

\* A step of the boot writes the flash and nothing else.
LEMMA BootStep ==
  ASSUME SInv, BootErase \/ BootProgram
  PROVE  /\ flash' \in Settings /\ OnBoot' /\ nv' = nv /\ unsaved' = unsaved
         /\ \/ flash' = Blank /\ booting' = booting
            \/ Boot(flash') = nv /\ (Running' => Current(flash'))
<1> DEFINE S == {w \in Settings : Boot(w) = nv}
<1>1. booting \in Seq(S) /\ booting # <<>> /\ Current(booting[Len(booting)])
  BY DEF SInv, OnBoot, BootErase, BootProgram, Running
<1>2. nv' = nv /\ unsaved' = unsaved
  BY DEF BootErase, BootProgram, store
<1>3. CASE BootErase
  <2>1. flash' = Blank /\ booting' = booting
    BY <1>3 DEF BootErase
  <2>2. OnBoot'
    BY <1>1, <1>2, <2>1 DEF OnBoot
  <2> QED
    BY <1>2, <2>1, <2>2, BlankIsSettings
<1>4. CASE BootProgram
  <2>1. flash' = Head(booting) /\ booting' = Tail(booting)
    BY <1>4 DEF BootProgram
  <2>2. /\ Head(booting) \in S /\ Tail(booting) \in Seq(S) /\ Len(Tail(booting)) = Len(booting) - 1
        /\ Tail(booting) # <<>> => Tail(booting)[Len(Tail(booting))] = booting[Len(booting)]
        /\ Tail(booting) = <<>> => Head(booting) = booting[Len(booting)]
    <3> HIDE DEF S
    <3> QED
      BY <1>1
  <2>3. OnBoot' /\ (Running' => Current(flash'))
    BY <1>1, <1>2, <2>1, <2>2 DEF OnBoot, Running
  <2> QED
    BY <1>2, <2>1, <2>2, <2>3
<1> QED
  BY <1>3, <1>4

LEMMA BootFits == ASSUME SInv, BootErase \/ BootProgram PROVE SInv'
<1>1. UNCHANGED <<page, cursor, entry, confirm, pending, latched, capture, latchedAt, nv, unsaved, changes,
                  asleep, contrast, dirty, devices, overclocked, fresh>>
  BY DEF BootErase, BootProgram, screen, remapping, store, panel, world
<1>2. OnScreen' /\ OnKeys'
  BY <1>1 DEF SInv, OnScreen, OnItems, OnKeys
<1>3. OnStore' /\ OnPanel' /\ OnBoot'
  BY <1>1, BootStep DEF SInv, OnStore, OnPanel, InRange
<1>4. Offered' /\ ScreenTrue'
  BY <1>1 DEF SInv, Offered, ScreenTrue, Skipped, CodeAt
<1> QED
  BY <1>2, <1>3, <1>4 DEF SInv

LEMMA SKept == ASSUME SInv, UNCHANGED vars PROVE SInv'
<1>1. UNCHANGED <<page, cursor, entry, confirm, pending, latched, capture, latchedAt, nv, unsaved, changes,
                  flash, booting, asleep, contrast, dirty, devices, overclocked, fresh>>
  BY DEF vars, screen, remapping, store, panel, world
<1>2. OnScreen' /\ OnKeys'
  BY <1>1 DEF SInv, OnScreen, OnItems, OnKeys
<1>3. OnStore' /\ OnPanel' /\ OnBoot'
  BY <1>1 DEF SInv, OnStore, OnPanel, OnBoot, Running, InRange
<1>4. Offered' /\ ScreenTrue'
  BY <1>1 DEF SInv, Offered, ScreenTrue, Skipped, CodeAt
<1> QED
  BY <1>2, <1>3, <1>4 DEF SInv

LEMMA SPreserved == SInv /\ IInv /\ [Next]_vars => SInv'
<1> SUFFICES ASSUME SInv, IInv, [Next]_vars PROVE SInv'
  OBVIOUS
<1> QED
  BY UpdateFits, SeenStep, BootFits, CutFits, SKept DEF Next

-------------------------------------------------------------------------------
\* The keyboard is captured on the remap page and nowhere else, a question is
\* asked on its page only, and a pending key is one pressed for the entry on the
\* screen and free to be remapped (on_button_down, handle_buttons and update of
\* UserInterface.cpp), over every sequence of buttons, keys, times and power cuts.
THEOREM Modes == Spec => []ModesBelong
<1>1. Init => IInv
  BY Initially
<1>2. IInv /\ [Next]_vars => IInv'
  BY Preserved
<1>3. IInv => ModesBelong
  BY DEF IInv
<1> QED
  BY <1>1, <1>2, <1>3, PTL DEF Spec

\* Both invariants together.
LEMMA Settles == Spec => [](IInv /\ SInv)
<1>1. Init => IInv /\ SInv
  BY Initially, SInitially
<1>2. IInv /\ SInv /\ [Next]_vars => IInv' /\ SInv'
  BY Preserved, SPreserved
<1> QED
  BY <1>1, <1>2, PTL DEF Spec

\* The one ANSI layout that is not excepted is the one layout_has_iso_key knows.
LEMMA SkipsIso == OnStore /\ Offered => ListSkipsIso
<1> SUFFICES ASSUME OnStore, Offered, page = "remap_list", kLayouts[nv.layout + 1] \in AnsiLayouts \ {"EN-US"}
             PROVE  ~sc_is_iso_key(CodeAt(entry))
  BY DEF ListSkipsIso
<1>1. nv.layout \in 0 .. 15
  BY FieldTypes DEF OnStore, Layouts
<1>2. kLayouts[nv.layout + 1] = "PL-PL"
  BY DEF AnsiLayouts
<1>3. nv.layout = 14
  BY <1>1, <1>2 DEF kLayouts
<1>4. ~Skipped(CodeAt(entry))
  BY DEF Offered
<1> QED
  BY <1>3, <1>4 DEF Skipped, IsOffered, layout_has_iso_key

\* Whatever was pressed, the page, its cursors and the settings are in range, what
\* a boot takes from the flash being clamped before it is used (NVSettings::read,
\* UserInterface::init), and under the Polish layout, an ANSI one, the walk over a
\* group stops on no key that only ISO keyboards have (on_button_down and
\* handle_buttons of UserInterface.cpp).  Nothing is said of EN-US, the other ANSI
\* layout, where it does: layout_has_iso_key has EN-UK's index in its place.
THEOREM Entries == Spec => []EntryMeant
<1>1. IInv /\ SInv => TypeOK
  <2>1. ASSUME OnBoot PROVE booting \in Seq(Settings)
    <3>1. \A i \in 1 .. Len(booting) : booting[i] \in Settings
      BY <2>1 DEF OnBoot
    <3> QED
      BY <2>1, <3>1 DEF OnBoot
  <2> QED
    BY <2>1 DEF SInv, OnScreen, OnItems, OnKeys, OnStore, OnPanel, InRange, TypeOK
<1>2. IInv /\ SInv => EntryMeant
  BY <1>1, SkipsIso DEF SInv, EntryMeant
<1> QED
  BY <1>2, Settles, PTL

\* Awake and with no redraw asked for, the panel shows the state: every action
\* that changes what some page shows sets dirty, and an update that clears it
\* without drawing found nothing changed (update of UserInterface.cpp).
THEOREM Shown == Spec => []ScreenTrue
<1>1. IInv /\ SInv => ScreenTrue
  BY DEF SInv
<1> QED
  BY <1>1, Settles, PTL

-------------------------------------------------------------------------------
(* The settings and the flash implement the store.                           *)

LEMMA StoreInit == Init => Durable!Init
<1> SUFFICES ASSUME Init PROVE Durable!Init
  OBVIOUS
<1>1. PICK image \in Images : /\ nv = Booted(image).nv /\ flash = Booted(image).flash
                              /\ booting = Booted(image).booting
  BY DEF Init
<1>2. image \in Settings
  BY MenuAssumption
<1>3. nv = Boot(image) /\ flash = image /\ booting = BootWrites(image)
  BY <1>1, <1>2, BootedFits
<1>4. (Current(flash) => Running) /\ (Current(flash) /\ InBounds(flash) => nv = flash)
  BY <1>2, <1>3, Stays DEF Running
<1>5. unsaved = FALSE
  BY DEF Init
<1> QED
  BY <1>3, <1>4, <1>5 DEF Durable!Init, Durable!Started, Running

LEMMA StoreStep ==
  ASSUME SInv, IInv, [Next]_vars
  PROVE  [Durable!Next]_(<<nv, flash, unsaved, ~Running>>)
<1> USE DEF Durable!Next
<1>1. CASE Running /\ UpdateStep /\ UNCHANGED booting
  <2>0. PICK settled \in BOOLEAN, idle \in BOOLEAN, due \in BOOLEAN, live \in BOOLEAN :
          Update(settled, idle, due, live)
    BY <1>1 DEF UpdateStep, Open
  <2>1. nv' = nv /\ FlushSettings(settled)
    BY <2>0, Zenon DEF Update
  <2>2. Running' = Running
    BY <1>1 DEF Running
  <2>3. CASE unsaved /\ flash' = nv /\ unsaved' = FALSE
    BY <1>1, <2>1, <2>2, <2>3 DEF Durable!Save
  <2>4. CASE UNCHANGED <<flash, unsaved>>
    BY <2>1, <2>2, <2>4
  <2> QED
    BY <2>1, <2>3, <2>4 DEF FlushSettings
<1>2. CASE Running /\ Others /\ UNCHANGED booting
  <2>1. Stored /\ flash' = flash
    BY <1>2, OthersFit DEF Fits
  <2>2. Running' = Running
    BY <1>2 DEF Running
  <2>3. CASE UNCHANGED <<nv, unsaved>>
    BY <2>1, <2>2, <2>3
  <2>4. CASE unsaved' = TRUE
    BY <1>2, <2>1, <2>2, <2>4 DEF Durable!Change
  <2> QED
    BY <2>1, <2>3, <2>4 DEF Stored
<1>3. CASE BootErase \/ BootProgram
  <2>1. ~Running /\ nv' = nv /\ unsaved' = unsaved
    BY <1>3, BootStep DEF BootErase, BootProgram
  <2>2. CASE flash' = Blank /\ booting' = booting
    BY <1>3, <2>1, <2>2 DEF Durable!Rewrite, Running
  <2>3. CASE Boot(flash') = nv /\ (Running' => Current(flash'))
    BY <2>1, <2>3 DEF Durable!Rewrite, Running
  <2> QED
    BY <1>3, <2>2, <2>3, BootStep DEF BootErase, BootProgram
<1>4. CASE PowerCut
  <2>1. PICK image \in AfterCut : /\ nv' = Booted(image).nv /\ flash' = Booted(image).flash
                                  /\ booting' = Booted(image).booting
    BY <1>4 DEF PowerCut
  <2>2. image \in Settings
    BY CutImages
  <2>3. nv' = Boot(image) /\ flash' = image /\ booting' = BootWrites(image)
    BY <2>1, <2>2, BootedFits
  <2>4. image = flash \/ (unsaved /\ image \in {Blank, nv})
    BY DEF AfterCut
  <2>5. unsaved' = FALSE
    BY <1>4 DEF PowerCut
  <2>6. flash' \in {flash} \cup (IF unsaved THEN {nv, Blank} ELSE {})
    BY <2>3, <2>4
  <2>7. (Current(flash') => Running') /\ (Current(flash') /\ InBounds(flash') => nv' = flash')
    BY <2>2, <2>3, Stays DEF Running
  <2> QED
    BY <2>3, <2>5, <2>6, <2>7 DEF Durable!PowerCut, Durable!Started, Running
<1>5. CASE UNCHANGED vars
  BY <1>5 DEF vars, store, Running
<1> QED
  BY <1>1, <1>2, <1>3, <1>4, <1>5 DEF Next

\* A change is on the flash some time after it was made and no earlier change
\* replaces it; whenever the power goes, also while the boot writes, what this
\* version saved in bounds comes back as it was and is not written again, and what
\* another version saved comes back as read and init take it.  All settings can be
\* lost in two ways only: by a cut while a change waits, or while a boot rewrites
\* the sector, which it does for an image that is not current (of another version,
\* or with brightness 0) and ends with one that is.  NVSettings::read, ::write,
\* UserInterface::init and ::update implement the store of DurableSettings.
THEOREM Saved == Spec => SavesDurably
<1>1. Init => Durable!Init
  BY StoreInit
<1>2. IInv /\ SInv /\ [Next]_vars => [Durable!Next]_(<<nv, flash, unsaved, ~Running>>)
  BY StoreStep
<1> QED
  BY <1>1, <1>2, Settles, PTL DEF Spec, SavesDurably, Durable!Spec

=============================================================================
