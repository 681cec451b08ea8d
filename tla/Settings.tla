------------------------------ MODULE Settings ------------------------------
(***************************************************************************)
(* The settings as the flash holds them and what a boot makes of them:     *)
(* NVSettings::read, run when main constructs the user interface, then the *)
(* checks of UserInterface::init.  A boot writes the flash where it        *)
(* migrates a field, and leaves it alone where it only clamps one.  Each   *)
(* of its writes erases the sector and programs it again, so the images it *)
(* writes are kept apart: the power may be cut between any two of them.    *)
(***************************************************************************)
EXTENDS KeyTables

CONSTANT RemapKeys  \* the USB keys whose entries of key_remap are modelled

ASSUME RemapAssumption == 4 \in RemapKeys /\ RemapKeys \subseteq HidCodes \ {0}

Joys == 0 .. 1
Byte == 0 .. 255
Settings ==
  [version : Byte, mouse_speed : -128 .. 127, mouse_enabled : Byte, joy_device : Byte,
   language : Byte, layout : Byte, dead_zone : Byte,
   autofire_mode : [Joys -> Byte], autofire_rate : [Joys -> Byte],
   key_remap : [RemapKeys -> Byte], sleep : Byte, brightness : Byte]

MouseMin == -7
MouseMax == 8
DeadZoneMax == 15
RateMin == 1
RateMax == 15
BrightMax == 7
Layouts == 16
Languages == 5
SleepPresets == <<0, 5, 10, 15, 20, 30, 60, 120, 300>>

\* A sector that was never programmed, or erased and not programmed again.
Blank ==
  [version |-> 255, mouse_speed |-> -1, mouse_enabled |-> 255, joy_device |-> 255,
   language |-> 255, layout |-> 255, dead_zone |-> 255,
   autofire_mode |-> [j \in Joys |-> 255], autofire_rate |-> [j \in Joys |-> 255],
   key_remap |-> [h \in RemapKeys |-> 255], sleep |-> 255, brightness |-> 255]

\* Every layout has the one table.
get_layout_table(layout) == [h \in RemapKeys |-> st_key_lookup_hid[h]]

Zeroes == [h \in RemapKeys |-> 0]

FirstBoot ==
  [version |-> 1, mouse_speed |-> 0, mouse_enabled |-> 1, joy_device |-> 0,
   language |-> 0, layout |-> 0, dead_zone |-> 8,
   autofire_mode |-> [j \in Joys |-> 0], autofire_rate |-> [j \in Joys |-> 8],
   key_remap |-> Zeroes, sleep |-> 0, brightness |-> 8]

\* The migrations of NVSettings::read, in its order.
MigrateLayout(s) == [s EXCEPT !.layout = IF @ = 255 THEN 0 ELSE @]
MigrateDeadZone(s) == [s EXCEPT !.dead_zone = IF @ = 255 THEN 8 ELSE @]
MigrateAutofire(s) ==
  [s EXCEPT
     !.autofire_mode = [j \in Joys |-> IF @[j] = 255 THEN 0 ELSE @[j]],
     !.autofire_rate = [j \in Joys |-> IF @[j] \in {0, 255} THEN 8 ELSE @[j]]]
MigrateRemap(s) == [s EXCEPT !.key_remap = IF @[4] = 255 THEN Zeroes ELSE @]
MigrateScreen(s) ==
  [s EXCEPT !.sleep = IF @ = 255 THEN 0 ELSE @,
            !.brightness = IF @ = 0 \/ @ > 8 THEN 8 ELSE @]

Read(f) ==
  IF f.version # 1 THEN FirstBoot
  ELSE MigrateScreen(MigrateRemap(MigrateAutofire(MigrateDeadZone(MigrateLayout(f)))))

\* UserInterface::init.
Clamp(x, low, high) == IF x < low THEN low ELSE IF x > high THEN high ELSE x
InitLayout(s) ==
  [s EXCEPT !.mouse_speed = Clamp(@, MouseMin, MouseMax),
            !.layout = IF @ >= Layouts THEN 0 ELSE @]
InitRemapAlways(s) == [s EXCEPT !.key_remap = get_layout_table(s.layout)]
InitRemap(s) ==
  [s EXCEPT !.key_remap = IF @[4] = 0 THEN get_layout_table(s.layout) ELSE @]
InitScreen(s) ==
  [s EXCEPT !.dead_zone = IF @ = 255 THEN 0 ELSE Clamp(@, 0, DeadZoneMax),
            !.sleep = IF @ >= Len(SleepPresets) THEN 0 ELSE @,
            !.brightness = IF @ > BrightMax THEN BrightMax ELSE @]

\* The settings a boot from the image f ends with.
Boot(f) == InitScreen(InitRemap(InitLayout(Read(f))))

\* The images a boot from f writes, in order: read writes the settings after each
\* migration that changes them, init where it replaces the layout (with the speed
\* it has clamped by then) and where it fills in the key table.
Step(s, t) == IF t # s THEN <<t>> ELSE <<>>
ReadWrites(f) ==
  LET layout == MigrateLayout(f)
      dead_zone == MigrateDeadZone(layout)
      autofire == MigrateAutofire(dead_zone)
      remap == MigrateRemap(autofire)
  IN  IF f.version # 1 THEN <<FirstBoot>>
      ELSE Step(f, layout) \o Step(layout, dead_zone) \o Step(dead_zone, autofire)
             \o Step(autofire, remap) \o Step(remap, MigrateScreen(remap))
InitWrites(s) ==
  (IF s.layout >= Layouts THEN <<InitLayout(s)>> ELSE <<>>)
    \o Step(InitLayout(s), InitRemap(InitLayout(s)))
BootWrites(f) == ReadWrites(f) \o InitWrites(Read(f))

\* What this version of the program writes: every field is there, and none has the
\* value that stands for a missing one.
Current(s) ==
  /\ s.version = 1 /\ s.layout < Layouts /\ s.dead_zone # 255
  /\ \A j \in Joys : s.autofire_mode[j] # 255 /\ s.autofire_rate[j] \notin {0, 255}
  /\ s.key_remap[4] \notin {0, 255} /\ s.sleep # 255 /\ s.brightness \in 1 .. 8

\* What the pages of the user interface can set and show.
InBounds(s) ==
  /\ s.mouse_speed \in MouseMin .. MouseMax
  /\ s.dead_zone <= DeadZoneMax /\ s.sleep < Len(SleepPresets) /\ s.brightness <= BrightMax

=============================================================================
