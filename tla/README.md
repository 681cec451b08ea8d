# A TLA+ specification of the Atari ST keyboard emulator

The firmware in this repository replaces the keyboard of an Atari ST. Core 1 of
an RP2040 emulates the HD6301 microcontroller of the original keyboard, running
the original ROM; core 0 is a USB host for keyboards, mice and joysticks, drives
the menus and reads the serial line from the ST. This directory holds TLA+
modules of those parts, TLC configurations that check them on small instances,
and proofs, checked by TLAPS, that hold for every value of the constants.

Paths below are relative to the root of the repository.

## 1. The system

### Components, state, operations

| component | state it keeps | operations | properties that make it correct |
|---|---|---|---|
| Serial path (`src/main.cpp`, `src/SerialPort.cpp`) | UART FIFOs, `st_rx_queue` between the cores, a byte in hand on each core | `handle_rx_from_st`, `feed_hd6301_from_queue`, the two loops | no byte lost, reordered or read twice; every accepted byte is eventually read |
| SCI (`6301/sci.c`) | `iram[TRCSR]`, `iram[RDR]` | `sci_in`, `rdr_getb`, `tdr_putb`, `trcsr_putb` | never an overrun; TDRE means room |
| CPU run loop (`6301/6301.c`, `6301/instr.c`) | program counter, interrupt mask, `crashed`, `pending_reset` | `hd6301_run_clocks`, `hd6301_reset`, `instr_exec`, `hd6301_trigger_reset` | a requested reset happens; a crash ends |
| Timer (`6301/timer.c`) | FRC, OCR, TCSR, `tcsr_is_read` | `timer_inc`, `ocr_putb`, `tcsr_getb`, `tcsr_putb` | a compare is flagged, and stays flagged until acknowledged |
| I/O ports (`6301/ireg.c`) | DDR/DR registers; snapshots of the devices | `dr1_getb` (key matrix), `dr2_getb` (buttons), `dr4_getb` (joysticks, mouse) | what the ROM reads is a state the devices were in |
| Instructions and memory (`6301/optab.c`, `opfunc.c`, `alu.c`, `reg.h`, `memory.h`, `callstac.c`) | registers, `ram`, ROM image, a stack of calls for messages | the instruction set, `mem_getb`, `mem_putb`, traps, interrupts | arithmetic is arithmetic; a program is resumed where it was interrupted |
| HID interface table (`src/hid_app_host.c`) | `hid_devices`: address, instance, type, report info, pointer to the buffer | `tuh_hid_mount_cb`, `tuh_hid_umount_cb`, `tuh_hid_report_received_cb`, lookups | a slot per interface, released once; copies go to live buffers |
| Device map (`src/HidInput_common.cpp`) | map of keys to buffers, `device_type`, three counters | `tuh_hid_mounted_cb`, `tuh_hid_unmounted_cb` | agrees with the table |
| Report parser (`hidparser/HIDParser.c`) | state tables, usages, collection paths, items | `USB_ProcessHIDReport`, the filter, get and set of an item | the controls are found where the descriptor has them |
| Keyboard handler (`src/HidInput_keyboard.cpp`) | `key_states`, Caps Lock, capture mode, edges of shortcuts, LEDs | `handle_keyboard`, the LED probe | the ST sees the keys that are held |
| Mouse handler, encoder (`src/HidInput_mouse.cpp`, `src/AtariSTMouse.cpp`) | buttons; speeds and quadrature registers | `handle_mouse`, `set_speed`, `update` | the pointer goes where and as fast as the hand |
| Joystick handler (`src/HidInput_joystick.cpp`) | `s_usb_joy`, `joystick_state`, fire bits, autofire per port | slot assignment, `handle_joystick`, `process_autofire`, dead zones | one device per port; what is held is shown |
| DualShock 4 (`src/ps4_controller.c`) | `controllers[]`, latest report of each | mount, report, `ps4_to_atari` | entries are connected controllers |
| Xbox pads (`src/xinput_host.c`, `src/xinput_atari.cpp`) | `xinputh_device_t`, registered pads by address | the class driver, its waits, `xinput_to_atari_joystick` | no pad falls silent; one pulled drives nothing |
| Settings (`src/NVSettings.cpp`) | a structure in flash, a copy in RAM | `read`, `write`, migration at boot | a durable store with a delay |
| User interface (`src/UserInterface.cpp`) | page, cursors, overlays, remapping, unsaved settings, sleep, live pages | three buttons, `update` | the panel shows the state; a mode is on where it belongs; a change is saved |
| Display (`ssd1306/ssd1306.c`) | frame buffer, shadow of what was sent | text, inverse text, `show` | the panel shows the text |
| Tables and labels (`src/st_key_lookup_hid.cpp`, `*_label.cpp`, the ROM's scan table) | constants | lookups | two keys have two names |

### How they interact

    ST --UART--> core 0: handle_rx_from_st --st_rx_queue--> core 1: feed -> SCI -> ROM
    ROM -> tdr_putb -> uart_putc (blocks) --UART--> ST
    both cores -> serial_log_q -> UserInterface::update (drops what does not fit)
    USB -> TinyUSB callbacks (inside tuh_task, core 0) -> hid_devices, device map
    Xbox callbacks -> wait_for_tx_complete -> tuh_task again
    main loop, every 10 ms: tuh_task; handle_keyboard; handle_mouse; handle_joystick; UI
    main loop, every turn: handle_rx_from_st; AtariSTMouse::update
    handle_keyboard -> key_states -> dr1_getb on core 1
    handle_joystick -> g_*_snapshot (three bytes) -> dr2_getb, dr4_getb on core 1
    Ctrl+F11 on core 0 -> pending_reset -> hd6301_run_clocks on core 1
    UI on core 0 -> NVSettings::write -> multicore lockout of core 1 -> flash
    UI <-> handle_keyboard: capture mode, captured key

### What is hard

* *Two cores.* A queue, three published bytes, the key states, one reset flag, a
  log and a lockout are shared. Nothing else protects the order of the steps.
* *Hand-over of report buffers.* A report is copied by a callback to a pointer
  that a handler registered on an earlier poll; between the two the device, or
  one interface of it, may go.
* *Callbacks inside callbacks.* The Xbox driver waits by running the USB task.
* *Sequences of plugging.* Two port slots, a table of interfaces with free slots
  reused, a second key for the mouse of a combo, several kinds of joystick that
  fall through to each other.
* *Reset and crash* of the emulated CPU in the middle of a transfer; a power cut in
  the middle of a flash write, of a saved change or of a boot that rewrites what
  an older version left, once per field it migrates.
* *Modes* that are set on one way into a page and cleared on another way out.
* *Time*: holds, delays, periods and waits that race the events they are about.
* *Numbers*: flags of an eight-bit processor, a counter that advances by whole
  instructions, signed speeds, three scales for one dead zone.

`PROJECT.json` lists every such hazard at its line, with the properties that
cover it or the reason why none does.

## 2. The modules

| module | models | composed of |
|---|---|---|
| `Sci` | the registers of `6301/sci.c`, as functions on a record | |
| `SerialLink` | both cores, UART, queue, run loop, reset, crash, flash lockout | `Sci`, `Order`; refines `ByteChannel` |
| `ByteChannel` | abstract: a FIFO that loses a byte only on arrival or at its head | |
| `Timer6301` | `6301/timer.c`, `ocr_putb` through `ireg.c` | |
| `Alu`, `Cpu6301` | flags and arithmetic; memory, registers, stack, every opcode, interrupts, the run loop | |
| `IkbdPorts` | core 0 publishing while core 1 reads ports 2 and 4 | |
| `KeyTables`, `Labels` | the default key map and the ROM's key matrix; the names of the keys in sixteen layouts | |
| `Keyboard` | `handle_keyboard`, `key_states` under the ROM's scan, capture, LEDs and their probe | `KeyTables` |
| `PortList` | `s_usb_joy`, shared by the next two | |
| `HidHost` | interface table, device map, buffers, the three handlers' arming | `PortList` |
| `JoystickPorts` | what reaches the Atari's two ports, from which device | `PortList` |
| `Sticks`, `DeadZone` | the three readers of a stick; one stick under a changing dead zone | |
| `Autofire` | `process_autofire` with time | |
| `MouseEncoder` | `handle_mouse`'s speed and the quadrature encoders | |
| `HidParser` | the report parser, one item a step; reading and writing of items | |
| `Xinput` | the Xbox class driver, with nested waits | |
| `Settings`, `DurableSettings` | what a boot makes of the flash; abstract: a store that saves late | |
| `Menu` | pages, buttons, overlays, remapping, deferred write, sleep, redraw | `Settings`, `Labels`; refines `DurableSettings` |
| `DebugPages` | the serial page with its log, the test page with its timer | |
| `Display` | text to pixels, frame buffer to panel | |
| `Chip` | the emulated chip: one of its parts at a time | `Timer6301`, `Cpu6301`, `SerialLink` |
| `PanelAndParser` | the state and the constants of the next module's parser, panel and live pages | `HidParser`, `Display`, `DebugPages` |
| `Drivers` | the parts between a device and the chip or the panel, one at a time | `PanelAndParser`, `IkbdPorts`, `Xinput`, `MouseEncoder`, `Autofire`, `DeadZone`, `Labels` |
| `Order` | sequences in increasing order | |
| `SerialLinkProofs`, `ChipProofs`, `DriversProofs`, `HidHostProofs`, `JoystickPortsProofs`, `KeyboardProofs`, `MenuProofs` | the theorems of section 4 | each the module of its name |
| `PanelAndParserProofs` | the lemmas that three theorems of `DriversProofs` are drawn from | `PanelAndParser` |
| `MCSerialLink`, `MCHidHost`, `MCJoystickPorts`, `MCIkbdPorts`, `MCKeyboard`, `MCMenu`, `MCDeadZone` | one module, instantiated | |
| `MCChip`, `MCDrivers` | `Chip` and `Drivers`, with the programs, reports and descriptors to run | |

`Chip` and `Drivers` are the sum of state spaces that share nothing: a variable
`part` says which of them moves, and every other one rests. Their theorems are
about that sum, the specification that TLC runs.

A definition whose name ends in a description of a fault (`RxTakeUnguarded`,
`FindAnyType`, ...), placed before the definition it varies, is not part of a
specification. It is that definition with a plausible mistake, and `PROJECT.json`
says which property then fails; they are kept to show that the properties bite.

### State and actions against the code

`SerialLink`. `c0` and `c1` say where each core is; an action is one access to
something the other core, or the UART, also touches. `RxTake` is the loop test of
`handle_rx_from_st` with the read of the UART, `RxAdd` the `queue_try_add`;
`FeedTake` and `FeedGive` are the test of `hd6301_sci_busy`, `queue_try_remove`
and `hd6301_receive_byte`; `TxPoll` is `hd6301_tx_empty(send_buf_empty())`;
`RunClocks`, `ClearPending`, `Reset` and `ExecDone` are the branches of
`hd6301_run_clocks`. The reset flag is tested and cleared in two steps, as in the
code. `WriteTdr` leads to `UartPutc`, which waits while the transmit FIFO is
full. `FlashBegin` and `FlashEnd` park core 1, which `multicore_lockout` does by
an interrupt and so also inside `uart_putc`. The program is *any* sequence of
instructions: reads of RDR, stores to TRCSR and TDR at any time, jumps out of the
image (`WildJump`, after which `instr_exec` declares a crash). Bytes are numbered
in the order the ST sends them. `sent`, `read`, `overflowed`, `discarded`,
`resetOwed` and `freshTdre` are history.

`Timer6301`. An instruction is register accesses, then `timer_inc`. Words are
pairs of bytes of `Base` values. `FrcPutLo` is there because `mem_putb` refuses a
store to the high byte of FRC only.

`Cpu6301`. The machine is a record; an instruction is an operator from the machine
after the fetch to the machine it leaves, put together from the addressing mode
and the operation the way `opcodetab` puts them together. `InstrExec` fetches,
executes and counts the cycles of `optab.c`; `Interrupt` is the other branch of
`instr_exec`, with the compare interrupt first; `RunClocks`, `Reset` and
`TriggerReset` are the slice. Internal registers answer anything
(`DeviceBytes`): they are the other modules' business. `calls` is the debug stack
of `callstac.c`; `last` and `resume` are history.

`Keyboard`. `Poll` is one `handle_keyboard` up to the end of the loop over scan
codes, `Modifiers` the second half of the write; core 1 may scan between them. In
capture mode the poll takes the other branch. The control transfer of an LED and
the probe of its report ID share one endpoint (`control`).

`HidHost`. A map key is `<<address, 0>>`, or `<<address, 128>>` for the mouse of a
device that already has a plain key. TinyUSB opens the interfaces of one device
in order and closes those of a removed device one by one (`closing`); a poll of
the main loop runs through `phase`. `dest` of a slot is the pointer given with
the last request: non-null means busy. A `Report` without a request changes
nothing in the code and is not a step. Kinds of device: keyboard, mouse, mouse
with an unusable descriptor ("boot_mouse"), mouse that claims the keyboard
protocol ("odd_mouse"), stick, gamepad, combo (keyboard and mouse), receiver (a
combo with two more interfaces, one without a usable descriptor).

`JoystickPorts`. `usbJoy`, `armed`, `latest`, `pads` are the program's lists;
`dir`, `raw` and `fire` what `handle_joystick` leaves in `joystick_state`,
`usb_joy_raw_fire` and `mouse_state`. One direction stands for four. A zeroed
DualShock 4 report is not neutral: D-pad code 0 is "up" (`Blank`).

`IkbdPorts`. `handle_joystick` ends with three stores, one action each; `dr2_getb`
and `dr4_getb` look twice, one action each. A direction is stamped with the poll
that sampled it, and the flag with the poll that published it.

`Sticks`, `DeadZone`, `Autofire`, `MouseEncoder`. Numbers are the code's, 16-bit
wrap included; times are kept as what has passed since, and a poll or a turn of
the loop takes any of a few lengths. The curve of the mouse's acceleration is a
table that grows with the setting.

`HidParser`. A descriptor is a sequence of short items; a step is one turn of the
parser's loop, with the pushes and pops, the queue of usages, the collection
paths and the sums of bits per report ID. `CALLBACK_HIDParser_FilterHIDReportItem`
is the filter. `open` and `fields` are history: the descriptor as its author
means it.

`Xinput`. `inst` is what the driver keeps of each interface; `stack` the calls in
progress, because `wait_for_tx_complete` runs `tuh_task`, which may deliver any
event. Each frame has the transfers it still has to make; only the last runs.
The steps of setting a pad up are the code's by their number and kind; their
bytes are left out.

`Settings`, `Menu`. A boot is `NVSettings::read` followed by the checks of
`UserInterface::init`; `BootWrites` is the sequence of images it writes, at most
six. `Menu` keeps what is left of it in `booting`: `BootErase` and `BootProgram` are
the two halves of each `NVSettings::write`, and nothing else runs before the last.
`PowerCut` may fall between any two of them, and between the same two halves of a
due write of a change, whose steps need not be apart as nothing else sees the
flash. `Menu` takes the presses for actions of their own, any
number of them between two calls of `update`; what `update` does after the
buttons is `LateUpdate`. What the panel shows is abstracted to `View`, which
lists for each page the values its `update_*` reads; `fresh` says that nothing of
it has changed since it was drawn.

`DebugPages`. Time is counted in calls of `update`. `serial` is called by both
cores; `deadzone_timer_cb` is an interrupt. `set_mouse_debug_delta` runs on every
poll of the mouse and mostly with zeros, which is why it keeps the last movement
that was one.

`Display`. A picture is the set of the pixels that are lit. A transfer may end
after any of `Stops` columns, and the driver does not act on it.

## 3. What the runs check

| run | instance | question |
|---|---|---|
| `SerialLink` | FIFO 2, queue 2, transmit FIFO 1, slices of 1 instruction, 4 bytes | is a byte ever lost, reordered or read twice but by an overflow or a reset; does the path implement `ByteChannel` |
| `Chip` | timer with bytes of 4 values; some fifteen hundred programs, two slices of 24 cycles, two interrupts; the path with all depths 1 and 2 bytes | is a compare flagged; do branches, decimal sums, calls and interrupts do what they are for, and does the debug stack stay sound; is every accepted byte read or discarded, does a requested reset happen, does a crash end |
| `HidHost` | 3 addresses, 4 slots; combo, odd mouse, stick, receiver | do table, map, counters, ports and pointers agree |
| `HidHostLive` | 3 addresses, 2 slots; keyboards and mice; removal at any moment | is every report copied read |
| `JoystickPorts` | 2 addresses, all three kinds, one DualShock 4 entry | does a device drive both ports; is what is held shown |
| `Keyboard` | two keyboards, seven reports, both forms of LED report | does the matrix show the keys held; do LEDs, capture and re-arming work |
| `Menu` | short remap pages, two keys, a flash of an older version, changes bounded | modes, remapping, redraws, deferred writes, power cuts; does the store implement `DurableSettings` |
| `Drivers` | see the modules; nine parts, each on its own | ports, pads, parser, encoders, autofire, display, live pages, dead zones, labels |
| `HidHostCombo` | one combo | *violated*: the mouse of a combo is never read |
| `IkbdPortsPhantom` | 3 polls | *violated*: a button shown was held at a look |
| `Cpu6301Daa` | as `Chip` | *violated*: DAA adjusts every sum of two decimal bytes |
| `DeadZoneRest` | a HID stick | *violated*: a stick at rest is silent at every dead zone |

### What the properties say

* `NothingVanishes`, `ImplementsChannel`, `IInv` (`SerialLink`): every byte the ST
  sent is read, in transit, or was dropped by the full UART FIFO or by a reset.
  `ChannelProgress`, `ResetHappens`, `CrashRecovers`: and gets on.
* `CompareSound`, `MissedOnlyAtWrap`, `IInv` (`Timer6301`): OCF rises only when the
  counter took the value of OCR, stays until acknowledged, and is missed only by
  the instruction that wraps the counter.
* `BranchesFollowOrder`: after a comparison each branch that decides an order or
  equality jumps as the two operands have it, signed or not, bytes or words (BVC,
  BVS, BPL and BMI follow their flag by definition, BRA and BRN nothing).
  `SumsTrue`: an addition of decimal bytes followed by DAA leaves the decimal sum, but
  for the sums of `DaaLoses`, and the right carry for all; two bytes added or
  subtracted with carry are the word. `ReturnsHome`: RTI and RTS give back what the interrupt or call found, whatever was between.
  `StackSound`: the debug stack has no call that has returned.
* `CountsMatch`, `TablesAgree`, `NothingLeft`, `DestLive`, `PortsHeld` (`HidHost`): the
  three counters, the table and the map say the same in every order of plugging;
  nothing is left of what went; a copy goes to a live buffer; a port is held by a
  device that is there. `ReportsRead`, `Rearmed`: no device goes deaf.
* `OnePortEach`, `HeldStickShown` (`JoystickPorts`).
* `KeysMatchHeld`: the ROM's scan finds the crossings of the keys held on the keyboard
  polled last, and no other, from report to matrix. `CaptureIsolated`: in capture
  mode the ST sees no change. `LedTrue`: the LED byte the program believes a
  keyboard to show is the one it shows.
* `ModesBelong`, `EntryMeant`, `ScreenTrue`, `SettingsSaved`, `SavesDurably` (`Menu`): the
  keyboard is captured on the remap page and nowhere else, no question is left
  for a later visit, a key pressed for one entry is never given to another, the
  panel left alone shows the state, a change is written in the end. `EntryMeant`
  adds that cursors and settings are in range and that the remap list does not
  offer the key of ISO keyboards under PL-PL, an ANSI layout; EN-US, the other one,
  is excepted, because there the code does offer it (section 5). `SavesDurably`:
  settings that this version wrote with all values in bounds come back after a
  power cut as they were, and no boot rewrites them. Two kinds of cut can lose all
  settings: one while a change waits, and one in a boot that is rewriting an image
  which is not `Current`, of an older version or with brightness 0; after such a
  boot has run to its end the image is current.
* `PadsSound`, `SetupEnds` (`Xinput`): no pad has two calls in progress, falls silent
  or drives a port after it was pulled, and no wait keeps the main loop for good.
* `TableTrue` (`HidParser`): every control of a mouse or stick is in the table with the
  bits and usage the descriptor gives it; items share no bit; nested, repeated
  and saved state is kept apart.
* `HandFollowed` (`MouseEncoder`), `TiltShown` (`DeadZone`), `SwitchedByHold` and
  `PulsesGoOn` (`Autofire`), `DirectionsCurrent` (`IkbdPorts`), `KeysNamed` (`Labels`).
* `PictureTrue` (`Display` and `DebugPages`): the k-th character stands in the k-th cell
  and the panel is the buffer; the serial page has the last bytes logged, in
  order, within a period; a frame of the test page has every movement since the
  one before.

### Why the bounds are enough

In `SerialLink` every queue can be empty, in between and full, a byte can be in
every stage at once, and a fourth byte overflows; a deeper queue adds states but
no new guard, and the theorems do not depend on the depths (32, 32 and 32 in the
code). The liveness properties of `Chip` keep one place in each stage, which is
full after one byte and blocks the next. In `Timer6301` an instruction can cross
OCR, wrap, and do both; the theorems do not depend on `Base`. The programs of
`Cpu6301` pair every comparison with every branch on operands at the edges of
bytes and words, every decimal addition with DAA on digits at the carry, and put
every opcode, an interrupt and a wild pointer in between; `MaxCallstack` is 2 so
that the debug stack fills. In `HidHost` two combos fill the table and a third
device finds it full, a receiver fills it alone, and three sticks compete for two
ports; a keyboard alone is a combo without its second interface, and with it
takes part in `HidHostLive`. With two addresses and five slots all eight kinds
together keep `TypeAgrees` and `Reachable`. In `JoystickPorts` two devices suffice
for each to be in the other's way, to change places and to leave a ghost;
`MaxPads = 1` makes the list of controllers fill and refuse; with `MaxPads = 2`,
the code's value, the run is four times larger and finds the same. `Keyboard`
has a letter, a shifted letter, a shortcut, Caps Lock with a letter and a report
of too many keys, on two keyboards of which each takes another form of LED
report. `Menu` bounds the changes of settings, clock and devices (`MaxChanges`);
a page, an overlay and a cursor need none. In `Xinput` two addresses with three
kinds of pad nest two waits, which is the driver's own bound for two pads. The
descriptors of `HidParser` reach each limit (stack, usages, paths, items, report
IDs) and one past it. In `MouseEncoder` and `Autofire` the delays are below and
above a period, a hold is several polls, and the slowest and fastest speed occur.
`DebugPages` has two lines, a log of two places and periods of three updates, so
that the log drops, the lines scroll and a drawing is put off. Deadlock is
checked where the system never rests: `CHECK_DEADLOCK FALSE` stands in the runs of
`Chip` and `Drivers`, whose bounded parts end, and in `Cpu6301Daa`.

### Fairness

`SerialLink`: both cores run endless loops, and the UART shifts out what it holds.
Core 1 is strongly fair because a settings write parks it again and again but
never for ever (writes are at least 1.5 s apart). Of the ROM one thing is
assumed: it does not leave a byte in RDR unread for ever. Nothing is assumed of
the ST. `HidHost`: `tuh_task` returns, since its event queue is finite, and the
handlers run in turn; nothing is assumed of users or devices. `JoystickPorts`: the
main loop polls, and a device whose report is wanted reports. `Keyboard`,
`Autofire`: the main loop polls every 10 ms. `Menu`: it calls `update`.
`Xinput`: time passes, which ends every wait, and the call on top of the stack runs
on although events may come first, because `tuh_task` handles finitely many at a
time (strong fairness for each depth of the stack).

Two properties have conditions that deserve a word. `HeldStickShown` speaks of a
port that is *left to* a device: with a pad in line behind a stick the port is
taken between two reports (section 5). `OnePortEach` speaks of states without a
ghost in the list of controllers: a ghost entry keeps the address that another
device is given later. `TableTrue` excepts descriptors whose POP brings back
another report ID, and `TiltShown` a DualShock 4 whose D-pad is pressed, which
the code lets decide alone.

## 4. What is proved

All for every value of the constants, from the named assumptions on them.
`SerialLinkAssumption`: depths and slices are at least 1. `TimerAssumption`: a byte has
two values or more, an instruction takes fewer cycles than a word has values.
`ChipAssumption`: the ROM image and the device registers are bytes, a program is a
machine whose debug stack is in order. `PortsAssumption`, `AutofireAssumption`: bounds
and times are numbers. `PadsAssumption`: the class driver has room for a pad.
`MouseAssumption`: speeds -7 to 8, as the menu offers, times are numbers and the
fastest period is not longer than the slowest. `ZoneAssumption`, `StickAssumption`:
settings 0 to 15, reports of the width of their fields. `LiveAssumption`: depths are
numbers, periods at least 1. `PanelAssumption`: sizes are numbers, a glyph lies in the
cell of the font, the code points of a text go up to 10FFFF, a label of one bare
byte (80 to FF) does not follow another, and a light bar is drawn beside what is
there, as the pages draw it. `DescriptorAssumption`: the stack, the paths and the
report IDs have room for one, a descriptor consists of short items, and its first
report ID comes before its first field, as the HID standard has it. The parser
does not check the last: it would give that ID to the fields that had none.
`HidHostAssumption`,
`JoystickAssumption`, `KeyboardAssumption`: addresses are positive, there is a slot, the
kinds are those modelled, a key map names keys with one crossing of the matrix,
as the default map does. `MenuAssumption`, `RemapAssumption`: the remap pages are not
empty, hold keys the code offers there and do not begin with the scan code 96,
which `sc_is_iso_key` names: opening a page does not skip it.

* **`SerialLinkProofs`.** `Inductive`: `Spec => []IInv`. `IInv` is needed because
  none of the claims is inductive alone: that the SCI has no overrun rests on
  `HandoverFree` (RDR stays free from the test of `hd6301_sci_busy` to
  `hd6301_receive_byte`, since only core 1 writes it), and that bytes are read in
  order rests on `StagesOrdered` (all bytes in a stage are older than those in
  the stages behind it). The proof names, in lemma `Moves`, the eight things a
  step can do to the path (nothing, arrive, taken, queued, unqueued, given, read,
  discarded) and shows in `PathStep` that each keeps the order and the account of
  the bytes. From it `TypeCorrect`, `Overrun`, `TryAdd`, `ResetRequest`,
  `Transmitter`, `InOrder`, `Accounted`; and `Refinement`: `SerialLink`
  implements `ByteChannel`, each of the eight moves being a step of it or a
  stutter.
* **`ChipProofs`, the timer.** Types; `CompareKept` (a compare not yet seen by a read
  of TCSR is flagged), from an invariant that ties `tcsr_is_read` to the flag;
  `AckIsFresh`; and, as action properties, `Soundness` (the flag rises only when
  the counter has taken the value of OCR) and `MissesBounded` (a compare is
  missed only if the instruction wraps the counter and OCR lies before the
  wrap).
* **`ChipProofs`, the processor.** `StackKept`: `StackSound` for every image, program,
  interrupt and device. It is inductive as it stands; the work is that *every*
  operation of the instruction set takes a machine of the right shape with an
  ordered debug stack (`Good`) to one: one lemma for each, put together by addressing mode as
  `opcodetab` does. All that moves SP goes through `SetSp`, and `SetSpGood` shows
  that dropping the calls below the new SP keeps the rest in order.
  `HistoryKept`: the last instruction started at a good machine and had its
  `Effect` on the accumulators, flags or program counter (`Explained`). This
  invariant is what lets a property of two instructions in a row be proved:
  `BranchesOrdered` (`BranchesFollowOrder`) adds `SubOrders`, that after a subtraction of
  words of any width C, Z, N and V order the operands unsigned and as two's
  complement; `SumsKept` (`SumsTrue`) adds `SubPairs` and `AddPairs`, that two bytes
  chained by the carry are the word, and for DAA `HalfCarry`, that H is the carry
  out of the lower digits, and `DaaDigits`, the two corrections by cases on the
  digits. There the proof found the case of section 5.
* **`DriversProofs`.** One invariant for each part.
  *Ports*: `PortsInductive`, `PortsTyped`, `Current` (`DirectionsCurrent`). The published directions are at least
  as new as a published "mouse off", because `handle_joystick` stores them first,
  and this survives between the two looks of `dr4_getb`, because stamps only grow.
  *Autofire*: `FireInductive`, `Switched` (`SwitchedByHold`): the time of a hold is tied to
  that of the button (`HoldTimed`), the switch to the release that is awaited
  (`ReleaseAwaited`). *Dead zone*: `Tilted` (`TiltShown`), by the three scales of the
  setting, for each reader. *Encoder*: `Followed` (`HandFollowed`): `AxisInv` says that the
  steps since the poll have taken a period each, and that the period has the
  sign of the movement. *Pads*: `PadsSafe` (`PadsSound`): `PadsInv` says what each call on
  the stack may still be about, that every call but the last is in a wait, that
  no two are about one interface unless it is gone, and that an interface not
  listening is covered by a call that will ask.
  *Live pages, panel, parser*: `PagesLive`, `PictureShown` (`PictureTrue`) and `TablesTrue`
  (`TableTrue`), from the lemmas of the next module.
* **`PanelAndParserProofs`.** It begins with what stands in for induction over data: a set of
  numbers has a least one, so what holds of 0 and of each next number holds up to
  n (`Least`, `UpTo`); by it a fold over a sequence and a function defined by
  recursion exist and are what their definition says (`FoldExists`,
  `RecursionExists`). Sets and functions take the place of the operators that the
  library's theorems want.
  *Live pages*: both restrictions of `DebugPages` at once, through the
  specification `Live` that has all the steps of the two (`LiveStep`). `LogInv`: the
  lines and the queue behind them are an end of what was accepted, and all of it
  until the lines are full; what an end of an end, a longer end and a grown end
  are is a handful of lemmas on sequences. `PageInv`: what a page lags for is part
  of a period that is running (`SerialPaced`, `TestPaced`).
  *Panel*: what `Encode` writes of a code point is read back as that code point and
  no other, wherever it stands, and a bare byte as itself; so the characters of the
  bytes of a text are the characters of the text (`TextIsRead`). Each glyph lies in
  its cell and the cells stand side by side, so a text is its glyphs, an inverse one
  the bar without them, and a page the sum of its calls. `PanelInv` adds that the
  shadow is the buffer, or that a transfer failed and there is none; so sending only
  what differs from it shows the whole page.
  *Parser*: `ParserInv` has, while nothing has failed, that the paths were used in turn
  and the chain from the current one is the open collections (`PathsWell`,
  `NestedAs`), that no two reports have one ID (`ReportsWell`), that a report has as
  many bits as its fields (`Counted`), that items lie in their report one after the
  other (`Inside`), that every control was found at the sum of the fields before it
  (`FoundAll`), and that the interface is what a collection around the first varying
  field says, if one does (`FilterWell`). There is one lemma for each kind of
  item; a field with a count is a fold of one field at a time. The chain of paths
  needs the paths in turn: a parent comes before its children, so following
  parents ends.
* **`HidHostProofs`.** For any set of addresses, any number of slots, any of the kinds of
  device and with `Restless` either way: `Counters` (`CountsMatch`, which holds the
  types), `BuffersLive` (`DestLive`), `Forgotten` (`NothingLeft`), `PortOwners`
  (`PortsHeld`). The invariant is `Inductive`. It adds what the callbacks take for
  granted: a slot's interface is one TinyUSB has opened and not yet closed, two
  slots are never the same interface, a marked key is a mouse's. `Sound` gathers
  the clauses on a table, so that the table between the two halves of
  `tuh_hid_mount_cb` can be spoken of; `ArmedSound` is the one step the three
  handlers and the mount share, `UmountSound` the one that needs the most: the
  keys are released exactly when no other slot has the address.
  `Agree` (`TablesAgree`) has the hypothesis `Together`: nothing is removed during an
  enumeration, or no device has two interfaces; without it the claim is false
  (section 5). Its invariant says that the interfaces of a device stand in their
  order (`Ordered`) and before every free slot while it is enumerated (`Filling`),
  which is why a lookup by address finds the first.
* **`KeyboardProofs`.** `Inductive`; `Matched` (`KeysMatchHeld`), from what `key_states` holds
  between the two halves of the write and after it (`Halfway`, `Shows`), and that
  two keys of the default matrix share no crossing; `LedsTold` (`LedTrue`), from what the one
  transfer in progress can be (`Probing`) and what is known without one (`Known`);
  `Isolated` (`CaptureIsolated`).
* **`JoystickPortsProofs`.** `Apart` (`OnePortEach`), from the types and the fact that the
  port list never names a joystick twice, which assigning and releasing a place keep.
* **`MenuProofs`.** `Modes` (`ModesBelong`): only the cursors of the two menus have to be
  added, past whose end is no page. `Entries` (`EntryMeant`) and `Shown` (`ScreenTrue`) from
  `SInv`: ranges, and that a walk over a group stops on no entry the code skips,
  which under PL-PL is the ISO key (`SkipsIso`); for EN-US nothing follows.
  `Saved` (`SavesDurably`): `Menu` implements `DurableSettings`, with the settings in RAM
  for its value and the flash for what is saved. The refinement rests on two
  facts about a boot: each image it writes boots to the settings it ends with
  (`WritesBoot`), so a boot cut between two writes is taken up by the next, and on
  an image this version wrote it writes nothing (`Stays`).

Only model-checked, and why:

* *Liveness* (`ChannelProgress`, `ResetHappens`, `CrashRecovers`, `ReportsRead`,
  `Rearmed`, `HeldStickShown`, `SettingsSaved`, `SetupEnds`, `PulsesGoOn`): the
  prover does not do fairness.
* `ReturnsHome`: it holds for programs that leave the bytes between SP and their
  frames alone, and which bytes those are is a matter of the program; the run
  checks it on programs that do, and `StackKept` has what holds for all.
* `KeysNamed`: a statement about finite tables, which TLC evaluates in full.

## 5. Where the code and its words disagree

Shown by runs:

* `HidHostCombo`. `handle_mouse` finds the mouse interface of a combo under its
  marked key but tests, and re-arms, the plain address, which is the keyboard.
  The mouse's first report is never read and no further one is requested.
* `IkbdPortsPhantom`. `dr2_getb` reads the button byte twice; a release published in
  between makes it return 0, which reads as both buttons pressed.
* `Cpu6301Daa`. `daa_inh` corrects the lower digit and then looks at the upper one of
  the result, `(result & 0xf0) > 0x90` (`6301/opfunc.c:267`). If the first
  correction carried out of the byte the digit reads 0 and is left: 0x95 + 0x65
  gives 0x00 with a carry, not 0x60. It happens when the upper digits add up to 15
  and the lower ones, with the carry, to 10 to 15. The proof of the decimal sum
  failed at this case; `SumsKept` now says that there is no other.
* `DeadZoneRest`. At dead zone 0 the HID reader takes a stick at its centre for one
  pushed right and down.

Found while modelling, for which no run is kept. The models do what the code
does, and where a property would otherwise fail it says so.

*Emulated chip.* `6301/timer.c:94` misses a compare between the old counter and the
wrap when the same instruction wraps it (`MissedOnlyAtWrap` states exactly this,
and is proved). `6301/ireg.c:213`: both buttons together read as 6, which has the
bits of both *released*. `6301/memory.h:103` lets a program write the ROM image, which
no reset reloads, while `6301/6301.c:161` counts on a reset. `6301/6301.c:128` clears `ram[0 .. 0x7F]`
of an array that is indexed by address, whose RAM begins at 0x80: a reset clears
nothing (`docs/XRESET_IMPLEMENTED.md:78`, `:196` say it does; `Reset` keeps the
memory). Undefined opcodes
count no cycles, so a trap loop would never end a slice. `chip.h:82` has the SWI
vector at 0xFFFA, `swi_inh` takes 0xFFFC.

*USB.* A mouse without report information, alone at its address, is armed again and
again and never read (`HidInput_mouse.cpp:86`); a composite device whose mouse
interface comes first never registers its keyboard; a gamepad (usage 5) is
classified as a mouse (`docs/XRESET_COMPARISON.md:224` has it otherwise). If a
device can be removed while a combo is being enumerated, the combo's mouse takes
the freed lower slot and its plain key then finds the mouse
(`hid_app_host.c:117`; `Restless = TRUE` with combos violates `TypeAgrees`; TinyUSB
may exclude it). The LED probe hands a byte of its own stack frame to a transfer
that outlives it (`hid_app_host.c:439`). The Xbox driver's nested waits may add up
against the 5 s watchdog (`xinput_host.c:128`), and `docs/XBOX_IMPLEMENTATION_COMPLETE.md:374`
promises two pads on one receiver where `xinput_atari.cpp:66` keeps one an address.
In the parser a POP restores the report ID of the state table but not the sums of
bits it belongs to (`HIDParser.c:101`); a report count above 255 is cut to a byte;
usages fewer than the count are not repeated.

*Joysticks.* When Joy1's stick is pulled, Joy0's becomes Joy1 and its last direction
stays on Joy0; a third stick is never promoted (`HidInput_joystick.cpp:65`). A stick
is "not ready" between two reports, and `handle_joystick` then falls through to a
DualShock 4 or Xbox pad (`HidInput_joystick.cpp:361` against the comments at `:41`,
`:132`). `ps4_unmount_cb` has no caller, so a controller that was pulled keeps its
port (`ps4_controller.c:258`). Xbox pads count by address, not by order of
connection (`xinput_atari.cpp:77`). The last direction of a socket stays after the
switch to USB (`:366`). Axes of 10 or 12 bits are read as bytes centred on 0x80.
`JOY_DZ_MAX` is 15, its comments say 0x10; the guides give a fixed dead zone of
25 %. `process_autofire` is "called every cycle" by its comment; `handle_joystick`
leaves before it when the port has no USB source.

*Keyboard.* "Only the first mounted keyboard" by a comment; the code takes the first
that has *reported*. Modifiers are released for an instant in every poll, between
the two halves of the write of `key_states` (`HidInput_keyboard.cpp:401`), and
while a combination is captured its keys may stay as they were.
`HidInput_keyboard.cpp:434` keeps the label of the first key until all are up.

*User interface and settings.* Brightness 0, allowed by the menu, comes back as the
brightest (`NVSettings.cpp:122`), and the boot after it rewrites the flash with no
change waiting: a power cut then, between erasing and programming, loses all
settings, as it does in each of the up to six writes of `read` and `init`
after an update (`DurableSettings` allows both and nothing else). The splash page does not end by itself: nothing sets
`dirty` after its first frame (`UserInterface.cpp:876` says "auto 3s", the code is
at 1574). The Debug entry opens the test page, not the serial page (885 against
959). The test page's buttons are said to be latched for some frames and to
stand on the bottom row (756 and following); they are drawn as they are, both at
one place. At its end the dead zone slider overwrites the end marker its comment
protects (562). "Clear all" can be confirmed by the auto-repeat of the press
that asked. The slowest mouse speeds truncate small movements to nothing; the
comment's maximum of 3.0 is 2.6. Settings written before core 1 has announced
itself skip the lockout (`NVSettings.cpp:50`). `ssd1306_show` records a frame as
shown whether or not the bus took it (`ssd1306.c:401`). `SerialPort.cpp:31`:
`BUFFER_SIZE` is described and unused; the transmitter is announced while a
single place of the FIFO is free. `HidInput_common.cpp:49` speaks of a 50 ms timer
that polls; it only asks for redraws (`UserInterface.cpp:71`).

*Labels.* `layout_has_iso_key` (`st_key_layout_label.cpp:281`) excludes index 5, by its
header "EN-US", but `kLayouts[5]` is EN-UK: the British layout loses its ISO key
and the American one is offered it; the index comments of the tables are off by
one. `EntryMeant` excepts EN-US for this. PL-PL names two keys "Z", HU-HU two "ü", DE-DE two "-"; `KeysNamed` therefore
speaks of entries, which show both names. Pause and the codes from 0x65 show "?";
the keypad's Enter is in no remap group. `get_layout_label` (`:286`) is never called.

## 6. What is not modelled

* *Layout and wording* of the pages, the translated texts, the font, `get_translation`
  and the lines and bitmaps of the display driver: output no property is about.
* *GIP and XInput bytes* of the pads' set-up, USB strings, descriptors, and the debug
  functions of the drivers: `Xinput` counts the transfers.
* *The 6811 part* of `6301/opfunc.c` (from line 608), the debugger around the emulator
  (`symtab.c`, `fprinthe.c`, `tty.c`, the printing parts of `reg.c` and `callstac.c`):
  not compiled or not reached.
* `src/HidInput.cpp`, `src/xinput.c` and the sixteen single-layout tables
  `st_key_lookup_hid_*.cpp`: `CMakeLists.txt` does not build them.
* `hidparser/StdDescriptors.h`, `HIDClassCommon.h` and the other headers of the parser:
  vendored declarations.
* *The ROM program*. `SerialLink` and `Cpu6301` run any program; of the image only the
  scan table and the vectors are used. That the program acknowledges its
  interrupts and polls the matrix is assumed where a property needs it.
* *A torn sector*: a page of the flash that the cut left half erased or half
  programmed. A cut in a write finds the old image, a blank sector or the new one.
* *TinyUSB, the Pico SDK and the buses*: external, modelled by what the code relies on.

What a next step would do: compose `Keyboard`, `HidHost` and `JoystickPorts` over one
list of devices; bring the boot order (settings written before core 1 runs, the
watchdog) into `SerialLink`.
