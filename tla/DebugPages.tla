------------------------------- MODULE DebugPages -------------------------------
(***************************************************************************)
(* The two live pages of the user interface.  The serial page lists the     *)
(* last bytes exchanged with the ST: core 1 logs the ones it sends and core *)
(* 0 the ones it receives into a queue that drops what does not fit, and    *)
(* update moves them to the lines of the page.  The test page shows where   *)
(* the mouse moved and what is held; a timer asks for its next frame.       *)
(*                                                                         *)
(* Time is counted in calls of update, one every 10 ms (main).              *)
(***************************************************************************)
EXTENDS Integers, SequencesExt

CONSTANTS
  Pages,         \* the pages that are visited: "serial", "mouse_debug", "other"
  LogDepth,      \* places in serial_log_q
  LogLines,      \* lines of the serial page
  SerialPeriod,  \* updates between two drawings of the serial page (500 ms)
  TimerPeriod,   \* updates between two expiries of dz_timer (50 ms)
  Events,        \* what is logged: a direction and a byte
  Moves,         \* the way a mouse report moves on each axis, -1, 0 or 1
  Helds          \* the key and the mouse buttons that are held

VARIABLES
  page, asleep, dirty,
  log, lines, shown,    \* serial_log_q, serial_lines, and the lines on the panel
  since,                \* updates since serial_tm, up to SerialPeriod
  requested, elapsed,   \* mouse_dbg_dirty_requested; updates since the timer's last expiry
  debug, held, frame,   \* mouse_debug_dx, mouse_debug_dy; what is held; the test page drawn last
  recent, behind,       \* history: the last events accepted; updates the panel lags the lines for
  moved, due, lag       \* history: the last movement on each axis since a frame, the one
                        \* the last frame stands for, updates the test page lags for

logVars == <<log, lines, shown, since, recent, behind>>
mouseVars == <<requested, elapsed, debug, held, frame, moved, due, lag>>
vars == <<page, asleep, dirty, logVars, mouseVars>>

Still == [a \in {"x", "y"} |-> 0]
LastOf(s, n) == SubSeq(s, IF Len(s) > n THEN Len(s) - n + 1 ELSE 1, Len(s))

Init ==
  /\ page = "other" /\ asleep = FALSE /\ dirty = TRUE
  /\ log = <<>> /\ lines = <<>> /\ shown = <<>> /\ since = 0
  /\ requested = FALSE /\ elapsed = 0
  /\ debug = Still /\ held \in Helds
  /\ frame = [arrow |-> Still, held |-> held]
  /\ recent = <<>> /\ behind = 0
  /\ moved = Still /\ due = Still /\ lag = 0

-------------------------------------------------------------------------------
(* Both cores log: the queue takes an event whole, or drops it when full. *)

serial(e) ==
  /\ IF Len(log) < LogDepth
     THEN /\ log' = Append(log, e)
          /\ recent' = LastOf(Append(recent, e), LogDepth + LogLines)
     ELSE UNCHANGED <<log, recent>>
  /\ UNCHANGED <<page, asleep, dirty, lines, shown, since, behind, mouseVars>>

\* The polls of the mouse and the keyboard, in the main loop before update.
set_mouse_debug_delta(m) ==
  /\ debug' = [a \in {"x", "y"} |-> IF m[a] # 0 THEN m[a] ELSE debug[a]]
  /\ moved' = [a \in {"x", "y"} |-> IF m[a] # 0 THEN m[a] ELSE moved[a]]
  /\ UNCHANGED <<page, asleep, dirty, logVars, requested, elapsed, held, frame, due, lag>>

SetHeld(h) ==
  /\ held' = h
  /\ UNCHANGED <<page, asleep, dirty, logVars, requested, elapsed, debug, frame, moved, due, lag>>

\* The interrupt of dz_timer, late by at most an update.
deadzone_timer_cb ==
  /\ elapsed >= TimerPeriod - 1
  /\ requested' = TRUE /\ elapsed' = 0
  /\ UNCHANGED <<page, asleep, dirty, logVars, debug, held, frame, moved, due, lag>>

\* A button wakes the panel or turns the page (the pages are those of Menu).
Turn(p) ==
  /\ IF asleep THEN asleep' = FALSE /\ UNCHANGED page ELSE page' = p /\ UNCHANGED asleep
  /\ dirty' = TRUE
  /\ behind' = 0 /\ lag' = 0
  /\ UNCHANGED <<log, lines, shown, since, recent, requested, elapsed, debug, held, frame, moved, due>>

-------------------------------------------------------------------------------
(* An update, which drains the log first, asleep or not. *)

drain_serial_log ==
  /\ lines' = LastOf(lines \o log, LogLines)
  /\ log' = <<>>

update_serial == shown' = lines'

update_mouse_debug ==
  /\ frame' = [arrow |-> debug, held |-> held]
  /\ debug' = Still
  /\ due' = moved /\ moved' = Still

NoFrame == UNCHANGED <<frame, debug, moved, due>>

Logged == log # <<>> /\ page = "serial"
Requested == requested /\ page = "mouse_debug"

DrawSerialOnce ==
  /\ NoFrame
  /\ dirty' = FALSE
  /\ IF since + 1 >= SerialPeriod
     THEN update_serial /\ since' = 0
     ELSE UNCHANGED shown /\ since' = since + 1
\* The serial page waits for its period, and asks again until it is over.
DrawSerial ==
  /\ NoFrame
  /\ IF since + 1 >= SerialPeriod
     THEN update_serial /\ since' = 0 /\ dirty' = FALSE
     ELSE UNCHANGED shown /\ since' = since + 1 /\ dirty' = TRUE

Later == since' = IF since < SerialPeriod THEN since + 1 ELSE since

\* The panel falls asleep in an update, and nothing more is done in it: the
\* request of the timer waits.
Rest ==
  /\ asleep' = TRUE
  /\ NoFrame /\ Later
  /\ dirty' = (dirty \/ Logged)
  /\ UNCHANGED <<requested, shown>>

Draw ==
  /\ ~asleep /\ UNCHANGED asleep
  /\ requested' = FALSE
  /\ IF ~(dirty \/ Logged \/ Requested)
     THEN NoFrame /\ Later /\ dirty' = FALSE /\ UNCHANGED shown
     ELSE \/ page = "serial" /\ DrawSerial
          \/ page = "mouse_debug" /\ update_mouse_debug /\ Later /\ dirty' = FALSE /\ UNCHANGED shown
          \/ page = "other" /\ NoFrame /\ Later /\ dirty' = FALSE /\ UNCHANGED shown

update ==
  /\ elapsed < TimerPeriod
  /\ elapsed' = elapsed + 1
  /\ drain_serial_log
  /\ (Rest \/ Draw)
  /\ behind' = IF page = "serial" /\ ~asleep' /\ shown' # lines' THEN behind + 1 ELSE 0
  /\ lag' = IF page = "mouse_debug" /\ ~asleep' /\ (debug' # Still \/ frame'.held # held)
            THEN lag + 1 ELSE 0
  /\ UNCHANGED <<page, held, recent>>

Next ==
  \/ \E e \in Events : serial(e)
  \/ \E m \in Moves : set_mouse_debug_delta(m)
  \/ \E h \in Helds : SetHeld(h)
  \/ deadzone_timer_cb
  \/ \E p \in Pages : Turn(p)
  \/ update

Spec == Init /\ [][Next]_vars

-------------------------------------------------------------------------------
(* Properties. *)

\* The lines are the last bytes the log took, in the order in which it took
\* them from the two cores, but for those still in the queue.
LogInOrder ==
  /\ lines \o log = LastOf(recent, Len(lines) + Len(log))
  /\ Len(lines) < LogLines => Len(recent) = Len(lines) + Len(log)

\* What is logged while the serial page is on gets on the panel within a period,
\* even if nothing is logged after it.
LogShown ==
  /\ behind < SerialPeriod
  /\ page = "serial" /\ ~asleep /\ ~dirty => shown = lines

\* A frame of the test page has an arrow for each axis that moved since the
\* frame before, the way it moved last, however many polls without movement
\* came in between; and what moves or is held while the page is on gets on the
\* panel within a period of the timer.
FramesCurrent ==
  /\ frame.arrow = due
  /\ lag < TimerPeriod

LivePagesTrue == LogInOrder /\ LogShown /\ FramesCurrent
================================================================================
