--------------------------------- MODULE Xinput ---------------------------------
(***************************************************************************)
(* The Xbox pads: the class driver of xinput_host.c, its callbacks in      *)
(* main.cpp and the table that xinput_atari.cpp reads the pads from.       *)
(*                                                                         *)
(* Setting a pad up takes several transfers, and after each the driver     *)
(* waits inside tuh_task, which may deliver any other event meanwhile: a   *)
(* pad that must be initialised again, the removal of the very device that *)
(* is waited for, another device at its address.  The calls that wait so   *)
(* are frames of a stack, each with what it still has to do; only the last *)
(* runs.  A transfer may never complete: every wait gives up after         *)
(* XINPUT_TX_TIMEOUT_US.  TinyUSB is external: it enumerates one device at *)
(* a time, and forgets the transfers of a device that is removed.          *)
(***************************************************************************)
EXTENDS Sticks, SequencesExt

CONSTANTS
    Addrs,      \* USB addresses
    MaxInsts,   \* CFG_TUH_XINPUT
    Kinds,      \* kinds of device that are plugged in at each address
    Reports,    \* what the users of the pads do: a set of reports
    MaxDepth    \* bound: calls of the driver in progress

VARIABLES
    usb,        \* kind of the device at each address, or "none"
    inst,       \* _xinputh_dev: the interfaces opened at each address
    registered, \* xbox_controllers: the interface a pad is read from, or 0
    stack       \* the calls in progress

vars == <<usb, inst, registered, stack>>

-------------------------------------------------------------------------------
(* Reports. *)

\* The bit of each button in the reports of xinputh_xfer_cb.
Bits360 == [up |-> 0, down |-> 1, left |-> 2, right |-> 3, start |-> 4, back |-> 5,
            lthumb |-> 6, rthumb |-> 7, lshoulder |-> 8, rshoulder |-> 9, guide |-> 10,
            a |-> 12, b |-> 13, x |-> 14, y |-> 15]
BitsOne == [up |-> 8, down |-> 9, left |-> 10, right |-> 11, start |-> 2, back |-> 3,
            lthumb |-> 14, rthumb |-> 15, lshoulder |-> 12, rshoulder |-> 13,
            a |-> 4, b |-> 5, x |-> 6, y |-> 7]
BitsOg == [up |-> 0, down |-> 1, left |-> 2, right |-> 3, start |-> 4, back |-> 5,
           lthumb |-> 6, rthumb |-> 7]
BitsOf(type) == CASE type = "one" -> BitsOne [] type = "og" -> BitsOg
                  [] type \in {"wired", "wireless"} -> Bits360

\* xinputh_xfer_cb: a report has its button bits, on an original Xbox pad the
\* pressure of each face button, the right trigger (10 bits on an Xbox One pad)
\* and the left stick as 16-bit words.
Decode(type, r) ==
    LET bits == BitsOf(type)
    IN  [buttons |-> {n \in DOMAIN bits : bits[n] \in r.bits}
                     \cup (IF type = "og" THEN {n \in DOMAIN r.pressure : r.pressure[n] > 32}
                           ELSE {}),
         trigger |-> IF type = "one" THEN r.trigger \div 4 ELSE r.trigger,
         x |-> Signed16(r.x), y |-> Signed16(r.y)]

-------------------------------------------------------------------------------
(* The stack of calls. *)

\* xinputh_open: the interfaces of a device, as many as the driver has room for.
Interfaces(kind) ==
    CASE kind = "receiver" -> <<"wireless", "wireless", "wireless", "wireless">>
      [] kind \in {"pdp", "one_s"} -> <<"one">>
      [] OTHER -> <<kind>>
Opened(kind) ==
    [i \in 1 .. (IF Len(Interfaces(kind)) < MaxInsts THEN Len(Interfaces(kind)) ELSE MaxInsts) |->
        [type |-> Interfaces(kind)[i], connected |-> FALSE, pad |-> NoPad,
         in |-> FALSE, out |-> FALSE]]

IsOpen(a, i) == i \in DOMAIN inst[a]
Top == Last(stack)
Op == Head(Top.todo)
Running(op) == stack # <<>> /\ Op = op
InTask == stack # <<>> => Op = "wait"

Frame(kind, a, i, todo) ==
    [kind |-> kind, a |-> a, i |-> i, todo |-> todo, late |-> FALSE, gone |-> FALSE]

\* xboxone_init: two messages, a third for the Xbox One S pad, two more for PDP.
OneInit(kind) ==
    LET SendWait(n) == [j \in 1 .. 2 * n |-> IF j % 2 = 1 THEN "send" ELSE "wait"]
    IN  CASE kind = "one_s" -> SendWait(3) [] kind = "pdp" -> SendWait(4) [] OTHER -> SendWait(2)

\* xinputh_set_config
Setup(kind, type) ==
    (CASE type = "wireless" -> <<"send", "wait">>
       [] type = "one" -> OneInit(kind)
       [] OTHER -> <<>>) \o <<"mount", "complete">>
ConfigFrame(kind, a, i, type) == Frame("config", a, i, Setup(kind, type))
SetConnected(itfs, i) == [itfs EXCEPT ![i].connected = itfs[i].type # "wireless"]

\* The running call does more, then what it had to do; a call with nothing
\* left returns.
Continue(more) ==
    LET todo == more \o Tail(Top.todo)
    IN  stack' = IF todo = <<>> THEN Front(stack)
                 ELSE Append(Front(stack), [Top EXCEPT !.todo = todo, !.late = FALSE])

-------------------------------------------------------------------------------
(* What a call does. *)

\* tuh_xinput_send_report; an interface that was closed refuses it.
CanSend == IsOpen(Top.a, Top.i) /\ ~inst[Top.a][Top.i].out
SetOut == inst' = [inst EXCEPT ![Top.a][Top.i].out = TRUE]

Send ==
    /\ Running("send")
    /\ IF CanSend THEN SetOut ELSE UNCHANGED inst
    /\ Continue(<<>>)
    /\ UNCHANGED <<usb, registered>>

\* wait_for_tx_complete
SentOrLost == ~(IsOpen(Top.a, Top.i) /\ inst[Top.a][Top.i].out)
WaitForever ==
    /\ Running("wait")
    /\ SentOrLost
    /\ Continue(<<>>)
    /\ UNCHANGED <<usb, inst, registered>>
Wait ==
    /\ Running("wait")
    /\ SentOrLost \/ Top.late
    /\ Continue(<<>>)
    /\ UNCHANGED <<usb, inst, registered>>

\* tuh_xinput_mount_cb
MountSilent ==
    /\ Running("mount")
    /\ registered' = [registered EXCEPT ![Top.a] = Top.i]
    /\ IF IsOpen(Top.a, Top.i) /\ inst[Top.a][Top.i].type = "wireless"
                               /\ ~inst[Top.a][Top.i].connected
       THEN Continue(<<>>)
       ELSE Continue(<<"led", "rumble", "receive">>)
    /\ UNCHANGED <<usb, inst>>
Mount ==
    /\ Running("mount")
    /\ registered' = [registered EXCEPT ![Top.a] = Top.i]
    /\ IF IsOpen(Top.a, Top.i) /\ inst[Top.a][Top.i].type = "wireless"
                               /\ ~inst[Top.a][Top.i].connected
       THEN Continue(<<"receive">>)
       ELSE Continue(<<"led", "rumble", "receive">>)
    /\ UNCHANGED <<usb, inst>>

\* tuh_xinput_set_led and tuh_xinput_set_rumble wait only for what they sent.
Knows(op) == CASE op = "led" -> {"wired", "wireless"}
               [] op = "rumble" -> {"wired", "wireless", "one", "og"}
SetLedOrRumble ==
    /\ stack # <<>> /\ Op \in {"led", "rumble"}
    /\ IF CanSend /\ inst[Top.a][Top.i].type \in Knows(Op)
       THEN SetOut /\ Continue(<<"wait">>)
       ELSE UNCHANGED inst /\ Continue(<<>>)
    /\ UNCHANGED <<usb, registered>>

\* tuh_xinput_receive_report
Receive ==
    /\ Running("receive")
    /\ inst' = IF IsOpen(Top.a, Top.i) THEN [inst EXCEPT ![Top.a][Top.i].in = TRUE] ELSE inst
    /\ Continue(<<>>)
    /\ UNCHANGED <<usb, registered>>

\* usbh_driver_set_config_complete goes on with the next interface.
Complete ==
    LET a == Top.a
        i == Top.i + 1
    IN  /\ Running("complete")
        /\ IF IsOpen(a, i)
           THEN /\ inst' = [inst EXCEPT ![a] = SetConnected(@, i)]
                /\ stack' = Append(Front(stack), ConfigFrame(usb[a], a, i, inst[a][i].type))
           ELSE UNCHANGED inst /\ stack' = Front(stack)
        /\ UNCHANGED <<usb, registered>>

Step == Send \/ Wait \/ Mount \/ SetLedOrRumble \/ Receive \/ Complete

\* time_us_32: the calls that wait have begun to in the order of the stack.
Clock ==
    \E k \in DOMAIN stack :
        /\ ~stack[k].late /\ Head(stack[k].todo) = "wait"
        /\ stack' = [j \in DOMAIN stack |->
                        IF j <= k THEN [stack[j] EXCEPT !.late = TRUE] ELSE stack[j]]
        /\ UNCHANGED <<usb, inst, registered>>

-------------------------------------------------------------------------------
(* Events that tuh_task delivers. *)

Enumerate(a, kind) ==
    /\ InTask /\ Len(stack) < MaxDepth
    /\ usb[a] = "none"
    /\ \A k \in DOMAIN stack : stack[k].kind = "config" => stack[k].gone
    /\ usb' = [usb EXCEPT ![a] = kind]
    /\ inst' = [inst EXCEPT ![a] = SetConnected(Opened(kind), 1)]
    /\ stack' = Append(stack, ConfigFrame(kind, a, 1, Opened(kind)[1].type))
    /\ UNCHANGED registered

\* xinputh_close and tuh_xinput_umount_cb
CloseKeepsState(a) ==
    /\ InTask
    /\ usb[a] # "none"
    /\ usb' = [usb EXCEPT ![a] = "none"]
    /\ stack' = [k \in DOMAIN stack |->
                    IF stack[k].a = a THEN [stack[k] EXCEPT !.gone = TRUE] ELSE stack[k]]
    /\ registered' = [registered EXCEPT ![a] = 0]
    /\ UNCHANGED inst
Close(a) ==
    /\ InTask
    /\ usb[a] # "none"
    /\ usb' = [usb EXCEPT ![a] = "none"]
    /\ stack' = [k \in DOMAIN stack |->
                    IF stack[k].a = a THEN [stack[k] EXCEPT !.gone = TRUE] ELSE stack[k]]
    /\ registered' = [registered EXCEPT ![a] = 0]
    /\ inst' = [inst EXCEPT ![a] = <<>>]

\* xinputh_xfer_cb for an OUT transfer: nothing is told of it.
Sent(a, i) ==
    /\ InTask /\ IsOpen(a, i) /\ inst[a][i].out
    /\ inst' = [inst EXCEPT ![a][i].out = FALSE]
    /\ UNCHANGED <<usb, registered, stack>>

\* xinputh_xfer_cb for an IN transfer; tuh_xinput_report_received_cb registers
\* the pad, and it or the driver asks for the next report.
Arrives(a, i) == InTask /\ IsOpen(a, i) /\ inst[a][i].in
Again(a, i, itf) == inst' = [inst EXCEPT ![a][i] = [itf EXCEPT !.in = TRUE]]

InputReceived(a, i, r) ==
    /\ Arrives(a, i)
    /\ inst[a][i].connected
    /\ Again(a, i, [inst[a][i] EXCEPT !.pad = Decode(inst[a][i].type, r)])
    /\ registered' = [registered EXCEPT ![a] = i]
    /\ UNCHANGED <<usb, stack>>

TransferFailed(a, i) ==
    /\ Arrives(a, i)
    /\ Again(a, i, inst[a][i])
    /\ registered' = [registered EXCEPT ![a] = i]
    /\ UNCHANGED <<usb, stack>>

\* A wireless pad is switched on or off.
LinkReceived(a, i, on) ==
    /\ Arrives(a, i)
    /\ inst[a][i].type = "wireless" /\ inst[a][i].connected # on
    /\ Again(a, i, [inst[a][i] EXCEPT !.connected = on])
    /\ UNCHANGED <<usb, registered, stack>>

\* An Xbox One pad has started again: it is initialised, then read.
AnnounceWhileReading(a, i) ==
    /\ Arrives(a, i)
    /\ inst[a][i].type = "one" /\ Len(stack) < MaxDepth
    /\ Again(a, i, inst[a][i])
    /\ stack' = Append(stack, Frame("announce", a, i, OneInit(usb[a]) \o <<"receive">>))
    /\ UNCHANGED <<usb, registered>>
AnnounceReceived(a, i) ==
    /\ Arrives(a, i)
    /\ inst[a][i].type = "one" /\ Len(stack) < MaxDepth
    /\ inst' = [inst EXCEPT ![a][i].in = FALSE]
    /\ stack' = Append(stack, Frame("announce", a, i, OneInit(usb[a]) \o <<"receive">>))
    /\ UNCHANGED <<usb, registered>>

\* The guide button of an Xbox One pad, which is a message of its own.
GuideReceived(a, i, down) ==
    /\ Arrives(a, i)
    /\ inst[a][i].type = "one" /\ ("guide" \in inst[a][i].pad.buttons) # down
    /\ Again(a, i, [inst[a][i] EXCEPT !.pad.buttons =
                        IF down THEN @ \cup {"guide"} ELSE @ \ {"guide"}])
    /\ registered' = [registered EXCEPT ![a] = i]
    /\ UNCHANGED <<usb, stack>>

-------------------------------------------------------------------------------
\* xinputh_init
Init ==
    /\ usb = [a \in Addrs |-> "none"]
    /\ inst = [a \in Addrs |-> <<>>]
    /\ registered = [a \in Addrs |-> 0]
    /\ stack = <<>>

Event(a) ==
    \/ \E kind \in Kinds[a] : Enumerate(a, kind)
    \/ Close(a)
    \/ \E i \in 1 .. MaxInsts :
        \/ Sent(a, i) \/ TransferFailed(a, i) \/ AnnounceReceived(a, i)
        \/ \E r \in Reports : InputReceived(a, i, r)
        \/ \E on \in BOOLEAN : LinkReceived(a, i, on) \/ GuideReceived(a, i, on)

Next == Step \/ Clock \/ \E a \in Addrs : Event(a)

Spec == Init /\ [][Next]_vars

\* The clock goes on, and each call gets on that is the last one time and again:
\* a loop that waits looks at the clock whenever tuh_task returns.
Fairness ==
    /\ WF_vars(Clock)
    /\ \A d \in 1 .. MaxDepth : SF_vars(Len(stack) = d /\ Step)

-------------------------------------------------------------------------------
(* Properties. *)

\* The stack is bounded by the driver itself, not only by MaxDepth: no pad has
\* two calls in progress, so that tuh_task is never nested deeper than there
\* are pads (but for devices removed while they are waited for).
OneCallPerPad ==
    \A j, k \in DOMAIN stack :
        j < k /\ ~stack[j].gone /\ ~stack[k].gone
            => <<stack[j].a, stack[j].i>> # <<stack[k].a, stack[k].i>>

\* A pad never falls silent: each interface waits for a report, or a call in
\* progress will ask for one, whatever was refused, failed or timed out.
Listening ==
    \A a \in Addrs : \A i \in DOMAIN inst[a] :
        inst[a][i].in \/ \E k \in DOMAIN stack :
            /\ ~stack[k].gone /\ stack[k].a = a
            /\ stack[k].i = i \/ (stack[k].kind = "config" /\ stack[k].i < i)

\* xinput_to_atari_joystick: the pad an address stands for.
Seen == {a \in Addrs : registered[a] \in DOMAIN inst[a] /\ inst[a][registered[a]].connected}

\* No joystick port is driven by a pad that was pulled, even while its set-up
\* was waiting for it.
NoGhostPad == \A a \in Seen : usb[a] # "none"

\* What makes the pads safe to read and to wait for, together.
PadsSound == OneCallPerPad /\ Listening /\ NoGhostPad

\* No call of the driver keeps the main loop for good, whatever the devices do
\* or leave undone: every transfer may be lost, and a pad be announced, pulled or
\* exchanged while another one is waited for.
SetupEnds == stack # <<>> ~> stack = <<>>
================================================================================
