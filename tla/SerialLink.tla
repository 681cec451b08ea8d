----------------------------- MODULE SerialLink ------------------------------
(***************************************************************************)
(* The serial path between the Atari ST and the emulated HD6301, across     *)
(* the two cores of the RP2040.                                             *)
(*                                                                         *)
(*   ST --> UART RX FIFO --core 0--> st_rx_queue --core 1--> SCI --> CPU    *)
(*   ST <-- UART TX FIFO <--core 1 (uart_putc)-- SCI <-- CPU               *)
(*                                                                         *)
(* Core 0 runs the main loop: it drains the UART, then does its 10 ms work, *)
(* in which a key press may ask for a reset of the emulation and a settings *)
(* write may park core 1.  Core 1 feeds the SCI, runs one slice of          *)
(* instructions, and resets the emulation when asked to or after a crash.   *)
(* The program the CPU runs (the ROM image) is not modelled: it is any      *)
(* sequence of register accesses, interrupts and wild jumps.  A step is one *)
(* access to state that both cores, or a core and the hardware, share.      *)
(***************************************************************************)
EXTENDS Sci, Order, SequencesExt

CONSTANTS
  RxDepth,   \* bytes the UART receive FIFO holds (32 on the RP2040)
  QDepth,    \* ST_RX_QUEUE_DEPTH
  TxDepth,   \* bytes the UART transmit FIFO holds (32)
  Slice,     \* instructions in CYCLES_PER_LOOP cycles
  MaxSend   \* bound: bytes the ST sends in a behaviour

ASSUME SerialLinkAssumption ==
  /\ RxDepth \in Nat \ {0}
  /\ QDepth \in Nat \ {0}
  /\ TxDepth \in Nat \ {0}
  /\ Slice \in Nat \ {0}
  /\ MaxSend \in Nat

VARIABLES
  rxFifo,       \* UART receive FIFO
  c0,           \* where core 0 is in its loop
  hand0,        \* `data` of handle_rx_from_st
  rxQueue,      \* st_rx_queue
  c1,           \* where core 1 is in its loop
  hand1,        \* `data` of feed_hd6301_from_queue
  sci,          \* iram[TRCSR] and iram[RDR]
  iflag,        \* interrupt mask of the CPU
  wild,         \* the program counter is outside 0x80..0xFFFE
  crashed,      \* the global of that name
  budget,       \* instructions left in this slice
  pendingReset, \* pending_reset, written by both cores
  parked,       \* core 1 sits in its multicore-lockout handler
  txFifo,       \* number of bytes in the UART transmit FIFO
  \* History: what has become of the bytes and of the requests.
  sent,         \* number of bytes the ST has sent
  read,         \* bytes the CPU has read from RDR, in order
  overflowed,   \* bytes the UART dropped because its FIFO was full
  discarded,    \* bytes that were in RDR when the emulation was reset
  resetOwed,    \* a reset was requested and none has happened since
  freshTdre     \* TDRE stems from a reset, not yet from the port having room

core0Vars == <<c0, hand0>>
cpuVars   == <<iflag, wild, crashed, budget>>
fateVars  == <<read, overflowed, discarded>>
vars == <<rxFifo, core0Vars, rxQueue, c1, hand1, sci, cpuVars, pendingReset,
          parked, txFifo, sent, fateVars, resetOwed, freshTdre>>

Core0Steps == {"poll", "hold", "work", "flash"}
Core1Steps == {"setup", "feed", "give", "tx", "run", "clear", "reset",
               "exec", "putc"}

(***************************************************************************)
(* Core 1 is launched and has made itself a lockout victim (its first call) *)
(* before the first 10 ms tick of core 0; the model starts there.           *)
(***************************************************************************)
Init ==
  /\ rxFifo = <<>>
  /\ c0 = "poll" /\ hand0 = 0
  /\ rxQueue = <<>>
  /\ c1 = "setup" /\ hand1 = 0
  /\ sci = SciZero
  /\ iflag = FALSE /\ wild = FALSE /\ crashed = FALSE /\ budget = 0
  /\ pendingReset = FALSE /\ parked = FALSE
  /\ txFifo = 0
  /\ sent = 0
  /\ read = <<>> /\ overflowed = {} /\ discarded = {}
  /\ resetOwed = FALSE /\ freshTdre = FALSE

-------------------------------------------------------------------------------
(* Hardware: the ST's transmitter and the two halves of the UART. *)

StSend ==
  /\ sent < MaxSend
  /\ sent' = sent + 1
  /\ IF Len(rxFifo) < RxDepth
       THEN rxFifo' = Append(rxFifo, sent + 1) /\ UNCHANGED overflowed
       ELSE overflowed' = overflowed \cup {sent + 1} /\ UNCHANGED rxFifo
  /\ UNCHANGED <<core0Vars, rxQueue, c1, hand1, sci, cpuVars, pendingReset,
                 parked, txFifo, read, discarded, resetOwed, freshTdre>>

UartShift ==
  /\ txFifo > 0
  /\ txFifo' = txFifo - 1
  /\ UNCHANGED <<rxFifo, core0Vars, rxQueue, c1, hand1, sci, cpuVars,
                 pendingReset, parked, sent, fateVars, resetOwed, freshTdre>>

-------------------------------------------------------------------------------
(* Core 0: handle_rx_from_st and the rest of the main loop. *)

Core0Unchanged == UNCHANGED <<c1, hand1, sci, cpuVars, txFifo, sent, fateVars,
                              freshTdre>>

\* The loop condition: the queue is tested first, then a byte is taken.
RxTakeUnguarded ==
  /\ c0 = "poll"
  /\ rxFifo # <<>>
  /\ hand0' = Head(rxFifo)
  /\ rxFifo' = Tail(rxFifo)
  /\ c0' = "hold"
  /\ UNCHANGED <<rxQueue, pendingReset, parked, resetOwed>>
  /\ Core0Unchanged
RxTake ==
  /\ c0 = "poll"
  /\ Len(rxQueue) < QDepth
  /\ rxFifo # <<>>
  /\ hand0' = Head(rxFifo)
  /\ rxFifo' = Tail(rxFifo)
  /\ c0' = "hold"
  /\ UNCHANGED <<rxQueue, pendingReset, parked, resetOwed>>
  /\ Core0Unchanged

\* queue_try_add: its result is ignored, a full queue would lose the byte.
RxAddFront ==
  /\ c0 = "hold"
  /\ rxQueue' = IF Len(rxQueue) < QDepth THEN <<hand0>> \o rxQueue ELSE rxQueue
  /\ c0' = "poll"
  /\ UNCHANGED <<rxFifo, hand0, pendingReset, parked, resetOwed>>
  /\ Core0Unchanged
RxAdd ==
  /\ c0 = "hold"
  /\ rxQueue' = IF Len(rxQueue) < QDepth THEN Append(rxQueue, hand0) ELSE rxQueue
  /\ c0' = "poll"
  /\ UNCHANGED <<rxFifo, hand0, pendingReset, parked, resetOwed>>
  /\ Core0Unchanged

RxDone ==
  /\ c0 = "poll"
  /\ Len(rxQueue) >= QDepth \/ rxFifo = <<>>
  /\ c0' = "work"
  /\ UNCHANGED <<rxFifo, hand0, rxQueue, pendingReset, parked, resetOwed>>
  /\ Core0Unchanged

\* handle_keyboard sees Ctrl+F11: hd6301_trigger_reset.
TriggerReset ==
  /\ c0 = "work"
  /\ pendingReset' = TRUE
  /\ resetOwed' = TRUE
  /\ UNCHANGED <<rxFifo, core0Vars, rxQueue, parked>>
  /\ Core0Unchanged

WorkDone ==
  /\ c0 = "work"
  /\ c0' = "poll"
  /\ UNCHANGED <<rxFifo, hand0, rxQueue, pendingReset, parked, resetOwed>>
  /\ Core0Unchanged

\* NVSettings::write, from ui.update (the last call of the loop body):
\* core 1 is parked while the flash is erased and programmed.
FlashBegin ==
  /\ c0 = "work"
  /\ parked' = TRUE
  /\ c0' = "flash"
  /\ UNCHANGED <<rxFifo, hand0, rxQueue, pendingReset, resetOwed>>
  /\ Core0Unchanged

FlashEndStillParked ==
  /\ c0 = "flash"
  /\ c0' = "poll"
  /\ UNCHANGED <<rxFifo, hand0, rxQueue, pendingReset, parked, resetOwed>>
  /\ Core0Unchanged
FlashEnd ==
  /\ c0 = "flash"
  /\ parked' = FALSE
  /\ c0' = "poll"
  /\ UNCHANGED <<rxFifo, hand0, rxQueue, pendingReset, resetOwed>>
  /\ Core0Unchanged

-------------------------------------------------------------------------------
(* Core 1: feed the SCI, poll the transmitter, run one slice. *)

Core1Unchanged == UNCHANGED <<rxFifo, core0Vars, parked, sent, overflowed>>
At(step) == ~parked /\ c1 = step

\* The loop condition of feed_hd6301_from_queue.
FeedTakeWhenBusy ==
  /\ At("feed")
  /\ rxQueue # <<>>
  /\ hand1' = Head(rxQueue)
  /\ rxQueue' = Tail(rxQueue)
  /\ c1' = "give"
  /\ UNCHANGED <<sci, cpuVars, pendingReset, txFifo, read, discarded,
                 resetOwed, freshTdre>>
  /\ Core1Unchanged
FeedTake ==
  /\ At("feed")
  /\ ~SciBusy(sci)
  /\ rxQueue # <<>>
  /\ hand1' = Head(rxQueue)
  /\ rxQueue' = Tail(rxQueue)
  /\ c1' = "give"
  /\ UNCHANGED <<sci, cpuVars, pendingReset, txFifo, read, discarded,
                 resetOwed, freshTdre>>
  /\ Core1Unchanged

\* hd6301_receive_byte.
FeedGive ==
  /\ At("give")
  /\ sci' = SciIn(sci, hand1)
  /\ c1' = "feed"
  /\ UNCHANGED <<rxQueue, hand1, cpuVars, pendingReset, txFifo, read, discarded,
                 resetOwed, freshTdre>>
  /\ Core1Unchanged

FeedDone ==
  /\ At("feed")
  /\ SciBusy(sci) \/ rxQueue = <<>>
  /\ c1' = "tx"
  /\ UNCHANGED <<rxQueue, hand1, sci, cpuVars, pendingReset, txFifo, read,
                 discarded, resetOwed, freshTdre>>
  /\ Core1Unchanged

\* hd6301_tx_empty(send_buf_empty()): the UART can take a byte.
SendBufEmpty == txFifo < TxDepth

TxPoll ==
  /\ At("tx")
  /\ sci' = TxEmpty(sci, SendBufEmpty)
  /\ freshTdre' = (freshTdre /\ ~SendBufEmpty)
  /\ c1' = "run"
  /\ UNCHANGED <<rxQueue, hand1, cpuVars, pendingReset, txFifo, read, discarded,
                 resetOwed>>
  /\ Core1Unchanged

\* The head of hd6301_run_clocks: a requested reset first, then the recovery
\* from a crash, then a slice.
RunClocks ==
  /\ At("run")
  /\ c1' = IF pendingReset THEN "clear" ELSE IF crashed THEN "reset" ELSE "exec"
  /\ budget' = Slice
  /\ UNCHANGED <<rxQueue, hand1, sci, iflag, wild, crashed, pendingReset, txFifo,
                 read, discarded, resetOwed, freshTdre>>
  /\ Core1Unchanged

ClearPendingForgetsReset ==
  /\ At("clear")
  /\ pendingReset' = FALSE
  /\ c1' = "feed"
  /\ UNCHANGED <<rxQueue, hand1, sci, cpuVars, txFifo, read, discarded,
                 resetOwed, freshTdre>>
  /\ Core1Unchanged
ClearPending ==
  /\ At("clear")
  /\ pendingReset' = FALSE
  /\ c1' = "reset"
  /\ UNCHANGED <<rxQueue, hand1, sci, cpuVars, txFifo, read, discarded,
                 resetOwed, freshTdre>>
  /\ Core1Unchanged

\* hd6301_reset(1), at start-up, on request or after a crash.  The queue of
\* received bytes is not touched; only a byte waiting in RDR is dropped.
ResetStaysCrashed ==
  /\ At("setup") \/ At("reset")
  /\ sci' = SciReset
  /\ wild' = FALSE /\ iflag' = TRUE
  /\ c1' = "feed"
  /\ discarded' = discarded \cup (IF sci.rdrf THEN {sci.rdr} ELSE {})
  /\ resetOwed' = FALSE
  /\ freshTdre' = TRUE
  /\ UNCHANGED <<rxQueue, hand1, crashed, budget, pendingReset, txFifo, read>>
  /\ Core1Unchanged
ResetDropsQueue ==
  /\ At("setup") \/ At("reset")
  /\ sci' = SciReset
  /\ crashed' = FALSE /\ wild' = FALSE /\ iflag' = TRUE
  /\ rxQueue' = <<>>
  /\ c1' = "feed"
  /\ discarded' = discarded \cup (IF sci.rdrf THEN {sci.rdr} ELSE {})
  /\ resetOwed' = FALSE
  /\ freshTdre' = TRUE
  /\ UNCHANGED <<hand1, budget, pendingReset, txFifo, read>>
  /\ Core1Unchanged
Reset ==
  /\ At("setup") \/ At("reset")
  /\ sci' = SciReset
  /\ crashed' = FALSE /\ wild' = FALSE /\ iflag' = TRUE
  /\ c1' = "feed"
  /\ discarded' = discarded \cup (IF sci.rdrf THEN {sci.rdr} ELSE {})
  /\ resetOwed' = FALSE
  /\ freshTdre' = TRUE
  /\ UNCHANGED <<rxQueue, hand1, budget, pendingReset, txFifo, read>>
  /\ Core1Unchanged

ExecDone ==
  /\ At("exec")
  /\ budget = 0 \/ crashed
  /\ c1' = "feed"
  /\ UNCHANGED <<rxQueue, hand1, sci, cpuVars, pendingReset, txFifo, read,
                 discarded, resetOwed, freshTdre>>
  /\ Core1Unchanged

-------------------------------------------------------------------------------
(* instr_exec, the program being any program. *)

\* The test made before each instruction: the interrupt mask, then the PC.
Executing == At("exec") /\ budget > 0 /\ ~crashed
SciInterrupt == ~iflag /\ SerialInt(sci)
CanExecute == Executing /\ ~SciInterrupt /\ ~wild

InstrUnchanged == /\ UNCHANGED <<rxQueue, hand1, pendingReset, txFifo, discarded,
                                 resetOwed, freshTdre>>
                  /\ Core1Unchanged
Spend == budget' = budget - 1

\* The SCI vector, or (whatever the SCI says: it has priority) the timer's.
Interrupt ==
  /\ Executing
  /\ ~iflag
  /\ iflag' = TRUE /\ wild' = FALSE
  /\ Spend
  /\ UNCHANGED <<c1, sci, crashed, read>>
  /\ InstrUnchanged

\* No interrupt is taken and the PC is outside RAM and ROM.
Crash ==
  /\ Executing
  /\ ~SciInterrupt
  /\ wild
  /\ crashed' = TRUE
  /\ UNCHANGED <<c1, sci, iflag, wild, budget, read>>
  /\ InstrUnchanged

\* A load from RDR; only the first load of a byte is its receipt.
ReadRdr ==
  /\ CanExecute
  /\ sci' = RdrGetb(sci)
  /\ read' = IF sci.rdrf THEN Append(read, sci.rdr) ELSE read
  /\ Spend
  /\ UNCHANGED <<c1, iflag, wild, crashed>>
  /\ InstrUnchanged

WriteTrcsr ==
  /\ CanExecute
  /\ \E r, t \in BOOLEAN : sci' = TrcsrPutb(sci, r, t)
  /\ Spend
  /\ UNCHANGED <<c1, iflag, wild, crashed, read>>
  /\ InstrUnchanged

\* A store to TDR: tdr_putb calls uart_putc, which waits for room.
WriteTdr ==
  /\ CanExecute
  /\ c1' = "putc"
  /\ Spend
  /\ UNCHANGED <<sci, iflag, wild, crashed, read>>
  /\ InstrUnchanged

\* CLI, SEI, RTI, and every other instruction that stays inside the program.
OtherInstr ==
  /\ CanExecute
  /\ iflag' \in BOOLEAN
  /\ Spend
  /\ UNCHANGED <<c1, sci, wild, crashed, read>>
  /\ InstrUnchanged

\* A jump, return or fetch that leaves the program.
WildJump ==
  /\ CanExecute
  /\ wild' = TRUE
  /\ Spend
  /\ UNCHANGED <<c1, sci, iflag, crashed, read>>
  /\ InstrUnchanged

\* The rest of tdr_putb, once the FIFO has room: the byte is queued and TDRE
\* cleared.
UartPutcDrops ==
  /\ At("putc")
  /\ txFifo' = txFifo + 1
  /\ sci' = TdrPutb(sci)
  /\ c1' = "exec"
  /\ UNCHANGED <<rxQueue, hand1, cpuVars, pendingReset, read, discarded,
                 resetOwed, freshTdre>>
  /\ Core1Unchanged
UartPutc ==
  /\ At("putc")
  /\ txFifo < TxDepth
  /\ txFifo' = txFifo + 1
  /\ sci' = TdrPutb(sci)
  /\ c1' = "exec"
  /\ UNCHANGED <<rxQueue, hand1, cpuVars, pendingReset, read, discarded,
                 resetOwed, freshTdre>>
  /\ Core1Unchanged

Instr == \/ Interrupt \/ Crash \/ ReadRdr \/ WriteTrcsr \/ WriteTdr
         \/ OtherInstr \/ WildJump

-------------------------------------------------------------------------------
Core0 == RxTake \/ RxAdd \/ RxDone \/ WorkDone \/ FlashBegin \/ FlashEnd
Core1 == \/ FeedTake \/ FeedGive \/ FeedDone \/ TxPoll \/ RunClocks
         \/ ClearPending \/ Reset \/ ExecDone \/ Instr \/ UartPutc

Next == StSend \/ UartShift \/ Core0 \/ TriggerReset \/ Core1

Spec == Init /\ [][Next]_vars

(***************************************************************************)
(* Both loops run for ever and the UART shifts out what it holds.  A settings*)
(* write parks core 1 again and again, but core 1 runs in between (writes   *)
(* are at least 1.5 s apart), hence strong fairness.  Of the program only   *)
(* this is assumed: it does not ignore a byte in RDR for ever.              *)
(***************************************************************************)
Fairness == /\ WF_vars(Core0)
            /\ WF_vars(UartShift)
            /\ SF_vars(Core1)
            /\ SF_vars(ReadRdr /\ sci.rdrf)

FairSpec == Spec /\ Fairness

-------------------------------------------------------------------------------
(* Properties. *)

\* The bytes accepted from the ST and neither read nor lost, from the newest
\* stage to the oldest.
InFifo  == ToSet(rxFifo)
InHand0 == IF c0 = "hold" THEN {hand0} ELSE {}
InQueue == ToSet(rxQueue)
InHand1 == IF c1 = "give" THEN {hand1} ELSE {}
InRdr   == IF sci.rdrf THEN {sci.rdr} ELSE {}
InTransit == InFifo \cup InHand0 \cup InQueue \cup InHand1 \cup InRdr

TypeOK ==
  /\ rxFifo \in Seq(Nat) /\ Len(rxFifo) <= RxDepth
  /\ c0 \in Core0Steps /\ hand0 \in Nat
  /\ rxQueue \in Seq(Nat) /\ Len(rxQueue) <= QDepth
  /\ c1 \in Core1Steps /\ hand1 \in Nat
  /\ sci \in SciRegs
  /\ iflag \in BOOLEAN /\ wild \in BOOLEAN /\ crashed \in BOOLEAN
  /\ budget \in 0..Slice
  /\ pendingReset \in BOOLEAN /\ parked \in BOOLEAN
  /\ txFifo \in 0..TxDepth
  /\ sent \in 0..MaxSend
  /\ read \in Seq(Nat)
  /\ overflowed \subseteq Nat /\ discarded \subseteq Nat
  /\ resetOwed \in BOOLEAN /\ freshTdre \in BOOLEAN

\* The emulated SCI never sees an overrun, however the two cores interleave:
\* core 1 hands over a byte only when the previous one has been read or dropped.
NoOverrun == ~sci.orfe

\* Between the test of st_rx_queue and queue_try_add nothing fills the queue:
\* the ignored result of queue_try_add never means a lost byte.
TryAddSucceeds == c0 = "hold" => Len(rxQueue) < QDepth

\* Every byte the ST sent is accounted for: read by the CPU, in exactly one
\* stage of the path, dropped by the full UART FIFO, or dropped from RDR by a
\* reset of the emulation.
NothingVanishes ==
  1..sent = ToSet(read) \cup InTransit \cup overflowed \cup discarded

\* The CPU reads the bytes in the order the ST sent them, none twice.
ReadInOrder == Increasing(read)

\* The path is the lossy FIFO of ByteChannel; in particular a reset loses no
\* byte but the one in RDR.  Under the fairness of the two loops, no accepted
\* byte is stuck.
Channel == INSTANCE ByteChannel WITH transit <- InTransit
ImplementsChannel == Channel!Spec
ChannelProgress   == Channel!FairSpec

\* A reset requested by core 0 is not lost to the test-and-clear of
\* pending_reset on core 1, whenever it comes.
NoRequestLost == resetOwed => pendingReset \/ c1 = "reset"

\* A requested reset is executed, a settings write or a full transmit FIFO
\* notwithstanding.
ResetHappens == resetOwed ~> ~resetOwed

\* A crash of the emulated CPU does not last: the keyboard recovers by itself.
CrashRecovers == crashed ~> ~crashed

\* Between resets, TDRE tells a ROM that respects it that its next byte will
\* not have to wait: the UART FIFO has room for it.
TdreMeansRoom == sci.tdre /\ ~freshTdre => txFifo < TxDepth

\* The inductive invariant: what the stages of the path hold is ordered, the
\* oldest bytes being the nearest to the CPU, and a byte is handed to the SCI
\* only while RDR is free.
HandoverFree == c1 = "give" => ~sci.rdrf

StagesOrdered ==
  /\ Below(ToSet(read), InTransit)
  /\ Below(InRdr, InHand1 \cup InQueue \cup InHand0 \cup InFifo)
  /\ Below(InHand1, InQueue \cup InHand0 \cup InFifo)
  /\ Below(InQueue, InHand0 \cup InFifo)
  /\ Below(InHand0, InFifo)
  /\ Increasing(rxQueue)
  /\ Increasing(rxFifo)

PathInv == StagesOrdered /\ ReadInOrder /\ NothingVanishes

IInv == /\ TypeOK
        /\ NoOverrun /\ HandoverFree
        /\ TryAddSucceeds
        /\ PathInv
        /\ NoRequestLost
        /\ TdreMeansRoom
===============================================================================
