---------------------------------- MODULE Chip ----------------------------------
(***************************************************************************)
(* The emulated chip, one part at a time: the timer; the processor with any *)
(* ROM image and the programs the ST may load; or the serial path, any      *)
(* program running, with its two loops fair.  The parts share nothing here, *)
(* so that the states are the sum of theirs; part says which of them moves.  *)
(***************************************************************************)
EXTENDS Timer6301, Sequences

CONSTANTS
    Image, Programs, Resting,   \* Resting: the machine while another part moves
    DeviceBytes, MaxCallstack, Clocks, MaxSlices, MaxInterrupts,
    RxDepth, QDepth, TxDepth, Slice, MaxSend

VARIABLES
    part,
    cpu, crashed, pending, left, slices, taken, last, resume,
    rxFifo, c0, hand0, rxQueue, c1, hand1, sci, iflag, wild, linkCrashed, budget, pendingReset,
    parked, txFifo, sent, read, overflowed, discarded, resetOwed, freshTdre

cpuVars == <<cpu, crashed, pending, left, slices, taken, last, resume>>
linkVars == <<rxFifo, c0, hand0, rxQueue, c1, hand1, sci, iflag, wild, linkCrashed, budget,
              pendingReset, parked, txFifo, sent, read, overflowed, discarded, resetOwed, freshTdre>>

Cpu == INSTANCE Cpu6301

ASSUME ChipAssumption ==
    /\ Image \in [Cpu!Rom -> Cpu!Byte] /\ DeviceBytes \subseteq Cpu!Byte
    /\ \A m \in Programs \cup {Resting} : Cpu!IsMachine(m) /\ Cpu!Stacked(m)
    /\ {MaxCallstack, Clocks, MaxSlices, MaxInterrupts} \subseteq Nat

Link == INSTANCE SerialLink WITH crashed <- linkCrashed

SumInit ==
    /\ part \in {"timer", "cpu", "link"}
    /\ Init
    /\ Cpu!InitAt(IF part = "cpu" THEN Programs ELSE {Resting})
    /\ Link!Init

SumNext ==
    \/ part = "timer" /\ Next /\ UNCHANGED <<part, cpuVars, linkVars>>
    \/ part = "cpu" /\ Cpu!Next /\ UNCHANGED <<part, vars, linkVars>>
    \/ part = "link" /\ Link!Next /\ UNCHANGED <<part, vars, cpuVars>>

\* The fairness of SerialLink, asked of the part that moves only.
LinkFairness ==
    /\ WF_linkVars(part = "link" /\ Link!Core0)
    /\ WF_linkVars(part = "link" /\ Link!UartShift)
    /\ SF_linkVars(part = "link" /\ Link!Core1)
    /\ SF_linkVars(part = "link" /\ Link!ReadRdr /\ sci.rdrf)

SumSpec == SumInit /\ [][SumNext]_<<part, vars, cpuVars, linkVars>> /\ LinkFairness

-------------------------------------------------------------------------------
(* The properties of the parts, under their names there. *)

\* The stack of calls kept for the messages: bounded by MAXCALLSTACK, and no
\* entry of a routine that has returned, wherever the program moves SP
\* (callstac.c, reg_setsp).
StackSound == Cpu!TypeOK /\ Cpu!CallsAbove
\* A conditional branch after a comparison follows the order of the operands,
\* unsigned and signed (alu_subbyte, alu_subword, branch_expr).
BranchesFollowOrder == Cpu!BranchesFollowOrder
\* daa after an addition of two decimal numbers leaves their sum, but where the
\* lower digit's correction carries out of the byte, and the right carry (daa_inh);
\* two byte instructions joined by the carry leave what the word instruction does
\* (alu_addbyte, alu_subbyte).
SumsTrue == Cpu!DecimalKept /\ Cpu!PairIsWord
\* opfunc.c: daa after an addition of two decimal numbers leaves their sum (daa_inh).
DecimalSum == Cpu!DecimalSum
\* rti and rts resume what was interrupted or called (int_addr, rti_inh, jsr_addr).
ReturnsHome == Cpu!ReturnsHome
\* A byte the UART has accepted does not stay on its way for ever: it is read,
\* or dropped by a reset (handle_rx_from_st, feed_hd6301_from_queue).
ChannelProgress == Link!ChannelProgress
\* A requested reset is executed, settings writes and full FIFOs notwithstanding
\* (hd6301_trigger_reset, hd6301_run_clocks).
ResetHappens == Link!ResetHappens
\* The emulation recovers from a crash by itself (hd6301_run_clocks).
CrashRecovers == Link!CrashRecovers
================================================================================
