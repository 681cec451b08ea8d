--------------------------------- MODULE Sci ---------------------------------
(***************************************************************************)
(* The serial communication interface of the emulated HD6301 (6301/sci.c   *)
(* and the SCI entry points of 6301/6301.c), as operators on the value of  *)
(* its registers.  iram[TRCSR] is the record of the bits the code tests:   *)
(* rdrf, orfe, tdre (read only for the CPU), rie and tie; rdr is the data   *)
(* register.  A byte is the number of its arrival, so that order, loss and  *)
(* duplication are visible.  The wake-up and enable bits (WU, TE, RE) are   *)
(* left out: no function of sci.c tests them.                               *)
(***************************************************************************)
EXTENDS Naturals

SciRegs == [rdrf : BOOLEAN, orfe : BOOLEAN, tdre : BOOLEAN,
            rie : BOOLEAN, tie : BOOLEAN, rdr : Nat]

\* Static storage before the first reset: every register is zero.
SciZero == [rdrf |-> FALSE, orfe |-> FALSE, tdre |-> FALSE,
            rie |-> FALSE, tie |-> FALSE, rdr |-> 0]

\* hd6301_reset: the registers are cleared, then TRCSR := 0x20.
SciReset == [SciZero EXCEPT !.tdre = TRUE]

SciBusy(s) == s.rdrf

\* sci_in: on overrun the new byte is dropped and ORFE set; RDRF is set anyway.
SciIn(s, b) ==
    IF s.rdrf THEN [s EXCEPT !.orfe = TRUE]
              ELSE [s EXCEPT !.rdr = b, !.rdrf = TRUE]

\* rdr_getb: reading the data register clears RDRF and ORFE.
RdrGetbKeepsRdrf(s) == [s EXCEPT !.orfe = FALSE]
RdrGetb(s) == [s EXCEPT !.rdrf = FALSE, !.orfe = FALSE]

\* trcsr_putb: software sets the enable bits only, bits 5-7 are kept.
TrcsrPutbClearsReadOnly(s, r, t) ==
    [SciZero EXCEPT !.rie = r, !.tie = t, !.rdr = s.rdr]
TrcsrPutb(s, r, t) == [s EXCEPT !.rie = r, !.tie = t]

\* The last statement of tdr_putb: a byte now waits in the transmitter.
TdrPutbKeepsTdre(s) == s
TdrPutb(s) == [s EXCEPT !.tdre = FALSE]

\* hd6301_tx_empty: TDRE is set when the port can take a byte, never cleared.
TxEmptyAlways(s, room) == [s EXCEPT !.tdre = TRUE]
TxEmpty(s, room) == [s EXCEPT !.tdre = @ \/ room]

\* serial_int: the condition of the SCI interrupt.
SerialInt(s) == (s.rdrf /\ s.rie) \/ (s.tdre /\ s.tie)
===============================================================================
