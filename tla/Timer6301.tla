------------------------------ MODULE Timer6301 ------------------------------
(***************************************************************************)
(* The timer of the emulated HD6301 (timer.c): a free-running counter that  *)
(* advances by whole instructions, an output compare register written one   *)
(* byte at a time, and the flags the ROM polls and acknowledges.  Each      *)
(* instruction is some register accesses followed by timer_inc; the program *)
(* is any sequence of those.  Words are pairs of bytes, Base being 256.     *)
(***************************************************************************)
EXTENDS Integers

CONSTANTS
  Base,      \* values of a byte
  MaxCycles  \* cycles of the longest instruction (12, the stacking of SWI)

Modulus == Base * Base

ASSUME TimerAssumption ==
  /\ Base \in Nat \ {0, 1}
  /\ MaxCycles \in Nat \ {0}
  /\ MaxCycles < Modulus

VARIABLES
  frc,       \* FRC
  ocr,       \* OCR
  ocf,       \* TCSR bits: output compare flag,
  tof,       \*   timer overflow flag,
  eoci,      \*   output compare interrupt enable
  tcsrRead,  \* tcsr_is_read, which is not part of iram
  unseen     \* history: a compare has happened that no read of TCSR has shown

vars == <<frc, ocr, ocf, tof, eoci, tcsrRead, unseen>>

Bytes == 0 .. Base - 1
Words == [hi : Bytes, lo : Bytes]
Value(w) == w.hi * Base + w.lo

\* hd6301_reset has run: it comes before the first instruction.
Init ==
  /\ frc = [hi |-> 0, lo |-> 0]
  /\ ocr = [hi |-> Base - 1, lo |-> Base - 1]
  /\ ocf = FALSE /\ tof = FALSE /\ eoci = FALSE
  /\ tcsrRead = FALSE
  /\ unseen = FALSE

-------------------------------------------------------------------------------
(* timer_inc *)

\* (u_short)(frc_old + ncycles)
Advance(old, n) == IF old + n < Modulus THEN old + n ELSE old + n - Modulus

MatchedAtOrAbove(old, new, cmp) == new >= cmp
MatchedStrictly(old, new, cmp) == new > cmp /\ (old < cmp \/ old > new)
Matched(old, new, cmp) == new >= cmp /\ (old < cmp \/ old > new)

TimerIncKeepsAck(n) ==
  LET old == Value(frc)
      new == Advance(old, n)
      hit == Matched(old, new, Value(ocr))
  IN /\ frc' \in {w \in Words : Value(w) = new}
     /\ tof' = (tof \/ old > new)
     /\ ocf' = (ocf \/ hit)
     /\ unseen' = (unseen \/ hit)
     /\ UNCHANGED <<ocr, eoci, tcsrRead>>
TimerInc(n) ==
  LET old == Value(frc)
      new == Advance(old, n)
      hit == Matched(old, new, Value(ocr))
  IN /\ frc' \in {w \in Words : Value(w) = new}
     /\ tof' = (tof \/ old > new)
     /\ ocf' = (ocf \/ hit)
     /\ tcsrRead' = (tcsrRead /\ ~hit)
     /\ unseen' = (unseen \/ hit)
     /\ UNCHANGED <<ocr, eoci>>

-------------------------------------------------------------------------------
(* Register accesses. *)

\* tcsr_getb: the value returned shows TOF, which the read clears.
TcsrGetb ==
  /\ tcsrRead' = (tcsrRead \/ ocf)
  /\ tof' = FALSE
  /\ unseen' = FALSE
  /\ UNCHANGED <<frc, ocr, ocf, eoci>>

\* tcsr_putb: the flags are read-only.
TcsrPutb ==
  /\ eoci' \in BOOLEAN
  /\ UNCHANGED <<frc, ocr, ocf, tof, tcsrRead, unseen>>

\* ocr_putb: the write acknowledges a compare that a read of TCSR has shown.
OcrPutbUnseen(w) ==
  /\ ocr' = w
  /\ ocf' = FALSE
  /\ tcsrRead' = FALSE
  /\ UNCHANGED <<frc, tof, eoci, unseen>>
OcrPutbWide(w) ==
  /\ ocr' \in {w, [w EXCEPT !.hi = @ + 1]}
  /\ ocf' = (ocf /\ ~tcsrRead)
  /\ tcsrRead' = FALSE
  /\ UNCHANGED <<frc, tof, eoci, unseen>>
OcrPutb(w) ==
  /\ ocr' = w
  /\ ocf' = (ocf /\ ~tcsrRead)
  /\ tcsrRead' = FALSE
  /\ UNCHANGED <<frc, tof, eoci, unseen>>

OcrPutHi == \E b \in Bytes : OcrPutb([ocr EXCEPT !.hi = b])
OcrPutLo == \E b \in Bytes : OcrPutb([ocr EXCEPT !.lo = b])

\* mem_putb refuses a store to the high byte of FRC only.
FrcPutLo ==
  /\ \E b \in Bytes : frc' = [frc EXCEPT !.lo = b]
  /\ UNCHANGED <<ocr, ocf, tof, eoci, tcsrRead, unseen>>

\* hd6301_reset(1): iram is cleared, then OCR is written through ocr_putb,
\* which also clears tcsr_is_read.
ResetBypass ==
  /\ frc' = [hi |-> 0, lo |-> 0]
  /\ ocr' = [hi |-> Base - 1, lo |-> Base - 1]
  /\ ocf' = FALSE /\ tof' = FALSE /\ eoci' = FALSE
  /\ unseen' = FALSE
  /\ UNCHANGED tcsrRead
Reset ==
  /\ frc' = [hi |-> 0, lo |-> 0]
  /\ ocr' = [hi |-> Base - 1, lo |-> Base - 1]
  /\ ocf' = FALSE /\ tof' = FALSE /\ eoci' = FALSE
  /\ tcsrRead' = FALSE
  /\ unseen' = FALSE

Next == \/ \E n \in 0 .. MaxCycles : TimerInc(n)
        \/ TcsrGetb \/ TcsrPutb \/ OcrPutHi \/ OcrPutLo \/ FrcPutLo \/ Reset

Spec == Init /\ [][Next]_vars

-------------------------------------------------------------------------------
(* Properties. *)

TypeOK ==
  /\ frc \in Words /\ ocr \in Words
  /\ ocf \in BOOLEAN /\ tof \in BOOLEAN /\ eoci \in BOOLEAN
  /\ tcsrRead \in BOOLEAN
  /\ unseen \in BOOLEAN

\* The values a counter that ticks once per cycle takes in n cycles.
Ticks(old, n) == {Advance(old, k) : k \in 1 .. n}

\* A compare the program has not seen stays flagged: a write of OCR meant for
\* an earlier compare does not clear a later one.
UnseenFlagged == unseen => ocf

\* tcsr_is_read never outlives the compare it belongs to, though a reset of
\* the emulation does not assign it.
AckFresh == tcsrRead => ocf /\ ~unseen

\* OCF rises only when the counter has taken the value of OCR.
CompareSound ==
  [][~ocf /\ ocf' => \E n \in 1 .. MaxCycles :
        /\ Value(frc') = Advance(Value(frc), n)
        /\ Value(ocr) \in Ticks(Value(frc), n)]_vars

\* The counter passes the value of OCR unnoticed only when that value lies
\* between the counter and its wrap-around, and the same instruction wraps it.
MissedOnlyAtWrap ==
  [][\A n \in 1 .. MaxCycles :
        TimerInc(n) /\ Value(ocr) \in Ticks(Value(frc), n) =>
          \/ ocf'
          \/ Value(frc') < Value(frc) /\ Value(frc) < Value(ocr)]_vars

IInv == TypeOK /\ UnseenFlagged /\ AckFresh
===============================================================================
