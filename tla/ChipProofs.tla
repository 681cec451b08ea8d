------------------------------- MODULE ChipProofs -------------------------------
(***************************************************************************)
(* Theorems about the emulated chip.  The timer: for every byte size and    *)
(* every length of the longest instruction, the flags' invariant and what   *)
(* timer_inc's comparison of old, new and OCR says of the values the counter *)
(* went through.  The processor: for every ROM image and program, and every  *)
(* pair of operands, of which TLC sees the corners.                          *)
(***************************************************************************)
EXTENDS Chip, WellFoundedInduction, SequenceTheorems, TLAPS

-------------------------------------------------------------------------------
(* The timer. *)

\* A word stands for a number below the modulus.
LEMMA ValueRange ==
  ASSUME NEW w \in Words
  PROVE  Value(w) \in Nat /\ Value(w) < Modulus
<1> DEFINE h == w.hi
           l == w.lo
<1>1. Base \in Nat /\ Base > 0 BY TimerAssumption
<1>2. h \in Int /\ l \in Int /\ 0 <= h /\ h <= Base - 1 /\ 0 <= l /\ l <= Base - 1
  BY <1>1 DEF Words, Bytes
<1> HIDE DEF h, l
<1>3. h * Base \in Int /\ h * Base >= 0 BY <1>1, <1>2
<1>4. (Base - 1 - h) * Base >= 0 BY <1>1, <1>2
<1>5. (Base - 1 - h) * Base = Base * Base - Base - h * Base BY <1>1, <1>2
<1>6. Base * Base \in Int BY <1>1
<1>7. h * Base <= Base * Base - Base BY <1>1, <1>3, <1>4, <1>5, <1>6
<1>8. h * Base + l \in Nat /\ h * Base + l < Base * Base
  BY <1>1, <1>2, <1>3, <1>6, <1>7
<1> QED BY <1>8 DEF Value, Modulus, h, l

LEMMA ModulusNat == Modulus \in Nat
<1>1. Base \in Nat BY TimerAssumption
<1> QED BY <1>1 DEF Modulus

\* timer_inc's test is sound: when it holds, the counter, ticking once per
\* cycle, takes the value of OCR.
LEMMA MatchedTicks ==
  ASSUME NEW old \in Nat, old < Modulus, NEW cmp \in Nat,
         NEW n \in 0 .. MaxCycles,
         Matched(old, Advance(old, n), cmp)
  PROVE  n \in 1 .. MaxCycles /\ cmp \in Ticks(old, n)
<1> DEFINE new == Advance(old, n)
<1>1. Modulus \in Nat /\ MaxCycles \in Nat /\ MaxCycles < Modulus
  BY ModulusNat, TimerAssumption
<1>2. n \in Int /\ n >= 0 /\ n <= MaxCycles BY <1>1
<1>3. new >= cmp /\ (old < cmp \/ old > new) BY DEF Matched
<1>4. CASE old + n < Modulus
  <2>1. new = old + n BY <1>4 DEF Advance
  <2>2. old < cmp /\ cmp <= old + n BY <1>2, <1>3, <2>1
  <2>3. cmp - old \in 1 .. n BY <1>2, <2>2
  <2>4. Advance(old, cmp - old) = cmp BY <1>1, <1>2, <1>4, <2>2 DEF Advance
  <2> QED BY <1>1, <1>2, <2>3, <2>4 DEF Ticks
<1>5. CASE ~(old + n < Modulus)
  <2>1. new = old + n - Modulus BY <1>5 DEF Advance
  <2>2. cmp <= old + n - Modulus BY <1>3, <2>1
  <2>3. old > new BY <1>1, <1>2, <2>1
  <2>4. new >= 0 BY <1>1, <1>2, <1>5, <2>1
  <2>5. cmp + Modulus - old \in 1 .. n BY <1>1, <1>2, <2>2
  <2>6. Advance(old, cmp + Modulus - old) = cmp
    BY <1>1, <1>2 DEF Advance
  <2> QED BY <1>1, <1>2, <2>5, <2>6 DEF Ticks
<1> QED BY <1>4, <1>5

\* The converse, but for a value of OCR that the wrapping instruction jumps
\* over: above the old value of the counter, hence also above the new one.
LEMMA TicksMatched ==
  ASSUME NEW old \in Nat, old < Modulus, NEW cmp \in Nat, cmp < Modulus,
         NEW n \in 1 .. MaxCycles,
         cmp \in Ticks(old, n),
         ~Matched(old, Advance(old, n), cmp)
  PROVE  Advance(old, n) < old /\ old < cmp
<1> DEFINE new == Advance(old, n)
<1>1. Modulus \in Nat /\ MaxCycles \in Nat /\ MaxCycles < Modulus
  BY ModulusNat, TimerAssumption
<1>2. n \in Int /\ 1 <= n /\ n <= MaxCycles BY <1>1
<1>3. PICK k \in 1 .. n : cmp = Advance(old, k) BY DEF Ticks
<1>4. k \in Int /\ 1 <= k /\ k <= n BY <1>2, <1>3
<1>5. new < cmp \/ (old >= cmp /\ old <= new)
  BY <1>1, <1>2 DEF Matched, Advance
<1>6. CASE old + n < Modulus
  <2>1. new = old + n /\ cmp = old + k BY <1>1, <1>2, <1>3, <1>4, <1>6 DEF Advance
  <2> QED BY <1>2, <1>4, <1>5, <2>1
<1>7. CASE ~(old + n < Modulus)
  <2>1. new = old + n - Modulus BY <1>7 DEF Advance
  <2>2. new < old BY <1>1, <1>2, <2>1
  <2>3. new < cmp BY <1>5, <2>2, <1>1, <1>2, <2>1
  <2>4. old + k < Modulus BY <1>1, <1>2, <1>3, <1>4, <2>1, <2>3 DEF Advance
  <2>5. cmp = old + k BY <1>3, <2>4 DEF Advance
  <2> QED BY <1>4, <2>2, <2>5
<1> QED BY <1>6, <1>7

-------------------------------------------------------------------------------
(* The flags. *)

LEMMA InitInv == Init => IInv
<1> SUFFICES ASSUME Init PROVE IInv OBVIOUS
<1>1. 0 \in Bytes /\ Base - 1 \in Bytes BY TimerAssumption DEF Bytes
<1>2. frc \in Words /\ ocr \in Words BY <1>1 DEF Init, Words
<1> QED BY <1>2 DEF Init, IInv, TypeOK, UnseenFlagged, AckFresh

LEMMA NextInv == IInv /\ [Next]_vars => IInv'
<1> SUFFICES ASSUME IInv, [Next]_vars PROVE IInv' OBVIOUS
<1> USE DEF IInv, TypeOK, UnseenFlagged, AckFresh
<1>1. ASSUME NEW n \in 0 .. MaxCycles, TimerInc(n) PROVE IInv'
  <2>1. frc' \in Words BY <1>1 DEF TimerInc
  <2> DEFINE hit == Matched(Value(frc), Advance(Value(frc), n), Value(ocr))
             wrap == Value(frc) > Advance(Value(frc), n)
  <2>2. /\ ocf' = (ocf \/ hit) /\ tcsrRead' = (tcsrRead /\ ~hit)
        /\ unseen' = (unseen \/ hit)
        /\ tof' = (tof \/ wrap)
        /\ ocr' = ocr /\ eoci' = eoci
    BY <1>1 DEF TimerInc
  <2>3. hit \in BOOLEAN /\ wrap \in BOOLEAN
    BY DEF Matched
  <2> HIDE DEF hit, wrap
  <2>4. ocf' \in BOOLEAN /\ tcsrRead' \in BOOLEAN /\ unseen' \in BOOLEAN
        /\ tof' \in BOOLEAN
    BY <2>2, <2>3, Zenon
  <2>5. UnseenFlagged' /\ AckFresh' BY <2>2, <2>3, Zenon
  <2> QED BY <2>1, <2>2, <2>4, <2>5, Zenon
<1>2. CASE TcsrGetb
  BY <1>2 DEF TcsrGetb
<1>3. CASE TcsrPutb
  BY <1>3 DEF TcsrPutb
<1>4. CASE OcrPutHi
  <2>1. PICK b \in Bytes : OcrPutb([ocr EXCEPT !.hi = b]) BY <1>4 DEF OcrPutHi
  <2>2. ocr' \in Words BY <2>1 DEF OcrPutb, Words
  <2> QED BY <2>1, <2>2 DEF OcrPutb
<1>5. CASE OcrPutLo
  <2>1. PICK b \in Bytes : OcrPutb([ocr EXCEPT !.lo = b]) BY <1>5 DEF OcrPutLo
  <2>2. ocr' \in Words BY <2>1 DEF OcrPutb, Words
  <2> QED BY <2>1, <2>2 DEF OcrPutb
<1>6. CASE FrcPutLo
  <2>1. PICK b \in Bytes : frc' = [frc EXCEPT !.lo = b] BY <1>6 DEF FrcPutLo
  <2>2. frc' \in Words BY <2>1 DEF Words
  <2> QED BY <1>6, <2>2 DEF FrcPutLo
<1>7. CASE Reset
  <2>1. 0 \in Bytes /\ Base - 1 \in Bytes BY TimerAssumption DEF Bytes
  <2>2. frc' \in Words /\ ocr' \in Words BY <1>7, <2>1 DEF Reset, Words
  <2> QED BY <1>7, <2>2 DEF Reset
<1>8. CASE UNCHANGED vars
  BY <1>8 DEF vars
<1> QED BY <1>1, <1>2, <1>3, <1>4, <1>5, <1>6, <1>7, <1>8 DEF Next

THEOREM FlagsHeld == Spec => []IInv
<1> QED BY InitInv, NextInv, PTL DEF Spec

\* Every reachable state is well typed.
THEOREM TypeCorrect == Spec => []TypeOK
<1>1. IInv => TypeOK BY DEF IInv
<1> QED BY <1>1, FlagsHeld, PTL

\* A compare the program has not seen stays flagged.
THEOREM CompareKept == Spec => []UnseenFlagged
<1>1. IInv => UnseenFlagged BY DEF IInv
<1> QED BY <1>1, FlagsHeld, PTL

\* tcsr_is_read never outlives the compare it belongs to.
THEOREM AckIsFresh == Spec => []AckFresh
<1>1. IInv => AckFresh BY DEF IInv
<1> QED BY <1>1, FlagsHeld, PTL

-------------------------------------------------------------------------------
(* The comparison. *)

LEMMA OnlyTimerIncSets ==
  ASSUME TypeOK, Next, ~ocf, ocf'
  PROVE  \E n \in 0 .. MaxCycles : TimerInc(n)
<1>1. ~TcsrGetb BY DEF TcsrGetb
<1>2. ~TcsrPutb BY DEF TcsrPutb
<1>3. ~OcrPutHi /\ ~OcrPutLo BY DEF OcrPutHi, OcrPutLo, OcrPutb
<1>4. ~FrcPutLo BY DEF FrcPutLo
<1>5. ~Reset BY DEF Reset
<1> QED BY <1>1, <1>2, <1>3, <1>4, <1>5 DEF Next

\* OCF rises only when the counter has taken the value of OCR.
THEOREM Soundness == Spec => CompareSound
<1> DEFINE Matches == \E n \in 1 .. MaxCycles :
                        /\ Value(frc') = Advance(Value(frc), n)
                        /\ Value(ocr) \in Ticks(Value(frc), n)
<1>1. TypeOK /\ [Next]_vars => [~ocf /\ ocf' => Matches]_vars
  <2> SUFFICES ASSUME TypeOK, Next, ~ocf, ocf' PROVE Matches
    BY DEF vars
  <2>1. PICK n \in 0 .. MaxCycles : TimerInc(n) BY OnlyTimerIncSets
  <2>2. Value(frc') = Advance(Value(frc), n) BY <2>1 DEF TimerInc
  <2>3. Matched(Value(frc), Advance(Value(frc), n), Value(ocr))
    BY <2>1 DEF TimerInc
  <2>4. /\ Value(frc) \in Nat /\ Value(frc) < Modulus
        /\ Value(ocr) \in Nat
    BY ValueRange DEF TypeOK
  <2>5. n \in 1 .. MaxCycles /\ Value(ocr) \in Ticks(Value(frc), n)
    BY <2>3, <2>4, MatchedTicks
  <2> QED BY <2>2, <2>5
<1> QED BY <1>1, TypeCorrect, PTL DEF Spec, CompareSound

\* The only matches that go unnoticed are those the wrap-around jumps over.
THEOREM MissesBounded == Spec => MissedOnlyAtWrap
<1> DEFINE Noticed(n) ==
      TimerInc(n) /\ Value(ocr) \in Ticks(Value(frc), n) =>
        \/ ocf'
        \/ Value(frc') < Value(frc) /\ Value(frc) < Value(ocr)
<1>1. TypeOK /\ [Next]_vars => [\A n \in 1 .. MaxCycles : Noticed(n)]_vars
  <2> SUFFICES ASSUME TypeOK, NEW n \in 1 .. MaxCycles, TimerInc(n),
                      Value(ocr) \in Ticks(Value(frc), n), ~ocf'
               PROVE  Value(frc') < Value(frc) /\ Value(frc) < Value(ocr)
    BY DEF vars
  <2>1. Value(frc') = Advance(Value(frc), n) BY DEF TimerInc
  <2>2. ~Matched(Value(frc), Advance(Value(frc), n), Value(ocr))
    BY DEF TimerInc
  <2>3. /\ Value(frc) \in Nat /\ Value(frc) < Modulus
        /\ Value(ocr) \in Nat /\ Value(ocr) < Modulus
    BY ValueRange DEF TypeOK
  <2> QED BY <2>1, <2>2, <2>3, TicksMatched
<1> QED BY <1>1, TypeCorrect, PTL DEF Spec, MissedOnlyAtWrap

-------------------------------------------------------------------------------
(* The arithmetic unit: what its flags mean, for every pair of operands. *)

Moduli == {Cpu!ByteMod, Cpu!WordMod}
Operand(M) == 0 .. (M - 1)

\* An operand as a two's complement number.
SignedValue(M, x) == IF Cpu!Sign(M, x) THEN x - M ELSE x

\* Setting flags writes the ones that are named and keeps the others.
LEMMA SetFlagsMember ==
    ASSUME NEW ccr, NEW f, NEW n
    PROVE  (n \in Cpu!SetFlags(ccr, f)) <=> IF n \in DOMAIN f THEN f[n] ELSE n \in ccr
  BY DEF Cpu!SetFlags

\* The value and the flags of Cpu!Arith, one by one.
LEMMA ArithFlags ==
    ASSUME NEW ccr, NEW M, NEW x, NEW y, NEW r, NEW carry \in BOOLEAN
    PROVE  LET s == Cpu!Arith(ccr, M, x, y, r, carry)
           IN  /\ s.val = r
               /\ ("C" \in s.ccr) <=> carry
               /\ ("Z" \in s.ccr) <=> r = 0
               /\ ("N" \in s.ccr) <=> Cpu!Sign(M, r)
               /\ ("V" \in s.ccr) <=>
                     Cpu!Differ(Cpu!Differ(Cpu!Differ(Cpu!Sign(M, x), Cpu!Sign(M, y)), Cpu!Sign(M, r)), carry)
<1> DEFINE v == Cpu!Differ(Cpu!Differ(Cpu!Differ(Cpu!Sign(M, x), Cpu!Sign(M, y)), Cpu!Sign(M, r)), carry)
<1> DEFINE f == [C |-> carry, N |-> Cpu!Sign(M, r), Z |-> r = 0, V |-> v]
<1> DEFINE s == Cpu!Arith(ccr, M, x, y, r, carry)
<1>1. s.val = r /\ s.ccr = Cpu!SetFlags(ccr, f)
  BY DEF Cpu!Arith
<1>2. DOMAIN f = {"C", "N", "Z", "V"}
  OBVIOUS
<1>3. f["C"] = carry /\ f["N"] = Cpu!Sign(M, r) /\ f["Z"] = (r = 0) /\ f["V"] = v
  OBVIOUS
<1> HIDE DEF f
<1>4. /\ ("C" \in Cpu!SetFlags(ccr, f)) <=> f["C"]
      /\ ("Z" \in Cpu!SetFlags(ccr, f)) <=> f["Z"]
      /\ ("N" \in Cpu!SetFlags(ccr, f)) <=> f["N"]
      /\ ("V" \in Cpu!SetFlags(ccr, f)) <=> f["V"]
  BY <1>2, SetFlagsMember
<1> QED
  BY <1>1, <1>3, <1>4

\* alu_subbyte and alu_subword order their operands: the carry is "below" for
\* unsigned operands, N exclusive-or V is "less" for signed ones, and Z is
\* equality.  It is what every conditional branch of the ROM after a cmp, sub
\* or cpx rests on.
THEOREM SubOrders ==
    ASSUME NEW ccr, NEW M \in Moduli, NEW x \in Operand(M), NEW y \in Operand(M)
    PROVE  LET s == Cpu!Sub(ccr, M, x, y, 0)
           IN  /\ ("C" \in s.ccr) <=> x < y
               /\ ("Z" \in s.ccr) <=> x = y
               /\ Cpu!Differ("N" \in s.ccr, "V" \in s.ccr) <=>
                     SignedValue(M, x) < SignedValue(M, y)
<1> DEFINE r == (x - y - 0) % M
           s == Cpu!Sub(ccr, M, x, y, 0)
<1>1. M \in {256, 65536} /\ x \in 0 .. (M - 1) /\ y \in 0 .. (M - 1)
  BY DEF Moduli, Cpu!ByteMod, Cpu!WordMod, Operand
<1>2. r = IF x < y THEN x - y + M ELSE x - y
  BY <1>1, SMT
<1>3. (r = 0) <=> (x = y)
  BY <1>1, <1>2, SMT
<1> HIDE DEF r
<1>4. Cpu!Differ(Cpu!Sign(M, r), Cpu!Differ(Cpu!Differ(Cpu!Differ(Cpu!Sign(M, x), Cpu!Sign(M, y)), Cpu!Sign(M, r)), x < y))
        <=> SignedValue(M, x) < SignedValue(M, y)
  BY <1>1, <1>2, SMT DEF SignedValue, Cpu!Sign, Cpu!Differ
<1>5. /\ ("C" \in s.ccr) <=> x < y
      /\ ("Z" \in s.ccr) <=> r = 0
      /\ ("N" \in s.ccr) <=> Cpu!Sign(M, r)
      /\ ("V" \in s.ccr) <=> Cpu!Differ(Cpu!Differ(Cpu!Differ(Cpu!Sign(M, x), Cpu!Sign(M, y)), Cpu!Sign(M, r)), x < y)
  <2> DEFINE below == x < y
  <2>1. (x < y + 0) = below /\ below \in BOOLEAN
    BY <1>1, SMT
  <2>2. s = Cpu!Arith(ccr, M, x, y, r, below)
    BY <2>1 DEF Cpu!Sub, r
  <2> HIDE DEF s, below
  <2>3. /\ ("C" \in s.ccr) <=> below
        /\ ("Z" \in s.ccr) <=> r = 0
        /\ ("N" \in s.ccr) <=> Cpu!Sign(M, r)
        /\ ("V" \in s.ccr) <=>
              Cpu!Differ(Cpu!Differ(Cpu!Differ(Cpu!Sign(M, x), Cpu!Sign(M, y)), Cpu!Sign(M, r)), below)
    BY <2>1, <2>2, ArithFlags
  <2> QED
    BY <2>3 DEF below
<1>6. Cpu!Differ("N" \in s.ccr, "V" \in s.ccr) <=> SignedValue(M, x) < SignedValue(M, y)
  <2> HIDE DEF s
  <2> QED
    BY <1>4, <1>5 DEF Cpu!Differ
<1> QED
  BY <1>3, <1>5, <1>6

\* The value and flags of the three operations, for operands of their width.
LEMMA SubFlags ==
    ASSUME NEW ccr, NEW M \in Moduli, NEW x \in Operand(M), NEW y \in Operand(M),
           NEW c \in 0 .. 1
    PROVE  LET s == Cpu!Sub(ccr, M, x, y, c)
           IN  /\ s.val = IF x < y + c THEN x - y - c + M ELSE x - y - c
               /\ ("C" \in s.ccr) <=> x < y + c
               /\ ("N" \in s.ccr) <=> Cpu!Sign(M, s.val)
               /\ ("V" \in s.ccr) <=> Cpu!Differ(Cpu!Differ(Cpu!Differ(Cpu!Sign(M, x), Cpu!Sign(M, y)),
                                                    Cpu!Sign(M, s.val)), x < y + c)
<1> DEFINE r == (x - y - c) % M
           below == x < y + c
           s == Cpu!Sub(ccr, M, x, y, c)
<1>1. M \in {256, 65536} /\ x \in 0 .. (M - 1) /\ y \in 0 .. (M - 1)
  BY DEF Moduli, Cpu!ByteMod, Cpu!WordMod, Operand
<1>2. r = IF x < y + c THEN x - y - c + M ELSE x - y - c
  BY <1>1, SMT
<1>3. below \in BOOLEAN
  BY <1>1, SMT
<1>4. s = Cpu!Arith(ccr, M, x, y, r, below)
  BY DEF Cpu!Sub
<1> HIDE DEF r, below
<1>5. LET t == Cpu!Arith(ccr, M, x, y, r, below)
      IN  /\ t.val = r
          /\ ("C" \in t.ccr) <=> below
          /\ ("N" \in t.ccr) <=> Cpu!Sign(M, r)
          /\ ("V" \in t.ccr) <=>
                Cpu!Differ(Cpu!Differ(Cpu!Differ(Cpu!Sign(M, x), Cpu!Sign(M, y)), Cpu!Sign(M, r)), below)
  BY <1>3, ArithFlags
<1>6. /\ s.val = r
      /\ ("C" \in s.ccr) <=> below
      /\ ("N" \in s.ccr) <=> Cpu!Sign(M, r)
      /\ ("V" \in s.ccr) <=>
            Cpu!Differ(Cpu!Differ(Cpu!Differ(Cpu!Sign(M, x), Cpu!Sign(M, y)), Cpu!Sign(M, r)), below)
  <2> HIDE DEF s
  <2> QED
    BY <1>4, <1>5
<1> QED
  BY <1>2, <1>6 DEF below

LEMMA AddFlags ==
    ASSUME NEW ccr, NEW M \in Moduli, NEW x \in Operand(M), NEW y \in Operand(M),
           NEW c \in 0 .. 1
    PROVE  LET s == Cpu!Add(ccr, M, x, y, c)
           IN  /\ s.val = IF x + y + c >= M THEN x + y + c - M ELSE x + y + c
               /\ ("C" \in s.ccr) <=> x + y + c >= M
               /\ ("N" \in s.ccr) <=> Cpu!Sign(M, s.val)
               /\ ("V" \in s.ccr) <=> Cpu!Differ(Cpu!Differ(Cpu!Differ(Cpu!Sign(M, x), Cpu!Sign(M, y)),
                                                    Cpu!Sign(M, s.val)), x + y + c >= M)
<1> DEFINE r == (x + y + c) % M
           over == x + y + c >= M
           s == Cpu!Add(ccr, M, x, y, c)
<1>1. M \in {256, 65536} /\ x \in 0 .. (M - 1) /\ y \in 0 .. (M - 1)
  BY DEF Moduli, Cpu!ByteMod, Cpu!WordMod, Operand
<1>2. r = IF x + y + c >= M THEN x + y + c - M ELSE x + y + c
  BY <1>1, SMT
<1>3. over \in BOOLEAN
  BY <1>1, SMT
<1>4. s = Cpu!Arith(ccr, M, x, y, r, over)
  BY DEF Cpu!Add
<1> HIDE DEF r, over
<1>5. LET t == Cpu!Arith(ccr, M, x, y, r, over)
      IN  /\ t.val = r
          /\ ("C" \in t.ccr) <=> over
          /\ ("N" \in t.ccr) <=> Cpu!Sign(M, r)
          /\ ("V" \in t.ccr) <=>
                Cpu!Differ(Cpu!Differ(Cpu!Differ(Cpu!Sign(M, x), Cpu!Sign(M, y)), Cpu!Sign(M, r)), over)
  BY <1>3, ArithFlags
<1>6. /\ s.val = r
      /\ ("C" \in s.ccr) <=> over
      /\ ("N" \in s.ccr) <=> Cpu!Sign(M, r)
      /\ ("V" \in s.ccr) <=>
            Cpu!Differ(Cpu!Differ(Cpu!Differ(Cpu!Sign(M, x), Cpu!Sign(M, y)), Cpu!Sign(M, r)), over)
  <2> HIDE DEF s
  <2> QED
    BY <1>4, <1>5
<1> QED
  BY <1>2, <1>6 DEF over

\* The half carry disturbs no other flag.
LEMMA AddByteFlags ==
    ASSUME NEW ccr, NEW x, NEW y, NEW c
    PROVE  LET s == Cpu!AddByte(ccr, x, y, c)
               t == Cpu!Add(ccr, Cpu!ByteMod, x, y, c)
           IN  /\ s.val = t.val
               /\ \A n \in {"C", "N", "Z", "V"} : n \in s.ccr <=> n \in t.ccr
<1> DEFINE t == Cpu!Add(ccr, Cpu!ByteMod, x, y, c)
           h == [H |-> Cpu!Differ(Cpu!Differ(Cpu!Bit4(x), Cpu!Bit4(y)), Cpu!Bit4(t.val))]
           s == Cpu!AddByte(ccr, x, y, c)
<1>1. s = [t EXCEPT !.ccr = Cpu!SetFlags(t.ccr, h)]
  BY DEF Cpu!AddByte
<1>2. DOMAIN t = {"val", "ccr"}
  BY DEF Cpu!Add, Cpu!Arith
<1>3. DOMAIN h = {"H"}
  OBVIOUS
<1> HIDE DEF t, h, s
<1>4. s.val = t.val /\ s.ccr = Cpu!SetFlags(t.ccr, h)
  BY <1>1, <1>2
<1>5. \A n \in {"C", "N", "Z", "V"} : n \in s.ccr <=> n \in t.ccr
  BY <1>3, <1>4, SetFlagsMember
<1> QED
  BY <1>4, <1>5 DEF s, t

LEMMA Widths == Cpu!ByteMod = 256 /\ Cpu!WordMod = 65536
  BY DEF Cpu!ByteMod, Cpu!WordMod

LEMMA WordOperand ==
    ASSUME NEW a \in 0 .. 255, NEW b \in 0 .. 255
    PROVE  256 * a + b \in Operand(Cpu!WordMod)
<1>1. 256 * a + b >= 0 /\ 256 * a + b < 65536 /\ 256 * a + b \in Int
  OBVIOUS
<1>2. ASSUME NEW n \in Int, NEW v \in Int, 0 <= v, v < n
      PROVE  v \in Operand(n)
  BY <1>2 DEF Operand
<1>3. 65536 \in Int
  OBVIOUS
<1> QED
  BY <1>1, <1>2, <1>3, Widths

\* The sign of a word is the sign of its high byte.
LEMMA SignOfWord ==
    ASSUME NEW a \in 0 .. 255, NEW b \in 0 .. 255
    PROVE  Cpu!Sign(Cpu!WordMod, 256 * a + b) <=> Cpu!Sign(Cpu!ByteMod, a)
  BY DEF Cpu!Sign, Cpu!WordMod, Cpu!ByteMod

\* subb and then sbca, with the borrow of the first, and subd; addb, adca and addd.
SubLow(ccr, b, q) == Cpu!Sub(ccr, Cpu!ByteMod, b, q, 0)
SbcHigh(ccr, a, b, p, q) ==
    LET lo == SubLow(ccr, b, q)
    IN  Cpu!Sub(lo.ccr, Cpu!ByteMod, a, p, IF "C" \in lo.ccr THEN 1 ELSE 0)
SubD(ccr, a, b, p, q) == Cpu!Sub(ccr, Cpu!WordMod, 256 * a + b, 256 * p + q, 0)
AddLow(ccr, b, q) == Cpu!AddByte(ccr, b, q, 0)
AdcHigh(ccr, a, b, p, q) ==
    LET lo == AddLow(ccr, b, q)
    IN  Cpu!AddByte(lo.ccr, a, p, IF "C" \in lo.ccr THEN 1 ELSE 0)
AddD(ccr, a, b, p, q) == Cpu!Add(ccr, Cpu!WordMod, 256 * a + b, 256 * p + q, 0)

\* subb then sbca give what subd gives: the difference, the borrow, the sign and
\* the overflow of the words, whatever their bytes.
THEOREM SubPairs ==
    ASSUME NEW ccr, NEW a \in Cpu!Byte, NEW b \in Cpu!Byte, NEW p \in Cpu!Byte,
           NEW q \in Cpu!Byte
    PROVE  /\ 256 * SbcHigh(ccr, a, b, p, q).val + SubLow(ccr, b, q).val = SubD(ccr, a, b, p, q).val
           /\ \A n \in {"C", "N", "V"} : n \in SbcHigh(ccr, a, b, p, q).ccr <=> n \in SubD(ccr, a, b, p, q).ccr
<1>0. a \in 0 .. 255 /\ b \in 0 .. 255 /\ p \in 0 .. 255 /\ q \in 0 .. 255
  BY DEF Cpu!Byte, Cpu!ByteMod
<1> USE <1>0
<1> DEFINE lo == Cpu!Sub(ccr, Cpu!ByteMod, b, q, 0)
           c == IF "C" \in lo.ccr THEN 1 ELSE 0
           hi == Cpu!Sub(lo.ccr, Cpu!ByteMod, a, p, c)
           x == 256 * a + b
           y == 256 * p + q
           w == Cpu!Sub(ccr, Cpu!WordMod, x, y, 0)
<1>1. a \in Operand(Cpu!ByteMod) /\ b \in Operand(Cpu!ByteMod) /\ p \in Operand(Cpu!ByteMod)
      /\ q \in Operand(Cpu!ByteMod) /\ Cpu!ByteMod \in Moduli /\ Cpu!WordMod \in Moduli
  BY DEF Operand, Cpu!ByteMod, Moduli
<1>2. x \in Operand(Cpu!WordMod) /\ y \in Operand(Cpu!WordMod)
  BY WordOperand, ZenonT(40)
<1>3. c \in 0 .. 1 /\ 0 \in 0 .. 1
  OBVIOUS
<1>4. /\ lo.val = IF b < q + 0 THEN b - q - 0 + 256 ELSE b - q - 0
      /\ ("C" \in lo.ccr) <=> b < q + 0
  BY <1>1, <1>3, SubFlags DEF Cpu!ByteMod
<1> HIDE DEF lo
<1>5. c = IF b < q + 0 THEN 1 ELSE 0
  BY <1>4
<1> HIDE DEF c, x, y
<1>6. /\ hi.val = IF a < p + c THEN a - p - c + 256 ELSE a - p - c
      /\ ("C" \in hi.ccr) <=> a < p + c
      /\ ("N" \in hi.ccr) <=> Cpu!Sign(Cpu!ByteMod, hi.val)
      /\ ("V" \in hi.ccr) <=> Cpu!Differ(Cpu!Differ(Cpu!Differ(Cpu!Sign(Cpu!ByteMod, a), Cpu!Sign(Cpu!ByteMod, p)),
                                            Cpu!Sign(Cpu!ByteMod, hi.val)), a < p + c)
  BY <1>1, <1>3, SubFlags DEF Cpu!ByteMod
<1>7. /\ w.val = IF x < y + 0 THEN x - y - 0 + Cpu!WordMod ELSE x - y - 0
      /\ ("C" \in w.ccr) <=> x < y + 0
      /\ ("N" \in w.ccr) <=> Cpu!Sign(Cpu!WordMod, w.val)
      /\ ("V" \in w.ccr) <=> Cpu!Differ(Cpu!Differ(Cpu!Differ(Cpu!Sign(Cpu!WordMod, x), Cpu!Sign(Cpu!WordMod, y)),
                                           Cpu!Sign(Cpu!WordMod, w.val)), x < y + 0)
  BY <1>1, <1>2, <1>3, SubFlags
<1> HIDE DEF hi, w
<1>8. a < p + c <=> x < y + 0
  BY <1>3, <1>5, SMT DEF x, y
<1>9. 256 * hi.val + lo.val = w.val
  <2> DEFINE e == IF a < p + c THEN 1 ELSE 0
  <2>1. x = 256 * a + b /\ y = 256 * p + q
    BY DEF x, y
  <2>2. lo.val = b - q + 256 * c
    <3>1. CASE b < q + 0
      <4>1. lo.val = b - q - 0 + 256 /\ c = 1
        BY <1>4, <1>5, <3>1
      <4> QED
        BY <4>1
    <3>2. CASE ~(b < q + 0)
      <4>1. lo.val = b - q - 0 /\ c = 0
        BY <1>4, <1>5, <3>2
      <4> QED
        BY <4>1
    <3> QED
      BY <3>1, <3>2
  <2>3. hi.val = IF a < p + c THEN a - p - c + 256 ELSE a - p - c
    BY <1>6
  <2>4. hi.val = a - p - c + 256 * e
    BY <1>3, <2>3
  <2>5. w.val = IF a < p + c THEN x - y - 0 + 65536 ELSE x - y - 0
    BY <1>7, <1>8, Widths
  <2>6. w.val = x - y + 65536 * e
    BY <2>1, <2>5
  <2>7. c \in Int /\ e \in Int
    BY <1>3
  <2> HIDE DEF e
  <2> QED
    BY <2>1, <2>2, <2>4, <2>6, <2>7
<1>10. /\ Cpu!Sign(Cpu!ByteMod, hi.val) <=> Cpu!Sign(Cpu!WordMod, w.val)
       /\ Cpu!Sign(Cpu!ByteMod, a) <=> Cpu!Sign(Cpu!WordMod, x)
       /\ Cpu!Sign(Cpu!ByteMod, p) <=> Cpu!Sign(Cpu!WordMod, y)
  <2>0. hi.val = IF a < p + c THEN a - p - c + 256 ELSE a - p - c
    BY <1>6
  <2>1. hi.val \in 0 .. 255
    BY <1>3, <2>0
  <2>5. lo.val \in 0 .. 255
    <3>1. CASE b < q + 0
      <4>1. lo.val = b - q - 0 + 256
        BY <1>4, <3>1
      <4> QED
        BY <4>1, <3>1
    <3>2. CASE ~(b < q + 0)
      <4>1. lo.val = b - q - 0
        BY <1>4, <3>2
      <4> QED
        BY <4>1, <3>2
    <3> QED
      BY <3>1, <3>2
  <2>2. Cpu!Sign(Cpu!WordMod, 256 * hi.val + lo.val) <=> Cpu!Sign(Cpu!ByteMod, hi.val)
    BY <2>1, <2>5, SignOfWord
  <2>3. Cpu!Sign(Cpu!WordMod, 256 * a + b) <=> Cpu!Sign(Cpu!ByteMod, a)
    BY SignOfWord
  <2>4. Cpu!Sign(Cpu!WordMod, 256 * p + q) <=> Cpu!Sign(Cpu!ByteMod, p)
    BY SignOfWord
  <2> QED
    BY <1>9, <2>2, <2>3, <2>4, ZenonT(40) DEF x, y
<1>11. \A n \in {"C", "N", "V"} : n \in hi.ccr <=> n \in w.ccr
  BY <1>6, <1>7, <1>8, <1>10 DEF Cpu!Differ
<1>12. lo = SubLow(ccr, b, q) /\ hi = SbcHigh(ccr, a, b, p, q) /\ w = SubD(ccr, a, b, p, q)
  BY Zenon DEF lo, hi, w, c, x, y, SubLow, SbcHigh, SubD
<1> QED
  BY <1>9, <1>11, <1>12


\* addb then adca give what addd gives.
THEOREM AddPairs ==
    ASSUME NEW ccr, NEW a \in Cpu!Byte, NEW b \in Cpu!Byte, NEW p \in Cpu!Byte,
           NEW q \in Cpu!Byte
    PROVE  /\ 256 * AdcHigh(ccr, a, b, p, q).val + AddLow(ccr, b, q).val = AddD(ccr, a, b, p, q).val
           /\ \A n \in {"C", "N", "V"} : n \in AdcHigh(ccr, a, b, p, q).ccr <=> n \in AddD(ccr, a, b, p, q).ccr
<1>0. a \in 0 .. 255 /\ b \in 0 .. 255 /\ p \in 0 .. 255 /\ q \in 0 .. 255
  BY DEF Cpu!Byte, Cpu!ByteMod
<1> USE <1>0
<1> DEFINE lo == Cpu!AddByte(ccr, b, q, 0)
           c == IF "C" \in lo.ccr THEN 1 ELSE 0
           hi == Cpu!AddByte(lo.ccr, a, p, c)
           x == 256 * a + b
           y == 256 * p + q
           w == Cpu!Add(ccr, Cpu!WordMod, x, y, 0)
<1>1. a \in Operand(Cpu!ByteMod) /\ b \in Operand(Cpu!ByteMod) /\ p \in Operand(Cpu!ByteMod)
      /\ q \in Operand(Cpu!ByteMod) /\ Cpu!ByteMod \in Moduli /\ Cpu!WordMod \in Moduli
  BY DEF Operand, Cpu!ByteMod, Moduli
<1>2. x \in Operand(Cpu!WordMod) /\ y \in Operand(Cpu!WordMod)
  BY WordOperand, ZenonT(40)
<1>3. c \in 0 .. 1 /\ 0 \in 0 .. 1
  OBVIOUS
<1>4. /\ lo.val = IF b + q + 0 >= 256 THEN b + q + 0 - 256 ELSE b + q + 0
      /\ ("C" \in lo.ccr) <=> b + q + 0 >= 256
  BY <1>1, <1>3, AddFlags, AddByteFlags DEF Cpu!ByteMod
<1> HIDE DEF lo
<1>5. c = IF b + q + 0 >= 256 THEN 1 ELSE 0
  BY <1>4
<1> HIDE DEF c, x, y
<1>6. /\ hi.val = IF a + p + c >= 256 THEN a + p + c - 256 ELSE a + p + c
      /\ ("C" \in hi.ccr) <=> a + p + c >= 256
      /\ ("N" \in hi.ccr) <=> Cpu!Sign(Cpu!ByteMod, hi.val)
      /\ ("V" \in hi.ccr) <=> Cpu!Differ(Cpu!Differ(Cpu!Differ(Cpu!Sign(Cpu!ByteMod, a), Cpu!Sign(Cpu!ByteMod, p)),
                                            Cpu!Sign(Cpu!ByteMod, hi.val)), a + p + c >= 256)
  BY <1>1, <1>3, AddFlags, AddByteFlags DEF Cpu!ByteMod
<1>7. /\ w.val = IF x + y + 0 >= Cpu!WordMod THEN x + y + 0 - Cpu!WordMod ELSE x + y + 0
      /\ ("C" \in w.ccr) <=> x + y + 0 >= Cpu!WordMod
      /\ ("N" \in w.ccr) <=> Cpu!Sign(Cpu!WordMod, w.val)
      /\ ("V" \in w.ccr) <=> Cpu!Differ(Cpu!Differ(Cpu!Differ(Cpu!Sign(Cpu!WordMod, x), Cpu!Sign(Cpu!WordMod, y)),
                                           Cpu!Sign(Cpu!WordMod, w.val)), x + y + 0 >= Cpu!WordMod)
  BY <1>1, <1>2, <1>3, AddFlags
<1> HIDE DEF hi, w
<1>8. a + p + c >= 256 <=> x + y + 0 >= Cpu!WordMod
  <2>1. a + p + c >= 256 <=> x + y + 0 >= 65536
    BY <1>3, <1>5, SMT DEF x, y
  <2> QED
    BY <2>1, Widths
<1>9. 256 * hi.val + lo.val = w.val
  <2> DEFINE e == IF a + p + c >= 256 THEN 1 ELSE 0
  <2>1. x = 256 * a + b /\ y = 256 * p + q
    BY DEF x, y
  <2>2. lo.val = b + q - 256 * c
    BY <1>4, <1>5
  <2>3. hi.val = IF a + p + c >= 256 THEN a + p + c - 256 ELSE a + p + c
    BY <1>6
  <2>4. hi.val = a + p + c - 256 * e
    BY <1>3, <2>3
  <2>5. w.val = IF a + p + c >= 256 THEN x + y + 0 - 65536 ELSE x + y + 0
    BY <1>7, <1>8, Widths
  <2>6. w.val = x + y - 65536 * e
    BY <2>1, <2>5
  <2>7. c \in Int /\ e \in Int
    BY <1>3
  <2> HIDE DEF e
  <2> QED
    BY <2>1, <2>2, <2>4, <2>6, <2>7
<1>10. /\ Cpu!Sign(Cpu!ByteMod, hi.val) <=> Cpu!Sign(Cpu!WordMod, w.val)
       /\ Cpu!Sign(Cpu!ByteMod, a) <=> Cpu!Sign(Cpu!WordMod, x)
       /\ Cpu!Sign(Cpu!ByteMod, p) <=> Cpu!Sign(Cpu!WordMod, y)
  <2>0. hi.val = IF a + p + c >= 256 THEN a + p + c - 256 ELSE a + p + c
    BY <1>6
  <2>1. hi.val \in 0 .. 255
    BY <1>3, <2>0
  <2>5. lo.val \in 0 .. 255
    BY <1>4
  <2>2. Cpu!Sign(Cpu!WordMod, 256 * hi.val + lo.val) <=> Cpu!Sign(Cpu!ByteMod, hi.val)
    BY <2>1, <2>5, SignOfWord
  <2>3. Cpu!Sign(Cpu!WordMod, 256 * a + b) <=> Cpu!Sign(Cpu!ByteMod, a)
    BY SignOfWord
  <2>4. Cpu!Sign(Cpu!WordMod, 256 * p + q) <=> Cpu!Sign(Cpu!ByteMod, p)
    BY SignOfWord
  <2> QED
    BY <1>9, <2>2, <2>3, <2>4, ZenonT(40) DEF x, y
<1>11. \A n \in {"C", "N", "V"} : n \in hi.ccr <=> n \in w.ccr
  BY <1>6, <1>7, <1>8, <1>10 DEF Cpu!Differ
<1>12. lo = AddLow(ccr, b, q) /\ hi = AdcHigh(ccr, a, b, p, q) /\ w = AddD(ccr, a, b, p, q)
  BY Zenon DEF lo, hi, w, c, x, y, AddLow, AdcHigh, AddD
<1> QED
  BY <1>9, <1>11, <1>12
-------------------------------------------------------------------------------
(* The processor keeps its types and its record of calls sound. *)

LEMMA BytesAre == \A x : x \in Cpu!Byte <=> x \in Int /\ 0 <= x /\ x <= 255
  BY DEF Cpu!Byte, Cpu!ByteMod

LEMMA WordsAre == \A x : x \in Cpu!Word <=> x \in Int /\ 0 <= x /\ x <= 65535
<1>1. Cpu!WordMod = 65536
  BY DEF Cpu!WordMod
<1>2. ASSUME NEW n \in Int PROVE \A x : x \in 0 .. (n - 1) <=> x \in Int /\ 0 <= x /\ x <= n - 1
  OBVIOUS
<1>3. Cpu!WordMod \in Int
  BY <1>1
<1>4. \A x : x \in Cpu!Word <=> x \in Int /\ 0 <= x /\ x <= Cpu!WordMod - 1
  BY <1>2, <1>3 DEF Cpu!Word
<1> QED
  BY <1>1, <1>4

LEMMA WordOfBytes ==
    ASSUME NEW h \in Cpu!Byte, NEW l \in Cpu!Byte
    PROVE  256 * h + l \in Cpu!Word
  BY BytesAre, WordsAre

LEMMA BytesOfWord ==
    ASSUME NEW v \in Cpu!Word
    PROVE  v \div 256 \in Cpu!Byte /\ v % 256 \in Cpu!Byte /\ (v \div 256) % 256 \in Cpu!Byte
<1>1. v \in Int /\ 0 <= v /\ v <= 65535
  BY WordsAre
<1>2. v \div 256 \in Int /\ 0 <= v \div 256 /\ v \div 256 <= 255
  BY <1>1
<1>3. v % 256 \in Int /\ 0 <= v % 256 /\ v % 256 <= 255
  BY <1>1
<1>4. (v \div 256) % 256 = v \div 256
  BY <1>2
<1> QED
  BY <1>2, <1>3, <1>4, BytesAre

LEMMA Reduced ==
    ASSUME NEW v \in Int
    PROVE  v % Cpu!WordMod \in Cpu!Word /\ v % Cpu!ByteMod \in Cpu!Byte
<1>1. Cpu!WordMod = 65536 /\ Cpu!ByteMod = 256
  BY DEF Cpu!WordMod, Cpu!ByteMod
<1>2. v % 65536 \in Int /\ 0 <= v % 65536 /\ v % 65536 <= 65535
  OBVIOUS
<1>3. v % 256 \in Int /\ 0 <= v % 256 /\ v % 256 <= 255
  OBVIOUS
<1> QED
  BY <1>1, <1>2, <1>3, BytesAre, WordsAre

\* An operation leaves a value in R and nothing but flags.
Yields(s, R) == s.val \in R /\ s.ccr \subseteq Cpu!Flags

LEMMA SetFlagsTyped ==
    ASSUME NEW ccr \in SUBSET Cpu!Flags, NEW f, DOMAIN f \subseteq Cpu!Flags
    PROVE  Cpu!SetFlags(ccr, f) \subseteq Cpu!Flags
  BY DEF Cpu!SetFlags

LEMMA BitTestTyped ==
    ASSUME NEW ccr \in SUBSET Cpu!Flags, NEW M, NEW x
    PROVE  Cpu!BitTest(ccr, M, x).val = x /\ Cpu!BitTest(ccr, M, x).ccr \subseteq Cpu!Flags
<1> DEFINE f == [N |-> Cpu!Sign(M, x), Z |-> x = 0, V |-> FALSE]
<1>1. DOMAIN f \subseteq Cpu!Flags
  BY DEF Cpu!Flags
<1>2. Cpu!BitTest(ccr, M, x) = [val |-> x, ccr |-> Cpu!SetFlags(ccr, f)]
  BY DEF Cpu!BitTest
<1> HIDE DEF f
<1> QED
  BY <1>1, <1>2, SetFlagsTyped

LEMMA ArithTyped ==
    ASSUME NEW ccr \in SUBSET Cpu!Flags, NEW M, NEW x, NEW y, NEW r, NEW carry
    PROVE  /\ Cpu!Arith(ccr, M, x, y, r, carry).val = r
           /\ Cpu!Arith(ccr, M, x, y, r, carry).ccr \subseteq Cpu!Flags
<1> DEFINE v == Cpu!Differ(Cpu!Differ(Cpu!Differ(Cpu!Sign(M, x), Cpu!Sign(M, y)), Cpu!Sign(M, r)), carry)
           f == [C |-> carry, N |-> Cpu!Sign(M, r), Z |-> r = 0, V |-> v]
<1>1. DOMAIN f \subseteq Cpu!Flags
  BY DEF Cpu!Flags
<1>2. Cpu!Arith(ccr, M, x, y, r, carry) = [val |-> r, ccr |-> Cpu!SetFlags(ccr, f)]
  BY DEF Cpu!Arith
<1> HIDE DEF f
<1> QED
  BY <1>1, <1>2, SetFlagsTyped

LEMMA SubAddTyped ==
    ASSUME NEW ccr \in SUBSET Cpu!Flags, NEW x \in Int, NEW y \in Int, NEW c \in Int
    PROVE  /\ Yields(Cpu!Sub(ccr, Cpu!ByteMod, x, y, c), Cpu!Byte)
           /\ Yields(Cpu!Sub(ccr, Cpu!WordMod, x, y, c), Cpu!Word)
           /\ Yields(Cpu!Add(ccr, Cpu!WordMod, x, y, c), Cpu!Word)
           /\ Yields(Cpu!AddByte(ccr, x, y, c), Cpu!Byte)
<1>1. x - y - c \in Int /\ x + y + c \in Int
  OBVIOUS
<1> DEFINE below == x < y + c
           over(M) == x + y + c >= M
           less(M) == (x - y - c) % M
           more(M) == (x + y + c) % M
<1>2. \A M : /\ Cpu!Sub(ccr, M, x, y, c) = Cpu!Arith(ccr, M, x, y, less(M), below)
             /\ Cpu!Add(ccr, M, x, y, c) = Cpu!Arith(ccr, M, x, y, more(M), over(M))
  BY Zenon DEF Cpu!Sub, Cpu!Add
<1>3. /\ less(Cpu!ByteMod) \in Cpu!Byte /\ less(Cpu!WordMod) \in Cpu!Word
      /\ more(Cpu!ByteMod) \in Cpu!Byte /\ more(Cpu!WordMod) \in Cpu!Word
  BY <1>1, Reduced
<1> HIDE DEF below, over, less, more
<1>4. \A M : /\ Cpu!Sub(ccr, M, x, y, c).val = less(M) /\ Cpu!Sub(ccr, M, x, y, c).ccr \subseteq Cpu!Flags
             /\ Cpu!Add(ccr, M, x, y, c).val = more(M) /\ Cpu!Add(ccr, M, x, y, c).ccr \subseteq Cpu!Flags
  BY <1>2, ArithTyped
<1>0. /\ Yields(Cpu!Sub(ccr, Cpu!ByteMod, x, y, c), Cpu!Byte)
      /\ Yields(Cpu!Sub(ccr, Cpu!WordMod, x, y, c), Cpu!Word)
      /\ Yields(Cpu!Add(ccr, Cpu!WordMod, x, y, c), Cpu!Word)
      /\ Yields(Cpu!Add(ccr, Cpu!ByteMod, x, y, c), Cpu!Byte)
  BY <1>3, <1>4 DEF Yields
<1> DEFINE t == Cpu!Add(ccr, Cpu!ByteMod, x, y, c)
           h == [H |-> Cpu!Differ(Cpu!Differ(Cpu!Bit4(x), Cpu!Bit4(y)), Cpu!Bit4(t.val))]
           s == Cpu!AddByte(ccr, x, y, c)
<1>5. s = [t EXCEPT !.ccr = Cpu!SetFlags(t.ccr, h)]
  BY DEF Cpu!AddByte
<1>6. DOMAIN t = {"val", "ccr"}
  BY DEF Cpu!Add, Cpu!Arith
<1>7. DOMAIN h \subseteq Cpu!Flags
  BY DEF Cpu!Flags
<1> HIDE DEF t, h, s
<1>8. t.ccr \in SUBSET Cpu!Flags /\ t.val \in Cpu!Byte
  BY <1>0 DEF Yields, t
<1>9. Cpu!SetFlags(t.ccr, h) \subseteq Cpu!Flags
  BY <1>7, <1>8, SetFlagsTyped
<1>10. s.val = t.val /\ s.ccr = Cpu!SetFlags(t.ccr, h)
  BY <1>5, <1>6
<1>11. Yields(s, Cpu!Byte)
  BY <1>8, <1>9, <1>10 DEF Yields
<1> QED
  BY <1>0, <1>11 DEF s

LEMMA FromBitsTyped == ASSUME NEW s PROVE Cpu!FromBits(s) \in Cpu!Byte
<1> DEFINE w(i, v) == IF i \in s THEN v ELSE 0
<1>1. \A i : \A v \in Int : w(i, v) \in Int /\ (w(i, v) = 0 \/ w(i, v) = v)
  OBVIOUS
<1>2. Cpu!FromBits(s) = w(0, 1) + w(1, 2) + w(2, 4) + w(3, 8) + w(4, 16) + w(5, 32) + w(6, 64) + w(7, 128)
  BY DEF Cpu!FromBits
<1> HIDE DEF w
<1>3. /\ w(0, 1) \in {0, 1} /\ w(1, 2) \in {0, 2} /\ w(2, 4) \in {0, 4} /\ w(3, 8) \in {0, 8}
      /\ w(4, 16) \in {0, 16} /\ w(5, 32) \in {0, 32} /\ w(6, 64) \in {0, 64} /\ w(7, 128) \in {0, 128}
  BY <1>1
<1>4. Cpu!FromBits(s) \in Int /\ 0 <= Cpu!FromBits(s) /\ Cpu!FromBits(s) <= 255
  BY <1>2, <1>3
<1> QED
  BY <1>4, BytesAre

LEMMA LogicTyped ==
    ASSUME NEW ccr \in SUBSET Cpu!Flags, NEW x, NEW y
    PROVE  /\ Yields(Cpu!And(ccr, x, y), Cpu!Byte)
           /\ Yields(Cpu!Or(ccr, x, y), Cpu!Byte)
           /\ Yields(Cpu!Xor(ccr, x, y), Cpu!Byte)
  BY BitTestTyped, FromBitsTyped DEF Cpu!And, Cpu!Or, Cpu!Xor, Yields

LEMMA ShiftedTyped ==
    ASSUME NEW ccr \in SUBSET Cpu!Flags, NEW M, NEW r, NEW out
    PROVE  Cpu!Shifted(ccr, M, r, out).val = r /\ Cpu!Shifted(ccr, M, r, out).ccr \subseteq Cpu!Flags
<1> DEFINE f == [N |-> Cpu!Sign(M, r), Z |-> r = 0, V |-> Cpu!Differ(Cpu!Sign(M, r), out), C |-> out]
<1>1. DOMAIN f \subseteq Cpu!Flags
  BY DEF Cpu!Flags
<1>2. Cpu!Shifted(ccr, M, r, out) = [val |-> r, ccr |-> Cpu!SetFlags(ccr, f)]
  BY DEF Cpu!Shifted
<1> HIDE DEF f
<1> QED
  BY <1>1, <1>2, SetFlagsTyped

LEMMA ShiftTyped ==
    ASSUME NEW ccr \in SUBSET Cpu!Flags, NEW bit \in BOOLEAN
    PROVE  /\ \A x \in Cpu!Byte : /\ Yields(Cpu!Shl(ccr, Cpu!ByteMod, x, bit), Cpu!Byte)
                                  /\ Yields(Cpu!Shr(ccr, Cpu!ByteMod, x, bit), Cpu!Byte)
           /\ \A x \in Cpu!Word : /\ Yields(Cpu!Shl(ccr, Cpu!WordMod, x, bit), Cpu!Word)
                                  /\ Yields(Cpu!Shr(ccr, Cpu!WordMod, x, bit), Cpu!Word)
<1>0. Cpu!ByteMod = 256 /\ Cpu!WordMod = 65536
  BY DEF Cpu!ByteMod, Cpu!WordMod
<1>1. ASSUME NEW x \in Cpu!Byte
      PROVE  /\ ((2 * x) % 256) + (IF bit THEN 1 ELSE 0) \in Cpu!Byte
             /\ (x \div 2) + (IF bit THEN 256 \div 2 ELSE 0) \in Cpu!Byte
  <2>1. x \in Int /\ 0 <= x /\ x <= 255
    BY BytesAre
  <2>2. 256 \div 2 = 128 /\ (2 * x) % 256 = (IF x >= 128 THEN 2 * x - 256 ELSE 2 * x)
    BY <2>1
  <2>3. x \div 2 \in Int /\ 0 <= x \div 2 /\ x \div 2 <= 127
    BY <2>1
  <2> QED
    BY <2>1, <2>2, <2>3, BytesAre
<1>2. ASSUME NEW x \in Cpu!Word
      PROVE  /\ ((2 * x) % 65536) + (IF bit THEN 1 ELSE 0) \in Cpu!Word
             /\ (x \div 2) + (IF bit THEN 65536 \div 2 ELSE 0) \in Cpu!Word
  <2>1. x \in Int /\ 0 <= x /\ x <= 65535
    BY WordsAre
  <2>2. 65536 \div 2 = 32768 /\ (2 * x) % 65536 = (IF x >= 32768 THEN 2 * x - 65536 ELSE 2 * x)
    BY <2>1
  <2>3. x \div 2 \in Int /\ 0 <= x \div 2 /\ x \div 2 <= 32767
    BY <2>1
  <2> QED
    BY <2>1, <2>2, <2>3, WordsAre
<1>3. ASSUME NEW x \in Cpu!Byte
      PROVE  /\ Yields(Cpu!Shl(ccr, Cpu!ByteMod, x, bit), Cpu!Byte)
             /\ Yields(Cpu!Shr(ccr, Cpu!ByteMod, x, bit), Cpu!Byte)
  <2> DEFINE l == ((2 * x) % Cpu!ByteMod) + (IF bit THEN 1 ELSE 0)
             r == (x \div 2) + (IF bit THEN Cpu!ByteMod \div 2 ELSE 0)
             top == Cpu!Sign(Cpu!ByteMod, x)
             end == x % 2 = 1
  <2>1. l \in Cpu!Byte /\ r \in Cpu!Byte
    BY <1>0, <1>1
  <2>2. /\ Cpu!Shl(ccr, Cpu!ByteMod, x, bit) = Cpu!Shifted(ccr, Cpu!ByteMod, l, top)
        /\ Cpu!Shr(ccr, Cpu!ByteMod, x, bit) = Cpu!Shifted(ccr, Cpu!ByteMod, r, end)
    BY Zenon DEF Cpu!Shl, Cpu!Shr
  <2> HIDE DEF l, r, top, end
  <2> QED
    BY <2>1, <2>2, ShiftedTyped DEF Yields
<1>4. ASSUME NEW x \in Cpu!Word
      PROVE  /\ Yields(Cpu!Shl(ccr, Cpu!WordMod, x, bit), Cpu!Word)
             /\ Yields(Cpu!Shr(ccr, Cpu!WordMod, x, bit), Cpu!Word)
  <2> DEFINE l == ((2 * x) % Cpu!WordMod) + (IF bit THEN 1 ELSE 0)
             r == (x \div 2) + (IF bit THEN Cpu!WordMod \div 2 ELSE 0)
             top == Cpu!Sign(Cpu!WordMod, x)
             end == x % 2 = 1
  <2>1. l \in Cpu!Word /\ r \in Cpu!Word
    BY <1>0, <1>2
  <2>2. /\ Cpu!Shl(ccr, Cpu!WordMod, x, bit) = Cpu!Shifted(ccr, Cpu!WordMod, l, top)
        /\ Cpu!Shr(ccr, Cpu!WordMod, x, bit) = Cpu!Shifted(ccr, Cpu!WordMod, r, end)
    BY Zenon DEF Cpu!Shl, Cpu!Shr
  <2> HIDE DEF l, r, top, end
  <2> QED
    BY <2>1, <2>2, ShiftedTyped DEF Yields
<1> QED
  BY <1>3, <1>4

LEMMA ByteStepsTyped ==
    ASSUME NEW ccr \in SUBSET Cpu!Flags, NEW x \in Cpu!Byte
    PROVE  /\ Yields(Cpu!Dec(ccr, x), Cpu!Byte)
           /\ Yields(Cpu!Inc(ccr, x), Cpu!Byte)
<1> DEFINE down == (x - 1) % Cpu!ByteMod
           up == (x + 1) % Cpu!ByteMod
           f == [V |-> x = 128, N |-> Cpu!Sign(Cpu!ByteMod, down), Z |-> down = 0]
           g == [V |-> x = 127, N |-> Cpu!Sign(Cpu!ByteMod, up), Z |-> up = 0]
<1>1. down \in Cpu!Byte /\ up \in Cpu!Byte
  <2>1. x - 1 \in Int /\ x + 1 \in Int
    BY BytesAre
  <2> QED
    BY <2>1, Reduced
<1>2. DOMAIN f \subseteq Cpu!Flags /\ DOMAIN g \subseteq Cpu!Flags
  BY DEF Cpu!Flags
<1>3. /\ Cpu!Dec(ccr, x) = [val |-> down, ccr |-> Cpu!SetFlags(ccr, f)]
      /\ Cpu!Inc(ccr, x) = [val |-> up, ccr |-> Cpu!SetFlags(ccr, g)]
  BY DEF Cpu!Dec, Cpu!Inc
<1> HIDE DEF f, g, up, down
<1> QED
  BY <1>1, <1>2, <1>3, SetFlagsTyped DEF Yields

LEMMA WordStepsTyped ==
    ASSUME NEW ccr \in SUBSET Cpu!Flags, NEW x \in Cpu!Word, NEW by \in {-1, 1}
    PROVE  Yields(Cpu!StepWord(ccr, x, by), Cpu!Word)
<1> DEFINE r == (x + by) % Cpu!WordMod
           f == [Z |-> r = 0]
<1>1. r \in Cpu!Word
  <2>1. x + by \in Int
    BY WordsAre
  <2> QED
    BY <2>1, Reduced
<1>2. DOMAIN f \subseteq Cpu!Flags
  BY DEF Cpu!Flags
<1>3. Cpu!StepWord(ccr, x, by) = [val |-> r, ccr |-> Cpu!SetFlags(ccr, f)]
  BY DEF Cpu!StepWord
<1> HIDE DEF f, r
<1> QED
  BY <1>1, <1>2, <1>3, SetFlagsTyped DEF Yields

LEMMA TestTyped ==
    ASSUME NEW ccr \in SUBSET Cpu!Flags, NEW x \in Cpu!Byte
    PROVE  /\ Yields(Cpu!Test(ccr, x), Cpu!Byte)
           /\ Yields(Cpu!Clr(ccr), Cpu!Byte)
           /\ Yields(Cpu!Com(ccr, x), Cpu!Byte)
           /\ Yields(Cpu!Neg(ccr, x), Cpu!Byte)
<1> DEFINE f == [V |-> FALSE, C |-> FALSE]
           g == [N |-> FALSE, Z |-> TRUE, V |-> FALSE, C |-> FALSE]
           h == [C |-> TRUE]
<1>1. DOMAIN f \subseteq Cpu!Flags /\ DOMAIN g \subseteq Cpu!Flags /\ DOMAIN h \subseteq Cpu!Flags
  BY DEF Cpu!Flags
<1>2. x \in Int /\ 0 \in Int /\ 0 \in Cpu!Byte /\ 255 - x \in Cpu!Byte
  BY BytesAre
<1>3. Yields(Cpu!Sub(ccr, Cpu!ByteMod, x, 0, 0), Cpu!Byte)
  BY <1>2, SubAddTyped
<1>4. Yields(Cpu!Neg(ccr, x), Cpu!Byte)
  BY <1>2, SubAddTyped DEF Cpu!Neg
<1>5. Cpu!Test(ccr, x) = [val |-> x, ccr |-> Cpu!SetFlags(Cpu!Sub(ccr, Cpu!ByteMod, x, 0, 0).ccr, f)]
  BY DEF Cpu!Test
<1>6. Cpu!Clr(ccr) = [val |-> 0, ccr |-> Cpu!SetFlags(ccr, g)]
  BY DEF Cpu!Clr
<1>7. Cpu!Com(ccr, x) = [val |-> 255 - x, ccr |-> Cpu!SetFlags(Cpu!BitTest(ccr, Cpu!ByteMod, 255 - x).ccr, h)]
  BY DEF Cpu!Com
<1> HIDE DEF f, g, h
<1>8. Yields(Cpu!Test(ccr, x), Cpu!Byte)
  BY <1>1, <1>3, <1>5, SetFlagsTyped DEF Yields
<1>9. Yields(Cpu!Clr(ccr), Cpu!Byte)
  BY <1>1, <1>2, <1>6, SetFlagsTyped DEF Yields
<1>10. Yields(Cpu!Com(ccr, x), Cpu!Byte)
  BY <1>1, <1>2, <1>7, SetFlagsTyped, BitTestTyped DEF Yields
<1> QED
  BY <1>4, <1>8, <1>9, <1>10

LEMMA MulTyped ==
    ASSUME NEW ccr \in SUBSET Cpu!Flags, NEW x \in Cpu!Byte, NEW y \in Cpu!Byte
    PROVE  Yields(Cpu!Mul(ccr, x, y), Cpu!Word)
<1> DEFINE f == [C |-> Cpu!Sign(Cpu!ByteMod, (x * y) % Cpu!ByteMod)]
<1>1. x * y \in Cpu!Word
  <2>1. x \in Int /\ y \in Int /\ 0 <= x /\ x <= 255 /\ 0 <= y /\ y <= 255
    BY BytesAre
  <2>2. x * y \in Int /\ 0 <= x * y /\ x * y <= 255 * y
    BY <2>1
  <2> QED
    BY <2>1, <2>2, WordsAre
<1>2. DOMAIN f \subseteq Cpu!Flags
  BY DEF Cpu!Flags
<1>3. Cpu!Mul(ccr, x, y) = [val |-> x * y, ccr |-> Cpu!SetFlags(ccr, f)]
  BY DEF Cpu!Mul
<1> HIDE DEF f
<1> QED
  BY <1>1, <1>2, <1>3, SetFlagsTyped DEF Yields

LEMMA DaaTyped ==
    ASSUME NEW ccr \in SUBSET Cpu!Flags, NEW x \in Cpu!Byte
    PROVE  Yields(Cpu!Daa(ccr, x), Cpu!Byte)
<1> DEFINE low == x + (IF "H" \in ccr THEN 6 ELSE 0)
           adj == low + (IF low % 16 > 9 THEN 6 ELSE 0)
           mid == adj + (IF "C" \in ccr THEN 96 ELSE 0)
           r == mid + (IF (mid \div 16) % 16 > 9 THEN 96 ELSE 0)
           t == Cpu!BitTest(ccr, Cpu!ByteMod, r % Cpu!ByteMod)
<1>1. low \in Int /\ adj \in Int /\ mid \in Int
  BY BytesAre
<1> HIDE DEF mid
<1>2. r \in Int
  BY <1>1
<1> HIDE DEF r
<1>3. t.val \in Cpu!Byte /\ t.ccr \subseteq Cpu!Flags
  BY <1>2, Reduced, BitTestTyped
<1>4. DOMAIN t = {"val", "ccr"} /\ "C" \in Cpu!Flags
  BY DEF Cpu!BitTest, Cpu!Flags
<1> HIDE DEF t
<1>5. Cpu!Daa(ccr, x) = IF (r \div 256) % 2 = 1 THEN [t EXCEPT !.ccr = @ \cup {"C"}] ELSE t
  BY DEF Cpu!Daa, Cpu!DaaFrom, t, r, mid
<1>6. [t EXCEPT !.ccr = @ \cup {"C"}].val = t.val /\ [t EXCEPT !.ccr = @ \cup {"C"}].ccr = t.ccr \cup {"C"}
  BY <1>4
<1> QED
  BY <1>3, <1>4, <1>5, <1>6 DEF Yields

LEMMA ByteCcrTyped == ASSUME NEW v PROVE Cpu!ByteCcr(v) \subseteq Cpu!Flags
  BY DEF Cpu!ByteCcr

LEMMA CcrByteTyped == ASSUME NEW ccr PROVE Cpu!CcrByte(ccr) \in Cpu!Byte
  BY FromBitsTyped DEF Cpu!CcrByte

\* A machine whose record of calls is sound: what every operation preserves.
Good(m) == Cpu!IsMachine(m) /\ Cpu!Stacked(m)

LEMMA GetbTyped ==
    ASSUME NEW m, Cpu!IsMachine(m), NEW addr \in Int
    PROVE  Cpu!Getb(m, addr) \in Cpu!Byte
<1>1. /\ m.dev \in Cpu!Byte
      /\ \A x \in DOMAIN m.mem : m.mem[x] \in Cpu!Byte
      /\ \A x \in Cpu!Rom : Image[x] \in Cpu!Byte
  BY ChipAssumption DEF Cpu!IsMachine
<1>2. 0 \in Cpu!Byte /\ 255 \in Cpu!Byte
  BY BytesAre
<1>3. addr < Cpu!NIREGS \/ addr >= Cpu!NIREGS
  BY DEF Cpu!NIREGS
<1> QED
  BY <1>1, <1>2, <1>3 DEF Cpu!Getb

LEMMA GetwTyped ==
    ASSUME NEW m, Cpu!IsMachine(m), NEW addr \in Int
    PROVE  Cpu!Getw(m, addr) \in Cpu!Word
  BY GetbTyped, WordOfBytes DEF Cpu!Getw

\* The registers may take any value of their width.
LEMMA Loaded ==
    ASSUME NEW m, Good(m)
    PROVE  /\ \A v \in Cpu!Byte : /\ Good([m EXCEPT !.a = v])
                                  /\ Good([m EXCEPT !.b = v])
                                  /\ Good([m EXCEPT !.dev = v])
           /\ \A v \in Cpu!Word : /\ Good([m EXCEPT !.ix = v])
                                  /\ Good([m EXCEPT !.pc = v])
           /\ \A v \in SUBSET Cpu!Flags : Good([m EXCEPT !.ccr = v])
<1> USE DEF Good, Cpu!IsMachine, Cpu!Stacked
<1>1. ASSUME NEW v \in Cpu!Byte PROVE Good([m EXCEPT !.a = v])
  OBVIOUS
<1>2. ASSUME NEW v \in Cpu!Byte PROVE Good([m EXCEPT !.b = v])
  OBVIOUS
<1>3. ASSUME NEW v \in Cpu!Byte PROVE Good([m EXCEPT !.dev = v])
  OBVIOUS
<1>4. ASSUME NEW v \in Cpu!Word PROVE Good([m EXCEPT !.ix = v])
  OBVIOUS
<1>5. ASSUME NEW v \in Cpu!Word PROVE Good([m EXCEPT !.pc = v])
  OBVIOUS
<1>6. ASSUME NEW v \in SUBSET Cpu!Flags PROVE Good([m EXCEPT !.ccr = v])
  OBVIOUS
<1> HIDE DEF Good
<1> QED
  BY <1>1, <1>2, <1>3, <1>4, <1>5, <1>6

LEMMA AccumulatorsSet ==
    ASSUME NEW m, Good(m), NEW s, Yields(s, Cpu!Byte), NEW op
    PROVE  Good(Cpu!SetA(m, s)) /\ Good(Cpu!SetB(m, s)) /\ Good(Cpu!SetAcc(m, op, s))
<1> DEFINE na == [m EXCEPT !.a = s.val]
           nb == [m EXCEPT !.b = s.val]
<1>1. Good(na) /\ Good(nb) /\ s.ccr \in SUBSET Cpu!Flags
  BY Loaded DEF Yields
<1>2. Good([na EXCEPT !.ccr = s.ccr]) /\ Good([nb EXCEPT !.ccr = s.ccr])
  <2> HIDE DEF na, nb
  <2> QED
    BY <1>1, Loaded
<1>3. Cpu!SetA(m, s) = [na EXCEPT !.ccr = s.ccr] /\ Cpu!SetB(m, s) = [nb EXCEPT !.ccr = s.ccr]
  BY DEF Cpu!SetA, Cpu!SetB
<1> QED
  BY <1>2, <1>3 DEF Cpu!SetAcc

LEMMA WordsSet ==
    ASSUME NEW m, Good(m), NEW s, Yields(s, Cpu!Word)
    PROVE  Good(Cpu!SetX(m, s)) /\ Good(Cpu!SetAB(m, s)) /\ Good(Cpu!SetD(m, s.val))
<1> DEFINE nx == [m EXCEPT !.ix = s.val]
           na == [m EXCEPT !.a = (s.val \div 256) % 256]
           nd == [na EXCEPT !.b = s.val % 256]
<1>1. s.ccr \in SUBSET Cpu!Flags /\ s.val \in Cpu!Word
  BY DEF Yields
<1>2. (s.val \div 256) % 256 \in Cpu!Byte /\ s.val % 256 \in Cpu!Byte
  BY <1>1, BytesOfWord
<1>3. Good(nx) /\ Good(na)
  <2> DEFINE v == s.val
             w == (v \div 256) % 256
  <2>1. v \in Cpu!Word /\ w \in Cpu!Byte
    BY <1>1, <1>2
  <2> HIDE DEF v, w
  <2>2. Good([m EXCEPT !.ix = v]) /\ Good([m EXCEPT !.a = w])
    BY <2>1, Loaded
  <2> QED
    BY <2>2 DEF v, w
<1>4. Good(nd) /\ Good([nx EXCEPT !.ccr = s.ccr])
  <2> HIDE DEF na, nx
  <2> QED
    BY <1>1, <1>2, <1>3, Loaded, ZenonT(40)
<1>5. Cpu!SetD(m, s.val) = nd /\ Cpu!SetX(m, s) = [nx EXCEPT !.ccr = s.ccr]
  BY DEF Cpu!SetD, Cpu!SetX
<1>6. Good([nd EXCEPT !.ccr = s.ccr])
  <2> HIDE DEF nd
  <2> QED
    BY <1>1, <1>4, Loaded
<1>7. Cpu!SetAB(m, s) = [nd EXCEPT !.ccr = s.ccr]
  <2> HIDE DEF nd
  <2> QED
    BY <1>5 DEF Cpu!SetAB
<1> QED
  BY <1>4, <1>5, <1>6, <1>7

LEMMA PcMoved ==
    ASSUME NEW m, Good(m), NEW n \in Int
    PROVE  Good(Cpu!IncPc(m, n))
<1> DEFINE pc == (m.pc + n) % Cpu!WordMod
<1>1. m.pc + n \in Int
  BY WordsAre DEF Good, Cpu!IsMachine
<1>2. pc \in Cpu!Word
  BY <1>1, Reduced
<1>3. Cpu!IncPc(m, n) = [m EXCEPT !.pc = pc]
  BY DEF Cpu!IncPc
<1> HIDE DEF pc
<1> QED
  BY <1>2, <1>3, Loaded, ZenonT(40)

LEMMA PutbGood ==
    ASSUME NEW m, Good(m), NEW addr, NEW v \in Cpu!Byte
    PROVE  Good(Cpu!Putb(m, addr, v)) /\ Cpu!Putb(m, addr, v).sp = m.sp
<1> DEFINE w == Cpu!Written(m.mem, addr, v)
<1>1. CASE addr \in Cpu!Ram \cup Cpu!Rom
  <2>1. DOMAIN w = {addr} \cup DOMAIN m.mem
    BY DEF Cpu!Written
  <2>2. \A x \in DOMAIN w : w[x] = IF x = addr THEN v ELSE m.mem[x]
    BY DEF Cpu!Written
  <2> HIDE DEF w
  <2>3. DOMAIN m.mem \subseteq Cpu!Ram \cup Cpu!Rom /\ \A x \in DOMAIN m.mem : m.mem[x] \in Cpu!Byte
    BY DEF Good, Cpu!IsMachine
  <2>4. DOMAIN w \subseteq Cpu!Ram \cup Cpu!Rom /\ \A x \in DOMAIN w : w[x] \in Cpu!Byte
    BY <1>1, <2>1, <2>2, <2>3
  <2>5. Good([m EXCEPT !.mem = w]) /\ [m EXCEPT !.mem = w].sp = m.sp
    BY <2>4 DEF Good, Cpu!IsMachine, Cpu!Stacked
  <2>6. Cpu!Putb(m, addr, v) = [m EXCEPT !.mem = w]
    BY <1>1 DEF Cpu!Putb, w
  <2> QED
    BY <2>5, <2>6
<1>2. CASE addr \notin Cpu!Ram \cup Cpu!Rom
  BY <1>2 DEF Cpu!Putb
<1> QED
  BY <1>1, <1>2

LEMMA PutwGood ==
    ASSUME NEW m, Good(m), NEW addr, NEW v \in Cpu!Word
    PROVE  Good(Cpu!Putw(m, addr, v))
  BY PutbGood, BytesOfWord DEF Cpu!Putw

(* The stack. *)

LEMMA HighestIndex ==
    ASSUME NEW n \in Nat, NEW S \in SUBSET (0 .. n), S # {}
    PROVE  Cpu!Max(S) \in S /\ \A k \in S : k <= Cpu!Max(S)
<1> DEFINE T == {n - m : m \in S}
<1>1. T \subseteq Nat /\ T # {}
  <2>1. \A m \in S : m \in Int /\ n - m \in Nat
    OBVIOUS
  <2> QED
    BY <2>1
<1>2. PICK l \in T : \A k \in T : ~ (<<k, l>> \in OpToRel(<, Nat))
  BY <1>1, NatLessThanWellFounded, WFMin
<1> HIDE DEF T
<1>3. \A k \in T : l <= k
  <2>1. SUFFICES ASSUME NEW k \in T PROVE l <= k
    OBVIOUS
  <2>2. k \in Nat /\ l \in Nat
    BY <1>1
  <2>3. ~ (k < l)
    BY <1>2, <2>2, Zenon DEF OpToRel
  <2> QED
    BY <2>2, <2>3
<1> USE DEF T
<1>4. PICK m \in S : l = n - m
  OBVIOUS
<1>5. \A k \in S : m >= k
  BY <1>3, <1>4
<1> HIDE DEF T
<1>6. \E x \in S : \A y \in S : x >= y
  BY <1>5
<1>7. Cpu!Max(S) \in S /\ \A y \in S : Cpu!Max(S) >= y
  BY <1>6, Zenon DEF Cpu!Max
<1>8. \A k \in S : k \in Int
  OBVIOUS
<1> QED
  BY <1>7, <1>8

\* reg_setsp: what is left of the record of calls lies above the new pointer.
LEMMA SetSpGood ==
    ASSUME NEW m, Good(m), NEW v \in Int, v <= Cpu!WordMod
    PROVE  Good(Cpu!SetSp(m, v))
<1> DEFINE Above(s) == v < 0 \/ v > s
           low == {0} \cup {i \in DOMAIN m.calls : ~Above(m.calls[i].sp)}
           kept == IF Above(m.sp) THEN Cpu!Max(low) ELSE Len(m.calls)
           cs == SubSeq(m.calls, 1, kept)
           sp == v % Cpu!WordMod
           Call == [entry : Cpu!Word, sp : Cpu!Word]
<1>1. /\ m.calls \in Seq(Call) /\ Len(m.calls) \in Nat /\ DOMAIN m.calls = 1 .. Len(m.calls)
      /\ Len(m.calls) <= MaxCallstack /\ MaxCallstack \in Nat /\ m.sp \in Cpu!Word
  BY ChipAssumption DEF Good, Cpu!IsMachine
<1>2. \A i \in 1 .. Len(m.calls) : m.calls[i] \in Call /\ m.calls[i].sp \in Cpu!Word
  <2>1. \A c \in Call : c.sp \in Cpu!Word
    OBVIOUS
  <2> HIDE DEF Call
  <2>2. \A i \in 1 .. Len(m.calls) : m.calls[i] \in Call
    BY <1>1, ElementOfSeq
  <2> QED
    BY <2>1, <2>2
<1>3. \A i \in 1 .. Len(m.calls) : /\ m.calls[i].sp >= m.sp
                                   /\ \A j \in 1 .. i : m.calls[j].sp >= m.calls[i].sp
  BY <1>1 DEF Good, Cpu!Stacked
<1>4. low \subseteq 0 .. Len(m.calls) /\ low # {}
  BY <1>1
<1>5. Cpu!Max(low) \in low /\ Cpu!Max(low) \in 0 .. Len(m.calls)
  <2> DEFINE n == Len(m.calls)
  <2>1. n \in Nat /\ low \in SUBSET (0 .. n)
    BY <1>1, <1>4
  <2> HIDE DEF low, n
  <2>2. Cpu!Max(low) \in low
    BY <1>4, <2>1, HighestIndex, Zenon
  <2>3. Cpu!Max(low) \in 0 .. n
    BY <2>1, <2>2, Zenon
  <2> QED
    BY <2>2, <2>3, Zenon DEF n
<1>6. kept \in 0 .. Len(m.calls)
  <2> DEFINE top == Cpu!Max(low)
             n == Len(m.calls)
  <2>1. kept = (IF Above(m.sp) THEN top ELSE n) /\ top \in 0 .. n /\ n \in Nat
    BY <1>1, <1>5
  <2> HIDE DEF kept, low, top
  <2> QED
    BY <2>1
<1>7. kept > 0 => ~Above(m.calls[kept].sp)
  <2>1. CASE Above(m.sp)
    <3>1. kept \in low
      BY <1>5, <2>1
    <3> HIDE DEF kept
    <3> QED
      BY <3>1
  <2>2. CASE ~Above(m.sp)
    <3>1. kept = Len(m.calls)
      BY <2>2
    <3> HIDE DEF kept
    <3>2. kept > 0 => m.calls[kept].sp >= m.sp /\ m.calls[kept].sp \in Int /\ m.sp \in Int
      BY <1>1, <1>2, <1>3, <1>6, <3>1, WordsAre, SMTT(20)
    <3> QED
      BY <2>2, <3>2
  <2> QED
    BY <2>1, <2>2
<1> HIDE DEF kept, low
<1>8. sp \in Cpu!Word
  BY Reduced
<1>9. kept > 0 => sp = v
  <2>1. SUFFICES ASSUME kept > 0 PROVE sp = v
    OBVIOUS
  <2>2. m.calls[kept].sp \in Int /\ m.calls[kept].sp <= 65535
    BY <1>2, <1>6, <2>1, WordsAre
  <2>3. 0 <= v /\ v <= 65535
    BY <1>7, <2>1, <2>2
  <2>4. Cpu!WordMod = 65536
    BY DEF Cpu!WordMod
  <2> QED
    BY <2>3, <2>4
<1>10. /\ cs \in Seq(Call) /\ Len(cs) = kept
       /\ \A i \in 1 .. kept : cs[i] = m.calls[i]
  <2>1. \A i \in 1 .. kept : m.calls[i] \in Call
    BY <1>2, <1>6
  <2>2. cs \in Seq(Call) /\ Len(cs) = (IF 1 <= kept THEN kept - 1 + 1 ELSE 0)
        /\ \A i \in 1 .. kept - 1 + 1 : cs[i] = m.calls[1 + i - 1]
    <3> HIDE DEF Call
    <3> QED
      BY <1>6, <2>1, SubSeqProperties
  <2> QED
    BY <1>6, <2>2
<1>11. DOMAIN cs = 1 .. kept
  BY <1>10
<1> HIDE DEF cs, sp
<1>12. \A i \in 1 .. kept : /\ cs[i].sp >= sp
                            /\ \A j \in 1 .. i : cs[j].sp >= cs[i].sp
  <2>1. SUFFICES ASSUME NEW i \in 1 .. kept
                 PROVE  cs[i].sp >= sp /\ \A j \in 1 .. i : cs[j].sp >= cs[i].sp
    OBVIOUS
  <2>2. i \in 1 .. Len(m.calls) /\ kept \in 1 .. Len(m.calls) /\ kept > 0 /\ i \in 1 .. kept
    BY <1>1, <1>6
  <2>3. cs[i] = m.calls[i] /\ \A j \in 1 .. i : cs[j] = m.calls[j]
    BY <1>10, <2>2
  <2>4. m.calls[i].sp >= m.calls[kept].sp /\ m.calls[i].sp \in Int /\ m.calls[kept].sp \in Int
    BY <1>2, <1>3, <2>2, WordsAre
  <2>5. sp = v /\ v <= m.calls[kept].sp
    BY <1>7, <1>9, <2>2, <2>4
  <2>6. \A j \in 1 .. i : m.calls[j].sp >= m.calls[i].sp
    BY <1>3, <2>2
  <2> QED
    BY <2>3, <2>4, <2>5, <2>6
<1>13. Cpu!SetSp(m, v) = [m EXCEPT !.calls = cs, !.sp = sp]
  BY DEF Cpu!SetSp, cs, sp, kept, low
<1> DEFINE r == [m EXCEPT !.calls = cs, !.sp = sp]
<1>14. /\ r.a = m.a /\ r.b = m.b /\ r.ix = m.ix /\ r.sp = sp /\ r.pc = m.pc /\ r.ccr = m.ccr
       /\ r.mem = m.mem /\ r.calls = cs /\ r.dev = m.dev
       /\ r = [a |-> r.a, b |-> r.b, ix |-> r.ix, sp |-> r.sp, pc |-> r.pc, ccr |-> r.ccr,
              mem |-> r.mem, calls |-> r.calls, dev |-> r.dev]
  <2>1. m = [a |-> m.a, b |-> m.b, ix |-> m.ix, sp |-> m.sp, pc |-> m.pc, ccr |-> m.ccr,
             mem |-> m.mem, calls |-> m.calls, dev |-> m.dev]
    BY DEF Good, Cpu!IsMachine
  <2>2. DOMAIN m = {"a", "b", "ix", "sp", "pc", "ccr", "mem", "calls", "dev"}
    BY <2>1
  <2>3. /\ r.a = m.a /\ r.b = m.b /\ r.ix = m.ix /\ r.sp = sp /\ r.pc = m.pc /\ r.ccr = m.ccr
        /\ r.mem = m.mem /\ r.calls = cs /\ r.dev = m.dev
    BY <2>2
  <2>4. r = [a |-> r.a, b |-> r.b, ix |-> r.ix, sp |-> r.sp, pc |-> r.pc, ccr |-> r.ccr,
             mem |-> r.mem, calls |-> r.calls, dev |-> r.dev]
    <3> DEFINE t == [m EXCEPT !.calls = cs]
    <3>1. t = [a |-> m.a, b |-> m.b, ix |-> m.ix, sp |-> m.sp, pc |-> m.pc, ccr |-> m.ccr,
               mem |-> m.mem, calls |-> cs, dev |-> m.dev]
      BY <2>1
    <3>2. r = [t EXCEPT !.sp = sp]
      BY <2>1
    <3> HIDE DEF t, r
    <3>3. r = [a |-> m.a, b |-> m.b, ix |-> m.ix, sp |-> sp, pc |-> m.pc, ccr |-> m.ccr,
               mem |-> m.mem, calls |-> cs, dev |-> m.dev]
      BY <3>1, <3>2
    <3> QED
      BY <2>3, <3>3
  <2> QED
    BY <2>3, <2>4
<1>15. Good(r)
  <2> HIDE DEF r, Call
  <2>1. Len(cs) <= MaxCallstack
    BY <1>1, <1>6, <1>10
  <2>2. Cpu!Stacked(r)
    BY <1>11, <1>12, <1>14 DEF Cpu!Stacked
  <2>3. Cpu!IsMachine(r)
    BY <1>8, <1>10, <1>14, <2>1 DEF Good, Cpu!IsMachine, Call
  <2> QED
    BY <2>2, <2>3 DEF Good
<1> QED
  BY <1>13, <1>15

LEMMA PointerNear ==
    ASSUME NEW p \in Cpu!Word
    PROVE  /\ p - 1 \in Int /\ p - 1 <= Cpu!WordMod /\ p + 1 \in Int /\ p + 1 <= Cpu!WordMod
           /\ p \in Int /\ p <= Cpu!WordMod
  BY WordsAre, Widths

LEMMA PushbGood ==
    ASSUME NEW m, Good(m), NEW v \in Cpu!Byte
    PROVE  Good(Cpu!Pushb(m, v))
<1>1. Good(Cpu!Putb(m, m.sp, v))
  BY PutbGood
<1>2. m.sp - 1 \in Int /\ m.sp - 1 <= Cpu!WordMod
  BY PointerNear DEF Good, Cpu!IsMachine
<1> QED
  BY <1>1, <1>2, SetSpGood DEF Cpu!Pushb

LEMMA PushwGood ==
    ASSUME NEW m, Good(m), NEW v \in Cpu!Word
    PROVE  Good(Cpu!Pushw(m, v))
  BY BytesOfWord, PushbGood DEF Cpu!Pushw

LEMMA PopGood ==
    ASSUME NEW m, Good(m)
    PROVE  Good(Cpu!Pop(m)) /\ Cpu!Top(m) \in Cpu!Byte
<1>1. m.sp + 1 \in Int /\ m.sp + 1 <= Cpu!WordMod /\ m.sp \in Int
  BY PointerNear DEF Good, Cpu!IsMachine
<1> QED
  BY <1>1, SetSpGood, GetbTyped DEF Cpu!Pop, Cpu!Top, Good

LEMMA PopwGood ==
    ASSUME NEW m, Good(m)
    PROVE  Good(Cpu!Popw(m).m) /\ Cpu!Popw(m).val \in Cpu!Word
<1>1. /\ Cpu!Popw(m).m = Cpu!Pop(Cpu!Pop(m))
      /\ Cpu!Popw(m).val = 256 * Cpu!Top(Cpu!Pop(m)) + Cpu!Top(Cpu!Pop(Cpu!Pop(m)))
  BY DEF Cpu!Popw
<1> QED
  BY <1>1, PopGood, WordOfBytes

\* callstack_push: the new entry lies at the stack pointer, below the others.
LEMMA CalledGood ==
    ASSUME NEW m, Good(m), NEW addr \in Cpu!Word
    PROVE  Good(Cpu!Called(m, addr))
<1> DEFINE Call == [entry : Cpu!Word, sp : Cpu!Word]
           c == [entry |-> addr, sp |-> m.sp]
           n == Len(m.calls)
           cs == Append(m.calls, c)
           r == [m EXCEPT !.calls = cs]
<1>1. CASE ~(n < MaxCallstack)
  BY <1>1 DEF Cpu!Called
<1>2. CASE n < MaxCallstack
  <2>1. /\ m.calls \in Seq(Call) /\ n \in Nat /\ DOMAIN m.calls = 1 .. n
        /\ m.sp \in Cpu!Word /\ MaxCallstack \in Nat
    BY ChipAssumption DEF Good, Cpu!IsMachine
  <2>2. c \in Call /\ c.sp = m.sp /\ m.sp \in Int
    BY <2>1, WordsAre
  <2>3. \A i \in 1 .. n : m.calls[i].sp \in Int
    <3>1. \A d \in Call : d.sp \in Int
      BY WordsAre
    <3> HIDE DEF Call
    <3> QED
      BY <2>1, <3>1, ElementOfSeq
  <2>4. \A i \in 1 .. n : /\ m.calls[i].sp >= m.sp
                          /\ \A j \in 1 .. i : m.calls[j].sp >= m.calls[i].sp
    BY <2>1 DEF Good, Cpu!Stacked
  <2>5. /\ cs \in Seq(Call) /\ Len(cs) = n + 1 /\ DOMAIN cs = 1 .. (n + 1)
        /\ \A i \in 1 .. n : cs[i] = m.calls[i]
        /\ cs[n + 1] = c
    <3> HIDE DEF Call, c
    <3> QED
      BY <2>1, <2>2
  <2> HIDE DEF c, cs, n
  <2>6. ASSUME NEW i \in 1 .. (n + 1)
        PROVE  cs[i].sp >= m.sp /\ \A j \in 1 .. i : cs[j].sp >= cs[i].sp
    <3>1. CASE i = n + 1
      <4>1. cs[i].sp = m.sp
        BY <2>2, <2>5, <3>1
      <4>2. \A j \in 1 .. i : cs[j].sp >= m.sp
        <5>1. SUFFICES ASSUME NEW j \in 1 .. i PROVE cs[j].sp >= m.sp
          OBVIOUS
        <5>2. CASE j = i
          BY <2>2, <4>1, <5>2
        <5>3. CASE j # i
          <6>1. j \in 1 .. n
            BY <2>1, <3>1, <5>3
          <6> QED
            BY <2>4, <2>5, <6>1
        <5> QED
          BY <5>2, <5>3
      <4> QED
        BY <2>2, <4>1, <4>2
    <3>2. CASE i # n + 1
      <4>1. i \in 1 .. n /\ \A j \in 1 .. i : j \in 1 .. n
        BY <2>1, <3>2
      <4> QED
        BY <2>4, <2>5, <4>1
    <3> QED
      BY <3>1, <3>2
  <2>7. /\ r.a = m.a /\ r.b = m.b /\ r.ix = m.ix /\ r.sp = m.sp /\ r.pc = m.pc /\ r.ccr = m.ccr
        /\ r.mem = m.mem /\ r.calls = cs /\ r.dev = m.dev
        /\ r = [a |-> m.a, b |-> m.b, ix |-> m.ix, sp |-> m.sp, pc |-> m.pc, ccr |-> m.ccr,
                mem |-> m.mem, calls |-> cs, dev |-> m.dev]
    BY DEF Good, Cpu!IsMachine
  <2>8. Cpu!Called(m, addr) = r
    BY <1>2 DEF Cpu!Called, cs, c, n
  <2> HIDE DEF r, Call
  <2>9. Cpu!Stacked(r)
    BY <2>5, <2>6, <2>7 DEF Cpu!Stacked
  <2>10. Len(cs) <= MaxCallstack
    BY <1>2, <2>1, <2>5
  <2>11. Cpu!IsMachine(r)
    BY <2>5, <2>7, <2>10 DEF Good, Cpu!IsMachine, Call
  <2> QED
    BY <2>8, <2>9, <2>11 DEF Good
<1> QED
  BY <1>1, <1>2

LEMMA JsrGood ==
    ASSUME NEW m, Good(m), NEW addr \in Int
    PROVE  Good(Cpu!Jsr(m, addr))
<1> DEFINE to == addr % Cpu!WordMod
           p == Cpu!Pushw(m, m.pc)
<1>1. to \in Cpu!Word
  BY Reduced
<1>2. m.pc \in Cpu!Word
  BY DEF Good, Cpu!IsMachine
<1>3. Good(p)
  BY <1>2, PushwGood
<1>4. Cpu!Jsr(m, addr) = Cpu!Called([p EXCEPT !.pc = to], to)
  BY DEF Cpu!Jsr
<1> HIDE DEF to, p
<1>5. Good([p EXCEPT !.pc = to])
  BY <1>1, <1>3, Loaded
<1>6. Good(Cpu!Called([p EXCEPT !.pc = to], to))
  BY <1>1, <1>5, CalledGood
<1> QED
  BY <1>4, <1>6

\* int_addr: an interrupt, swi and trap push the whole machine.
LEMMA IntAddrGood ==
    ASSUME NEW m, Good(m), NEW vector \in Int
    PROVE  Good(Cpu!IntAddr(m, vector))
<1> DEFINE p == Cpu!Pushw(m, m.pc)
           q == Cpu!Pushw(p, m.ix)
           s == Cpu!Pushb(Cpu!Pushb(Cpu!Pushb(q, m.a), m.b), Cpu!CcrByte(m.ccr))
           to == Cpu!Getw(s, vector)
           v == Cpu!Called([s EXCEPT !.pc = to], to)
<1>1. m.pc \in Cpu!Word /\ m.ix \in Cpu!Word /\ m.a \in Cpu!Byte /\ m.b \in Cpu!Byte
  BY DEF Good, Cpu!IsMachine
<1>2. Good(q)
  BY <1>1, PushwGood
<1> HIDE DEF q
<1>3. Good(s)
  BY <1>1, <1>2, PushbGood, CcrByteTyped
<1> HIDE DEF s
<1>4. to \in Cpu!Word
  BY <1>3, GetwTyped DEF Good
<1> HIDE DEF to
<1>5. Good(v)
  BY <1>3, <1>4, Loaded, CalledGood
<1> HIDE DEF v
<1>6. v.ccr \cup {"I"} \in SUBSET Cpu!Flags
  BY <1>5 DEF Good, Cpu!IsMachine, Cpu!Flags
<1>7. Good([v EXCEPT !.ccr = v.ccr \cup {"I"}])
  BY <1>5, <1>6, Loaded
<1>8. Cpu!IntAddr(m, vector) = [v EXCEPT !.ccr = v.ccr \cup {"I"}]
  BY DEF Cpu!IntAddr, v, to, s, q
<1> QED
  BY <1>7, <1>8

LEMMA RtiGood ==
    ASSUME NEW m, Good(m)
    PROVE  Good(Cpu!Rti(m))
<1> DEFINE c == Cpu!Pop(m)
           b == Cpu!Pop(c)
           a == Cpu!Pop(b)
           xh == Cpu!Pop(a)
           xl == Cpu!Pop(xh)
           ph == Cpu!Pop(xl)
           pl == Cpu!Pop(ph)
           tc == Cpu!ByteCcr(Cpu!Top(c))
           tb == Cpu!Top(b)
           ta == Cpu!Top(a)
           tx == 256 * Cpu!Top(xh) + Cpu!Top(xl)
           tp == 256 * Cpu!Top(ph) + Cpu!Top(pl)
<1>1. Good(c) /\ Good(b) /\ Good(a) /\ Good(xh) /\ Good(xl) /\ Good(ph) /\ Good(pl)
  <2>1. Good(c)
    BY PopGood
  <2> HIDE DEF c
  <2>2. Good(b)
    BY <2>1, PopGood
  <2> HIDE DEF b
  <2>3. Good(a)
    BY <2>2, PopGood
  <2> HIDE DEF a
  <2>4. Good(xh)
    BY <2>3, PopGood
  <2> HIDE DEF xh
  <2>5. Good(xl)
    BY <2>4, PopGood
  <2> HIDE DEF xl
  <2>6. Good(ph)
    BY <2>5, PopGood
  <2> HIDE DEF ph
  <2>7. Good(pl)
    BY <2>6, PopGood
  <2> HIDE DEF pl
  <2> QED
    BY <2>1, <2>2, <2>3, <2>4, <2>5, <2>6, <2>7
<1>2. Cpu!Rti(m) = [pl EXCEPT !.ccr = tc, !.b = tb, !.a = ta, !.ix = tx, !.pc = tp]
  BY DEF Cpu!Rti
<1> HIDE DEF c, b, a, xh, xl, ph, pl
<1>3. tc \in SUBSET Cpu!Flags
  BY ByteCcrTyped
<1>4. tb \in Cpu!Byte /\ ta \in Cpu!Byte /\ tx \in Cpu!Word /\ tp \in Cpu!Word
  BY <1>1, PopGood, WordOfBytes
<1> HIDE DEF tc, tb, ta, tx, tp
<1> DEFINE r1 == [pl EXCEPT !.ccr = tc]
           r2 == [r1 EXCEPT !.b = tb]
           r3 == [r2 EXCEPT !.a = ta]
           r4 == [r3 EXCEPT !.ix = tx]
           r5 == [r4 EXCEPT !.pc = tp]
<1>5. Cpu!Rti(m) = r5
  BY <1>2
<1>6. Good(r5)
  <2>1. Good(r1)
    BY <1>1, <1>3, Loaded
  <2> HIDE DEF r1
  <2>2. Good(r2)
    BY <2>1, <1>4, Loaded
  <2> HIDE DEF r2
  <2>3. Good(r3)
    BY <2>2, <1>4, Loaded
  <2> HIDE DEF r3
  <2>4. Good(r4)
    BY <2>3, <1>4, Loaded
  <2> HIDE DEF r4
  <2> QED
    BY <2>4, <1>4, Loaded
<1> QED
  BY <1>5, <1>6

(* The instructions. *)

\* An opcode by its two digits.
LEMMA Digits ==
    ASSUME NEW op \in Cpu!Byte
    PROVE  /\ op \in Int /\ op = 16 * Cpu!High(op) + Cpu!Low(op)
           /\ Cpu!High(op) \in 0 .. 15 /\ Cpu!Low(op) \in 0 .. 15
  BY BytesAre DEF Cpu!High, Cpu!Low

LEMMA AddressTyped ==
    ASSUME NEW m, Good(m), NEW mode \in {"imm", "dir", "ind", "ext"}
    PROVE  Cpu!Address(m, mode) \in Cpu!Word
<1>1. m.pc \in Cpu!Word /\ m.ix \in Cpu!Word /\ m.pc \in Int /\ m.ix \in Int
  BY WordsAre DEF Good, Cpu!IsMachine
<1>2. Cpu!Getb(m, m.pc) \in Cpu!Byte /\ Cpu!Getw(m, m.pc) \in Cpu!Word
  BY <1>1, GetbTyped, GetwTyped DEF Good
<1>3. Cpu!Getb(m, m.pc) \in Int /\ Cpu!Getb(m, m.pc) \in Cpu!Word
  BY <1>2, BytesAre, WordsAre
<1>4. Cpu!Getb(m, m.pc) + m.ix \in Int
  BY <1>1, <1>3
<1>5. (Cpu!Getb(m, m.pc) + m.ix) % Cpu!WordMod \in Cpu!Word
  BY <1>4, Reduced
<1> QED
  BY <1>1, <1>2, <1>3, <1>5 DEF Cpu!Address

LEMMA SkipGood ==
    ASSUME NEW m, Good(m), NEW mode \in {"imm", "dir", "ind", "ext"}, NEW bytes \in Int
    PROVE  Good(Cpu!Skip(m, mode, bytes))
<1> DEFINE n == CASE mode = "imm" -> bytes [] mode \in {"dir", "ind"} -> 1 [] mode = "ext" -> 2
<1>1. n \in Int
  OBVIOUS
<1> HIDE DEF n
<1>2. Cpu!Skip(m, mode, bytes) = Cpu!IncPc(m, n)
  BY DEF Cpu!Skip, n
<1> QED
  BY <1>1, <1>2, PcMoved

LEMMA SignedTyped ==
    ASSUME NEW v \in Cpu!Byte
    PROVE  Cpu!Signed(v) \in Int
  BY BytesAre DEF Cpu!Signed

LEMMA BranchGood ==
    ASSUME NEW m, Good(m), NEW op
    PROVE  Good(Cpu!Branch(m, op))
<1> DEFINE n == 1 + (IF Cpu!Taken(m.ccr, op) THEN Cpu!Signed(Cpu!Getb(m, m.pc)) ELSE 0)
<1>1. Cpu!Getb(m, m.pc) \in Cpu!Byte
  <2>1. m.pc \in Int
    BY WordsAre DEF Good, Cpu!IsMachine
  <2> QED
    BY <2>1, GetbTyped DEF Good
<1>2. n \in Int
  BY <1>1, SignedTyped
<1>3. Cpu!Branch(m, op) = Cpu!IncPc(m, n)
  BY DEF Cpu!Branch
<1> HIDE DEF n
<1> QED
  BY <1>2, <1>3, PcMoved

\* The low digits of the operations on one operand.
OneOperand == {\h0, \h3, \h4, \h6, \h7, \h8, \h9, \hA, \hC, \hD, \hF}

LEMMA ReadModifyWriteTyped ==
    ASSUME NEW ccr \in SUBSET Cpu!Flags, NEW x \in Cpu!Byte, NEW low \in OneOperand
    PROVE  Yields(Cpu!ReadModifyWrite(ccr, low, x), Cpu!Byte)
<1>1. FALSE \in BOOLEAN /\ ("C" \in ccr) \in BOOLEAN
  OBVIOUS
<1>2. Cpu!Sign(Cpu!ByteMod, x) \in BOOLEAN
  BY BytesAre, Widths DEF Cpu!Sign
<1>3. /\ Yields(Cpu!Shr(ccr, Cpu!ByteMod, x, FALSE), Cpu!Byte)
      /\ Yields(Cpu!Shl(ccr, Cpu!ByteMod, x, FALSE), Cpu!Byte)
      /\ Yields(Cpu!Ror(ccr, x), Cpu!Byte)
      /\ Yields(Cpu!Rol(ccr, x), Cpu!Byte)
      /\ Yields(Cpu!Shr(ccr, Cpu!ByteMod, x, Cpu!Sign(Cpu!ByteMod, x)), Cpu!Byte)
  BY <1>1, <1>2, ShiftTyped, Zenon DEF Cpu!Ror, Cpu!Rol
<1>4. /\ Yields(Cpu!Neg(ccr, x), Cpu!Byte) /\ Yields(Cpu!Com(ccr, x), Cpu!Byte)
      /\ Yields(Cpu!Test(ccr, x), Cpu!Byte) /\ Yields(Cpu!Clr(ccr), Cpu!Byte)
      /\ Yields(Cpu!Dec(ccr, x), Cpu!Byte) /\ Yields(Cpu!Inc(ccr, x), Cpu!Byte)
  BY TestTyped, ByteStepsTyped
<1> QED
  BY <1>3, <1>4 DEF OneOperand, Cpu!ReadModifyWrite

LEMMA OnAccumulatorGood ==
    ASSUME NEW m, Good(m), NEW op, Cpu!Low(op) \in OneOperand
    PROVE  Good(Cpu!OnAccumulator(m, op))
<1>1. m.a \in Cpu!Byte /\ m.b \in Cpu!Byte /\ m.ccr \in SUBSET Cpu!Flags
  BY DEF Good, Cpu!IsMachine
<1>2. (IF Cpu!OnA(op) THEN m.a ELSE m.b) \in Cpu!Byte
  BY <1>1
<1> QED
  BY <1>1, <1>2, ReadModifyWriteTyped, AccumulatorsSet DEF Cpu!OnAccumulator

LEMMA ImmediateGood ==
    ASSUME NEW m, Good(m), NEW op, Cpu!Low(op) \in {\h1, \h2, \h5, \hB}
    PROVE  Good(Cpu!Immediate(m, op))
<1> DEFINE x == Cpu!Getb(m, m.pc)
           addr == Cpu!Getb(m, m.pc + 1) + (IF Cpu!High(op) = 6 THEN m.ix ELSE 0)
           y == Cpu!Getb(m, addr)
           s == CASE Cpu!Low(op) \in {\h1, \hB} -> Cpu!And(m.ccr, x, y)
                  [] Cpu!Low(op) = \h2 -> Cpu!Or(m.ccr, x, y)
                  [] Cpu!Low(op) = \h5 -> Cpu!Xor(m.ccr, x, y)
           w == IF Cpu!Low(op) = \hB THEN m ELSE Cpu!Putb(m, addr, s.val)
           r == [w EXCEPT !.ccr = s.ccr]
<1>1. m.ccr \in SUBSET Cpu!Flags
  BY DEF Good, Cpu!IsMachine
<1>2. Cpu!Immediate(m, op) = Cpu!IncPc(r, 2)
  BY DEF Cpu!Immediate
<1> HIDE DEF x, y, addr
<1>3. Yields(s, Cpu!Byte)
  BY <1>1, LogicTyped
<1> HIDE DEF s
<1>4. Good(w)
  BY <1>3, PutbGood DEF Yields
<1> HIDE DEF w
<1>5. Good(r)
  BY <1>3, <1>4, Loaded DEF Yields
<1> HIDE DEF r
<1> QED
  BY <1>2, <1>5, PcMoved

LEMMA OnMemoryGood ==
    ASSUME NEW m, Good(m), NEW op \in Cpu!Byte
    PROVE  Good(Cpu!OnMemory(m, op))
<1> DEFINE mode == IF Cpu!High(op) = 6 THEN "ind" ELSE "ext"
           addr == Cpu!Address(m, mode)
           s == Cpu!ReadModifyWrite(m.ccr, Cpu!Low(op), Cpu!Getb(m, addr))
           w == IF Cpu!Low(op) = \hD THEN m ELSE Cpu!Putb(m, addr, s.val)
           r == [w EXCEPT !.ccr = s.ccr]
<1>1. mode \in {"imm", "dir", "ind", "ext"}
  OBVIOUS
<1>2. addr \in Cpu!Word /\ addr \in Int
  <2> HIDE DEF mode
  <2> QED
    BY <1>1, AddressTyped, WordsAre
<1>3. Cpu!Getb(m, addr) \in Cpu!Byte /\ m.ccr \in SUBSET Cpu!Flags
  <2> HIDE DEF addr
  <2> QED
    BY <1>2, GetbTyped DEF Good, Cpu!IsMachine
<1>4. CASE Cpu!Low(op) \in {\h1, \h2, \h5, \hB}
  BY <1>4, ImmediateGood DEF Cpu!OnMemory
<1>5. CASE Cpu!Low(op) = \hE
  <2>1. Cpu!OnMemory(m, op) = [m EXCEPT !.pc = addr]
    BY <1>5 DEF Cpu!OnMemory
  <2> HIDE DEF addr
  <2>2. Good([m EXCEPT !.pc = addr])
    BY <1>2, Loaded
  <2> QED
    BY <2>1, <2>2
<1>6. CASE Cpu!Low(op) \notin {\h1, \h2, \h5, \hB, \hE}
  <2>1. Cpu!Low(op) \in OneOperand
    BY <1>6, Digits DEF OneOperand
  <2>2. Cpu!OnMemory(m, op) = Cpu!Skip(r, mode, 1)
    BY <1>6 DEF Cpu!OnMemory
  <2> HIDE DEF addr, mode
  <2>3. Yields(s, Cpu!Byte)
    BY <1>3, <2>1, ReadModifyWriteTyped
  <2> HIDE DEF s
  <2>4. Good(w)
    BY <2>3, PutbGood DEF Yields
  <2> HIDE DEF w
  <2>5. Good(r)
    BY <2>3, <2>4, Loaded DEF Yields
  <2> HIDE DEF r
  <2> QED
    BY <1>1, <2>2, <2>5, SkipGood
<1> QED
  BY <1>4, <1>5, <1>6

LEMMA WithByteGood ==
    ASSUME NEW m, Good(m), NEW op, NEW y \in Cpu!Byte,
           Cpu!Low(op) \in {\h0, \h1, \h2, \h4, \h5, \h6, \h8, \h9, \hA, \hB}
    PROVE  Good(Cpu!WithByte(m, op, y))
<1> DEFINE x == IF Cpu!OnA(op) THEN m.a ELSE m.b
           ccr == m.ccr
           c == Cpu!Carry(m)
           s == CASE Cpu!Low(op) = \h0 -> Cpu!SubByte(m, x, y)
                  [] Cpu!Low(op) = \h2 -> Cpu!SbcByte(m, x, y)
                  [] Cpu!Low(op) \in {\h4, \h5} -> Cpu!And(ccr, x, y)
                  [] Cpu!Low(op) = \h6 -> Cpu!BitTest(ccr, Cpu!ByteMod, y)
                  [] Cpu!Low(op) = \h8 -> Cpu!Xor(ccr, x, y)
                  [] Cpu!Low(op) = \h9 -> Cpu!AddByte(ccr, x, y, c)
                  [] Cpu!Low(op) = \hA -> Cpu!Or(ccr, x, y)
                  [] Cpu!Low(op) = \hB -> Cpu!AddByte(ccr, x, y, 0)
<1>1. ccr \in SUBSET Cpu!Flags /\ x \in Cpu!Byte
  BY DEF Good, Cpu!IsMachine
<1>2. x \in Int /\ y \in Int /\ c \in Int /\ 0 \in Int
  BY <1>1, BytesAre DEF Cpu!Carry
<1>3. /\ Cpu!SubByte(m, x, y) = Cpu!Sub(ccr, Cpu!ByteMod, x, y, 0)
      /\ Cpu!SbcByte(m, x, y) = Cpu!Sub(ccr, Cpu!ByteMod, x, y, c)
  BY DEF Cpu!SubByte, Cpu!SbcByte
<1> HIDE DEF x, ccr, c
<1>4. Yields(Cpu!SubByte(m, x, y), Cpu!Byte) /\ Yields(Cpu!SbcByte(m, x, y), Cpu!Byte)
  BY <1>1, <1>2, <1>3, SubAddTyped
<1>5. Yields(Cpu!AddByte(ccr, x, y, c), Cpu!Byte) /\ Yields(Cpu!AddByte(ccr, x, y, 0), Cpu!Byte)
  BY <1>1, <1>2, SubAddTyped
<1>6. Yields(Cpu!BitTest(ccr, Cpu!ByteMod, y), Cpu!Byte)
  BY <1>1, BitTestTyped DEF Yields
<1>7. CASE Cpu!Low(op) = \h1
  <2>1. Cpu!WithByte(m, op, y) = [m EXCEPT !.ccr = Cpu!SubByte(m, x, y).ccr]
    BY <1>7 DEF Cpu!WithByte, Cpu!CmpByte, x
  <2> QED
    BY <1>4, <2>1, Loaded DEF Yields
<1>8. CASE Cpu!Low(op) # \h1
  <2>1. Yields(s, Cpu!Byte)
    BY <1>1, <1>4, <1>5, <1>6, <1>8, LogicTyped
  <2>2. Cpu!WithByte(m, op, y) = IF Cpu!Low(op) = \h5 THEN [m EXCEPT !.ccr = s.ccr]
                                 ELSE Cpu!SetAcc(m, op, s)
    BY <1>8 DEF Cpu!WithByte, x, ccr, c
  <2> HIDE DEF s
  <2> QED
    BY <2>1, <2>2, Loaded, AccumulatorsSet DEF Yields
<1> QED
  BY <1>7, <1>8

LEMMA AccumulatorsWord ==
    ASSUME NEW m, Good(m)
    PROVE  Cpu!D(m) \in Cpu!Word
  BY WordOfBytes DEF Cpu!D, Good, Cpu!IsMachine

LEMMA WithWordGood ==
    ASSUME NEW m, Good(m), NEW op, NEW y \in Cpu!Word, Cpu!Low(op) \in {\h3, \hC, \hE}
    PROVE  Good(Cpu!WithWord(m, op, y))
<1> DEFINE ccr == m.ccr
           loaded == Cpu!BitTest(ccr, Cpu!WordMod, y)
           d == Cpu!D(m)
           sum == Cpu!Add(ccr, Cpu!WordMod, d, y, 0)
<1>1. ccr \in SUBSET Cpu!Flags /\ m.ix \in Cpu!Word /\ d \in Cpu!Word
  BY AccumulatorsWord DEF Good, Cpu!IsMachine
<1>2. m.ix \in Int /\ d \in Int /\ y \in Int /\ 0 \in Int
  BY <1>1, WordsAre
<1>3. /\ Cpu!SubWord(m, d, y) = Cpu!Sub(ccr, Cpu!WordMod, d, y, 0)
      /\ Cpu!SubWord(m, m.ix, y) = Cpu!Sub(ccr, Cpu!WordMod, m.ix, y, 0)
  BY DEF Cpu!SubWord
<1> HIDE DEF ccr, d
<1>4. /\ Yields(Cpu!SubWord(m, d, y), Cpu!Word) /\ Yields(Cpu!SubWord(m, m.ix, y), Cpu!Word)
      /\ Yields(sum, Cpu!Word)
  BY <1>1, <1>2, <1>3, SubAddTyped
<1>5. Yields(loaded, Cpu!Word)
  BY <1>1, BitTestTyped DEF Yields
<1> HIDE DEF loaded, sum
<1>6. /\ Good(Cpu!SetAB(m, Cpu!SubWord(m, d, y))) /\ Good(Cpu!SetAB(m, sum))
      /\ Good(Cpu!SetAB(m, loaded)) /\ Good(Cpu!SetX(m, loaded))
  BY <1>4, <1>5, WordsSet
<1>7. Good(Cpu!CmpX(m, y))
  BY <1>4, Loaded DEF Cpu!CmpX, Yields
<1>8. Good([Cpu!SetSp(m, y) EXCEPT !.ccr = loaded.ccr])
  <2>1. Good(Cpu!SetSp(m, y))
    BY <1>2, PointerNear, SetSpGood
  <2> QED
    BY <1>5, <2>1, Loaded DEF Yields
<1> QED
  BY <1>6, <1>7, <1>8 DEF Cpu!WithWord, loaded, sum, ccr, d

LEMMA StoreGood ==
    ASSUME NEW m, Good(m), NEW op, NEW addr, Cpu!Low(op) \in {\h7, \hD, \hF}
    PROVE  Good(Cpu!Store(m, op, addr))
<1> DEFINE v == CASE Cpu!Low(op) = \h7 -> IF Cpu!OnA(op) THEN m.a ELSE m.b
                  [] Cpu!Low(op) = \hD -> Cpu!D(m)
                  [] Cpu!Low(op) = \hF -> IF Cpu!OnA(op) THEN m.sp ELSE m.ix
<1>1. CASE Cpu!Low(op) = \h7
  <2> DEFINE p == Cpu!Putb(m, addr, v)
             t == Cpu!BitTest(p.ccr, Cpu!ByteMod, v).ccr
  <2>1. v \in Cpu!Byte
    BY <1>1 DEF Good, Cpu!IsMachine
  <2>2. Cpu!Store(m, op, addr) = [p EXCEPT !.ccr = t]
    BY <1>1 DEF Cpu!Store
  <2> HIDE DEF v
  <2>3. Good(p)
    BY <2>1, PutbGood
  <2> HIDE DEF p
  <2>4. t \in SUBSET Cpu!Flags
    BY <2>3, BitTestTyped DEF Good, Cpu!IsMachine
  <2> HIDE DEF t
  <2> QED
    BY <2>2, <2>3, <2>4, Loaded
<1>2. CASE Cpu!Low(op) # \h7
  <2> DEFINE p == Cpu!Putw(m, addr, v)
             t == Cpu!BitTest(p.ccr, Cpu!WordMod, v).ccr
  <2>1. v \in Cpu!Word
    BY <1>2, AccumulatorsWord DEF Good, Cpu!IsMachine
  <2>2. Cpu!Store(m, op, addr) = [p EXCEPT !.ccr = t]
    BY <1>2 DEF Cpu!Store
  <2> HIDE DEF v
  <2>3. Good(p)
    BY <2>1, PutwGood
  <2> HIDE DEF p
  <2>4. t \in SUBSET Cpu!Flags
    BY <2>3, BitTestTyped DEF Good, Cpu!IsMachine
  <2> HIDE DEF t
  <2> QED
    BY <2>2, <2>3, <2>4, Loaded
<1> QED
  BY <1>1, <1>2

LEMMA OnOperandGood ==
    ASSUME NEW m, Good(m), NEW op \in Cpu!Byte
    PROVE  Good(Cpu!OnOperand(m, op))
<1> DEFINE mode == Cpu!AccMode(op)
           addr == Cpu!Address(m, mode)
           jump == Cpu!OnA(op) /\ Cpu!Low(op) = \hD
           store == Cpu!Low(op) \in {\h7, \hF} \/ (~Cpu!OnA(op) /\ Cpu!Low(op) = \hD)
           bytes == IF Cpu!Low(op) \in Cpu!WordOps /\ ~jump THEN 2 ELSE 1
           next == Cpu!Skip(m, mode, bytes)
           to == IF mode = "imm" THEN Cpu!Signed(Cpu!Getb(m, addr)) + next.pc ELSE addr
<1>1. mode \in {"imm", "dir", "ind", "ext"}
  <2>1. Cpu!High(op) % 4 \in 0 .. 3
    BY Digits
  <2> QED
    BY <2>1 DEF Cpu!AccMode
<1>2. Cpu!Low(op) \in 0 .. 15
  BY Digits
<1>3. /\ jump => Cpu!OnOperand(m, op) = Cpu!Jsr(next, to)
      /\ store => Cpu!OnOperand(m, op) = Cpu!Store(next, op, addr)
      /\ ~jump /\ ~store =>
            Cpu!OnOperand(m, op) = IF bytes = 1 THEN Cpu!WithByte(next, op, Cpu!Getb(m, addr))
                                   ELSE Cpu!WithWord(next, op, Cpu!Getw(m, addr))
  BY DEF Cpu!OnOperand
<1>4. /\ jump \/ store \/ (~jump /\ ~store)
      /\ store => Cpu!Low(op) \in {\h7, \hD, \hF}
      /\ ~jump /\ ~store /\ bytes = 1 => Cpu!Low(op) \in {\h0, \h1, \h2, \h4, \h5, \h6, \h8, \h9, \hA, \hB}
      /\ ~jump /\ ~store /\ bytes # 1 => Cpu!Low(op) \in {\h3, \hC, \hE}
      /\ bytes \in Int
  BY <1>2 DEF Cpu!WordOps
<1> HIDE DEF mode, bytes, jump, store
<1>5. Good(next)
  BY <1>1, <1>4, SkipGood
<1>6. addr \in Cpu!Word /\ addr \in Int
  BY <1>1, AddressTyped, WordsAre
<1> HIDE DEF next, addr
<1>7. Cpu!Getb(m, addr) \in Cpu!Byte /\ Cpu!Getw(m, addr) \in Cpu!Word
  BY <1>6, GetbTyped, GetwTyped DEF Good
<1>8. to \in Int
  <2>1. next.pc \in Int
    BY <1>5, WordsAre DEF Good, Cpu!IsMachine
  <2> QED
    BY <1>6, <1>7, <2>1, SignedTyped
<1> HIDE DEF to
<1>9. CASE jump
  BY <1>3, <1>5, <1>8, <1>9, JsrGood
<1>10. CASE store
  BY <1>3, <1>4, <1>5, <1>10, StoreGood
<1>11. CASE ~jump /\ ~store /\ bytes = 1
  BY <1>3, <1>4, <1>5, <1>7, <1>11, WithByteGood
<1>12. CASE ~jump /\ ~store /\ bytes # 1
  BY <1>3, <1>4, <1>5, <1>7, <1>12, WithWordGood
<1> QED
  BY <1>4, <1>9, <1>10, <1>11, <1>12

LEMMA FlagSetTyped ==
    ASSUME NEW ccr \in SUBSET Cpu!Flags, NEW op \in \h0A .. \h0F
    PROVE  Cpu!FlagSet(ccr, op) \subseteq Cpu!Flags
<1> DEFINE on == op % 2 = 1
           v == [V |-> on]
           c == [C |-> on]
           i == [I |-> on]
<1>1. DOMAIN v \subseteq Cpu!Flags /\ DOMAIN c \subseteq Cpu!Flags /\ DOMAIN i \subseteq Cpu!Flags
  BY DEF Cpu!Flags
<1>2. \/ Cpu!FlagSet(ccr, op) = Cpu!SetFlags(ccr, v)
      \/ Cpu!FlagSet(ccr, op) = Cpu!SetFlags(ccr, c)
      \/ Cpu!FlagSet(ccr, op) = Cpu!SetFlags(ccr, i)
  BY DEF Cpu!FlagSet
<1> HIDE DEF v, c, i
<1> QED
  BY <1>1, <1>2, SetFlagsTyped

LEMMA TransferGood ==
    ASSUME NEW m, Good(m), NEW op \in {\h06, \h07, \h16, \h17}
    PROVE  Good(Cpu!Transfer(m, op))
<1>1. m.ccr \in SUBSET Cpu!Flags /\ m.a \in Cpu!Byte /\ m.b \in Cpu!Byte
  BY DEF Good, Cpu!IsMachine
<1>2. /\ Yields(Cpu!BitTest(m.ccr, Cpu!ByteMod, m.a), Cpu!Byte)
      /\ Yields(Cpu!BitTest(m.ccr, Cpu!ByteMod, m.b), Cpu!Byte)
  BY <1>1, BitTestTyped DEF Yields
<1>3. /\ Good(Cpu!SetB(m, Cpu!BitTest(m.ccr, Cpu!ByteMod, m.a)))
      /\ Good(Cpu!SetA(m, Cpu!BitTest(m.ccr, Cpu!ByteMod, m.b)))
  BY <1>2, AccumulatorsSet
<1>4. Good([m EXCEPT !.ccr = Cpu!ByteCcr(m.a)]) /\ Good([m EXCEPT !.a = Cpu!CcrByte(m.ccr)])
  BY ByteCcrTyped, CcrByteTyped, Loaded
<1> QED
  BY <1>3, <1>4 DEF Cpu!Transfer

InherentOps == {\h00, \h01, \h1A, \h3E, \h04, \h05, \h06, \h07, \h16, \h17, \h08, \h09, \h0A, \h0B,
                \h0C, \h0D, \h0E, \h0F, \h10, \h11, \h18, \h19, \h1B, \h30, \h3A, \h3D}

LEMMA InherentGood ==
    ASSUME NEW m, Good(m), NEW op \in InherentOps
    PROVE  Good(Cpu!Inherent(m, op))
<1> DEFINE ccr == m.ccr
           d == Cpu!D(m)
<1>1. /\ ccr \in SUBSET Cpu!Flags /\ m.a \in Cpu!Byte /\ m.b \in Cpu!Byte
      /\ m.ix \in Cpu!Word /\ m.sp \in Cpu!Word /\ d \in Cpu!Word
  BY AccumulatorsWord DEF Good, Cpu!IsMachine
<1>2. /\ m.a \in Int /\ m.b \in Int /\ m.ix \in Int /\ m.sp \in Int /\ 0 \in Int
      /\ m.sp + 1 \in Int /\ m.ix + m.b \in Int
  BY <1>1, BytesAre, WordsAre
<1> HIDE DEF ccr, d
<1>3. /\ Yields(Cpu!ShrWord(ccr, d), Cpu!Word) /\ Yields(Cpu!ShlWord(ccr, d), Cpu!Word)
      /\ Yields(Cpu!Mul(ccr, m.a, m.b), Cpu!Word)
  BY <1>1, ShiftTyped, MulTyped DEF Cpu!ShrWord, Cpu!ShlWord
<1>4. Yields(Cpu!StepWord(ccr, m.ix, 1), Cpu!Word) /\ Yields(Cpu!StepWord(ccr, m.ix, -1), Cpu!Word)
  BY <1>1, WordStepsTyped
<1>5. /\ Yields(Cpu!SubByte(m, m.a, m.b), Cpu!Byte) /\ Yields(Cpu!Daa(ccr, m.a), Cpu!Byte)
      /\ Yields(Cpu!AddByte(ccr, m.a, m.b, 0), Cpu!Byte)
  BY <1>1, <1>2, SubAddTyped, DaaTyped DEF Cpu!SubByte, ccr
<1>6. CASE op \in {\h00, \h01, \h1A, \h3E}
  BY <1>6 DEF Cpu!Inherent
<1>7. CASE op \in {\h04, \h05, \h3D}
  <2>1. \/ Cpu!Inherent(m, op) = Cpu!SetAB(m, Cpu!ShrWord(ccr, d))
        \/ Cpu!Inherent(m, op) = Cpu!SetAB(m, Cpu!ShlWord(ccr, d))
        \/ Cpu!Inherent(m, op) = Cpu!SetAB(m, Cpu!Mul(ccr, m.a, m.b))
    BY <1>7 DEF Cpu!Inherent, ccr, d
  <2> QED
    BY <1>3, <2>1, WordsSet
<1>8. CASE op \in {\h06, \h07, \h16, \h17}
  BY <1>8, TransferGood DEF Cpu!Inherent
<1>9. CASE op \in {\h08, \h09}
  <2>1. \/ Cpu!Inherent(m, op) = Cpu!SetX(m, Cpu!StepWord(ccr, m.ix, 1))
        \/ Cpu!Inherent(m, op) = Cpu!SetX(m, Cpu!StepWord(ccr, m.ix, -1))
    BY <1>9 DEF Cpu!Inherent, ccr
  <2> QED
    BY <1>4, <2>1, WordsSet
<1>10. CASE op \in \h0A .. \h0F
  <2>1. Cpu!Inherent(m, op) = [m EXCEPT !.ccr = Cpu!FlagSet(ccr, op)]
    BY <1>10 DEF Cpu!Inherent, ccr
  <2>2. Cpu!FlagSet(ccr, op) \in SUBSET Cpu!Flags
    BY <1>1, <1>10, FlagSetTyped
  <2> QED
    BY <2>1, <2>2, Loaded
<1>11. CASE op \in {\h10, \h19, \h1B}
  <2>1. \/ Cpu!Inherent(m, op) = Cpu!SetA(m, Cpu!SubByte(m, m.a, m.b))
        \/ Cpu!Inherent(m, op) = Cpu!SetA(m, Cpu!Daa(ccr, m.a))
        \/ Cpu!Inherent(m, op) = Cpu!SetA(m, Cpu!AddByte(ccr, m.a, m.b, 0))
    BY <1>11 DEF Cpu!Inherent, ccr
  <2> QED
    BY <1>5, <2>1, AccumulatorsSet
<1>12. CASE op = \h11
  <2>1. Cpu!Inherent(m, op) = [m EXCEPT !.ccr = Cpu!SubByte(m, m.a, m.b).ccr]
    BY <1>12 DEF Cpu!Inherent, Cpu!CmpByte
  <2> QED
    BY <1>5, <2>1, Loaded DEF Yields
<1>13. CASE op = \h18
  <2> DEFINE s == [val |-> m.ix, ccr |-> ccr]
             x == Cpu!SetD(m, m.ix)
  <2>1. Cpu!Inherent(m, op) = [x EXCEPT !.ix = d]
    BY <1>13 DEF Cpu!Inherent, d
  <2>2. s.val = m.ix /\ Yields(s, Cpu!Word)
    BY <1>1 DEF Yields
  <2> HIDE DEF s, x
  <2>3. Good(x)
    BY <2>2, WordsSet DEF x
  <2>4. Good([x EXCEPT !.ix = d])
    BY <1>1, <2>3, Loaded
  <2> QED
    BY <2>1, <2>4
<1>14. CASE op \in {\h30, \h3A}
  <2> DEFINE up == (m.sp + 1) % Cpu!WordMod
             on == (m.ix + m.b) % Cpu!WordMod
  <2>1. \/ Cpu!Inherent(m, op) = [m EXCEPT !.ix = up]
        \/ Cpu!Inherent(m, op) = [m EXCEPT !.ix = on]
    <3>1. CASE op = \h30
      BY <3>1 DEF Cpu!Inherent
    <3>2. CASE op = \h3A
      BY <3>2 DEF Cpu!Inherent
    <3> QED
      BY <1>14, <3>1, <3>2
  <2>2. up \in Cpu!Word /\ on \in Cpu!Word
    BY <1>2, Reduced
  <2> HIDE DEF up, on
  <2>3. Good([m EXCEPT !.ix = up])
    BY <2>2, Loaded
  <2>4. Good([m EXCEPT !.ix = on])
    BY <2>2, Loaded
  <2> QED
    BY <2>1, <2>3, <2>4
<1> QED
  BY <1>6, <1>7, <1>8, <1>9, <1>10, <1>11, <1>12, <1>13, <1>14 DEF InherentOps

LEMMA OnStackGood ==
    ASSUME NEW m, Good(m), NEW op \in Cpu!StackOps
    PROVE  Good(Cpu!OnStack(m, op))
<1> DEFINE p == Cpu!Pop(m)
           w == Cpu!Popw(m)
<1>1. m.a \in Cpu!Byte /\ m.b \in Cpu!Byte /\ m.ix \in Cpu!Word /\ m.sp \in Cpu!Word
  BY DEF Good, Cpu!IsMachine
<1>2. /\ Good(Cpu!SetSp(m, m.sp + 1)) /\ Good(Cpu!SetSp(m, m.sp - 1)) /\ Good(Cpu!SetSp(m, m.ix - 1))
  BY <1>1, PointerNear, SetSpGood
<1>3. Good(p) /\ Cpu!Top(p) \in Cpu!Byte /\ Good(w.m) /\ w.val \in Cpu!Word
  BY PopGood, PopwGood
<1>4. /\ Good(Cpu!Pushb(m, m.a)) /\ Good(Cpu!Pushb(m, m.b)) /\ Good(Cpu!Pushw(m, m.ix))
  BY <1>1, PushbGood, PushwGood
<1>5. Good(Cpu!Rti(m)) /\ Good(Cpu!IntAddr(m, Cpu!SwiVector))
  <2>1. Cpu!SwiVector \in Int
    BY DEF Cpu!SwiVector
  <2> QED
    BY <2>1, RtiGood, IntAddrGood
<1> HIDE DEF p, w
<1>6. /\ Good([p EXCEPT !.a = Cpu!Top(p)]) /\ Good([p EXCEPT !.b = Cpu!Top(p)])
      /\ Good([w.m EXCEPT !.ix = w.val]) /\ Good([w.m EXCEPT !.pc = w.val])
  BY <1>3, Loaded
<1>7. op \in {\h31, \h32, \h33, \h34, \h35, \h36, \h37, \h38, \h39, \h3B, \h3C, \h3F}
  BY DEF Cpu!StackOps
<1> QED
  BY <1>2, <1>4, <1>5, <1>6, <1>7 DEF Cpu!OnStack, p, w

\* Whatever the opcode, its function leaves a machine with a sound record of calls.
LEMMA OpFuncGood ==
    ASSUME NEW m, Good(m), NEW op \in Cpu!Byte
    PROVE  Good(Cpu!OpFunc(m, op))
<1>1. /\ op \in Int /\ op = 16 * Cpu!High(op) + Cpu!Low(op)
      /\ Cpu!High(op) \in 0 .. 15 /\ Cpu!Low(op) \in 0 .. 15
  BY Digits
<1> DEFINE rest == (0 .. \h3F) \ (Cpu!Undefined \cup Cpu!StackOps \cup (\h20 .. \h2F))
<1>2. \/ op \in Cpu!Undefined
      \/ op \in Cpu!StackOps
      \/ op \in rest
      \/ Cpu!High(op) = 2
      \/ Cpu!High(op) \in {4, 5} /\ op \notin Cpu!Undefined
      \/ Cpu!High(op) \in {6, 7}
      \/ Cpu!High(op) >= 8 /\ op \notin Cpu!Undefined
  BY <1>1
<1>3. op \in rest => op \in InherentOps
  BY DEF Cpu!Undefined, Cpu!StackOps, InherentOps
<1>4. Cpu!High(op) \in {4, 5} /\ op \notin Cpu!Undefined => Cpu!Low(op) \in OneOperand
  BY <1>1 DEF Cpu!Undefined, OneOperand
<1>5. Cpu!TRAPVECTOR \in Int
  BY DEF Cpu!TRAPVECTOR
<1> HIDE DEF rest
<1>6. Good(Cpu!Trap(m))
  BY <1>5, IntAddrGood DEF Cpu!Trap
<1>7. op \in Cpu!StackOps => Good(Cpu!OnStack(m, op))
  BY OnStackGood
<1>8. op \in rest => Good(Cpu!Inherent(m, op))
  BY <1>3, InherentGood
<1>9. Good(Cpu!Branch(m, op)) /\ Good(Cpu!OnMemory(m, op)) /\ Good(Cpu!OnOperand(m, op))
  BY BranchGood, OnMemoryGood, OnOperandGood
<1>10. Cpu!High(op) \in {4, 5} /\ op \notin Cpu!Undefined => Good(Cpu!OnAccumulator(m, op))
  BY <1>4, OnAccumulatorGood
<1> QED
  BY <1>2, <1>6, <1>7, <1>8, <1>9, <1>10 DEF Cpu!OpFunc, rest

LEMMA CyclesTyped ==
    ASSUME NEW op \in Cpu!Byte
    PROVE  Cpu!Cycles(op) \in Nat
<1>1. /\ op \in Int /\ op = 16 * Cpu!High(op) + Cpu!Low(op)
      /\ Cpu!High(op) \in 0 .. 15 /\ Cpu!Low(op) \in 0 .. 15
  BY Digits
<1> DEFINE t == <<1, 1, 3, 3, 1, 1, 4, 4, 4, 5, 1, 10, 5, 7, 9, 12>>[Cpu!Low(op) + 1]
<1>2. t \in Nat
  BY <1>1
<1> HIDE DEF t
<1>3. CASE op \in Cpu!Undefined
  BY <1>2, <1>3 DEF Cpu!Cycles, t
<1>4. CASE op < \h20 /\ op \notin Cpu!Undefined
  <2>1. Cpu!High(op) \in {0, 1}
    BY <1>1, <1>4
  <2> QED
    BY <1>2, <1>4, <2>1 DEF Cpu!Cycles, t
<1>5. CASE ~(op < \h20) /\ op \notin Cpu!Undefined
  <2>1. Cpu!High(op) # 0 /\ Cpu!High(op) # 1
    BY <1>1, <1>5
  <2> QED
    BY <1>1, <1>2, <1>5, <2>1 DEF Cpu!Cycles, t
<1> QED
  BY <1>1, <1>3, <1>4, <1>5

\* One instruction, from the fetch to the end.
LEMMA InstrGood ==
    ASSUME Good(cpu), NEW dev \in DeviceBytes,
           NEW op, op = Cpu!Getb([cpu EXCEPT !.dev = dev], cpu.pc)
    PROVE  /\ op \in Cpu!Byte
           /\ Good([Cpu!OpFunc(Cpu!IncPc([cpu EXCEPT !.dev = dev], 1), op) EXCEPT !.dev = 0])
<1> DEFINE m == [cpu EXCEPT !.dev = dev]
           f == Cpu!IncPc(m, 1)
           r == Cpu!OpFunc(f, op)
<1>1. dev \in Cpu!Byte /\ 0 \in Cpu!Byte
  BY ChipAssumption, BytesAre
<1>2. Good(m)
  BY <1>1, Loaded
<1>3. cpu.pc \in Int
  BY WordsAre DEF Good, Cpu!IsMachine
<1> HIDE DEF m
<1>4. op \in Cpu!Byte
  BY <1>2, <1>3, GetbTyped DEF Good, m
<1>5. Good(f)
  BY <1>2, PcMoved
<1> HIDE DEF f
<1>6. Good(r)
  BY <1>4, <1>5, OpFuncGood
<1> HIDE DEF r
<1>7. Good([r EXCEPT !.dev = 0])
  BY <1>1, <1>6, Loaded
<1> QED
  BY <1>4, <1>7 DEF r, f, m

LEMMA StackInit == SumInit => StackSound
<1>1. ASSUME SumInit PROVE StackSound
  <2>1. cpu \in Programs \cup {Resting} /\ Cpu!IsMachine(cpu) /\ Cpu!Stacked(cpu)
    BY <1>1, ChipAssumption DEF SumInit, Cpu!InitAt
  <2>2. /\ crashed = FALSE /\ pending = FALSE /\ left = 0 /\ slices = 0 /\ taken = 0
    BY <1>1 DEF SumInit, Cpu!InitAt
  <2>3. /\ left \in Int /\ left <= Clocks /\ slices \in 0 .. MaxSlices /\ taken \in 0 .. MaxInterrupts
    BY <2>2, ChipAssumption
  <2>4. {crashed, pending} \subseteq BOOLEAN
    BY <2>2
  <2> QED
    BY <2>1, <2>3, <2>4 DEF StackSound, Cpu!TypeOK, Cpu!CallsAbove
<1> QED
  BY <1>1

LEMMA StackNext == StackSound /\ [SumNext]_<<part, vars, cpuVars, linkVars>> => StackSound'
<1> SUFFICES ASSUME StackSound, [SumNext]_<<part, vars, cpuVars, linkVars>>
             PROVE  StackSound'
  OBVIOUS
<1>0. /\ Good(cpu) /\ {crashed, pending} \subseteq BOOLEAN /\ left \in Int /\ left <= Clocks
      /\ slices \in 0 .. MaxSlices /\ taken \in 0 .. MaxInterrupts
  BY DEF StackSound, Cpu!TypeOK, Cpu!CallsAbove, Good
<1>1. {MaxCallstack, Clocks, MaxSlices, MaxInterrupts} \subseteq Nat
  BY ChipAssumption
\* What a step has to keep.
<1>2. SUFFICES /\ Good(cpu)' /\ {crashed', pending'} \subseteq BOOLEAN
               /\ left' \in Int /\ left' <= Clocks
               /\ slices' \in 0 .. MaxSlices /\ taken' \in 0 .. MaxInterrupts
  BY DEF StackSound, Cpu!TypeOK, Cpu!CallsAbove, Good
<1>3. CASE UNCHANGED cpuVars
  BY <1>0, <1>3 DEF cpuVars
<1>4. CASE \E oc, sci_ \in BOOLEAN : Cpu!Interrupt(oc, sci_)
  <2>1. PICK v \in {Cpu!OCFVECTOR, Cpu!SCIVECTOR} :
           /\ taken < MaxInterrupts /\ taken' = taken + 1 /\ left' = left - Cpu!Cycles(\h3F)
           /\ cpu' = Cpu!IntAddr(cpu, v) /\ UNCHANGED <<crashed, pending, slices>>
    BY <1>4, Zenon DEF Cpu!Interrupt
  <2>2. v \in Int
    BY DEF Cpu!OCFVECTOR, Cpu!SCIVECTOR
  <2>3. Cpu!Cycles(\h3F) \in Nat
    BY BytesAre, CyclesTyped
  <2>4. Good(cpu)'
    BY <1>0, <2>1, <2>2, IntAddrGood
  <2> QED
    BY <1>0, <1>1, <2>1, <2>3, <2>4
<1>5. CASE Cpu!Crash
  BY <1>0, <1>5 DEF Cpu!Crash
<1>6. CASE \E dev \in DeviceBytes : Cpu!InstrExec(dev)
  <2>1. PICK dev \in DeviceBytes : Cpu!InstrExec(dev)
    BY <1>6
  <2> DEFINE op == Cpu!Getb([cpu EXCEPT !.dev = dev], cpu.pc)
  <2>2. /\ cpu' = [Cpu!OpFunc(Cpu!IncPc([cpu EXCEPT !.dev = dev], 1), op) EXCEPT !.dev = 0]
        /\ left' = left - Cpu!Cycles(op) /\ UNCHANGED <<crashed, pending, slices, taken>>
    BY <2>1 DEF Cpu!InstrExec
  <2>3. op \in Cpu!Byte /\ Good(cpu)'
    BY <1>0, <2>2, InstrGood
  <2> HIDE DEF op
  <2> QED
    BY <1>0, <1>1, <2>2, <2>3, CyclesTyped
<1>7. CASE Cpu!RunClocks
  <2>1. CASE Cpu!Reset
    <3> DEFINE on == cpu.ccr \cup {"I"}
               to == Cpu!Getw(cpu, Cpu!RESVECTOR)
    <3>1. /\ cpu' = [cpu EXCEPT !.ccr = on, !.pc = to]
          /\ crashed' = FALSE /\ pending' = FALSE /\ left' = 0 /\ UNCHANGED taken
      BY <2>1 DEF Cpu!Reset
    <3>2. on \in SUBSET Cpu!Flags
      BY <1>0 DEF Good, Cpu!IsMachine, Cpu!Flags
    <3>3. to \in Cpu!Word
      BY <1>0, GetwTyped DEF Good, Cpu!RESVECTOR
    <3> HIDE DEF on, to
    <3> DEFINE m == [cpu EXCEPT !.ccr = on]
    <3>4. cpu' = [m EXCEPT !.pc = to]
      BY <3>1
    <3>5. Good(m)
      BY <1>0, <3>2, Loaded
    <3> HIDE DEF m
    <3>6. Good([m EXCEPT !.pc = to])
      BY <3>3, <3>5, Loaded
    <3>7. slices < MaxSlices /\ slices' = slices + 1
      BY <1>7 DEF Cpu!RunClocks
    <3>8. Good(cpu)'
      BY <3>4, <3>6
    <3>9. /\ left' \in Int /\ left' <= Clocks
          /\ slices' \in 0 .. MaxSlices /\ taken' \in 0 .. MaxInterrupts
      BY <1>0, <1>1, <3>1, <3>7
    <3>10. {crashed', pending'} \subseteq BOOLEAN
      BY <3>1
    <3> QED
      BY <3>8, <3>9, <3>10
  <2>2. CASE /\ slices < MaxSlices /\ slices' = slices + 1 /\ left' = Clocks
             /\ UNCHANGED <<cpu, crashed, pending, taken>>
    BY <1>0, <1>1, <2>2
  <2> QED
    BY <1>7, <2>1, <2>2 DEF Cpu!RunClocks
<1>8. CASE Cpu!TriggerReset
  BY <1>0, <1>8 DEF Cpu!TriggerReset
<1>9. SumNext => Cpu!Next \/ UNCHANGED cpuVars
  BY DEF SumNext
<1> QED
  BY <1>3, <1>4, <1>5, <1>6, <1>7, <1>8, <1>9 DEF Cpu!Next

\* The record of calls kept for the emulator's messages is sound for every ROM
\* image and whatever the programs do to the stack pointer: it never exceeds
\* MAXCALLSTACK and names no routine that has returned; and every register
\* and byte of memory keeps its width (callstac.c, reg_setsp, opfunc.c).
THEOREM StackKept == SumSpec => []StackSound
<1> QED
  BY StackInit, StackNext, PTL DEF SumSpec

-------------------------------------------------------------------------------
(* What the last instruction did, for those the properties speak of. *)

LEMMA SameByte ==
    ASSUME NEW m, NEW n, m.mem = n.mem, NEW addr \in Int, addr >= 128
    PROVE  Cpu!Getb(m, addr) = Cpu!Getb(n, addr)
<1>1. addr \notin Cpu!WriteOnly /\ ~(addr < Cpu!NIREGS)
  BY DEF Cpu!WriteOnly, Cpu!NIREGS
<1> QED
  BY <1>1 DEF Cpu!Getb

\* The machine an instruction begins with: the opcode is behind it, its
\* operands are memory bytes, so that no device answers for them.
LEMMA Fetched ==
    ASSUME Good(cpu), Cpu!InMemory(cpu.pc), NEW dev \in DeviceBytes,
           NEW f, f = Cpu!IncPc([cpu EXCEPT !.dev = dev], 1)
    PROVE  /\ Good(f) /\ cpu.pc \in Int /\ cpu.pc >= 128 /\ cpu.pc < 65535
           /\ f.a = cpu.a /\ f.b = cpu.b /\ f.ix = cpu.ix /\ f.ccr = cpu.ccr
           /\ f.pc = cpu.pc + 1
           /\ Cpu!Getb(f, f.pc) = Cpu!Getb(cpu, cpu.pc + 1)
           /\ Cpu!Getb(f, f.pc + 1) = Cpu!Getb(cpu, cpu.pc + 2)
<1> DEFINE m == [cpu EXCEPT !.dev = dev]
<1>1. m = [a |-> cpu.a, b |-> cpu.b, ix |-> cpu.ix, sp |-> cpu.sp, pc |-> cpu.pc, ccr |-> cpu.ccr,
           mem |-> cpu.mem, calls |-> cpu.calls, dev |-> dev]
  BY DEF Good, Cpu!IsMachine
<1>2. Good(m)
  BY ChipAssumption, Loaded
<1>3. cpu.pc \in Int /\ cpu.pc >= 128 /\ cpu.pc < 65535
  BY WordsAre DEF Cpu!InMemory, Good, Cpu!IsMachine
<1> DEFINE to == (cpu.pc + 1) % Cpu!WordMod
<1>4. to = cpu.pc + 1
  BY <1>3, Widths
<1>5. f = [m EXCEPT !.pc = to]
  BY <1>1 DEF Cpu!IncPc
<1> HIDE DEF m, to
<1>6. Good(f)
  BY <1>2, <1>5, PcMoved DEF m
<1>7. /\ f.a = cpu.a /\ f.b = cpu.b /\ f.ix = cpu.ix /\ f.ccr = cpu.ccr
      /\ f.pc = to /\ f.mem = cpu.mem
  BY <1>1, <1>5
<1>8. Cpu!Getb(f, cpu.pc + 1) = Cpu!Getb(cpu, cpu.pc + 1)
  <2>1. cpu.pc + 1 \in Int /\ cpu.pc + 1 >= 128
    BY <1>3
  <2> QED
    BY <1>7, <2>1, SameByte
<1>9. Cpu!Getb(f, cpu.pc + 2) = Cpu!Getb(cpu, cpu.pc + 2)
  <2>1. cpu.pc + 2 \in Int /\ cpu.pc + 2 >= 128
    BY <1>3
  <2> QED
    BY <1>7, <2>1, SameByte
<1>10. f.pc = cpu.pc + 1 /\ f.pc + 1 = cpu.pc + 2
  BY <1>3, <1>4, <1>7
<1> QED
  BY <1>3, <1>6, <1>7, <1>8, <1>9, <1>10

WithAByte == {\h80, \h81, \h82, \h89, \h8B, \hC0, \hC1, \hCB}

\* The immediate operations on a byte, and cpx.
LEMMA ImmediateOps ==
    ASSUME NEW m
    PROVE  /\ \A op \in WithAByte :
                 Cpu!OpFunc(m, op) = Cpu!WithByte(Cpu!IncPc(m, 1), op, Cpu!Getb(m, m.pc))
           /\ Cpu!OpFunc(m, \h8C) = Cpu!WithWord(Cpu!IncPc(m, 2), \h8C, Cpu!Getw(m, m.pc))
<1>1. ASSUME NEW op \in WithAByte \cup {\h8C}
      PROVE  /\ Cpu!High(op) \in {8, 12} /\ Cpu!AccMode(op) = "imm"
             /\ op \notin Cpu!Undefined /\ op \notin Cpu!StackOps /\ op \notin 0 .. \h3F
  BY DEF WithAByte, Cpu!High, Cpu!AccMode, Cpu!Undefined, Cpu!StackOps
<1>2. ASSUME NEW op \in WithAByte
      PROVE  Cpu!Low(op) \in {0, 1, 2, 9, 11}
  BY DEF WithAByte, Cpu!Low
<1>3. Cpu!Low(\h8C) = 12 /\ Cpu!OnA(\h8C)
  BY DEF Cpu!Low, Cpu!OnA, Cpu!High
<1>4. ASSUME NEW op \in WithAByte \cup {\h8C}
      PROVE  Cpu!OpFunc(m, op) = Cpu!OnOperand(m, op)
  BY <1>1, <1>4 DEF Cpu!OpFunc
<1>5. Cpu!Address(m, "imm") = m.pc
  BY DEF Cpu!Address
<1>6. ASSUME NEW op \in WithAByte
      PROVE  Cpu!OnOperand(m, op) = Cpu!WithByte(Cpu!IncPc(m, 1), op, Cpu!Getb(m, m.pc))
  <2>1. Cpu!Skip(m, "imm", 1) = Cpu!IncPc(m, 1)
    BY DEF Cpu!Skip
  <2> QED
    BY <1>1, <1>2, <1>5, <2>1 DEF Cpu!OnOperand, Cpu!WordOps
<1>7. Cpu!OnOperand(m, \h8C) = Cpu!WithWord(Cpu!IncPc(m, 2), \h8C, Cpu!Getw(m, m.pc))
  <2>1. Cpu!Skip(m, "imm", 2) = Cpu!IncPc(m, 2)
    BY DEF Cpu!Skip
  <2> QED
    BY <1>1, <1>3, <1>5, <2>1 DEF Cpu!OnOperand, Cpu!WordOps
<1> QED
  BY <1>4, <1>6, <1>7

\* sba, cba, daa and aba; the branches.
LEMMA InherentAre ==
    ASSUME NEW m
    PROVE  /\ \A op \in {\h10, \h11, \h19, \h1B} : Cpu!OpFunc(m, op) = Cpu!Inherent(m, op)
           /\ \A op \in \h20 .. \h2F : Cpu!OpFunc(m, op) = Cpu!Branch(m, op)
<1>1. ASSUME NEW op \in {\h10, \h11, \h19, \h1B}
      PROVE  Cpu!OpFunc(m, op) = Cpu!Inherent(m, op)
  BY DEF Cpu!OpFunc, Cpu!High, Cpu!Undefined, Cpu!StackOps
<1>2. ASSUME NEW op \in \h20 .. \h2F
      PROVE  Cpu!OpFunc(m, op) = Cpu!Branch(m, op)
  <2>1. Cpu!High(op) = 2 /\ op \notin Cpu!Undefined /\ op \notin Cpu!StackOps
    BY DEF Cpu!High, Cpu!Undefined, Cpu!StackOps
  <2> QED
    BY <2>1 DEF Cpu!OpFunc
<1> QED
  BY <1>1, <1>2

\* The fields an operation leaves in the machine.
OnlyA(m, from, s) == m.a = s.val /\ m.b = from.b /\ m.ccr = s.ccr
OnlyB(m, from, s) == m.b = s.val /\ m.a = from.a /\ m.ccr = s.ccr

LEMMA FieldsSet ==
    ASSUME NEW m, Good(m), NEW s
    PROVE  /\ OnlyA(Cpu!SetA(m, s), m, s)
           /\ OnlyB(Cpu!SetB(m, s), m, s)
           /\ [m EXCEPT !.ccr = s.ccr].ccr = s.ccr
           /\ \A v : [m EXCEPT !.pc = v].pc = v
<1>1. m = [a |-> m.a, b |-> m.b, ix |-> m.ix, sp |-> m.sp, pc |-> m.pc, ccr |-> m.ccr,
           mem |-> m.mem, calls |-> m.calls, dev |-> m.dev]
  BY DEF Good, Cpu!IsMachine
<1> QED
  BY <1>1 DEF OnlyA, OnlyB, Cpu!SetA, Cpu!SetB

LEMMA WithByteIs ==
    ASSUME NEW m, NEW y
    PROVE  /\ Cpu!WithByte(m, \h80, y) = Cpu!SetA(m, Cpu!SubByte(m, m.a, y))
           /\ Cpu!WithByte(m, \hC0, y) = Cpu!SetB(m, Cpu!SubByte(m, m.b, y))
           /\ Cpu!WithByte(m, \h81, y) = Cpu!CmpByte(m, m.a, y)
           /\ Cpu!WithByte(m, \hC1, y) = Cpu!CmpByte(m, m.b, y)
           /\ Cpu!WithByte(m, \h82, y) = Cpu!SetA(m, Cpu!SbcByte(m, m.a, y))
           /\ Cpu!WithByte(m, \h89, y) = Cpu!SetA(m, Cpu!AddByte(m.ccr, m.a, y, Cpu!Carry(m)))
           /\ Cpu!WithByte(m, \h8B, y) = Cpu!SetA(m, Cpu!AddByte(m.ccr, m.a, y, 0))
           /\ Cpu!WithByte(m, \hCB, y) = Cpu!SetB(m, Cpu!AddByte(m.ccr, m.b, y, 0))
<1>1. /\ Cpu!OnA(\h80) /\ Cpu!OnA(\h81) /\ Cpu!OnA(\h82) /\ Cpu!OnA(\h89) /\ Cpu!OnA(\h8B)
      /\ ~Cpu!OnA(\hC0) /\ ~Cpu!OnA(\hC1) /\ ~Cpu!OnA(\hCB)
  BY DEF Cpu!OnA, Cpu!High
<1>2. /\ Cpu!Low(\h80) = 0 /\ Cpu!Low(\h81) = 1 /\ Cpu!Low(\h82) = 2 /\ Cpu!Low(\h89) = 9
      /\ Cpu!Low(\h8B) = 11 /\ Cpu!Low(\hC0) = 0 /\ Cpu!Low(\hC1) = 1 /\ Cpu!Low(\hCB) = 11
  BY DEF Cpu!Low
<1>3. Cpu!WithByte(m, \h80, y) = Cpu!SetA(m, Cpu!SubByte(m, m.a, y))
  BY <1>1, <1>2 DEF Cpu!WithByte, Cpu!SetAcc
<1>4. Cpu!WithByte(m, \hC0, y) = Cpu!SetB(m, Cpu!SubByte(m, m.b, y))
  BY <1>1, <1>2 DEF Cpu!WithByte, Cpu!SetAcc
<1>5. Cpu!WithByte(m, \h81, y) = Cpu!CmpByte(m, m.a, y)
  BY <1>1, <1>2 DEF Cpu!WithByte
<1>6. Cpu!WithByte(m, \hC1, y) = Cpu!CmpByte(m, m.b, y)
  BY <1>1, <1>2 DEF Cpu!WithByte
<1>7. Cpu!WithByte(m, \h82, y) = Cpu!SetA(m, Cpu!SbcByte(m, m.a, y))
  BY <1>1, <1>2 DEF Cpu!WithByte, Cpu!SetAcc
<1>8. Cpu!WithByte(m, \h89, y) = Cpu!SetA(m, Cpu!AddByte(m.ccr, m.a, y, Cpu!Carry(m)))
  BY <1>1, <1>2 DEF Cpu!WithByte, Cpu!SetAcc
<1>9. Cpu!WithByte(m, \h8B, y) = Cpu!SetA(m, Cpu!AddByte(m.ccr, m.a, y, 0))
  BY <1>1, <1>2 DEF Cpu!WithByte, Cpu!SetAcc
<1>10. Cpu!WithByte(m, \hCB, y) = Cpu!SetB(m, Cpu!AddByte(m.ccr, m.b, y, 0))
  BY <1>1, <1>2 DEF Cpu!WithByte, Cpu!SetAcc
<1> QED
  BY <1>3, <1>4, <1>5, <1>6, <1>7, <1>8, <1>9, <1>10

\* What the instructions the properties speak of leave in m, from the machine
\* before the fetch: the registers and flags, or where a branch goes.
Less(from, x, y, c) == Cpu!Sub(from.ccr, Cpu!ByteMod, x, y, c)
More(from, x, y, c) == Cpu!AddByte(from.ccr, x, y, c)
Operand1(from) == Cpu!Getb(from, from.pc + 1)
Operand2(from) == Cpu!Getb(from, from.pc + 2)

Effect(op, from, m) ==
    /\ op \in {\h80, \h81} => m.ccr = Less(from, from.a, Operand1(from), 0).ccr
    /\ op \in {\hC0, \hC1} => m.ccr = Less(from, from.b, Operand1(from), 0).ccr
    /\ op \in {\h10, \h11} => m.ccr = Less(from, from.a, from.b, 0).ccr
    /\ op = \h8C => m.ccr = Cpu!Sub(from.ccr, Cpu!WordMod, from.ix,
                                    256 * Operand1(from) + Operand2(from), 0).ccr
    /\ op = \hC0 => OnlyB(m, from, Less(from, from.b, Operand1(from), 0))
    /\ op = \h82 => OnlyA(m, from, Less(from, from.a, Operand1(from), Cpu!Carry(from)))
    /\ op = \hCB => OnlyB(m, from, More(from, from.b, Operand1(from), 0))
    /\ op = \h89 => OnlyA(m, from, More(from, from.a, Operand1(from), Cpu!Carry(from)))
    /\ op = \h8B => OnlyA(m, from, More(from, from.a, Operand1(from), 0))
    /\ op = \h1B => OnlyA(m, from, More(from, from.a, from.b, 0))
    /\ op = \h19 => OnlyA(m, from, Cpu!Daa(from.ccr, from.a))
    /\ op \in \h20 .. \h2F =>
         m.pc = (from.pc + 2 + (IF Cpu!Taken(from.ccr, op) THEN Cpu!Signed(Operand1(from)) ELSE 0))
                % Cpu!WordMod

\* The same as the machine after the fetch sees it.
LEMMA EffectOfByte ==
    ASSUME Good(cpu), NEW m, Good(m), m.a = cpu.a, m.b = cpu.b, m.ccr = cpu.ccr,
           NEW op \in WithAByte, NEW r, r = Cpu!WithByte(m, op, Operand1(cpu))
    PROVE  Effect(op, cpu, r)
<1> DEFINE y == Operand1(cpu)
<1>1. Cpu!Carry(m) = Cpu!Carry(cpu)
  BY DEF Cpu!Carry
<1>2. \A x, v : Cpu!SubByte(m, x, v) = Less(cpu, x, v, 0)
  BY DEF Cpu!SubByte, Less
<1>3. \A x, v : Cpu!SbcByte(m, x, v) = Less(cpu, x, v, Cpu!Carry(cpu))
  BY <1>1 DEF Cpu!SbcByte, Less
<1>4. \A x, v : /\ Cpu!AddByte(m.ccr, x, v, 0) = More(cpu, x, v, 0)
                /\ Cpu!AddByte(m.ccr, x, v, Cpu!Carry(m)) = More(cpu, x, v, Cpu!Carry(cpu))
  BY <1>1 DEF More
<1>5. \A s : /\ OnlyA(Cpu!SetA(m, s), cpu, s) /\ Cpu!SetA(m, s).ccr = s.ccr
             /\ OnlyB(Cpu!SetB(m, s), cpu, s) /\ Cpu!SetB(m, s).ccr = s.ccr
             /\ [m EXCEPT !.ccr = s.ccr].ccr = s.ccr
  <2> TAKE s
  <2> DEFINE p == Cpu!SetA(m, s)
             q == Cpu!SetB(m, s)
             n == [m EXCEPT !.ccr = s.ccr]
  <2>1. OnlyA(p, m, s) /\ OnlyB(q, m, s) /\ n.ccr = s.ccr
    BY FieldsSet
  <2> HIDE DEF p, q, n
  <2>2. OnlyA(p, cpu, s) /\ p.ccr = s.ccr /\ OnlyB(q, cpu, s) /\ q.ccr = s.ccr
    BY <2>1 DEF OnlyA, OnlyB
  <2> QED
    BY <2>1, <2>2 DEF p, q, n
<1>6. \A x, v : Cpu!CmpByte(m, x, v).ccr = Cpu!SubByte(m, x, v).ccr
  BY <1>5 DEF Cpu!CmpByte
<1> HIDE DEF y
<1>7. CASE op = \h80
  <2>1. r = Cpu!SetA(m, Less(cpu, cpu.a, y, 0))
    BY <1>2, <1>7, WithByteIs DEF y
  <2> QED
    BY <1>5, <1>7, <2>1 DEF Effect, y
<1>8. CASE op = \hC0
  <2>1. r = Cpu!SetB(m, Less(cpu, cpu.b, y, 0))
    BY <1>2, <1>8, WithByteIs DEF y
  <2> QED
    BY <1>5, <1>8, <2>1 DEF Effect, y
<1>9. CASE op = \h81
  <2>1. r.ccr = Less(cpu, cpu.a, y, 0).ccr
    BY <1>2, <1>6, <1>9, WithByteIs DEF y
  <2> QED
    BY <1>9, <2>1 DEF Effect, y
<1>10. CASE op = \hC1
  <2>1. r.ccr = Less(cpu, cpu.b, y, 0).ccr
    BY <1>2, <1>6, <1>10, WithByteIs DEF y
  <2> QED
    BY <1>10, <2>1 DEF Effect, y
<1>11. CASE op = \h82
  <2>1. r = Cpu!SetA(m, Less(cpu, cpu.a, y, Cpu!Carry(cpu)))
    BY <1>3, <1>11, WithByteIs DEF y
  <2> QED
    BY <1>5, <1>11, <2>1 DEF Effect, y
<1>12. CASE op = \h89
  <2>1. r = Cpu!SetA(m, More(cpu, cpu.a, y, Cpu!Carry(cpu)))
    BY <1>4, <1>12, WithByteIs DEF y
  <2> QED
    BY <1>5, <1>12, <2>1 DEF Effect, y
<1>13. CASE op = \h8B
  <2>1. r = Cpu!SetA(m, More(cpu, cpu.a, y, 0))
    BY <1>4, <1>13, WithByteIs DEF y
  <2> QED
    BY <1>5, <1>13, <2>1 DEF Effect, y
<1>14. CASE op = \hCB
  <2>1. r = Cpu!SetB(m, More(cpu, cpu.b, y, 0))
    BY <1>4, <1>14, WithByteIs DEF y
  <2> QED
    BY <1>5, <1>14, <2>1 DEF Effect, y
<1> QED
  BY <1>7, <1>8, <1>9, <1>10, <1>11, <1>12, <1>13, <1>14 DEF WithAByte

LEMMA EffectOfInherent ==
    ASSUME Good(cpu), NEW m, Good(m), m.a = cpu.a, m.b = cpu.b, m.ccr = cpu.ccr,
           NEW op \in {\h10, \h11, \h19, \h1B}, NEW r, r = Cpu!Inherent(m, op)
    PROVE  Effect(op, cpu, r)
<1>1. ASSUME NEW s, r = Cpu!SetA(m, s)
      PROVE  OnlyA(r, cpu, s) /\ r.ccr = s.ccr
  <2> DEFINE p == Cpu!SetA(m, s)
  <2>1. OnlyA(p, m, s)
    BY FieldsSet
  <2>2. r = p
    BY <1>1
  <2> HIDE DEF p
  <2> QED
    BY <2>1, <2>2 DEF OnlyA
<1>2. /\ Cpu!SubByte(m, m.a, m.b) = Less(cpu, cpu.a, cpu.b, 0)
      /\ Cpu!AddByte(m.ccr, m.a, m.b, 0) = More(cpu, cpu.a, cpu.b, 0)
      /\ Cpu!Daa(m.ccr, m.a) = Cpu!Daa(cpu.ccr, cpu.a)
  BY DEF Cpu!SubByte, Less, More
<1>3. CASE op = \h10
  <2>1. r = Cpu!SetA(m, Less(cpu, cpu.a, cpu.b, 0))
    BY <1>2, <1>3 DEF Cpu!Inherent
  <2> QED
    BY <1>1, <1>3, <2>1 DEF Effect
<1>4. CASE op = \h11
  <2> DEFINE s == Less(cpu, cpu.a, cpu.b, 0)
  <2>1. r = [m EXCEPT !.ccr = s.ccr]
    BY <1>2, <1>4 DEF Cpu!Inherent, Cpu!CmpByte
  <2> HIDE DEF s
  <2>2. r.ccr = s.ccr
    BY <2>1, FieldsSet
  <2> QED
    BY <1>4, <2>2 DEF Effect, s
<1>5. CASE op = \h19
  <2>1. r = Cpu!SetA(m, Cpu!Daa(cpu.ccr, cpu.a))
    BY <1>2, <1>5 DEF Cpu!Inherent
  <2> QED
    BY <1>1, <1>5, <2>1 DEF Effect
<1>6. CASE op = \h1B
  <2>1. r = Cpu!SetA(m, More(cpu, cpu.a, cpu.b, 0))
    BY <1>2, <1>6 DEF Cpu!Inherent
  <2> QED
    BY <1>1, <1>6, <2>1 DEF Effect
<1> QED
  BY <1>3, <1>4, <1>5, <1>6

\* The instructions the properties speak of.
Traced == WithAByte \cup {\h8C, \h10, \h11, \h19, \h1B} \cup (\h20 .. \h2F)

\* An instruction has its effect, whatever the devices answer.
LEMMA EffectOf ==
    ASSUME Good(cpu), Cpu!InMemory(cpu.pc), NEW dev \in DeviceBytes, NEW op \in Cpu!Byte,
           NEW r, r = [Cpu!OpFunc(Cpu!IncPc([cpu EXCEPT !.dev = dev], 1), op) EXCEPT !.dev = 0]
    PROVE  Effect(op, cpu, r)
<1> DEFINE f == Cpu!IncPc([cpu EXCEPT !.dev = dev], 1)
           g == Cpu!OpFunc(f, op)
           n == Cpu!IncPc(f, 1)
<1>1. /\ Good(f) /\ cpu.pc \in Int /\ cpu.pc >= 128 /\ cpu.pc < 65535
      /\ f.a = cpu.a /\ f.b = cpu.b /\ f.ix = cpu.ix /\ f.ccr = cpu.ccr
      /\ f.pc = cpu.pc + 1
      /\ Cpu!Getb(f, f.pc) = Operand1(cpu)
      /\ Cpu!Getb(f, f.pc + 1) = Operand2(cpu)
  BY Fetched DEF Operand1, Operand2
<1> HIDE DEF f
<1>2. Good(n) /\ n.a = f.a /\ n.b = f.b /\ n.ccr = f.ccr
  <2>1. Good(n)
    BY <1>1, PcMoved
  <2>2. n.a = f.a /\ n.b = f.b /\ n.ccr = f.ccr
    BY <1>1 DEF Cpu!IncPc, Good, Cpu!IsMachine
  <2> QED
    BY <2>1, <2>2
<1>3. Good(g)
  BY <1>1, OpFuncGood
\* Clearing what the device answered changes no register.
<1>4. ASSUME Effect(op, cpu, g) PROVE Effect(op, cpu, r)
  <2>1. r = [g EXCEPT !.dev = 0]
    BY DEF f
  <2> HIDE DEF g, n
  <2>2. r.a = g.a /\ r.b = g.b /\ r.ccr = g.ccr /\ r.pc = g.pc
    BY <1>3, <2>1 DEF Good, Cpu!IsMachine
  <2> QED
    BY <1>4, <2>2 DEF Effect, OnlyA, OnlyB
<1>5. ASSUME op \in WithAByte PROVE Effect(op, cpu, g)
  <2>1. g = Cpu!WithByte(n, op, Operand1(cpu))
    BY <1>1, <1>5, ImmediateOps
  <2> HIDE DEF g, n
  <2> QED
    BY <1>1, <1>2, <1>5, <2>1, EffectOfByte
<1>6. ASSUME op \in {\h10, \h11, \h19, \h1B} PROVE Effect(op, cpu, g)
  <2>1. g = Cpu!Inherent(f, op)
    BY <1>6, InherentAre
  <2> HIDE DEF g, n
  <2> QED
    BY <1>1, <1>6, <2>1, EffectOfInherent
<1>7. ASSUME op = \h8C PROVE Effect(op, cpu, g)
  <2> DEFINE p == Cpu!IncPc(f, 2)
             y == 256 * Operand1(cpu) + Operand2(cpu)
             s == Cpu!Sub(cpu.ccr, Cpu!WordMod, cpu.ix, y, 0)
  <2>1. Good(p)
    BY <1>1, PcMoved
  <2>2. p.ix = cpu.ix /\ p.ccr = cpu.ccr
    BY <1>1 DEF Cpu!IncPc, Good, Cpu!IsMachine
  <2>3. Cpu!Getw(f, f.pc) = y
    BY <1>1 DEF Cpu!Getw
  <2>4. g = Cpu!WithWord(p, \h8C, y)
    BY <1>7, <2>3, ImmediateOps
  <2> HIDE DEF g, p, y
  <2>5. Cpu!Low(\h8C) = 12 /\ Cpu!OnA(\h8C)
    BY DEF Cpu!Low, Cpu!OnA, Cpu!High
  <2>6. Cpu!WithWord(p, \h8C, y) = Cpu!CmpX(p, y)
    BY <2>5 DEF Cpu!WithWord
  <2>7. g = [p EXCEPT !.ccr = s.ccr]
    BY <2>2, <2>4, <2>6 DEF Cpu!CmpX, Cpu!SubWord
  <2> HIDE DEF s
  <2>8. g.ccr = s.ccr
    BY <2>1, <2>7, FieldsSet
  <2>9. op \notin {\h80, \h81, \hC0, \hC1, \h10, \h11, \h82, \hCB, \h89, \h8B, \h1B, \h19}
        /\ op \notin \h20 .. \h2F
    BY <1>7
  <2> QED
    BY <1>7, <2>8, <2>9 DEF Effect, s, y
<1>8. ASSUME op \in \h20 .. \h2F PROVE Effect(op, cpu, g)
  <2> DEFINE offs == IF Cpu!Taken(f.ccr, op) THEN Cpu!Signed(Cpu!Getb(f, f.pc)) ELSE 0
             step == IF Cpu!Taken(cpu.ccr, op) THEN Cpu!Signed(Operand1(cpu)) ELSE 0
  <2>1. g = Cpu!IncPc(f, 1 + offs)
    BY <1>8, InherentAre DEF Cpu!Branch
  <2>2. offs = step
    BY <1>1
  <2>3. step \in Int
    <3>1. cpu.pc + 1 \in Int
      BY <1>1
    <3>2. Operand1(cpu) \in Cpu!Byte
      BY <3>1, GetbTyped DEF Good, Operand1
    <3> QED
      BY <3>2, SignedTyped
  <2> HIDE DEF g, n, offs, step
  <2>4. g = [f EXCEPT !.pc = (f.pc + (1 + offs)) % Cpu!WordMod]
    BY <1>1, <2>1 DEF Cpu!IncPc, Good, Cpu!IsMachine
  <2>5. g.pc = (f.pc + (1 + offs)) % Cpu!WordMod
    BY <1>1, <2>4, FieldsSet
  <2>6. f.pc + (1 + offs) = cpu.pc + 2 + step
    BY <1>1, <2>2, <2>3
  <2>7. g.pc = (cpu.pc + 2 + step) % Cpu!WordMod
    BY <2>5, <2>6
  <2>8. op \notin {\h80, \h81, \hC0, \hC1, \h10, \h11, \h82, \hCB, \h89, \h8B, \h1B, \h19, \h8C}
    BY <1>8
  <2> QED
    BY <2>7, <2>8 DEF Effect, step
<1>9. ASSUME op \notin Traced PROVE Effect(op, cpu, g)
  BY <1>9 DEF Effect, Traced, WithAByte
<1> QED
  BY <1>4, <1>5, <1>6, <1>7, <1>8, <1>9 DEF Traced

\* History: the last instruction began at a sound machine and had its effect.
Explained ==
    last.op \in Cpu!Byte =>
       Good(last.from) /\ Cpu!InMemory(last.from.pc) /\ Effect(last.op, last.from, cpu)

LEMMA Executed ==
    ASSUME Good(cpu), NEW dev \in DeviceBytes, Cpu!InstrExec(dev)
    PROVE  /\ last'.op \in Cpu!Byte /\ last'.from = cpu
           /\ Cpu!InMemory(cpu.pc) /\ Effect(last'.op, cpu, cpu')
<1> DEFINE op == Cpu!Getb([cpu EXCEPT !.dev = dev], cpu.pc)
           r == [Cpu!OpFunc(Cpu!IncPc([cpu EXCEPT !.dev = dev], 1), op) EXCEPT !.dev = 0]
<1>1. cpu' = r /\ last' = [op |-> op, from |-> cpu] /\ Cpu!InMemory(cpu.pc)
  BY DEF Cpu!InstrExec
<1>2. op \in Cpu!Byte
  BY InstrGood
<1> HIDE DEF op
<1>3. Effect(op, cpu, r)
  BY <1>1, <1>2, EffectOf
<1> HIDE DEF r
<1> QED
  BY <1>1, <1>2, <1>3

\* What a step of the chip is to the history.
LEMMA StepOrInstr ==
    ASSUME StackSound, [SumNext]_<<part, vars, cpuVars, linkVars>>
    PROVE  \/ UNCHANGED <<cpu, last>> /\ ~(left' < left)
           \/ last'.op \in {-1, -2}
           \/ \E dev \in DeviceBytes : Cpu!InstrExec(dev)
<1>1. left \in Int /\ Clocks \in Nat
  BY ChipAssumption DEF StackSound, Cpu!TypeOK
<1>2. CASE UNCHANGED cpuVars
  BY <1>1, <1>2 DEF cpuVars
<1>3. CASE \E oc, sci_ \in BOOLEAN : Cpu!Interrupt(oc, sci_)
  <2>1. last' = [op |-> -1, from |-> cpu]
    BY <1>3 DEF Cpu!Interrupt
  <2> QED
    BY <2>1
<1>4. CASE Cpu!Crash
  BY <1>1, <1>4 DEF Cpu!Crash
<1>5. CASE Cpu!RunClocks
  <2>1. CASE Cpu!Reset
    <3>1. last' = [op |-> -2, from |-> cpu]
      BY <2>1 DEF Cpu!Reset
    <3> QED
      BY <3>1
  <2>2. CASE /\ ~pending /\ ~crashed /\ left' = Clocks /\ UNCHANGED <<cpu, last>>
    <3>1. left <= 0
      BY <1>5, <2>2 DEF Cpu!RunClocks
    <3> QED
      BY <1>1, <2>2, <3>1
  <2> QED
    BY <1>5, <2>1, <2>2 DEF Cpu!RunClocks
<1>6. CASE Cpu!TriggerReset
  BY <1>1, <1>6 DEF Cpu!TriggerReset
<1>7. SumNext => Cpu!Next \/ UNCHANGED cpuVars
  BY DEF SumNext
<1> QED
  BY <1>2, <1>3, <1>4, <1>5, <1>6, <1>7 DEF Cpu!Next

LEMMA NotAByte == -1 \notin Cpu!Byte /\ -2 \notin Cpu!Byte
  BY BytesAre

LEMMA ExplainedNext ==
    StackSound /\ Explained /\ [SumNext]_<<part, vars, cpuVars, linkVars>> => Explained'
<1> SUFFICES ASSUME StackSound, Explained, [SumNext]_<<part, vars, cpuVars, linkVars>>
             PROVE  Explained'
  OBVIOUS
<1>1. Good(cpu)
  BY DEF StackSound, Cpu!TypeOK, Cpu!CallsAbove, Good
<1>2. CASE UNCHANGED <<cpu, last>>
  BY <1>2 DEF Explained
<1>3. CASE last'.op \in {-1, -2}
  BY <1>3, NotAByte DEF Explained
<1>4. CASE \E dev \in DeviceBytes : Cpu!InstrExec(dev)
  <2>1. PICK dev \in DeviceBytes : Cpu!InstrExec(dev)
    BY <1>4
  <2>2. last'.from = cpu /\ Cpu!InMemory(cpu.pc) /\ Effect(last'.op, cpu, cpu')
    BY <1>1, <2>1, Executed
  <2> QED
    BY <1>1, <2>2 DEF Explained
<1> QED
  BY <1>2, <1>3, <1>4, StepOrInstr

LEMMA ExplainedInit == SumInit => Explained
<1>1. ASSUME SumInit PROVE last.op = -2
  BY <1>1 DEF SumInit, Cpu!InitAt
<1> QED
  BY <1>1, NotAByte DEF Explained

THEOREM HistoryKept == SumSpec => [](StackSound /\ Explained)
<1> QED
  BY StackInit, StackNext, ExplainedInit, ExplainedNext, PTL DEF SumSpec

\* A step that counts cycles and leaves op in the history is that instruction.
LEMMA ExecutesIs ==
    ASSUME StackSound, [SumNext]_<<part, vars, cpuVars, linkVars>>,
           NEW op \in Cpu!Byte, Cpu!Executes(op)
    PROVE  /\ Good(cpu) /\ cpu.pc \in Int /\ cpu.pc >= 128 /\ cpu.pc < 65535
           /\ Operand1(cpu) \in Cpu!Byte /\ Effect(op, cpu, cpu')
<1>1. Good(cpu)
  BY DEF StackSound, Cpu!TypeOK, Cpu!CallsAbove, Good
<1>2. left' < left /\ last'.op = op
  BY DEF Cpu!Executes
<1>3. PICK dev \in DeviceBytes : Cpu!InstrExec(dev)
  BY <1>2, StepOrInstr, NotAByte
<1>4. Cpu!InMemory(cpu.pc) /\ Effect(op, cpu, cpu')
  BY <1>1, <1>2, <1>3, Executed
<1>5. cpu.pc \in Int /\ cpu.pc >= 128 /\ cpu.pc < 65535
  BY <1>1, <1>4, WordsAre DEF Cpu!InMemory, Good, Cpu!IsMachine
<1>6. Operand1(cpu) \in Cpu!Byte
  <2>1. cpu.pc + 1 \in Int
    BY <1>5
  <2> QED
    BY <1>1, <2>1, GetbTyped DEF Good, Operand1
<1> QED
  BY <1>1, <1>4, <1>5, <1>6

-------------------------------------------------------------------------------
(* The branches after a comparison. *)

\* The flags order x and y: what SubOrders says a comparison leaves.
Ordered(ccr, M, x, y) ==
    /\ ("C" \in ccr) <=> x < y
    /\ ("Z" \in ccr) <=> x = y
    /\ Cpu!Differ("N" \in ccr, "V" \in ccr) <=> SignedValue(M, x) < SignedValue(M, y)

LEMMA ComparedIs ==
    ASSUME StackSound, Explained, NEW c \in Cpu!Compared
    PROVE  \E M \in Moduli : \E x, y \in Operand(M) :
              c = <<M, x, y>> /\ Ordered(cpu.ccr, M, x, y)
<1> DEFINE f == last.from
           u == Operand1(f)
           v == Operand2(f)
<1>1. last.op \in {\h80, \h81, \hC0, \hC1, \h10, \h11, \h8C}
  BY DEF Cpu!Compared
<1>2. Good(f) /\ Cpu!InMemory(f.pc) /\ Effect(last.op, f, cpu)
  <2>1. last.op \in Cpu!Byte
    BY <1>1, BytesAre
  <2> QED
    BY <2>1 DEF Explained
<1>3. Cpu!Arg(1) = u /\ Cpu!Arg(2) = v
  BY DEF Cpu!Arg, Operand1, Operand2
<1>4. f.a \in Cpu!Byte /\ f.b \in Cpu!Byte /\ f.ix \in Cpu!Word /\ f.pc \in Int
  BY <1>2, WordsAre DEF Good, Cpu!IsMachine
<1>5. u \in Cpu!Byte /\ v \in Cpu!Byte
  <2>1. f.pc + 1 \in Int /\ f.pc + 2 \in Int
    BY <1>4
  <2> QED
    BY <1>2, <2>1, GetbTyped DEF Good, Operand1, Operand2
<1> DEFINE w == 256 * u + v
<1>6. w \in Cpu!Word
  BY <1>5, WordOfBytes
<1>7. /\ Cpu!ByteMod \in Moduli /\ Cpu!WordMod \in Moduli
      /\ Operand(Cpu!ByteMod) = Cpu!Byte /\ Operand(Cpu!WordMod) = Cpu!Word
  BY DEF Moduli, Operand, Cpu!Byte, Cpu!Word
<1> HIDE DEF w, u, v, f
<1>8. ASSUME NEW M \in Moduli, NEW x \in Operand(M), NEW y \in Operand(M), NEW ccr,
             cpu.ccr = Cpu!Sub(ccr, M, x, y, 0).ccr
      PROVE  Ordered(cpu.ccr, M, x, y)
  <2> DEFINE s == Cpu!Sub(ccr, M, x, y, 0)
  <2>1. /\ ("C" \in s.ccr) <=> x < y
        /\ ("Z" \in s.ccr) <=> x = y
        /\ Cpu!Differ("N" \in s.ccr, "V" \in s.ccr) <=> SignedValue(M, x) < SignedValue(M, y)
    BY SubOrders
  <2> HIDE DEF s
  <2> QED
    BY <1>8, <2>1 DEF Ordered, s
<1>9. CASE last.op \in {\h80, \h81}
  <2>1. c = <<Cpu!ByteMod, f.a, u>>
    BY <1>3, <1>9 DEF Cpu!Compared, f
  <2>2. cpu.ccr = Cpu!Sub(f.ccr, Cpu!ByteMod, f.a, u, 0).ccr
    BY <1>2, <1>9 DEF Effect, Less, u
  <2> QED
    BY <1>4, <1>5, <1>7, <1>8, <2>1, <2>2
<1>10. CASE last.op \in {\hC0, \hC1}
  <2>1. c = <<Cpu!ByteMod, f.b, u>>
    BY <1>3, <1>10 DEF Cpu!Compared, f
  <2>2. cpu.ccr = Cpu!Sub(f.ccr, Cpu!ByteMod, f.b, u, 0).ccr
    BY <1>2, <1>10 DEF Effect, Less, u
  <2> QED
    BY <1>4, <1>5, <1>7, <1>8, <2>1, <2>2
<1>11. CASE last.op \in {\h10, \h11}
  <2>1. c = <<Cpu!ByteMod, f.a, f.b>>
    BY <1>11 DEF Cpu!Compared, f
  <2>2. cpu.ccr = Cpu!Sub(f.ccr, Cpu!ByteMod, f.a, f.b, 0).ccr
    BY <1>2, <1>11 DEF Effect, Less
  <2> QED
    BY <1>4, <1>7, <1>8, <2>1, <2>2
<1>12. CASE last.op = \h8C
  <2>1. c = <<Cpu!WordMod, f.ix, w>>
    BY <1>3, <1>12 DEF Cpu!Compared, f, w
  <2>2. cpu.ccr = Cpu!Sub(f.ccr, Cpu!WordMod, f.ix, w, 0).ccr
    BY <1>2, <1>12 DEF Effect, u, v, w
  <2> QED
    BY <1>4, <1>6, <1>7, <1>8, <2>1, <2>2
<1> QED
  BY <1>1, <1>9, <1>10, <1>11, <1>12

\* The condition of each branch of branch_expr, on the flags.
LEMMA TakenIs ==
    ASSUME NEW ccr
    PROVE  /\ Cpu!Taken(ccr, \h20) /\ ~Cpu!Taken(ccr, \h21)
           /\ Cpu!Taken(ccr, \h22) <=> "C" \notin ccr /\ "Z" \notin ccr
           /\ Cpu!Taken(ccr, \h23) <=> "C" \in ccr \/ "Z" \in ccr
           /\ Cpu!Taken(ccr, \h24) <=> "C" \notin ccr
           /\ Cpu!Taken(ccr, \h25) <=> "C" \in ccr
           /\ Cpu!Taken(ccr, \h26) <=> "Z" \notin ccr
           /\ Cpu!Taken(ccr, \h27) <=> "Z" \in ccr
           /\ Cpu!Taken(ccr, \h2C) <=> ~Cpu!Differ("N" \in ccr, "V" \in ccr)
           /\ Cpu!Taken(ccr, \h2D) <=> Cpu!Differ("N" \in ccr, "V" \in ccr)
           /\ Cpu!Taken(ccr, \h2E) <=> "Z" \notin ccr /\ ~Cpu!Differ("N" \in ccr, "V" \in ccr)
           /\ Cpu!Taken(ccr, \h2F) <=> "Z" \in ccr \/ Cpu!Differ("N" \in ccr, "V" \in ccr)
<1> DEFINE t(n) == Cpu!TakenIf(ccr, n)
<1>1. /\ t(0) /\ (t(1) <=> "C" \notin ccr /\ "Z" \notin ccr) /\ (t(2) <=> "C" \notin ccr)
      /\ (t(3) <=> "Z" \notin ccr)
      /\ (t(6) <=> ~Cpu!Differ("N" \in ccr, "V" \in ccr))
      /\ (t(7) <=> "Z" \notin ccr /\ ~Cpu!Differ("N" \in ccr, "V" \in ccr))
  BY DEF Cpu!TakenIf, Cpu!Differ
<1>2. \A n \in {0, 1, 2, 3, 6, 7} : t(n) \in BOOLEAN
  BY DEF Cpu!TakenIf
<1>3. ASSUME NEW k \in {0, 1, 2, 3, 6, 7}
      PROVE  (Cpu!Taken(ccr, 32 + 2 * k) <=> t(k)) /\ (Cpu!Taken(ccr, 33 + 2 * k) <=> ~t(k))
  <2> DEFINE e == 32 + 2 * k
             o == 33 + 2 * k
             odd(n) == Cpu!Low(n) % 2 = 1
  <2>1. Cpu!Low(e) \div 2 = k /\ Cpu!Low(o) \div 2 = k /\ odd(e) = FALSE /\ odd(o) = TRUE
    BY DEF Cpu!Low
  <2>2. \A n : Cpu!Taken(ccr, n) = (t(Cpu!Low(n) \div 2) # odd(n))
    BY Zenon DEF Cpu!Taken
  <2>3. t(k) \in BOOLEAN
    BY <1>2
  <2> HIDE DEF e, o, t, odd
  <2>4. Cpu!Taken(ccr, e) = (t(k) # FALSE) /\ Cpu!Taken(ccr, o) = (t(k) # TRUE)
    BY <2>1, <2>2, Zenon
  <2>5. (Cpu!Taken(ccr, e) <=> t(k)) /\ (Cpu!Taken(ccr, o) <=> ~t(k))
    BY <2>3, <2>4, Zenon
  <2> QED
    BY <2>5 DEF e, o
<1> HIDE DEF t
<1>4. /\ (Cpu!Taken(ccr, \h20) <=> t(0)) /\ (Cpu!Taken(ccr, \h21) <=> ~t(0))
      /\ (Cpu!Taken(ccr, \h22) <=> t(1)) /\ (Cpu!Taken(ccr, \h23) <=> ~t(1))
      /\ (Cpu!Taken(ccr, \h24) <=> t(2)) /\ (Cpu!Taken(ccr, \h25) <=> ~t(2))
  <2>1. \h20 = 32 + 2 * 0 /\ \h21 = 33 + 2 * 0 /\ \h22 = 32 + 2 * 1 /\ \h23 = 33 + 2 * 1
        /\ \h24 = 32 + 2 * 2 /\ \h25 = 33 + 2 * 2
    OBVIOUS
  <2> QED
    BY <1>3, <2>1
<1>5. /\ (Cpu!Taken(ccr, \h26) <=> t(3)) /\ (Cpu!Taken(ccr, \h27) <=> ~t(3))
      /\ (Cpu!Taken(ccr, \h2C) <=> t(6)) /\ (Cpu!Taken(ccr, \h2D) <=> ~t(6))
      /\ (Cpu!Taken(ccr, \h2E) <=> t(7)) /\ (Cpu!Taken(ccr, \h2F) <=> ~t(7))
  <2>1. \h26 = 32 + 2 * 3 /\ \h27 = 33 + 2 * 3 /\ \h2C = 32 + 2 * 6 /\ \h2D = 33 + 2 * 6
        /\ \h2E = 32 + 2 * 7 /\ \h2F = 33 + 2 * 7
    OBVIOUS
  <2> QED
    BY <1>3, <2>1
<1> QED
  BY <1>1, <1>4, <1>5, Zenon

\* The relation each branch is named for; bvc, bvs, bpl and bmi have none.
Named == (\h20 .. \h2F) \ (\h28 .. \h2B)
Relation(op, M, x, y) ==
    CASE op = \h20 -> TRUE [] op = \h21 -> FALSE
      [] op = \h22 -> x > y [] op = \h23 -> x <= y
      [] op = \h24 -> x >= y [] op = \h25 -> x < y
      [] op = \h26 -> x # y [] op = \h27 -> x = y
      [] op = \h2C -> SignedValue(M, x) >= SignedValue(M, y)
      [] op = \h2D -> SignedValue(M, x) < SignedValue(M, y)
      [] op = \h2E -> SignedValue(M, x) > SignedValue(M, y)
      [] op = \h2F -> SignedValue(M, x) <= SignedValue(M, y)
      [] OTHER -> FALSE

LEMMA TakenOrders ==
    ASSUME NEW ccr, NEW M \in Moduli, NEW x \in Operand(M), NEW y \in Operand(M),
           Ordered(ccr, M, x, y), NEW op \in Named
    PROVE  Cpu!Taken(ccr, op) <=> Relation(op, M, x, y)
<1> DEFINE p == SignedValue(M, x)
           q == SignedValue(M, y)
<1>1. M \in Int /\ x \in Int /\ y \in Int
  BY Widths DEF Moduli, Operand
<1>2. p \in Int /\ q \in Int
  BY <1>1 DEF SignedValue
<1>3. p = q => x = y
  <2>1. M \in {256, 65536} /\ x \in 0 .. (M - 1) /\ y \in 0 .. (M - 1)
    BY DEF Moduli, Cpu!ByteMod, Cpu!WordMod, Operand
  <2> QED
    BY <2>1, SMT DEF SignedValue, Cpu!Sign
<1>4. x = y => p = q
  OBVIOUS
<1> HIDE DEF p, q
<1>5. /\ ("C" \in ccr) <=> x < y
      /\ ("Z" \in ccr) <=> x = y
      /\ Cpu!Differ("N" \in ccr, "V" \in ccr) <=> p < q
  BY DEF Ordered, p, q
<1>6. CASE op \in {\h20, \h21, \h22, \h23, \h24, \h25, \h26, \h27}
  <2>1. CASE op \in {\h20, \h21}
    BY <2>1, TakenIs DEF Relation
  <2>2. CASE op = \h22
    BY <1>1, <1>5, <2>2, TakenIs DEF Relation
  <2>3. CASE op = \h23
    BY <1>1, <1>5, <2>3, TakenIs DEF Relation
  <2>4. CASE op \in {\h24, \h25}
    BY <1>1, <1>5, <2>4, TakenIs DEF Relation
  <2>5. CASE op \in {\h26, \h27}
    BY <1>5, <2>5, TakenIs DEF Relation
  <2> QED
    BY <1>6, <2>1, <2>2, <2>3, <2>4, <2>5
<1>7. CASE op \in {\h2C, \h2D, \h2E, \h2F}
  <2> DEFINE less == Cpu!Differ("N" \in ccr, "V" \in ccr)
  <2>1. /\ Cpu!Taken(ccr, \h2C) <=> ~less
        /\ Cpu!Taken(ccr, \h2D) <=> less
        /\ Cpu!Taken(ccr, \h2E) <=> "Z" \notin ccr /\ ~less
        /\ Cpu!Taken(ccr, \h2F) <=> "Z" \in ccr \/ less
    BY TakenIs
  <2>2. /\ Relation(\h2C, M, x, y) <=> p >= q
        /\ Relation(\h2D, M, x, y) <=> p < q
        /\ Relation(\h2E, M, x, y) <=> p > q
        /\ Relation(\h2F, M, x, y) <=> p <= q
    BY DEF Relation, p, q
  <2>3. (less <=> p < q) /\ (("Z" \in ccr) <=> p = q)
    BY <1>3, <1>4, <1>5
  <2> HIDE DEF less
  <2> QED
    BY <1>2, <1>7, <2>1, <2>2, <2>3
<1> QED
  BY <1>6, <1>7 DEF Named

\* With a displacement of zero the branch goes on either way.
LEMMA Displaced ==
    ASSUME NEW pc \in Int, pc >= 128, pc < 65535, NEW offs \in Int, -128 <= offs, offs <= 127,
           offs # 0
    PROVE  (pc + 2 + offs) % Cpu!WordMod # (pc + 2) % Cpu!WordMod
<1>1. (pc + 2 + offs) % 65536 # (pc + 2) % 65536
  OBVIOUS
<1> QED
  BY <1>1, Widths

LEMMA BranchStepHolds ==
    StackSound /\ Explained /\ [SumNext]_<<part, vars, cpuVars, linkVars>> => Cpu!BranchStep
<1> SUFFICES ASSUME StackSound, Explained, [SumNext]_<<part, vars, cpuVars, linkVars>>,
                    NEW c \in Cpu!Compared, NEW op \in \h20 .. \h2F, Cpu!Executes(op)
             PROVE  LET x == c[2]  y == c[3]
                        S(v) == IF Cpu!Sign(c[1], v) THEN v - c[1] ELSE v
                        holds == CASE op = \h20 -> TRUE [] op = \h21 -> FALSE
                                   [] op = \h22 -> x > y [] op = \h23 -> x <= y
                                   [] op = \h24 -> x >= y [] op = \h25 -> x < y
                                   [] op = \h26 -> x # y [] op = \h27 -> x = y
                                   [] op = \h2C -> S(x) >= S(y) [] op = \h2D -> S(x) < S(y)
                                   [] op = \h2E -> S(x) > S(y) [] op = \h2F -> S(x) <= S(y)
                                   [] OTHER -> cpu'.pc # (cpu.pc + 2) % Cpu!WordMod
                        offs == Cpu!Signed(Cpu!Getb(cpu, cpu.pc + 1))
                    IN  cpu'.pc = (cpu.pc + 2 + (IF holds THEN offs ELSE 0)) % Cpu!WordMod
  BY Zenon DEF Cpu!BranchStep
<1> DEFINE x == c[2]
           y == c[3]
           S(v) == IF Cpu!Sign(c[1], v) THEN v - c[1] ELSE v
           stay == (cpu.pc + 2) % Cpu!WordMod
           holds == CASE op = \h20 -> TRUE [] op = \h21 -> FALSE
                      [] op = \h22 -> x > y [] op = \h23 -> x <= y
                      [] op = \h24 -> x >= y [] op = \h25 -> x < y
                      [] op = \h26 -> x # y [] op = \h27 -> x = y
                      [] op = \h2C -> S(x) >= S(y) [] op = \h2D -> S(x) < S(y)
                      [] op = \h2E -> S(x) > S(y) [] op = \h2F -> S(x) <= S(y)
                      [] OTHER -> cpu'.pc # stay
           offs == Cpu!Signed(Cpu!Getb(cpu, cpu.pc + 1))
           jumps == Cpu!Taken(cpu.ccr, op)
<1>1. PICK M \in Moduli : \E u, v \in Operand(M) :
         c = <<M, u, v>> /\ Ordered(cpu.ccr, M, u, v)
  BY ComparedIs
<1>2. c[1] = M /\ x \in Operand(M) /\ y \in Operand(M) /\ Ordered(cpu.ccr, M, x, y)
  BY <1>1
<1>3. op \in Cpu!Byte
  BY BytesAre
<1>4. /\ cpu.pc \in Int /\ cpu.pc >= 128 /\ cpu.pc < 65535
      /\ Operand1(cpu) \in Cpu!Byte
      /\ cpu'.pc = (cpu.pc + 2 + (IF jumps THEN offs ELSE 0)) % Cpu!WordMod
  BY <1>3, ExecutesIs DEF Effect, Operand1
<1>5. offs \in Int /\ -128 <= offs /\ offs <= 127
  BY <1>4, BytesAre DEF Operand1, Cpu!Signed
<1> HIDE DEF x, y, stay, offs, jumps
<1>6. SUFFICES cpu'.pc = (cpu.pc + 2 + (IF holds THEN offs ELSE 0)) % Cpu!WordMod
  BY Zenon DEF x, y, stay, offs
<1>7. CASE op \in Named
  <2>1. S(x) = SignedValue(M, x) /\ S(y) = SignedValue(M, y)
    BY <1>2 DEF SignedValue
  <2>2. holds <=> Relation(op, M, x, y)
    BY <1>7, <2>1 DEF Relation, Named
  <2>3. jumps <=> Relation(op, M, x, y)
    BY <1>2, <1>7, TakenOrders DEF jumps
  <2> HIDE DEF holds
  <2> QED
    BY <1>4, <2>2, <2>3
<1>8. CASE op \in \h28 .. \h2B
  <2> DEFINE on(d) == (cpu.pc + 2 + d) % Cpu!WordMod
  <2>0. cpu'.pc = on(IF jumps THEN offs ELSE 0)
    BY <1>4
  <2>1. holds <=> cpu'.pc # stay
    <3>1. op \notin {\h20, \h21, \h22, \h23, \h24, \h25, \h26, \h27, \h2C, \h2D, \h2E, \h2F}
      BY <1>8
    <3> QED
      BY <3>1, Zenon
  <2> HIDE DEF holds, on
  <2>5. SUFFICES cpu'.pc = on(IF holds THEN offs ELSE 0)
    BY DEF on
  <2>2. CASE jumps /\ offs # 0
    <3>1. on(offs) # stay
      BY <1>4, <1>5, <2>2, Displaced DEF stay, on
    <3> QED
      BY <2>0, <2>1, <2>2, <3>1
  <2>3. CASE jumps /\ offs = 0
    BY <2>0, <2>3
  <2>4. CASE ~jumps
    <3>1. on(0) = stay
      <4>1. cpu.pc + 2 + 0 = cpu.pc + 2
        BY <1>4
      <4> QED
        BY <4>1 DEF stay, on
    <3> QED
      BY <2>0, <2>1, <2>4, <3>1
  <2> QED
    BY <2>2, <2>3, <2>4
<1> QED
  BY <1>7, <1>8 DEF Named

\* A conditional branch right after a comparison follows the order of the
\* operands, unsigned and signed, for every ROM image and every program
\* (alu_subbyte, alu_subword, branch_expr).
THEOREM BranchesOrdered == SumSpec => BranchesFollowOrder
<1>1. StackSound /\ Explained /\ [SumNext]_<<part, vars, cpuVars, linkVars>>
      => [Cpu!BranchStep]_(Cpu!vars)
  BY BranchStepHolds
<1> QED
  BY <1>1, HistoryKept, PTL DEF SumSpec, BranchesFollowOrder, Cpu!BranchesFollowOrder

-------------------------------------------------------------------------------
(* The sums of two instructions. *)

\* The flags of an addition or a subtraction do not depend on those before it.
LEMMA ArithFresh ==
    ASSUME NEW ccr, NEW M, NEW x, NEW y, NEW r, NEW carry
    PROVE  LET u == Cpu!Arith(ccr, M, x, y, r, carry)
               w == Cpu!Arith({}, M, x, y, r, carry)
           IN  /\ w.val = u.val /\ w.ccr \subseteq {"C", "N", "Z", "V"}
               /\ \A n \in {"C", "N", "V"} : n \in w.ccr <=> n \in u.ccr
<1> DEFINE v == Cpu!Differ(Cpu!Differ(Cpu!Differ(Cpu!Sign(M, x), Cpu!Sign(M, y)), Cpu!Sign(M, r)), carry)
           f == [C |-> carry, N |-> Cpu!Sign(M, r), Z |-> r = 0, V |-> v]
           u == Cpu!Arith(ccr, M, x, y, r, carry)
           w == Cpu!Arith({}, M, x, y, r, carry)
<1>1. DOMAIN f = {"C", "N", "Z", "V"}
  OBVIOUS
<1>2. /\ u = [val |-> r, ccr |-> Cpu!SetFlags(ccr, f)]
      /\ w = [val |-> r, ccr |-> Cpu!SetFlags({}, f)]
  BY DEF Cpu!Arith
<1> HIDE DEF f, u, w
<1>3. w.val = u.val /\ u.ccr = Cpu!SetFlags(ccr, f) /\ w.ccr = Cpu!SetFlags({}, f)
  BY <1>2
<1>4. \A n : /\ n \in u.ccr <=> IF n \in DOMAIN f THEN f[n] ELSE n \in ccr
             /\ n \in w.ccr <=> IF n \in DOMAIN f THEN f[n] ELSE n \in {}
  BY <1>3, SetFlagsMember
<1>5. w.ccr \subseteq {"C", "N", "Z", "V"}
  BY <1>1, <1>4, Zenon
<1>6. \A n \in {"C", "N", "V"} : n \in w.ccr <=> n \in u.ccr
  BY <1>1, <1>4
<1> QED
  BY <1>3, <1>5, <1>6 DEF u, w

LEMMA SumFresh ==
    ASSUME NEW ccr, NEW M, NEW x, NEW y, NEW c
    PROVE  /\ LET u == Cpu!Add(ccr, M, x, y, c)
                  w == Cpu!Add({}, M, x, y, c)
              IN  /\ w.val = u.val /\ w.ccr \subseteq {"C", "N", "Z", "V"}
                  /\ \A n \in {"C", "N", "V"} : n \in w.ccr <=> n \in u.ccr
           /\ LET u == Cpu!Sub(ccr, M, x, y, c)
                  w == Cpu!Sub({}, M, x, y, c)
              IN  /\ w.val = u.val /\ w.ccr \subseteq {"C", "N", "Z", "V"}
                  /\ \A n \in {"C", "N", "V"} : n \in w.ccr <=> n \in u.ccr
<1> DEFINE r == (x + y + c) % M
           over == x + y + c >= M
           d == (x - y - c) % M
           below == x < y + c
<1>1. \A s : /\ Cpu!Add(s, M, x, y, c) = Cpu!Arith(s, M, x, y, r, over)
             /\ Cpu!Sub(s, M, x, y, c) = Cpu!Arith(s, M, x, y, d, below)
  BY Zenon DEF Cpu!Add, Cpu!Sub
<1> HIDE DEF r, over, d, below
<1>2. LET u == Cpu!Arith(ccr, M, x, y, r, over)
          w == Cpu!Arith({}, M, x, y, r, over)
      IN  /\ w.val = u.val /\ w.ccr \subseteq {"C", "N", "Z", "V"}
          /\ \A n \in {"C", "N", "V"} : n \in w.ccr <=> n \in u.ccr
  BY ArithFresh
<1>3. LET u == Cpu!Arith(ccr, M, x, y, d, below)
          w == Cpu!Arith({}, M, x, y, d, below)
      IN  /\ w.val = u.val /\ w.ccr \subseteq {"C", "N", "Z", "V"}
          /\ \A n \in {"C", "N", "V"} : n \in w.ccr <=> n \in u.ccr
  BY ArithFresh
<1> QED
  BY <1>1, <1>2, <1>3

\* The flags of one word and another, read as the property reads them.
LEMMA FlagsAgree ==
    ASSUME NEW s, NEW u, NEW w, w \subseteq {"C", "N", "Z", "V"},
           \A n \in {"C", "N", "V"} : n \in w <=> n \in u,
           \A n \in {"C", "N", "V"} : n \in s <=> n \in u
    PROVE  s \cap {"C", "N", "V"} = w \ {"Z"}
  OBVIOUS

LEMMA PairStepHolds ==
    StackSound /\ Explained /\ [SumNext]_<<part, vars, cpuVars, linkVars>> => Cpu!PairStep
<1> SUFFICES ASSUME StackSound, Explained, [SumNext]_<<part, vars, cpuVars, linkVars>>
             PROVE  Cpu!PairStep
  OBVIOUS
<1> DEFINE f == last.from
           x == Cpu!D(f)
           y == 256 * Operand1(cpu) + Operand1(f)
           q == Operand1(f)
           p == Operand1(cpu)
\* The instruction before, and the types of its operands.
<1>1. ASSUME last.op \in {\hCB, \hC0}
      PROVE  /\ f.a \in Cpu!Byte /\ f.b \in Cpu!Byte /\ q \in Cpu!Byte
             /\ Effect(last.op, f, cpu)
  <2>1. last.op \in Cpu!Byte
    BY <1>1, BytesAre
  <2>2. Good(f) /\ Cpu!InMemory(f.pc) /\ Effect(last.op, f, cpu)
    BY <2>1 DEF Explained
  <2>3. f.a \in Cpu!Byte /\ f.b \in Cpu!Byte /\ f.pc \in Int
    BY <2>2, WordsAre DEF Good, Cpu!IsMachine
  <2>4. q \in Cpu!Byte
    <3>1. f.pc + 1 \in Int
      BY <2>3
    <3> QED
      BY <2>2, <3>1, GetbTyped DEF Good, Operand1
  <2> QED
    BY <2>2, <2>3, <2>4
<1>2. Cpu!Arg(1) = q /\ Cpu!Getb(cpu, cpu.pc + 1) = p /\ Cpu!D(f) = x
  BY DEF Cpu!Arg, Operand1
<1>3. ASSUME last.op = \hCB, Cpu!Executes(\h89)
      PROVE  LET w == Cpu!Add({}, Cpu!WordMod, x, y, 0)
             IN  Cpu!D(cpu') = w.val /\ cpu'.ccr \cap {"C", "N", "V"} = w.ccr \ {"Z"}
  <2> DEFINE lo == Cpu!AddByte(f.ccr, f.b, q, 0)
             hi == Cpu!AddByte(lo.ccr, f.a, p, IF "C" \in lo.ccr THEN 1 ELSE 0)
             u == Cpu!Add(f.ccr, Cpu!WordMod, x, y, 0)
             w == Cpu!Add({}, Cpu!WordMod, x, y, 0)
  <2>1. cpu.a = f.a /\ cpu.b = lo.val /\ cpu.ccr = lo.ccr
    BY <1>1, <1>3 DEF Effect, OnlyB, More
  <2>2. \h89 \in Cpu!Byte
    BY BytesAre
  <2>3. p \in Cpu!Byte /\ Effect(\h89, cpu, cpu')
    BY <1>3, <2>2, ExecutesIs
  <2> HIDE DEF p, q, f
  <2>4. cpu'.a = hi.val /\ cpu'.b = lo.val /\ cpu'.ccr = hi.ccr
    <3> HIDE DEF lo
    <3>1. Cpu!Carry(cpu) = IF "C" \in lo.ccr THEN 1 ELSE 0
      BY <2>1 DEF Cpu!Carry
    <3>2. More(cpu, cpu.a, p, Cpu!Carry(cpu)) = hi
      BY <2>1, <3>1 DEF More
    <3> HIDE DEF hi
    <3>3. OnlyA(cpu', cpu, hi)
      BY <2>3, <3>2 DEF Effect, p
    <3> QED
      BY <2>1, <3>3 DEF OnlyA
  <2>6. 256 * hi.val + lo.val = u.val /\ \A n \in {"C", "N", "V"} : n \in hi.ccr <=> n \in u.ccr
    <3>1. x = 256 * f.a + f.b /\ y = 256 * p + q
      BY DEF Cpu!D, p, q
    <3>2. f.a \in Cpu!Byte /\ f.b \in Cpu!Byte /\ q \in Cpu!Byte
      BY <1>1, <1>3
    <3>3. /\ lo = AddLow(f.ccr, f.b, q) /\ hi = AdcHigh(f.ccr, f.a, f.b, p, q)
          /\ u = AddD(f.ccr, f.a, f.b, p, q)
      BY <3>1, Zenon DEF AddLow, AdcHigh, AddD
    <3> HIDE DEF x, y, lo, hi, u
    <3> QED
      BY <2>3, <3>2, <3>3, AddPairs
  <2>7. /\ w.val = u.val /\ w.ccr \subseteq {"C", "N", "Z", "V"}
        /\ \A n \in {"C", "N", "V"} : n \in w.ccr <=> n \in u.ccr
    BY SumFresh
  <2> HIDE DEF lo, hi, u, w
  <2>8. Cpu!D(cpu') = w.val
    BY <2>4, <2>6, <2>7 DEF Cpu!D
  <2>9. cpu'.ccr \cap {"C", "N", "V"} = w.ccr \ {"Z"}
    BY <2>4, <2>6, <2>7, FlagsAgree
  <2> QED
    BY <2>8, <2>9 DEF w
<1>4. ASSUME last.op = \hC0, Cpu!Executes(\h82)
      PROVE  LET w == Cpu!Sub({}, Cpu!WordMod, x, y, 0)
             IN  Cpu!D(cpu') = w.val /\ cpu'.ccr \cap {"C", "N", "V"} = w.ccr \ {"Z"}
  <2> DEFINE lo == Cpu!Sub(f.ccr, Cpu!ByteMod, f.b, q, 0)
             hi == Cpu!Sub(lo.ccr, Cpu!ByteMod, f.a, p, IF "C" \in lo.ccr THEN 1 ELSE 0)
             u == Cpu!Sub(f.ccr, Cpu!WordMod, x, y, 0)
             w == Cpu!Sub({}, Cpu!WordMod, x, y, 0)
  <2>1. cpu.a = f.a /\ cpu.b = lo.val /\ cpu.ccr = lo.ccr
    BY <1>1, <1>4 DEF Effect, OnlyB, Less
  <2>2. \h82 \in Cpu!Byte
    BY BytesAre
  <2>3. p \in Cpu!Byte /\ Effect(\h82, cpu, cpu')
    BY <1>4, <2>2, ExecutesIs
  <2> HIDE DEF p, q, f
  <2>4. cpu'.a = hi.val /\ cpu'.b = lo.val /\ cpu'.ccr = hi.ccr
    <3> HIDE DEF lo
    <3>1. Cpu!Carry(cpu) = IF "C" \in lo.ccr THEN 1 ELSE 0
      BY <2>1 DEF Cpu!Carry
    <3>2. Less(cpu, cpu.a, p, Cpu!Carry(cpu)) = hi
      BY <2>1, <3>1 DEF Less
    <3> HIDE DEF hi
    <3>3. OnlyA(cpu', cpu, hi)
      BY <2>3, <3>2 DEF Effect, p
    <3> QED
      BY <2>1, <3>3 DEF OnlyA
  <2>6. 256 * hi.val + lo.val = u.val /\ \A n \in {"C", "N", "V"} : n \in hi.ccr <=> n \in u.ccr
    <3>1. x = 256 * f.a + f.b /\ y = 256 * p + q
      BY DEF Cpu!D, p, q
    <3>2. f.a \in Cpu!Byte /\ f.b \in Cpu!Byte /\ q \in Cpu!Byte
      BY <1>1, <1>4
    <3>3. /\ lo = SubLow(f.ccr, f.b, q) /\ hi = SbcHigh(f.ccr, f.a, f.b, p, q)
          /\ u = SubD(f.ccr, f.a, f.b, p, q)
      BY <3>1, Zenon DEF SubLow, SbcHigh, SubD
    <3> HIDE DEF x, y, lo, hi, u
    <3> QED
      BY <2>3, <3>2, <3>3, SubPairs
  <2>7. /\ w.val = u.val /\ w.ccr \subseteq {"C", "N", "Z", "V"}
        /\ \A n \in {"C", "N", "V"} : n \in w.ccr <=> n \in u.ccr
    BY SumFresh
  <2> HIDE DEF lo, hi, u, w
  <2>8. Cpu!D(cpu') = w.val
    BY <2>4, <2>6, <2>7 DEF Cpu!D
  <2>9. cpu'.ccr \cap {"C", "N", "V"} = w.ccr \ {"Z"}
    BY <2>4, <2>6, <2>7, FlagsAgree
  <2> QED
    BY <2>8, <2>9 DEF w
<1>5. y = 256 * Cpu!Getb(cpu, cpu.pc + 1) + Cpu!Arg(1)
  BY <1>2
<1> HIDE DEF x, y
<1> QED
  BY <1>2, <1>3, <1>4, <1>5, Zenon DEF Cpu!PairStep, f

\* The two nibbles of a byte.
LEMMA Nibbles ==
    ASSUME NEW a \in Cpu!Byte
    PROVE  /\ a \in Int /\ a = 16 * (a \div 16) + (a % 16)
           /\ a \div 16 \in 0 .. 15 /\ a % 16 \in 0 .. 15
<1>1. a \in Int /\ 0 <= a /\ a <= 255
  BY BytesAre
<1>2. a = 16 * (a \div 16) + (a % 16) /\ a % 16 \in 0 .. 15
  BY <1>1
<1>3. a \div 16 \in 0 .. 15
  BY <1>1
<1> QED
  BY <1>1, <1>2, <1>3

LEMMA Parity ==
    ASSUME NEW i \in Int, NEW j \in Int
    PROVE  /\ ((i + j) % 2 = 1) <=> Cpu!Differ(i % 2 = 1, j % 2 = 1)
           /\ ((i + j + 1) % 2 = 1) <=> ~Cpu!Differ(i % 2 = 1, j % 2 = 1)
           /\ ((i + j - 16) % 2 = 1) <=> ((i + j) % 2 = 1)
           /\ ((i + j + 1 - 16) % 2 = 1) <=> ((i + j + 1) % 2 = 1)
  BY DEF Cpu!Differ

LEMMA NibblesOf ==
    ASSUME NEW h \in 0 .. 15, NEW l \in 0 .. 15, NEW v, v = 16 * h + l
    PROVE  v \div 16 = h /\ v % 16 = l /\ v \in 0 .. 255
  OBVIOUS

\* The half carry of an addition is the carry out of the lower nibbles.
LEMMA HalfCarry ==
    ASSUME NEW ccr, NEW a \in Cpu!Byte, NEW b \in Cpu!Byte, NEW c \in 0 .. 1
    PROVE  ("H" \in Cpu!AddByte(ccr, a, b, c).ccr) <=> (a % 16) + (b % 16) + c >= 16
<1> DEFINE s == Cpu!Add(ccr, Cpu!ByteMod, a, b, c)
           differ == Cpu!Differ(Cpu!Differ(Cpu!Bit4(a), Cpu!Bit4(b)), Cpu!Bit4(s.val))
           h == [H |-> differ]
           t == Cpu!AddByte(ccr, a, b, c)
<1>1. t = [s EXCEPT !.ccr = Cpu!SetFlags(s.ccr, h)]
  BY DEF Cpu!AddByte
<1>2. DOMAIN s = {"val", "ccr"}
  BY DEF Cpu!Add, Cpu!Arith
<1>3. s.val = IF a + b + c >= 256 THEN a + b + c - 256 ELSE a + b + c
  <2>1. a \in Operand(Cpu!ByteMod) /\ b \in Operand(Cpu!ByteMod) /\ Cpu!ByteMod \in Moduli
    BY DEF Operand, Cpu!Byte, Moduli
  <2> QED
    BY <2>1, AddFlags DEF Cpu!ByteMod
<1>4. h["H"] = differ /\ DOMAIN h = {"H"}
  OBVIOUS
<1>5. differ <=> (a % 16) + (b % 16) + c >= 16
  <2> DEFINE ah == a \div 16
             al == a % 16
             bh == b \div 16
             bl == b % 16
             v == s.val
  <2>1. /\ ah \in 0 .. 15 /\ al \in 0 .. 15 /\ a = 16 * ah + al
        /\ bh \in 0 .. 15 /\ bl \in 0 .. 15 /\ b = 16 * bh + bl
    BY Nibbles
  <2>2. differ = Cpu!Differ(Cpu!Differ(ah % 2 = 1, bh % 2 = 1), (v \div 16) % 2 = 1)
    BY DEF Cpu!Bit4
  <2> HIDE DEF ah, al, bh, bl, s, differ, v
  <2>3. v = IF a + b + c >= 256 THEN a + b + c - 256 ELSE a + b + c
    BY <1>3 DEF v
  <2> DEFINE P == ah % 2 = 1
             Q == bh % 2 = 1
  <2>6. /\ ((ah + bh) % 2 = 1) <=> Cpu!Differ(P, Q)
        /\ ((ah + bh + 1) % 2 = 1) <=> ~Cpu!Differ(P, Q)
        /\ ((ah + bh - 16) % 2 = 1) <=> Cpu!Differ(P, Q)
        /\ ((ah + bh + 1 - 16) % 2 = 1) <=> ~Cpu!Differ(P, Q)
    <3>1. ah \in Int /\ bh \in Int
      BY <2>1
    <3> QED
      BY <3>1, Parity
  <2>7. differ <=> Cpu!Differ(Cpu!Differ(P, Q), (v \div 16) % 2 = 1)
    BY <2>2
  <2> HIDE DEF P, Q
  <2>4. CASE al + bl + c >= 16
    <3>0. ((a % 16) + (b % 16) + c >= 16)
      BY <2>1, <2>4 DEF al, bl
    <3>1. CASE a + b + c >= 256
      <4>1. v = 16 * (ah + bh + 1 - 16) + (al + bl + c - 16)
        BY <2>1, <2>3, <3>1
      <4>2. v \div 16 = ah + bh + 1 - 16
        BY <2>1, <2>4, <3>1, <4>1
      <4>3. ((v \div 16) % 2 = 1) <=> ~Cpu!Differ(P, Q)
        BY <2>6, <4>2
      <4> QED
        BY <2>7, <3>0, <4>3 DEF Cpu!Differ
    <3>2. CASE a + b + c < 256
      <4>1. v = 16 * (ah + bh + 1) + (al + bl + c - 16)
        BY <2>1, <2>3, <3>2
      <4>2. v \div 16 = ah + bh + 1
        BY <2>1, <2>4, <3>2, <4>1
      <4>3. ((v \div 16) % 2 = 1) <=> ~Cpu!Differ(P, Q)
        BY <2>6, <4>2
      <4> QED
        BY <2>7, <3>0, <4>3 DEF Cpu!Differ
    <3> QED
      BY <2>1, <3>1, <3>2
  <2>5. CASE al + bl + c < 16
    <3>0. ~((a % 16) + (b % 16) + c >= 16)
      BY <2>1, <2>5 DEF al, bl
    <3>1. CASE a + b + c >= 256
      <4>1. v = 16 * (ah + bh - 16) + (al + bl + c)
        BY <2>1, <2>3, <3>1
      <4>2. v \div 16 = ah + bh - 16
        BY <2>1, <2>5, <3>1, <4>1
      <4>3. ((v \div 16) % 2 = 1) <=> Cpu!Differ(P, Q)
        BY <2>6, <4>2
      <4> QED
        BY <2>7, <3>0, <4>3 DEF Cpu!Differ
    <3>2. CASE a + b + c < 256
      <4>1. v = 16 * (ah + bh) + (al + bl + c)
        BY <2>1, <2>3, <3>2
      <4>2. v \div 16 = ah + bh
        BY <2>1, <2>5, <3>2, <4>1
      <4>3. ((v \div 16) % 2 = 1) <=> Cpu!Differ(P, Q)
        BY <2>6, <4>2
      <4> QED
        BY <2>7, <3>0, <4>3 DEF Cpu!Differ
    <3> QED
      BY <2>1, <3>1, <3>2
  <2> QED
    BY <2>1, <2>4, <2>5
<1> HIDE DEF s, differ, h, t
<1>6. t.ccr = Cpu!SetFlags(s.ccr, h)
  BY <1>1, <1>2
<1>7. ("H" \in t.ccr) <=> differ
  BY <1>4, <1>6, SetFlagsMember
<1> QED
  BY <1>5, <1>7 DEF t

\* daa_inh, the corrections as numbers: v the byte, h and c the flags before.
DaaLow(v, h) ==
    LET low == v + (IF h THEN 6 ELSE 0) IN low + (IF low % 16 > 9 THEN 6 ELSE 0)
DaaMid(v, h, c) == DaaLow(v, h) + (IF c THEN 96 ELSE 0)
DaaAll(v, h, c) ==
    DaaMid(v, h, c) + (IF (DaaMid(v, h, c) \div 16) % 16 > 9 THEN 96 ELSE 0)

LEMMA DaaIs ==
    ASSUME NEW ccr, NEW v
    PROVE  LET t == Cpu!Daa(ccr, v)
               r == DaaAll(v, "H" \in ccr, "C" \in ccr)
           IN  /\ t.val = r % Cpu!ByteMod
               /\ ("C" \in t.ccr) <=> (r \div 256) % 2 = 1 \/ "C" \in ccr
<1> DEFINE r == DaaAll(v, "H" \in ccr, "C" \in ccr)
           w == r % Cpu!ByteMod
           f == [N |-> Cpu!Sign(Cpu!ByteMod, w), Z |-> w = 0, V |-> FALSE]
           u == Cpu!BitTest(ccr, Cpu!ByteMod, w)
           t == Cpu!Daa(ccr, v)
<1>1. t = IF (r \div 256) % 2 = 1 THEN [u EXCEPT !.ccr = u.ccr \cup {"C"}] ELSE u
  BY DEF Cpu!Daa, Cpu!DaaFrom, DaaAll, DaaMid, DaaLow
<1>2. u = [val |-> w, ccr |-> Cpu!SetFlags(ccr, f)] /\ DOMAIN f = {"N", "Z", "V"}
  BY DEF Cpu!BitTest
<1> HIDE DEF u, t, f, r, w
<1>3. u.val = w /\ (("C" \in u.ccr) <=> "C" \in ccr)
  BY <1>2, SetFlagsMember
<1>4. t.val = w
  BY <1>1, <1>2
<1>5. CASE (r \div 256) % 2 = 1
  <2>1. t.ccr = u.ccr \cup {"C"}
    BY <1>1, <1>2, <1>5
  <2> QED
    BY <1>4, <1>5, <2>1 DEF t, r, w
<1>6. CASE ~((r \div 256) % 2 = 1)
  <2>1. t.ccr = u.ccr
    BY <1>1, <1>6
  <2> QED
    BY <1>3, <1>4, <1>6, <2>1 DEF t, r, w
<1> QED
  BY <1>5, <1>6

-------------------------------------------------------------------------------
(* The decimal sum of two instructions. *)

LEMMA SixteenOf ==
    ASSUME NEW x \in -40 .. 40, NEW l \in 0 .. 15
    PROVE  (16 * x + l) % 16 = l /\ (16 * x + l) \div 16 = x
  OBVIOUS

\* The first correction: v is the byte that remains of a sum of upper digits hi
\* and lower digits lo, less the carry out of it; the lower digit is now decimal.
LEMMA LowDigit ==
    ASSUME NEW hi \in 0 .. 18, NEW lo \in 0 .. 19, NEW e \in {0, 16},
           NEW v, v = 16 * (hi - e) + lo, NEW h, h <=> lo >= 16
    PROVE  DaaLow(v, h) = IF lo >= 10 THEN 16 * (hi + 1 - e) + (lo - 10) ELSE v
<1> DEFINE low == v + (IF h THEN 6 ELSE 0)
<1>1. DaaLow(v, h) = low + (IF low % 16 > 9 THEN 6 ELSE 0)
  BY DEF DaaLow
<1>2. CASE lo >= 16
  <2>1. low = 16 * (hi + 1 - e) + (lo - 10)
    BY <1>2
  <2>2. hi + 1 - e \in -40 .. 40 /\ lo - 10 \in 0 .. 15
    BY <1>2
  <2> HIDE DEF low
  <2>3. low % 16 = lo - 10
    BY <2>1, <2>2, SixteenOf
  <2> QED
    BY <1>1, <1>2, <2>1, <2>3
<1>3. CASE lo < 16
  <2>1. low = 16 * (hi - e) + lo
    BY <1>3
  <2>2. hi - e \in -40 .. 40 /\ lo \in 0 .. 15
    BY <1>3
  <2> HIDE DEF low
  <2>3. low % 16 = lo
    BY <2>1, <2>2, SixteenOf
  <2> QED
    BY <1>1, <1>3, <2>1, <2>3
<1> QED
  BY <1>2, <1>3

\* Both corrections: k and d are the digits of the sum, k of more than one digit.
LEMMA DaaDigits ==
    ASSUME NEW hi \in 0 .. 18, NEW lo \in 0 .. 19, NEW e \in {0, 16},
           e = 16 <=> 16 * hi + lo >= 256,
           NEW v, v = 16 * (hi - e) + lo, NEW h, h <=> lo >= 16,
           NEW c, c <=> e = 16,
           NEW k, k = IF lo >= 10 THEN hi + 1 ELSE hi,
           NEW d, d = IF lo >= 10 THEN lo - 10 ELSE lo
    PROVE  /\ ((DaaAll(v, h, c) \div 256) % 2 = 1 \/ c) <=> k >= 10
           /\ ~(hi = 15 /\ lo \in 10 .. 15)
              => DaaAll(v, h, c) % 256 = 16 * (IF k >= 10 THEN k - 10 ELSE k) + d
<1>1. DaaLow(v, h) = 16 * (k - e) + d /\ d \in 0 .. 9 /\ k \in 0 .. 19
  BY LowDigit
<1> DEFINE mid == DaaMid(v, h, c)
           r == DaaAll(v, h, c)
<1>2. mid = DaaLow(v, h) + (IF c THEN 96 ELSE 0)
  BY DEF DaaMid
<1>3. r = mid + (IF (mid \div 16) % 16 > 9 THEN 96 ELSE 0)
  BY DEF DaaAll
<1> HIDE DEF mid, r
<1>4. CASE c
  <2>1. e = 16 /\ k >= 16
    BY <1>4
  <2>2. mid = 16 * (k - 10) + d /\ k - 10 \in 6 .. 9
    BY <1>1, <1>2, <1>4, <2>1
  <2>3. mid \div 16 = k - 10
    BY <1>1, <2>2, SixteenOf
  <2>4. r = 16 * (k - 10) + d /\ r \in 0 .. 255
    BY <1>1, <1>3, <2>2, <2>3
  <2>5. r % 256 = 16 * (k - 10) + d
    BY <2>4
  <2>6. k >= 10
    BY <1>1, <2>1
  <2> QED
    BY <1>4, <2>5, <2>6 DEF r
<1>5. CASE ~c
  <2>1. e = 0 /\ k <= 16
    BY <1>5
  <2>2. mid = 16 * k + d
    BY <1>1, <1>2, <1>5, <2>1
  <2>3. mid \div 16 = k
    BY <1>1, <2>2, SixteenOf
  <2>4. CASE k <= 9
    <3>1. r = 16 * k + d /\ r \in 0 .. 255
      BY <1>1, <1>3, <2>2, <2>3, <2>4
    <3>2. r \div 256 = 0 /\ r % 256 = r
      BY <3>1
    <3> QED
      BY <1>1, <1>5, <2>4, <3>1, <3>2 DEF r
  <2>5. CASE k \in 10 .. 15
    <3>1. r = 16 * (k + 6) + d
      BY <1>1, <1>3, <2>2, <2>3, <2>5
    <3>2. r \div 256 = 1 /\ r % 256 = 16 * (k - 10) + d
      BY <1>1, <2>5, <3>1
    <3> QED
      BY <1>1, <1>5, <2>5, <3>2 DEF r
  <2>6. CASE k = 16
    <3>1. hi = 15 /\ lo \in 10 .. 15
      BY <1>5, <2>1, <2>6
    <3>2. r = 256 + d
      BY <1>1, <1>3, <2>2, <2>3, <2>6
    <3>3. r \div 256 = 1
      BY <1>1, <3>2
    <3> QED
      BY <1>5, <2>6, <3>1, <3>3 DEF r
  <2> QED
    BY <1>1, <2>1, <2>4, <2>5, <2>6
<1> QED
  BY <1>4, <1>5

BothDecimal(a, b) == a % 16 <= 9 /\ a \div 16 <= 9 /\ b % 16 <= 9 /\ b \div 16 <= 9
Tens(v) == 10 * (v \div 16) + (v % 16)

LEMMA DaaAdds ==
    ASSUME NEW ccr, NEW a \in Cpu!Byte, NEW b \in Cpu!Byte, BothDecimal(a, b), NEW c \in 0 .. 1,
           NEW s, s = Cpu!AddByte(ccr, a, b, c)
    PROVE  LET t == Cpu!Daa(s.ccr, s.val)
               sum == Tens(a) + Tens(b) + c
           IN  /\ ~Cpu!DaaLoses(Tens(a), Tens(b), c) => Cpu!Decimal(t.val) = {sum % 100}
               /\ ("C" \in t.ccr) <=> sum >= 100
<1> DEFINE ah == a \div 16
           al == a % 16
           bh == b \div 16
           bl == b % 16
           hi == ah + bh
           lo == al + bl + c
           e == IF 16 * hi + lo >= 256 THEN 16 ELSE 0
           k == IF lo >= 10 THEN hi + 1 ELSE hi
           d == IF lo >= 10 THEN lo - 10 ELSE lo
           w == IF k >= 10 THEN k - 10 ELSE k
           x == Tens(a)
           y == Tens(b)
           sum == x + y + c
           t == Cpu!Daa(s.ccr, s.val)
<1>1. /\ ah \in 0 .. 9 /\ al \in 0 .. 9 /\ a = 16 * ah + al
      /\ bh \in 0 .. 9 /\ bl \in 0 .. 9 /\ b = 16 * bh + bl
  <2>1. /\ ah \in 0 .. 15 /\ al \in 0 .. 15 /\ a = 16 * ah + al
        /\ bh \in 0 .. 15 /\ bl \in 0 .. 15 /\ b = 16 * bh + bl
    BY Nibbles
  <2>2. ah <= 9 /\ al <= 9 /\ bh <= 9 /\ bl <= 9
    BY DEF BothDecimal
  <2> HIDE DEF ah, al, bh, bl
  <2> QED
    BY <2>1, <2>2
<1>2. x = 10 * ah + al /\ y = 10 * bh + bl
  BY DEF Tens
<1>3. /\ s.val = IF a + b + c >= 256 THEN a + b + c - 256 ELSE a + b + c
      /\ ("C" \in s.ccr) <=> a + b + c >= 256
  <2>1. a \in Operand(Cpu!ByteMod) /\ b \in Operand(Cpu!ByteMod) /\ Cpu!ByteMod \in Moduli
    BY DEF Operand, Cpu!Byte, Moduli
  <2> QED
    BY <2>1, AddFlags, AddByteFlags DEF Cpu!ByteMod
<1>4. ("H" \in s.ccr) <=> lo >= 16
  BY HalfCarry
<1> HIDE DEF ah, al, bh, bl, x, y
<1>5. /\ hi \in 0 .. 18 /\ lo \in 0 .. 19 /\ e \in {0, 16}
      /\ a + b + c = 16 * hi + lo /\ x + y + c = 10 * hi + lo
  BY <1>1, <1>2
<1>6. e = 16 <=> 16 * hi + lo >= 256
  BY <1>5
<1>7. s.val = 16 * (hi - e) + lo /\ (("C" \in s.ccr) <=> e = 16)
  <2>1. e = IF a + b + c >= 256 THEN 16 ELSE 0
    BY <1>5
  <2> DEFINE n == a + b + c
  <2>4. n = 16 * hi + lo
    BY <1>5
  <2>5. s.val = (IF n >= 256 THEN n - 256 ELSE n) /\ (("C" \in s.ccr) <=> n >= 256)
    <3>1. a \in Int /\ b \in Int
      BY <1>1
    <3>2. a + b + c - 256 = n - 256
      BY <3>1
    <3> QED
      BY <1>3, <3>2, Zenon
  <2>6. e = IF n >= 256 THEN 16 ELSE 0
    BY <2>1
  <2> HIDE DEF hi, lo, e, n
  <2>2. CASE n >= 256
    <3>1. s.val = n - 256 /\ e = 16 /\ "C" \in s.ccr
      BY <2>2, <2>5, <2>6
    <3> QED
      BY <1>5, <2>4, <3>1
  <2>3. CASE ~(n >= 256)
    <3>1. s.val = n /\ e = 0 /\ "C" \notin s.ccr
      BY <2>3, <2>5, <2>6
    <3> QED
      BY <1>5, <2>4, <3>1
  <2> QED
    BY <2>2, <2>3
<1>8. x \div 10 = ah /\ y \div 10 = bh /\ x % 10 = al /\ y % 10 = bl
  BY <1>1, <1>2
<1>9. Cpu!DaaLoses(x, y, c) <=> hi = 15 /\ lo \in 10 .. 15
  BY <1>8 DEF Cpu!DaaLoses
<1> HIDE DEF e, t
<1> DEFINE r == DaaAll(s.val, "H" \in s.ccr, "C" \in s.ccr)
<1>10. t.val = r % 256 /\ (("C" \in t.ccr) <=> (r \div 256) % 2 = 1 \/ "C" \in s.ccr)
  BY DaaIs DEF Cpu!ByteMod, t
<1> HIDE DEF hi, lo
<1>11. /\ ((r \div 256) % 2 = 1 \/ "C" \in s.ccr) <=> k >= 10
       /\ ~(hi = 15 /\ lo \in 10 .. 15) => r % 256 = 16 * w + d
  <2>1. k = (IF lo >= 10 THEN hi + 1 ELSE hi) /\ d = (IF lo >= 10 THEN lo - 10 ELSE lo)
    OBVIOUS
  <2> DEFINE h == "H" \in s.ccr
             cc == "C" \in s.ccr
             v == s.val
  <2>2. v = 16 * (hi - e) + lo /\ (h <=> lo >= 16) /\ (cc <=> e = 16) /\ r = DaaAll(v, h, cc)
    BY <1>4, <1>7
  <2> HIDE DEF k, d, r, h, cc, v
  <2>3. /\ ((r \div 256) % 2 = 1 \/ cc) <=> k >= 10
        /\ ~(hi = 15 /\ lo \in 10 .. 15)
           => r % 256 = 16 * (IF k >= 10 THEN k - 10 ELSE k) + d
    BY <1>5, <1>6, <2>1, <2>2, DaaDigits
  <2> QED
    BY <2>3 DEF cc
<1> HIDE DEF r
<1>12. k \in 0 .. 19 /\ d \in 0 .. 9 /\ w \in 0 .. 9 /\ 10 * hi + lo = 10 * k + d
  BY <1>5
<1>13. sum = 10 * k + d
  BY <1>5, <1>12
<1> HIDE DEF k, d, sum
<1>14. sum >= 100 <=> k >= 10
  BY <1>12, <1>13
<1>15. sum % 100 = 10 * w + d
  BY <1>12, <1>13
<1> HIDE DEF w
<1>16. ASSUME ~Cpu!DaaLoses(x, y, c) PROVE Cpu!Decimal(t.val) = {sum % 100}
  <2>1. t.val = 16 * w + d
    BY <1>9, <1>10, <1>11, <1>16
  <2>2. t.val \div 16 = w /\ t.val % 16 = d
    BY <1>12, <2>1, NibblesOf, SMTT(20)
  <2> QED
    BY <1>12, <1>15, <2>2 DEF Cpu!Decimal
<1>17. ("C" \in t.ccr) <=> sum >= 100
  BY <1>10, <1>11, <1>14
<1> QED
  BY <1>16, <1>17 DEF t, sum, x, y

LEMMA DaaStepHolds ==
    StackSound /\ Explained /\ [SumNext]_<<part, vars, cpuVars, linkVars>> => Cpu!DaaStep
<1> SUFFICES ASSUME StackSound, Explained, [SumNext]_<<part, vars, cpuVars, linkVars>>,
                    NEW z \in Cpu!Added, Cpu!Executes(\h19)
             PROVE  /\ ~Cpu!DaaLoses(z[1], z[2], z[3])
                       => Cpu!Decimal(cpu'.a) = {(z[1] + z[2] + z[3]) % 100}
                    /\ ("C" \in cpu'.ccr) = (z[1] + z[2] + z[3] >= 100)
  BY Zenon DEF Cpu!DaaStep
<1> DEFINE f == last.from
           c == Cpu!CarryIn
<1>1. PICK x \in Cpu!Decimal(f.a), y \in Cpu!Addend : z = <<x, y, c>>
  BY DEF Cpu!Added
<1>2. last.op \in {\h89, \h8B, \h1B}
  BY <1>1 DEF Cpu!Addend
<1> DEFINE b == IF last.op = \h1B THEN f.b ELSE Operand1(f)
<1>3. y \in Cpu!Decimal(b)
  BY <1>1, <1>2 DEF Cpu!Addend, Cpu!Arg, Operand1
<1>4. f.a \in Cpu!Byte /\ b \in Cpu!Byte /\ Effect(last.op, f, cpu)
  <2>1. last.op \in Cpu!Byte
    BY <1>2, BytesAre
  <2>2. Good(f) /\ Cpu!InMemory(f.pc) /\ Effect(last.op, f, cpu)
    BY <2>1 DEF Explained
  <2>3. f.a \in Cpu!Byte /\ f.b \in Cpu!Byte /\ f.pc \in Int
    BY <2>2, WordsAre DEF Good, Cpu!IsMachine
  <2>4. Operand1(f) \in Cpu!Byte
    <3>1. f.pc + 1 \in Int
      BY <2>3
    <3> QED
      BY <2>2, <3>1, GetbTyped DEF Good, Operand1
  <2> QED
    BY <2>2, <2>3, <2>4
<1> DEFINE s == Cpu!AddByte(f.ccr, f.a, b, c)
<1>5. cpu.a = s.val /\ cpu.ccr = s.ccr
  <2>1. CASE last.op = \h89
    <3>1. OnlyA(cpu, f, More(f, f.a, Operand1(f), Cpu!Carry(f)))
      BY <1>4, <2>1 DEF Effect
    <3>2. Cpu!Carry(f) = c /\ b = Operand1(f)
      BY <2>1 DEF Cpu!CarryIn, Cpu!Carry
    <3> QED
      BY <3>1, <3>2 DEF OnlyA, More
  <2>2. CASE last.op = \h8B
    <3>1. OnlyA(cpu, f, More(f, f.a, Operand1(f), 0))
      BY <1>4, <2>2 DEF Effect
    <3>2. c = 0 /\ b = Operand1(f)
      BY <2>2 DEF Cpu!CarryIn
    <3> QED
      BY <3>1, <3>2 DEF OnlyA, More
  <2>3. CASE last.op = \h1B
    <3>1. OnlyA(cpu, f, More(f, f.a, f.b, 0))
      BY <1>4, <2>3 DEF Effect
    <3>2. c = 0 /\ b = f.b
      BY <2>3 DEF Cpu!CarryIn
    <3> QED
      BY <3>1, <3>2 DEF OnlyA, More
  <2> QED
    BY <1>2, <2>1, <2>2, <2>3
<1> DEFINE t == Cpu!Daa(s.ccr, s.val)
<1>6. cpu'.a = t.val /\ cpu'.ccr = t.ccr
  <2>1. \h19 \in Cpu!Byte
    BY BytesAre
  <2>2. Effect(\h19, cpu, cpu')
    BY <2>1, ExecutesIs
  <2> HIDE DEF s, c, f, b
  <2>3. OnlyA(cpu', cpu, Cpu!Daa(cpu.ccr, cpu.a))
    BY <2>2 DEF Effect
  <2> QED
    BY <1>5, <2>3 DEF OnlyA
<1>7. c \in 0 .. 1
  BY DEF Cpu!CarryIn
<1> HIDE DEF f, b, c
<1>8. /\ x = Tens(f.a) /\ y = Tens(b)
      /\ f.a % 16 < 10 /\ f.a \div 16 < 10 /\ b % 16 < 10 /\ b \div 16 < 10
  BY <1>1, <1>3 DEF Cpu!Decimal, Tens
<1>9. BothDecimal(f.a, b)
  <2>1. /\ f.a % 16 \in Int /\ f.a \div 16 \in Int /\ b % 16 \in Int /\ b \div 16 \in Int
    BY <1>4, Nibbles
  <2> QED
    BY <1>8, <2>1 DEF BothDecimal
<1> DEFINE sum == Tens(f.a) + Tens(b) + c
<1>10. /\ ~Cpu!DaaLoses(Tens(f.a), Tens(b), c) => Cpu!Decimal(t.val) = {sum % 100}
       /\ ("C" \in t.ccr) <=> sum >= 100
  BY <1>4, <1>7, <1>9, DaaAdds
<1>11. z[1] = Tens(f.a) /\ z[2] = Tens(b) /\ z[3] = c
  BY <1>1, <1>8 DEF c
<1>12. z[1] + z[2] + z[3] = sum
  BY <1>11
<1> HIDE DEF s, t, sum
<1> QED
  BY <1>6, <1>10, <1>11, <1>12

\* Arithmetic wider than the byte instruction holds for every program: daa after
\* adda, adca or aba of decimal bytes leaves their decimal sum, but in the cases of
\* DaaLoses, and its carry; two byte instructions chained by the carry add or
\* subtract as one of 16 bits (alu_addbyte, alu_subbyte, daa_inh).
THEOREM SumsKept == SumSpec => SumsTrue
<1>1. StackSound /\ Explained /\ [SumNext]_<<part, vars, cpuVars, linkVars>>
      => [Cpu!DaaStep]_(Cpu!vars) /\ [Cpu!PairStep]_(Cpu!vars)
  BY DaaStepHolds, PairStepHolds
<1> QED
  BY <1>1, HistoryKept, PTL DEF SumSpec, SumsTrue, Cpu!DecimalKept, Cpu!PairIsWord
=================================================================================
