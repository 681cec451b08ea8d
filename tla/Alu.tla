---------------------------------- MODULE Alu ----------------------------------
(***************************************************************************)
(* The arithmetic and logic unit of the emulated HD6301 (6301/alu.c).      *)
(* The condition codes are the set of the flags that are on: a subset of   *)
(* {"C","V","Z","N","I","H"}.  Bits 6 and 7 of regs.ccr are left out, since *)
(* reg_getccr reads them as one whatever was written.                       *)
(*                                                                         *)
(* alu.c has each operation twice, for a byte and for a word; here the     *)
(* modulus M is 256 or 65536.  An operation is the record of the value it  *)
(* returns and of the condition codes it leaves.                            *)
(***************************************************************************)
EXTENDS Integers

Flags == {"C", "V", "Z", "N", "I", "H"}
ByteMod == 256
WordMod == 65536

\* reg_setcflag ... reg_sethflag: f names the flags that are written.
SetFlags(ccr, f) == (ccr \ DOMAIN f) \cup {x \in DOMAIN f : f[x]}

Sign(M, x) == 2 * x >= M
Bit4(x) == (x \div 16) % 2 = 1
Differ(p, q) == ~(p <=> q)

\* alu_bittestbyte, alu_bittestword
BitTest(ccr, M, x) ==
    [val |-> x,
     ccr |-> SetFlags(ccr, [N |-> Sign(M, x), Z |-> x = 0, V |-> FALSE])]

\* The four flags addition and subtraction share: V is the exclusive or of
\* the carries into and out of the sign bit.
Arith(ccr, M, x, y, r, carry) ==
    [val |-> r,
     ccr |-> SetFlags(ccr, [C |-> carry, N |-> Sign(M, r), Z |-> r = 0,
                            V |-> Differ(Differ(Differ(Sign(M, x), Sign(M, y)), Sign(M, r)), carry)])]

\* alu_addword, and alu_addbyte but for the half carry
Add(ccr, M, x, y, c) == Arith(ccr, M, x, y, (x + y + c) % M, x + y + c >= M)

\* alu_addbyte is the only operation that writes the half carry.
AddByte(ccr, x, y, c) ==
    LET s == Add(ccr, ByteMod, x, y, c)
    IN  [s EXCEPT !.ccr = SetFlags(@, [H |-> Differ(Differ(Bit4(x), Bit4(y)), Bit4(s.val))])]

\* alu_subbyte, alu_subword
SubBorrowLost(ccr, M, x, y, c) == Arith(ccr, M, x, y, (x - y - c) % M, x < y)
Sub(ccr, M, x, y, c) == Arith(ccr, M, x, y, (x - y - c) % M, x < y + c)

\* alu_testbyte
Test(ccr, x) ==
    [val |-> x,
     ccr |-> SetFlags(Sub(ccr, ByteMod, x, 0, 0).ccr, [V |-> FALSE, C |-> FALSE])]

\* alu_clrbyte, alu_combyte, alu_negbyte
Clr(ccr) == [val |-> 0, ccr |-> SetFlags(ccr, [N |-> FALSE, Z |-> TRUE,
                                               V |-> FALSE, C |-> FALSE])]
Com(ccr, x) ==
    [val |-> 255 - x, ccr |-> SetFlags(BitTest(ccr, ByteMod, 255 - x).ccr, [C |-> TRUE])]
Neg(ccr, x) == Sub(ccr, ByteMod, 0, x, 0)

\* alu_decbyte, alu_incbyte keep the carry; the word forms write Z alone.
Dec(ccr, x) ==
    LET r == (x - 1) % ByteMod
    IN  [val |-> r, ccr |-> SetFlags(ccr, [V |-> x = 128, N |-> Sign(ByteMod, r),
                                           Z |-> r = 0])]
Inc(ccr, x) ==
    LET r == (x + 1) % ByteMod
    IN  [val |-> r, ccr |-> SetFlags(ccr, [V |-> x = 127, N |-> Sign(ByteMod, r),
                                           Z |-> r = 0])]
StepWord(ccr, x, by) ==
    LET r == (x + by) % WordMod
    IN  [val |-> r, ccr |-> SetFlags(ccr, [Z |-> r = 0])]

\* alu_shlbyte, alu_shlword, alu_shrbyte, alu_shrword
Shifted(ccr, M, r, out) ==
    [val |-> r, ccr |-> SetFlags(ccr, [N |-> Sign(M, r), Z |-> r = 0,
                                       V |-> Differ(Sign(M, r), out), C |-> out])]
ShlWide(ccr, M, x, lsb) ==
    Shifted(ccr, M, 2 * x + (IF lsb THEN 1 ELSE 0), Sign(M, x))
Shl(ccr, M, x, lsb) ==
    Shifted(ccr, M, ((2 * x) % M) + (IF lsb THEN 1 ELSE 0), Sign(M, x))
Shr(ccr, M, x, msb) ==
    Shifted(ccr, M, (x \div 2) + (IF msb THEN M \div 2 ELSE 0), x % 2 = 1)

ShlWord(ccr, x) == Shl(ccr, WordMod, x, FALSE)
ShrWord(ccr, x) == Shr(ccr, WordMod, x, FALSE)

\* alu_andbyte, alu_orbyte, alu_xorbyte, on the sets of the bits that are one.
Bits(x) == {i \in 0 .. 7 : (x \div 2 ^ i) % 2 = 1}
FromBits(s) ==
    LET w(i, v) == IF i \in s THEN v ELSE 0
    IN  w(0, 1) + w(1, 2) + w(2, 4) + w(3, 8) + w(4, 16) + w(5, 32) + w(6, 64) + w(7, 128)
And(ccr, x, y) == BitTest(ccr, ByteMod, FromBits(Bits(x) \cap Bits(y)))
Or(ccr, x, y) == BitTest(ccr, ByteMod, FromBits(Bits(x) \cup Bits(y)))
Xor(ccr, x, y) ==
    BitTest(ccr, ByteMod, FromBits((Bits(x) \ Bits(y)) \cup (Bits(y) \ Bits(x))))

\* daa_inh
DaaFrom(ccr, a, high) ==
    LET low == a + (IF "H" \in ccr THEN 6 ELSE 0)
        adj == low + (IF low % 16 > 9 THEN 6 ELSE 0)
        mid == adj + (IF "C" \in ccr THEN 96 ELSE 0)
        r == mid + (IF (mid \div 16) % 16 > high THEN 96 ELSE 0)
        t == BitTest(ccr, ByteMod, r % ByteMod)
    IN  IF (r \div 256) % 2 = 1 THEN [t EXCEPT !.ccr = @ \cup {"C"}] ELSE t
DaaLate(ccr, a) == DaaFrom(ccr, a, 10)
Daa(ccr, a) == DaaFrom(ccr, a, 9)

\* mul_inh: the carry is bit 7 of the low byte, the other flags stay.
Mul(ccr, a, b) ==
    [val |-> a * b, ccr |-> SetFlags(ccr, [C |-> Sign(ByteMod, (a * b) % ByteMod)])]

\* reg_getccr and reg_setccr: the condition codes as a byte and back.
FlagBit == [C |-> 0, V |-> 1, Z |-> 2, N |-> 3, I |-> 4, H |-> 5]
CcrByte(ccr) == FromBits({6, 7} \cup {FlagBit[x] : x \in ccr})
ByteCcr(v) == {x \in Flags : FlagBit[x] \in Bits(v)}
================================================================================
