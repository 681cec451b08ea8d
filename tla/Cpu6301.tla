-------------------------------- MODULE Cpu6301 --------------------------------
(***************************************************************************)
(* The emulated HD6301: its memory (6301/memory.h), registers (reg.h,      *)
(* reg.c), call stack (callstac.c), instructions (opfunc.c, optab.c) and    *)
(* the run loop that executes them (instr.c, 6301.c).                       *)
(*                                                                         *)
(* The machine is one record: a, b, ix, sp, pc, ccr (the flags that are    *)
(* on), mem (the RAM and ROM bytes that differ from the image the firmware  *)
(* loads), calls (the call stack the emulator keeps for its messages) and   *)
(* dev, what the internal registers answer to the instruction in progress.  *)
(* Those registers are modelled by Timer6301, Sci and IkbdPorts; here they  *)
(* answer anything and may request an interrupt between any instructions.   *)
(*                                                                         *)
(* An instruction is a function from the machine after the opcode is       *)
(* fetched to the machine it leaves.  The programs are those the ST loads  *)
(* in the RAM with the IKBD's own commands, so any bytes.                   *)
(***************************************************************************)
EXTENDS Alu, FiniteSetsExt, SequencesExt

CONSTANTS
    Image,          \* the ROM image: [Rom -> Byte]
    Programs,       \* the machines the ST may have prepared
    DeviceBytes,    \* what an internal register may answer
    MaxCallstack,   \* MAXCALLSTACK
    Clocks,         \* the cycles of a slice
    MaxSlices,      \* bound: slices explored
    MaxInterrupts   \* bound: interrupts taken

VARIABLES
    cpu,            \* the machine
    crashed,        \* crashed
    pending,        \* pending_reset
    left,           \* the cycles of the slice that are still to run
    slices, taken,  \* counted for the bounds
    last,           \* history: the opcode executed last and its inputs
    resume          \* history: where the open calls and interrupts return to

vars == <<cpu, crashed, pending, left, slices, taken, last, resume>>

Byte == 0 .. (ByteMod - 1)
Word == 0 .. (WordMod - 1)
Ram == \h80 .. \hFF
Rom == \hF000 .. \hFFFF
NIREGS == \h15
WriteOnly == {0, 1, 4, 5, \h13}          \* DDR1, DDR2, DDR3, DDR4, TDR
OCFVECTOR == \hFFF4
SCIVECTOR == \hFFF0
TRAPVECTOR == \hFFEE
RESVECTOR == \hFFFE
SwiVector == \hFFFC                     \* the address in swi_inh

\* What a machine is, and when its record of calls lies beside the real stack:
\* no entry below the stack pointer, the inner ones below the outer ones.
IsMachine(m) ==
    /\ m = [a |-> m.a, b |-> m.b, ix |-> m.ix, sp |-> m.sp, pc |-> m.pc, ccr |-> m.ccr,
            mem |-> m.mem, calls |-> m.calls, dev |-> m.dev]
    /\ {m.a, m.b, m.dev} \subseteq Byte
    /\ {m.ix, m.sp, m.pc} \subseteq Word
    /\ m.ccr \subseteq Flags
    /\ DOMAIN m.mem \subseteq Ram \cup Rom
    /\ \A x \in DOMAIN m.mem : m.mem[x] \in Byte
    /\ m.calls \in Seq([entry : Word, sp : Word]) /\ Len(m.calls) <= MaxCallstack
Stacked(m) ==
    \A i \in DOMAIN m.calls :
        /\ m.calls[i].sp >= m.sp
        /\ \A j \in 1 .. i : m.calls[j].sp >= m.calls[i].sp

(***************************** Memory *****************************)
\* mem_getb: the RAM is the 128 bytes of the chip, the hole above it reads
\* 0xFF, an address past 0xFFFF (the second byte of a word) reads 0.
Getb(m, addr) ==
    CASE addr \in WriteOnly -> 255
      [] addr < NIREGS /\ addr \notin WriteOnly -> m.dev
      [] addr \in Ram \cup Rom ->
            IF addr \in DOMAIN m.mem THEN m.mem[addr]
            ELSE IF addr \in Rom THEN Image[addr] ELSE 0
      [] addr >= NIREGS /\ addr \notin Ram \cup Rom -> IF addr < WordMod THEN 255 ELSE 0

Getw(m, addr) == 256 * Getb(m, addr) + Getb(m, addr + 1)

\* mem_putb: nothing protects the ROM; a write to an internal register is
\* the device's business, one to the hole is dropped.
Written(mem, addr, v) == [x \in {addr} \cup DOMAIN mem |-> IF x = addr THEN v ELSE mem[x]]
Putb(m, addr, v) ==
    IF addr \in Ram \cup Rom THEN [m EXCEPT !.mem = Written(@, addr, v)] ELSE m

Putw(m, addr, v) == Putb(Putb(m, addr, v \div 256), addr + 1, v % 256)

(*********************** Registers and the stack ***********************)
D(m) == 256 * m.a + m.b
SetD(m, v) == [m EXCEPT !.a = (v \div 256) % 256, !.b = v % 256]
IncPc(m, n) == [m EXCEPT !.pc = (@ + n) % WordMod]

\* reg_setsp: the argument is unsigned, so -1 is above every stack pointer;
\* calls whose entry lies below the new pointer have returned.
SetSpKeepsCalls(m, v) == [m EXCEPT !.sp = v % WordMod]
SetSp(m, v) ==
    LET Above(s) == v < 0 \/ v > s
        kept == IF Above(m.sp)
                THEN Max({0} \cup {i \in DOMAIN m.calls : ~Above(m.calls[i].sp)})
                ELSE Len(m.calls)
    IN  [m EXCEPT !.calls = SubSeq(@, 1, kept), !.sp = v % WordMod]

Pushb(m, v) == SetSp(Putb(m, m.sp, v), m.sp - 1)
Pushw(m, v) == Pushb(Pushb(m, v % 256), v \div 256)
Pop(m) == SetSp(m, m.sp + 1)
Top(m) == Getb(m, m.sp)

\* callstack_push: past MAXCALLSTACK entries the call is not recorded.
Called(m, addr) ==
    IF Len(m.calls) < MaxCallstack
    THEN [m EXCEPT !.calls = Append(@, [entry |-> addr, sp |-> m.sp])] ELSE m

\* jsr_addr
Jsr(m, addr) == Called([Pushw(m, m.pc) EXCEPT !.pc = addr % WordMod], addr % WordMod)

\* int_addr: the interrupts, swi and trap.
IntAddr(m, vector) ==
    LET s == Pushb(Pushb(Pushb(Pushw(Pushw(m, m.pc), m.ix), m.a), m.b), CcrByte(m.ccr))
        v == Called([s EXCEPT !.pc = Getw(s, vector)], Getw(s, vector))
    IN  [v EXCEPT !.ccr = @ \cup {"I"}]

\* rti_inh, in the order of its five pops
RtiSwapped(m) ==
    LET c == Pop(m)  b == Pop(c)  a == Pop(b)  xh == Pop(a)  xl == Pop(xh)
        ph == Pop(xl)  pl == Pop(ph)
    IN  [pl EXCEPT !.ccr = ByteCcr(Top(c)), !.a = Top(b), !.b = Top(a),
                   !.ix = 256 * Top(xh) + Top(xl), !.pc = 256 * Top(ph) + Top(pl)]
Rti(m) ==
    LET c == Pop(m)  b == Pop(c)  a == Pop(b)  xh == Pop(a)  xl == Pop(xh)
        ph == Pop(xl)  pl == Pop(ph)
    IN  [pl EXCEPT !.ccr = ByteCcr(Top(c)), !.b = Top(b), !.a = Top(a),
                   !.ix = 256 * Top(xh) + Top(xl), !.pc = 256 * Top(ph) + Top(pl)]

\* popword: the byte on top is the high one.
Popw(m) == [m |-> Pop(Pop(m)), val |-> 256 * Top(Pop(m)) + Top(Pop(Pop(m)))]

(************************** Addressing modes **************************)
\* getaddr_dir, getaddr_ext, getaddr_ix, and the operand's own address for an
\* immediate one; m.pc is at the byte after the opcode.
Address(m, mode) ==
    CASE mode = "imm" -> m.pc
      [] mode = "dir" -> Getb(m, m.pc)
      [] mode = "ind" -> (Getb(m, m.pc) + m.ix) % WordMod
      [] mode = "ext" -> Getw(m, m.pc)

Skip(m, mode, bytes) ==
    IncPc(m, CASE mode = "imm" -> bytes [] mode \in {"dir", "ind"} -> 1 [] mode = "ext" -> 2)

(************************** The opcode map **************************)
High(op) == op \div 16
Low(op) == op % 16
AccMode(op) == <<"imm", "dir", "ind", "ext">>[(High(op) % 4) + 1]
OnA(op) == High(op) \in {4, 8, 9, \hA, \hB}
WordOps == {\h3, \hC, \hD, \hE, \hF}

Undefined ==
    {\h02, \h03} \cup (\h12 .. \h15) \cup (\h1C .. \h1F)
    \cup {h + l : h \in {\h40, \h50}, l \in {\h1, \h2, \h5, \hB, \hE}}
    \cup {\h87, \h8F, \hC7, \hCD, \hCF}

\* The cycles of optab.c; an undefined opcode counts none.
Cycles(op) ==
    CASE op \in Undefined -> 0
      [] op < \h20 /\ op \notin Undefined ->
            CASE op \in {\h18, \h19} -> 2 [] op = \h1A -> 4 [] OTHER -> 1
      [] High(op) = 2 -> 3
      [] High(op) = 3 ->
            <<1, 1, 3, 3, 1, 1, 4, 4, 4, 5, 1, 10, 5, 7, 9, 12>>[Low(op) + 1]
      [] High(op) \in {4, 5} /\ op \notin Undefined -> 1
      [] High(op) \in {6, 7} ->
            CASE Low(op) \in {1, 2, 5} -> IF High(op) = 6 THEN 7 ELSE 6
              [] Low(op) = \hB -> IF High(op) = 6 THEN 5 ELSE 4
              [] Low(op) = \hD -> IF High(op) = 6 THEN 4 ELSE 6
              [] Low(op) = \hE -> 3 [] Low(op) = \hF -> 5
              [] OTHER -> 6
      [] High(op) \in 8 .. \hB /\ Low(op) = \hD -> IF AccMode(op) = "ext" THEN 6 ELSE 5
      [] High(op) >= 8 /\ op \notin Undefined /\ ~(High(op) < \hC /\ Low(op) = \hD) ->
            (CASE AccMode(op) = "imm" -> 2 [] AccMode(op) = "dir" -> 3 [] OTHER -> 4)
            + (IF Low(op) \in WordOps THEN 1 ELSE 0)

(************************** Instructions **************************)
SetA(m, s) == [m EXCEPT !.a = s.val, !.ccr = s.ccr]
SetB(m, s) == [m EXCEPT !.b = s.val, !.ccr = s.ccr]
SetAcc(m, op, s) == IF OnA(op) THEN SetA(m, s) ELSE SetB(m, s)
SetX(m, s) == [m EXCEPT !.ix = s.val, !.ccr = s.ccr]
SetAB(m, s) == [SetD(m, s.val) EXCEPT !.ccr = s.ccr]

\* bhi_rel ... ble_rel; the odd opcode of a pair is the even one's negation.
TakenOnCarryOnly(ccr, pair) ==
    CASE pair = 0 -> TRUE [] pair = 1 -> "C" \notin ccr [] pair = 2 -> "C" \notin ccr
      [] pair = 3 -> "Z" \notin ccr [] pair = 4 -> "V" \notin ccr
      [] pair = 5 -> "N" \notin ccr [] pair = 6 -> ("N" \in ccr) = ("V" \in ccr)
      [] pair = 7 -> "Z" \notin ccr /\ ("N" \in ccr) = ("V" \in ccr)
TakenIf(ccr, pair) ==
    CASE pair = 0 -> TRUE                                        \* bra, brn
      [] pair = 1 -> {"C", "Z"} \cap ccr = {}                    \* bhi, bls
      [] pair = 2 -> "C" \notin ccr                              \* bcc, bcs
      [] pair = 3 -> "Z" \notin ccr                              \* bne, beq
      [] pair = 4 -> "V" \notin ccr                              \* bvc, bvs
      [] pair = 5 -> "N" \notin ccr                              \* bpl, bmi
      [] pair = 6 -> ("N" \in ccr) = ("V" \in ccr)               \* bge, blt
      [] pair = 7 -> "Z" \notin ccr /\ ("N" \in ccr) = ("V" \in ccr)  \* bgt, ble
Taken(ccr, op) == TakenIf(ccr, Low(op) \div 2) # (Low(op) % 2 = 1)

Signed(v) == IF v >= 128 THEN v - 256 ELSE v

\* branch_expr
Branch(m, op) ==
    LET offs == Signed(Getb(m, m.pc))
    IN  IncPc(m, 1 + (IF Taken(m.ccr, op) THEN offs ELSE 0))

Rol(ccr, x) == Shl(ccr, ByteMod, x, "C" \in ccr)
Ror(ccr, x) == Shr(ccr, ByteMod, x, "C" \in ccr)

\* nega_inh ... clrb_inh, asr_addr ... tst_addr: an operand read, changed and
\* written back; the opcode's low digit names the operation.
ReadModifyWrite(ccr, low, x) ==
    CASE low = \h0 -> Neg(ccr, x)
      [] low = \h3 -> Com(ccr, x)
      [] low = \h4 -> Shr(ccr, ByteMod, x, FALSE)
      [] low = \h6 -> Ror(ccr, x)
      [] low = \h7 -> Shr(ccr, ByteMod, x, Sign(ByteMod, x))
      [] low = \h8 -> Shl(ccr, ByteMod, x, FALSE)
      [] low = \h9 -> Rol(ccr, x)
      [] low = \hA -> Dec(ccr, x)
      [] low = \hC -> Inc(ccr, x)
      [] low = \hD -> Test(ccr, x)
      [] low = \hF -> Clr(ccr)

OnAccumulator(m, op) ==
    SetAcc(m, op, ReadModifyWrite(m.ccr, Low(op), IF OnA(op) THEN m.a ELSE m.b))

\* aim, oim, eim, tim: the operands are not fetched through the program
\* counter, and the indexed address is not cut to 16 bits.
Immediate(m, op) ==
    LET x == Getb(m, m.pc)
        addr == Getb(m, m.pc + 1) + (IF High(op) = 6 THEN m.ix ELSE 0)
        y == Getb(m, addr)
        s == CASE Low(op) \in {\h1, \hB} -> And(m.ccr, x, y)
               [] Low(op) = \h2 -> Or(m.ccr, x, y)
               [] Low(op) = \h5 -> Xor(m.ccr, x, y)
        w == IF Low(op) = \hB THEN m ELSE Putb(m, addr, s.val)
    IN  IncPc([w EXCEPT !.ccr = s.ccr], 2)

\* Opcodes 60 to 7F: indexed or extended, with jmp and the four above.
OnMemory(m, op) ==
    LET mode == IF High(op) = 6 THEN "ind" ELSE "ext"
        addr == Address(m, mode)
        s == ReadModifyWrite(m.ccr, Low(op), Getb(m, addr))
        w == IF Low(op) = \hD THEN m ELSE Putb(m, addr, s.val)
    IN  CASE Low(op) \in {\h1, \h2, \h5, \hB} -> Immediate(m, op)
          [] Low(op) = \hE -> [m EXCEPT !.pc = addr]
          [] Low(op) \notin {\h1, \h2, \h5, \hB, \hE} ->
                Skip([w EXCEPT !.ccr = s.ccr], mode, 1)

Carry(m) == IF "C" \in m.ccr THEN 1 ELSE 0
SubByte(m, x, y) == Sub(m.ccr, ByteMod, x, y, 0)
SbcByte(m, x, y) == Sub(m.ccr, ByteMod, x, y, Carry(m))
CmpByte(m, x, y) == [m EXCEPT !.ccr = SubByte(m, x, y).ccr]

\* suba_imm ... addb_ext: an accumulator and a byte; cmp and bit keep the flags only.
WithByte(m, op, y) ==
    LET x == IF OnA(op) THEN m.a ELSE m.b
        s == CASE Low(op) = \h0 -> SubByte(m, x, y)
               [] Low(op) = \h2 -> SbcByte(m, x, y)
               [] Low(op) \in {\h4, \h5} -> And(m.ccr, x, y)
               [] Low(op) = \h6 -> BitTest(m.ccr, ByteMod, y)
               [] Low(op) = \h8 -> Xor(m.ccr, x, y)
               [] Low(op) = \h9 -> AddByte(m.ccr, x, y, Carry(m))
               [] Low(op) = \hA -> Or(m.ccr, x, y)
               [] Low(op) = \hB -> AddByte(m.ccr, x, y, 0)
    IN  CASE Low(op) = \h1 -> CmpByte(m, x, y)
          [] Low(op) = \h5 -> [m EXCEPT !.ccr = s.ccr]
          [] Low(op) \notin {\h1, \h5} -> SetAcc(m, op, s)

SubWord(m, x, y) == Sub(m.ccr, WordMod, x, y, 0)
CmpX(m, y) == [m EXCEPT !.ccr = SubWord(m, m.ix, y).ccr]

\* subd, addd, cpx, ldd, lds, ldx: a word register and a word.
WithWord(m, op, y) ==
    LET loaded == BitTest(m.ccr, WordMod, y)
    IN  CASE Low(op) = \h3 /\ OnA(op) -> SetAB(m, SubWord(m, D(m), y))
          [] Low(op) = \h3 /\ ~OnA(op) -> SetAB(m, Add(m.ccr, WordMod, D(m), y, 0))
          [] Low(op) = \hC /\ OnA(op) -> CmpX(m, y)
          [] Low(op) = \hC /\ ~OnA(op) -> SetAB(m, loaded)
          [] Low(op) = \hE /\ OnA(op) -> [SetSp(m, y) EXCEPT !.ccr = loaded.ccr]
          [] Low(op) = \hE /\ ~OnA(op) -> SetX(m, loaded)

\* staa, stab, sts, stx, std: the flags are those of the value stored.
Store(m, op, addr) ==
    LET v == CASE Low(op) = \h7 -> IF OnA(op) THEN m.a ELSE m.b
               [] Low(op) = \hD -> D(m)
               [] Low(op) = \hF -> IF OnA(op) THEN m.sp ELSE m.ix
    IN  IF Low(op) = \h7
        THEN [Putb(m, addr, v) EXCEPT !.ccr = BitTest(@, ByteMod, v).ccr]
        ELSE [Putw(m, addr, v) EXCEPT !.ccr = BitTest(@, WordMod, v).ccr]

\* Opcodes 80 to FF.
OnOperand(m, op) ==
    LET mode == AccMode(op)
        addr == Address(m, mode)
        jump == OnA(op) /\ Low(op) = \hD
        store == Low(op) \in {\h7, \hF} \/ (~OnA(op) /\ Low(op) = \hD)
        bytes == IF Low(op) \in WordOps /\ ~jump THEN 2 ELSE 1
        next == Skip(m, mode, bytes)
    IN  CASE jump -> Jsr(next, IF mode = "imm" THEN Signed(Getb(m, addr)) + next.pc ELSE addr)
          [] store -> Store(next, op, addr)
          [] ~jump /\ ~store /\ bytes = 1 -> WithByte(next, op, Getb(m, addr))
          [] ~jump /\ ~store /\ bytes = 2 -> WithWord(next, op, Getw(m, addr))

\* clv, sev, clc, sec, cli, sei
FlagSet(ccr, op) ==
    LET on == op % 2 = 1
    IN  CASE op \in {\h0A, \h0B} -> SetFlags(ccr, [V |-> on])
          [] op \in {\h0C, \h0D} -> SetFlags(ccr, [C |-> on])
          [] op \in {\h0E, \h0F} -> SetFlags(ccr, [I |-> on])

Transfer(m, op) ==
    CASE op = \h06 -> [m EXCEPT !.ccr = ByteCcr(m.a)]                    \* tap
      [] op = \h07 -> [m EXCEPT !.a = CcrByte(m.ccr)]                    \* tpa
      [] op = \h16 -> SetB(m, BitTest(m.ccr, ByteMod, m.a))              \* tab
      [] op = \h17 -> SetA(m, BitTest(m.ccr, ByteMod, m.b))              \* tba

\* The inherent instructions without an operand that move no stack.
Inherent(m, op) ==
    CASE op \in {\h00, \h01, \h1A, \h3E} -> m                            \* nop, slp, wai
      [] op = \h04 -> SetAB(m, ShrWord(m.ccr, D(m)))                     \* lsrd
      [] op = \h05 -> SetAB(m, ShlWord(m.ccr, D(m)))                     \* asld
      [] op \in {\h06, \h07, \h16, \h17} -> Transfer(m, op)
      [] op = \h08 -> SetX(m, StepWord(m.ccr, m.ix, 1))                  \* inx
      [] op = \h09 -> SetX(m, StepWord(m.ccr, m.ix, -1))                 \* dex
      [] op \in \h0A .. \h0F -> [m EXCEPT !.ccr = FlagSet(@, op)]
      [] op = \h10 -> SetA(m, SubByte(m, m.a, m.b))                      \* sba
      [] op = \h11 -> CmpByte(m, m.a, m.b)                               \* cba
      [] op = \h18 -> [SetD(m, m.ix) EXCEPT !.ix = D(m)]                 \* xgdx
      [] op = \h19 -> SetA(m, Daa(m.ccr, m.a))                           \* daa
      [] op = \h1B -> SetA(m, AddByte(m.ccr, m.a, m.b, 0))               \* aba
      [] op = \h30 -> [m EXCEPT !.ix = (m.sp + 1) % WordMod]             \* tsx
      [] op = \h3A -> [m EXCEPT !.ix = (@ + m.b) % WordMod]              \* abx
      [] op = \h3D -> SetAB(m, Mul(m.ccr, m.a, m.b))                     \* mul

\* Those that move the stack pointer.
OnStack(m, op) ==
    CASE op = \h31 -> SetSp(m, m.sp + 1)                                 \* ins
      [] op = \h32 -> [Pop(m) EXCEPT !.a = Top(Pop(m))]                  \* pula
      [] op = \h33 -> [Pop(m) EXCEPT !.b = Top(Pop(m))]                  \* pulb
      [] op = \h34 -> SetSp(m, m.sp - 1)                                 \* des
      [] op = \h35 -> SetSp(m, m.ix - 1)                                 \* txs
      [] op = \h36 -> Pushb(m, m.a)                                      \* psha
      [] op = \h37 -> Pushb(m, m.b)                                      \* pshb
      [] op = \h38 -> [Popw(m).m EXCEPT !.ix = Popw(m).val]              \* pulx
      [] op = \h39 -> [Popw(m).m EXCEPT !.pc = Popw(m).val]              \* rts
      [] op = \h3B -> Rti(m)
      [] op = \h3C -> Pushw(m, m.ix)                                     \* pshx
      [] op = \h3F -> IntAddr(m, SwiVector)                              \* swi

StackOps == (\h31 .. \h39) \cup {\h3B, \h3C, \h3F}

Trap(m) == IntAddr(m, TRAPVECTOR)

\* The function opcodetab names for the opcode.
OpFunc(m, op) ==
    CASE op \in Undefined -> Trap(m)
      [] op \in StackOps -> OnStack(m, op)
      [] op \in (0 .. \h3F) \ (Undefined \cup StackOps \cup (\h20 .. \h2F)) -> Inherent(m, op)
      [] High(op) = 2 -> Branch(m, op)
      [] High(op) \in {4, 5} /\ op \notin Undefined -> OnAccumulator(m, op)
      [] High(op) \in {6, 7} -> OnMemory(m, op)
      [] High(op) >= 8 /\ op \notin Undefined -> OnOperand(m, op)

(************************** The run loop **************************)
\* History of the calls and interrupts whose frame is in the RAM, with the
\* state they interrupted.  An entry closes when the stack pointer rises above it.
Opened(kind, from, s) ==
    IF s.sp >= \h7F /\ s.sp + (IF kind = "int" THEN 7 ELSE 2) <= \hFF
    THEN <<[kind |-> kind, sp |-> s.sp, pc |-> from.pc,
            regs |-> <<from.a, from.b, from.ix, from.ccr>>]>>
    ELSE <<>>
StillOpen(s) == SelectSeq(resume, LAMBDA f : f.sp >= s.sp)

Entered(op) ==
    CASE op \in Undefined \cup {\h3F} -> "int"
      [] OnA(op) /\ High(op) >= 8 /\ Low(op) = \hD -> "call"
      [] OTHER -> "none"

\* instr_exec, when an interrupt is requested and allowed: the compare
\* interrupt goes first.  No instruction is executed.
Interrupt(ocf, sci) ==
    /\ left > 0 /\ ~crashed
    /\ "I" \notin cpu.ccr /\ (ocf \/ sci)
    /\ taken < MaxInterrupts
    /\ taken' = taken + 1
    /\ cpu' = IntAddr(cpu, IF ocf THEN OCFVECTOR ELSE SCIVECTOR)
    /\ left' = left - Cycles(\h3F)
    /\ last' = [op |-> -1, from |-> cpu]
    /\ resume' = StillOpen(cpu') \o Opened("int", cpu, cpu')
    /\ UNCHANGED <<crashed, pending, slices>>

\* instr_exec: the program counter has left the memory.
InMemory(pc) == pc >= \h80 /\ pc < \hFFFF
Crash ==
    /\ left > 0 /\ ~crashed
    /\ ~InMemory(cpu.pc)
    /\ crashed' = TRUE
    /\ UNCHANGED <<cpu, pending, left, slices, taken, last, resume>>

\* instr_exec: fetch, execute, count the cycles.
InstrExec(dev) ==
    LET op == Getb([cpu EXCEPT !.dev = dev], cpu.pc)
        fetched == IncPc([cpu EXCEPT !.dev = dev], 1)
        kind == Entered(op)
    IN  /\ left > 0 /\ ~crashed
        /\ InMemory(cpu.pc)
        /\ cpu' = [OpFunc(fetched, op) EXCEPT !.dev = 0]
        /\ left' = left - Cycles(op)
        /\ last' = [op |-> op, from |-> cpu]
        /\ resume' = StillOpen(cpu') \o
                     (CASE kind = "none" -> <<>>
                        [] kind = "int" -> Opened("int", fetched, cpu')
                        [] kind = "call" ->
                             Opened("call", Skip(fetched, AccMode(op), 1), cpu'))
        /\ UNCHANGED <<crashed, pending, slices, taken>>

\* hd6301_reset(1): the memset of ram[0 .. 0x7F] clears bytes no address
\* reaches; the registers other than the mask and the program counter stay.
Reset ==
    /\ cpu' = [cpu EXCEPT !.ccr = @ \cup {"I"}, !.pc = Getw(cpu, RESVECTOR)]
    /\ crashed' = FALSE /\ pending' = FALSE
    /\ last' = [op |-> -2, from |-> cpu]
    /\ left' = 0
    /\ UNCHANGED <<taken, resume>>

\* hd6301_run_clocks: a slice begins, or is given up for a reset.
RunClocks ==
    /\ left <= 0 \/ crashed
    /\ slices < MaxSlices
    /\ slices' = slices + 1
    /\ \/ (pending \/ crashed) /\ Reset
       \/ /\ ~pending /\ ~crashed
          /\ left' = Clocks
          /\ UNCHANGED <<cpu, crashed, pending, taken, last, resume>>

\* hd6301_trigger_reset, on the other core, at any time; nothing reads the
\* flag within a slice, so that only the slice it is seen by matters.
TriggerReset ==
    /\ ~pending /\ left <= 0
    /\ pending' = TRUE
    /\ UNCHANGED <<cpu, crashed, left, slices, taken, last, resume>>

InitAt(machines) ==
    /\ cpu \in machines
    /\ crashed = FALSE /\ pending = FALSE
    /\ left = 0 /\ slices = 0 /\ taken = 0
    /\ last = [op |-> -2, from |-> cpu]
    /\ resume = <<>>
Init == InitAt(Programs)

Next ==
    \/ \E ocf, sci \in BOOLEAN : Interrupt(ocf, sci)
    \/ Crash
    \/ \E dev \in DeviceBytes : InstrExec(dev)
    \/ RunClocks
    \/ TriggerReset

Spec == Init /\ [][Next]_vars

(************************** Properties **************************)
\* The call stack holds at most MAXCALLSTACK entries (TypeOK), and none of a
\* routine that has returned: no entry lies below the stack pointer, however
\* the program moves it (pulls, txs, lds, wraps at either end of memory), so
\* the routine named in a message is one still running.
TypeOK ==
    /\ IsMachine(cpu)
    /\ {crashed, pending} \subseteq BOOLEAN
    /\ left \in Int /\ left <= Clocks
    /\ slices \in 0 .. MaxSlices /\ taken \in 0 .. MaxInterrupts

CallsAbove == Stacked(cpu)

Executes(op) == left' < left /\ last'.op = op
Arg(i) == Getb(last.from, last.from.pc + i)

\* What the last instruction compared: cmp and sub immediate, cba, sba, cpx
\* immediate, as a set of at most one pair with its modulus.
Compared ==
    CASE last.op \in {\h80, \h81} -> {<<ByteMod, last.from.a, Arg(1)>>}
      [] last.op \in {\hC0, \hC1} -> {<<ByteMod, last.from.b, Arg(1)>>}
      [] last.op \in {\h10, \h11} -> {<<ByteMod, last.from.a, last.from.b>>}
      [] last.op = \h8C -> {<<WordMod, last.from.ix, 256 * Arg(1) + Arg(2)>>}
      [] OTHER -> {}

\* A conditional branch right after a comparison jumps exactly when the two
\* operands, read as unsigned or as two's complement numbers, stand in the
\* relation the branch is named for (alu_subbyte, alu_subword, branch_expr).
BranchStep ==
    \A c \in Compared, op \in \h20 .. \h2F : Executes(op) =>
       LET x == c[2]  y == c[3]
           S(v) == IF Sign(c[1], v) THEN v - c[1] ELSE v
           holds == CASE op = \h20 -> TRUE [] op = \h21 -> FALSE
                      [] op = \h22 -> x > y [] op = \h23 -> x <= y
                      [] op = \h24 -> x >= y [] op = \h25 -> x < y
                      [] op = \h26 -> x # y [] op = \h27 -> x = y
                      [] op = \h2C -> S(x) >= S(y) [] op = \h2D -> S(x) < S(y)
                      [] op = \h2E -> S(x) > S(y) [] op = \h2F -> S(x) <= S(y)
                      [] OTHER -> cpu'.pc # (cpu.pc + 2) % WordMod
           offs == Signed(Getb(cpu, cpu.pc + 1))
       IN  cpu'.pc = (cpu.pc + 2 + (IF holds THEN offs ELSE 0)) % WordMod
BranchesFollowOrder == [][BranchStep]_vars

\* What the last instruction added, when it is adda or adca immediate or aba and
\* both bytes are decimal: the two numbers and the carry, as a set of at most one.
Decimal(v) == IF v % 16 < 10 /\ v \div 16 < 10 THEN {10 * (v \div 16) + (v % 16)} ELSE {}
Addend ==
    CASE last.op \in {\h89, \h8B} -> Decimal(Arg(1))
      [] last.op = \h1B -> Decimal(last.from.b)
      [] OTHER -> {}
CarryIn == IF last.op = \h89 /\ "C" \in last.from.ccr THEN 1 ELSE 0
Added == {<<x, y, CarryIn>> : x \in Decimal(last.from.a), y \in Addend}

\* opfunc.c: "Decimal adjust sum of 2 BCD digits in A to two BCD nibbles in A".
DecimalSum ==
    [][\A s \in Added : Executes(\h19) => Decimal(cpu'.a) = {(s[1] + s[2] + s[3]) % 100}]_vars

\* The upper digit is looked at after the correction of the lower one, which may
\* have carried out of the byte: it then reads 0 and is not corrected.
DaaLoses(x, y, c) == (x \div 10) + (y \div 10) = 15 /\ (x % 10) + (y % 10) + c \in 10 .. 15

\* The decimal sum but in those cases, and the carry for the hundreds in all.
DaaStep ==
    \A s \in Added : Executes(\h19) =>
       LET sum == s[1] + s[2] + s[3]
       IN  /\ ~DaaLoses(s[1], s[2], s[3]) => Decimal(cpu'.a) = {sum % 100}
           /\ ("C" \in cpu'.ccr) = (sum >= 100)
DecimalKept == [][DaaStep]_vars

\* A 16-bit sum or difference made of two byte instructions (addb then adca,
\* subb then sbca) is the one addd or subd gives, with its carry, sign and overflow.
PairStep ==
    /\ last.op = \hCB /\ Executes(\h89) =>
          LET w == Add({}, WordMod, D(last.from), 256 * Getb(cpu, cpu.pc + 1) + Arg(1), 0)
          IN  D(cpu') = w.val /\ cpu'.ccr \cap {"C", "N", "V"} = w.ccr \ {"Z"}
    /\ last.op = \hC0 /\ Executes(\h82) =>
          LET w == Sub({}, WordMod, D(last.from), 256 * Getb(cpu, cpu.pc + 1) + Arg(1), 0)
          IN  D(cpu') = w.val /\ cpu'.ccr \cap {"C", "N", "V"} = w.ccr \ {"Z"}
PairIsWord == [][PairStep]_vars

\* An rti or rts at the stack level of the innermost interrupt or call that is
\* open resumes it where it was: the program interrupted between any two
\* instructions finds its registers and flags as it left them.
ReturnsHome ==
    [][resume # <<>> /\ cpu.sp = Last(resume).sp =>
         /\ Last(resume).kind = "int" /\ Executes(\h3B) =>
               /\ cpu'.pc = Last(resume).pc
               /\ <<cpu'.a, cpu'.b, cpu'.ix, cpu'.ccr>> = Last(resume).regs
         /\ Last(resume).kind = "call" /\ Executes(\h39) => cpu'.pc = Last(resume).pc]_vars
================================================================================
