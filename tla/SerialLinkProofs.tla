-------------------------- MODULE SerialLinkProofs --------------------------
(* Theorems about SerialLink, for every depth of the FIFOs and the queue,   *)
(* every slice length, every number of bytes and every program.             *)
EXTENDS SerialLink, TLAPS

-------------------------------------------------------------------------------
(* Sequences of natural numbers: what adding at one end of a queue and     *)
(* removing at the other do to its elements and to their order.            *)

\* An empty sequence has no element.
LEMMA ToSetEmpty == ToSet(<<>>) = {} /\ Increasing(<<>>)
  BY DEF ToSet, Increasing

\* The elements of a sequence of naturals are naturals.
LEMMA ToSetType ==
  ASSUME NEW s \in Seq(Nat)
  PROVE  ToSet(s) \subseteq Nat
  BY DEF ToSet

\* Append adds one element.
LEMMA ToSetAppend ==
  ASSUME NEW s \in Seq(Nat), NEW b \in Nat
  PROVE  /\ Append(s, b) \in Seq(Nat)
         /\ Len(Append(s, b)) = Len(s) + 1
         /\ ToSet(Append(s, b)) = ToSet(s) \cup {b}
<1>1. Append(s, b) \in Seq(Nat) /\ Len(Append(s, b)) = Len(s) + 1
  OBVIOUS
<1>2. ToSet(Append(s, b)) \subseteq ToSet(s) \cup {b}
  BY DEF ToSet
<1>3. \A i \in 1..Len(s) : s[i] \in ToSet(Append(s, b))
  <2> SUFFICES ASSUME NEW i \in 1..Len(s)
               PROVE  s[i] \in ToSet(Append(s, b))
    OBVIOUS
  <2>1. i \in DOMAIN Append(s, b) /\ Append(s, b)[i] = s[i]
    OBVIOUS
  <2> QED BY <2>1 DEF ToSet
<1>4. b \in ToSet(Append(s, b))
  <2>1. Len(s) + 1 \in DOMAIN Append(s, b) /\ Append(s, b)[Len(s) + 1] = b
    OBVIOUS
  <2> QED BY <2>1 DEF ToSet
<1>5. ToSet(s) \subseteq ToSet(Append(s, b))
  BY <1>3 DEF ToSet
<1> QED BY <1>1, <1>2, <1>4, <1>5

\* Tail removes the head and nothing else.
LEMMA ToSetTail ==
  ASSUME NEW s \in Seq(Nat), s # <<>>
  PROVE  /\ Tail(s) \in Seq(Nat)
         /\ Len(Tail(s)) = Len(s) - 1
         /\ Head(s) \in Nat
         /\ ToSet(s) = {Head(s)} \cup ToSet(Tail(s))
<1>1. /\ Tail(s) \in Seq(Nat) /\ Len(Tail(s)) = Len(s) - 1 /\ Head(s) \in Nat
      /\ Head(s) = s[1] /\ 1 \in DOMAIN s
  OBVIOUS
<1>2. \A i \in DOMAIN Tail(s) : Tail(s)[i] = s[i + 1] /\ i + 1 \in DOMAIN s
  OBVIOUS
<1>3. ToSet(Tail(s)) \subseteq ToSet(s)
  BY <1>2 DEF ToSet
<1>4. \A i \in DOMAIN s : i # 1 => i - 1 \in DOMAIN Tail(s) /\ Tail(s)[i - 1] = s[i]
  OBVIOUS
<1>5. \A i \in DOMAIN s : s[i] \in {Head(s)} \cup ToSet(Tail(s))
  BY <1>1, <1>4 DEF ToSet
<1>6. ToSet(s) \subseteq {Head(s)} \cup ToSet(Tail(s))
  BY <1>5 DEF ToSet
<1>7. Head(s) \in ToSet(s)
  BY <1>1 DEF ToSet
<1> QED BY <1>1, <1>3, <1>6, <1>7

\* Appending an element above all others keeps a sequence increasing.
LEMMA IncreasingAppend ==
  ASSUME NEW s \in Seq(Nat), NEW b \in Nat, Increasing(s), Below(ToSet(s), {b})
  PROVE  Increasing(Append(s, b))
<1>1. \A i \in DOMAIN s : s[i] < b
  BY DEF Below, ToSet
<1>2. /\ DOMAIN Append(s, b) = 1..(Len(s) + 1)
      /\ \A i \in DOMAIN s : Append(s, b)[i] = s[i]
      /\ Append(s, b)[Len(s) + 1] = b
      /\ DOMAIN s = 1..Len(s) /\ Len(s) \in Nat
  OBVIOUS
<1> SUFFICES ASSUME NEW i \in DOMAIN Append(s, b), NEW j \in DOMAIN Append(s, b), i < j
             PROVE  Append(s, b)[i] < Append(s, b)[j]
  BY DEF Increasing
<1>3. i \in DOMAIN s
  BY <1>2
<1>4. CASE j = Len(s) + 1
  BY <1>1, <1>2, <1>3, <1>4
<1>5. CASE j # Len(s) + 1
  <2>1. j \in DOMAIN s
    BY <1>2, <1>5
  <2> QED BY <1>2, <1>3, <2>1 DEF Increasing
<1> QED BY <1>4, <1>5

\* The tail of an increasing sequence is increasing and lies above the head.
LEMMA IncreasingTail ==
  ASSUME NEW s \in Seq(Nat), s # <<>>, Increasing(s)
  PROVE  /\ Increasing(Tail(s))
         /\ Below({Head(s)}, ToSet(Tail(s)))
<1>1. /\ \A i \in DOMAIN Tail(s) : Tail(s)[i] = s[i + 1] /\ i + 1 \in DOMAIN s
      /\ Head(s) = s[1] /\ 1 \in DOMAIN s
      /\ DOMAIN Tail(s) \subseteq Nat \ {0}
  OBVIOUS
<1>2. Increasing(Tail(s))
  <2> SUFFICES ASSUME NEW i \in DOMAIN Tail(s), NEW j \in DOMAIN Tail(s), i < j
               PROVE  Tail(s)[i] < Tail(s)[j]
    BY DEF Increasing
  <2>1. i + 1 < j + 1
    BY <1>1
  <2> QED BY <1>1, <2>1 DEF Increasing
<1>3. \A i \in DOMAIN Tail(s) : Head(s) < Tail(s)[i]
  <2> SUFFICES ASSUME NEW i \in DOMAIN Tail(s)
               PROVE  Head(s) < Tail(s)[i]
    OBVIOUS
  <2>1. 1 < i + 1
    BY <1>1
  <2> QED BY <1>1, <2>1 DEF Increasing
<1> QED BY <1>2, <1>3 DEF Below, ToSet


-------------------------------------------------------------------------------
(* Type correctness. *)

\* The operators of the SCI return register values.
LEMMA SciTypes ==
  ASSUME NEW s \in SciRegs
  PROVE  /\ SciZero \in SciRegs
         /\ SciReset \in SciRegs
         /\ \A b \in Nat : SciIn(s, b) \in SciRegs
         /\ RdrGetb(s) \in SciRegs
         /\ \A r, t \in BOOLEAN : TrcsrPutb(s, r, t) \in SciRegs
         /\ TdrPutb(s) \in SciRegs
         /\ \A room \in BOOLEAN : TxEmpty(s, room) \in SciRegs
<1>1. SciZero \in SciRegs /\ SciReset \in SciRegs
  BY DEF SciRegs, SciZero, SciReset
<1>2. \A b \in Nat : SciIn(s, b) \in SciRegs
  BY DEF SciRegs, SciIn
<1>3. RdrGetb(s) \in SciRegs /\ TdrPutb(s) \in SciRegs
  BY DEF SciRegs, RdrGetb, TdrPutb
<1>4. \A r, t \in BOOLEAN : TrcsrPutb(s, r, t) \in SciRegs
  BY DEF SciRegs, TrcsrPutb
<1>5. \A room \in BOOLEAN : TxEmpty(s, room) \in SciRegs
  BY DEF SciRegs, TxEmpty
<1> QED BY <1>1, <1>2, <1>3, <1>4, <1>5

\* A step of the hardware or of core 0 keeps every variable in its type.
LEMMA TypeHardwareAndCore0 ==
  ASSUME TypeOK, StSend \/ UartShift \/ Core0 \/ TriggerReset
  PROVE  TypeOK'
<1> USE SerialLinkAssumption
<1>1. CASE StSend
  <2>1. Append(rxFifo, sent + 1) \in Seq(Nat)
        /\ Len(Append(rxFifo, sent + 1)) = Len(rxFifo) + 1
    BY ToSetAppend DEF TypeOK
  <2>2. sent' \in 0..MaxSend /\ sent + 1 \in Nat
    BY <1>1 DEF TypeOK, StSend
  <2>3. rxFifo' \in Seq(Nat) /\ Len(rxFifo') <= RxDepth /\ overflowed' \subseteq Nat
    <3>1. CASE Len(rxFifo) < RxDepth
      <4>1. rxFifo' = Append(rxFifo, sent + 1) /\ overflowed' = overflowed
        BY <1>1, <3>1 DEF StSend
      <4>2. Len(rxFifo) + 1 <= RxDepth
        BY <3>1 DEF TypeOK
      <4> QED BY <2>1, <4>1, <4>2 DEF TypeOK
    <3>2. CASE ~(Len(rxFifo) < RxDepth)
      BY <1>1, <2>2, <3>2 DEF TypeOK, StSend
    <3> QED BY <3>1, <3>2
  <2> QED BY <1>1, <2>2, <2>3 DEF TypeOK, StSend, core0Vars, cpuVars
<1>2. CASE UartShift
  BY <1>2 DEF TypeOK, UartShift, core0Vars, cpuVars, fateVars
<1>3. CASE RxTake
  <2>1. Tail(rxFifo) \in Seq(Nat) /\ Len(Tail(rxFifo)) = Len(rxFifo) - 1
        /\ Head(rxFifo) \in Nat
    BY <1>3, ToSetTail DEF TypeOK, RxTake
  <2> QED BY <1>3, <2>1 DEF TypeOK, RxTake, Core0Unchanged, Core0Steps, cpuVars, fateVars
<1>4. CASE RxAdd
  <2>1. Append(rxQueue, hand0) \in Seq(Nat)
        /\ Len(Append(rxQueue, hand0)) = Len(rxQueue) + 1
    BY ToSetAppend DEF TypeOK
  <2> QED BY <1>4, <2>1 DEF TypeOK, RxAdd, Core0Unchanged, Core0Steps, cpuVars, fateVars
<1>5. CASE RxDone
  BY <1>5 DEF TypeOK, RxDone, Core0Unchanged, Core0Steps, cpuVars, fateVars
<1>6. CASE WorkDone
  BY <1>6 DEF TypeOK, WorkDone, Core0Unchanged, Core0Steps, cpuVars, fateVars
<1>7. CASE FlashBegin
  BY <1>7 DEF TypeOK, FlashBegin, Core0Unchanged, Core0Steps, cpuVars, fateVars
<1>8. CASE FlashEnd
  BY <1>8 DEF TypeOK, FlashEnd, Core0Unchanged, Core0Steps, cpuVars, fateVars
<1>9. CASE TriggerReset
  BY <1>9 DEF TypeOK, TriggerReset, Core0Unchanged, core0Vars, cpuVars, fateVars
<1> QED BY <1>1, <1>2, <1>3, <1>4, <1>5, <1>6, <1>7, <1>8, <1>9 DEF Core0

\* A step of core 1 outside the instruction loop keeps the types.
LEMMA TypeCore1Loop ==
  ASSUME TypeOK,
         \/ FeedTake \/ FeedGive \/ FeedDone \/ TxPoll \/ RunClocks
         \/ ClearPending \/ Reset \/ ExecDone \/ UartPutc
  PROVE  TypeOK'
<1> USE SerialLinkAssumption
    DEF TypeOK, Core1Unchanged, Core1Steps, core0Vars, cpuVars, At
<1>1. CASE FeedTake
  <2>1. Tail(rxQueue) \in Seq(Nat) /\ Len(Tail(rxQueue)) = Len(rxQueue) - 1
        /\ Head(rxQueue) \in Nat
    BY <1>1, ToSetTail DEF FeedTake
  <2> QED BY <1>1, <2>1 DEF FeedTake
<1>2. CASE FeedGive
  BY <1>2, SciTypes DEF FeedGive
<1>3. CASE FeedDone
  BY <1>3 DEF FeedDone
<1>4. CASE TxPoll
  <2>1. SendBufEmpty \in BOOLEAN
    BY DEF SendBufEmpty
  <2>2. freshTdre' \in BOOLEAN
    BY <1>4, <2>1 DEF TxPoll
  <2>3. sci' \in SciRegs
    BY <1>4, <2>1, SciTypes DEF TxPoll
  <2> QED BY <1>4, <2>2, <2>3 DEF TxPoll
<1>5. CASE RunClocks
  BY <1>5 DEF RunClocks
<1>6. CASE ClearPending
  BY <1>6 DEF ClearPending
<1>7. CASE Reset
  BY <1>7, SciTypes DEF Reset, SciRegs
<1>8. CASE ExecDone
  BY <1>8 DEF ExecDone
<1>9. CASE UartPutc
  BY <1>9, SciTypes DEF UartPutc
<1> QED BY <1>1, <1>2, <1>3, <1>4, <1>5, <1>6, <1>7, <1>8, <1>9

\* An instruction keeps the types.
LEMMA TypeInstr ==
  ASSUME TypeOK, Instr
  PROVE  TypeOK'
<1> USE SerialLinkAssumption
    DEF TypeOK, InstrUnchanged, Core1Unchanged, Core1Steps, core0Vars, At,
        Executing, CanExecute, Spend
<1>1. CASE Interrupt
  <2>1. iflag' \in BOOLEAN /\ wild' \in BOOLEAN
    BY <1>1 DEF Interrupt
  <2>2. budget' \in 0..Slice
    BY <1>1 DEF Interrupt
  <2> QED BY <1>1, <2>1, <2>2 DEF Interrupt
<1>2. CASE Crash
  BY <1>2 DEF Crash
<1>3. CASE ReadRdr
  <2>1. sci.rdr \in Nat
    BY DEF SciRegs
  <2>2. Append(read, sci.rdr) \in Seq(Nat)
    BY <2>1
  <2> QED BY <1>3, <2>2, SciTypes DEF ReadRdr
<1>4. CASE WriteTrcsr
  <2>1. sci' \in SciRegs
    BY <1>4, SciTypes DEF WriteTrcsr
  <2> QED BY <1>4, <2>1 DEF WriteTrcsr
<1>5. CASE WriteTdr
  BY <1>5 DEF WriteTdr
<1>6. CASE OtherInstr
  BY <1>6 DEF OtherInstr
<1>7. CASE WildJump
  BY <1>7 DEF WildJump
<1> QED BY <1>1, <1>2, <1>3, <1>4, <1>5, <1>6, <1>7 DEF Instr

\* Every variable keeps its type; in particular neither FIFO nor the queue
\* ever holds more than its depth.
THEOREM TypeCorrect == Spec => []TypeOK
<1>1. Init => TypeOK
  <2>1. SciZero \in SciRegs
    BY DEF SciZero, SciRegs
  <2>2. <<>> \in Seq(Nat) /\ Len(<<>>) = 0
    OBVIOUS
  <2> SUFFICES ASSUME Init PROVE TypeOK
    OBVIOUS
  <2>3. /\ iflag \in BOOLEAN /\ wild \in BOOLEAN /\ crashed \in BOOLEAN
        /\ pendingReset \in BOOLEAN /\ parked \in BOOLEAN
        /\ resetOwed \in BOOLEAN /\ freshTdre \in BOOLEAN
    BY DEF Init
  <2>4. /\ rxFifo \in Seq(Nat) /\ Len(rxFifo) <= RxDepth
        /\ rxQueue \in Seq(Nat) /\ Len(rxQueue) <= QDepth
        /\ read \in Seq(Nat)
    BY <2>2, SerialLinkAssumption DEF Init
  <2>5. budget \in 0..Slice /\ txFifo \in 0..TxDepth /\ sent \in 0..MaxSend
    BY SerialLinkAssumption DEF Init
  <2> QED BY <2>1, <2>3, <2>4, <2>5 DEF Init, TypeOK, Core0Steps, Core1Steps
<1>2. TypeOK /\ [Next]_vars => TypeOK'
  <2> SUFFICES ASSUME TypeOK, [Next]_vars PROVE TypeOK'
    OBVIOUS
  <2>1. CASE UNCHANGED vars
    BY <2>1 DEF TypeOK, vars, core0Vars, cpuVars, fateVars
  <2>2. CASE Next
    BY <2>2, TypeHardwareAndCore0, TypeCore1Loop, TypeInstr DEF Next, Core1
  <2> QED BY <2>1, <2>2
<1> QED BY <1>1, <1>2, PTL DEF Spec

-------------------------------------------------------------------------------
(* The hand-over to the SCI, the queue, the reset request, the transmitter.  *)

\* What sci_in does to a free data register.
LEMMA SciInFree ==
  ASSUME NEW s \in SciRegs, NEW b \in Nat, ~s.rdrf
  PROVE  /\ SciIn(s, b).rdrf
         /\ SciIn(s, b).rdr = b
         /\ SciIn(s, b).orfe = s.orfe
         /\ SciIn(s, b).tdre = s.tdre
  BY DEF SciIn, SciRegs

\* What the other operators do to the flags that the invariants are about.
LEMMA SciFlags ==
  ASSUME NEW s \in SciRegs
  PROVE  /\ ~SciReset.rdrf /\ ~SciReset.orfe
         /\ ~RdrGetb(s).rdrf /\ ~RdrGetb(s).orfe /\ RdrGetb(s).tdre = s.tdre
         /\ ~TdrPutb(s).tdre
         /\ TdrPutb(s).rdrf = s.rdrf /\ TdrPutb(s).orfe = s.orfe
         /\ TdrPutb(s).rdr = s.rdr
         /\ \A r, t \in BOOLEAN : /\ TrcsrPutb(s, r, t).rdrf = s.rdrf
                                  /\ TrcsrPutb(s, r, t).orfe = s.orfe
                                  /\ TrcsrPutb(s, r, t).tdre = s.tdre
                                  /\ TrcsrPutb(s, r, t).rdr = s.rdr
         /\ \A room \in BOOLEAN : /\ TxEmpty(s, room).rdrf = s.rdrf
                                  /\ TxEmpty(s, room).orfe = s.orfe
                                  /\ TxEmpty(s, room).rdr = s.rdr
<1>1. ~SciReset.rdrf /\ ~SciReset.orfe
  BY DEF SciReset, SciZero
<1>2. /\ ~RdrGetb(s).rdrf /\ ~RdrGetb(s).orfe /\ RdrGetb(s).tdre = s.tdre
      /\ ~TdrPutb(s).tdre
      /\ TdrPutb(s).rdrf = s.rdrf /\ TdrPutb(s).orfe = s.orfe
      /\ TdrPutb(s).rdr = s.rdr
  BY DEF RdrGetb, TdrPutb, SciRegs
<1>3. \A r, t \in BOOLEAN : /\ TrcsrPutb(s, r, t).rdrf = s.rdrf
                            /\ TrcsrPutb(s, r, t).orfe = s.orfe
                            /\ TrcsrPutb(s, r, t).tdre = s.tdre
                            /\ TrcsrPutb(s, r, t).rdr = s.rdr
  BY DEF TrcsrPutb, SciRegs
<1>4. \A room \in BOOLEAN : /\ TxEmpty(s, room).rdrf = s.rdrf
                            /\ TxEmpty(s, room).orfe = s.orfe
                            /\ TxEmpty(s, room).rdr = s.rdr
  BY DEF TxEmpty, SciRegs
<1> QED BY <1>1, <1>2, <1>3, <1>4

\* Only core 1 touches the SCI, so a byte taken for a free RDR finds it free.
LEMMA HandoverStep ==
  ASSUME TypeOK, NoOverrun, HandoverFree, [Next]_vars
  PROVE  NoOverrun' /\ HandoverFree'
<1> USE DEF NoOverrun, HandoverFree, At
<1>0. sci \in SciRegs /\ hand1 \in Nat
  BY DEF TypeOK
<1>1. CASE StSend \/ UartShift \/ Core0 \/ TriggerReset \/ UNCHANGED vars
  <2>1. c1' = c1 /\ sci' = sci
    BY <1>1 DEF StSend, UartShift, Core0, RxTake, RxAdd, RxDone, WorkDone,
                FlashBegin, FlashEnd, TriggerReset, Core0Unchanged, vars
  <2> QED BY <2>1
<1>2. CASE FeedTake
  BY <1>2 DEF FeedTake, SciBusy
<1>3. CASE FeedGive
  BY <1>0, <1>3, SciInFree DEF FeedGive
<1>4. CASE FeedDone \/ RunClocks \/ ClearPending \/ ExecDone
  BY <1>4 DEF FeedDone, RunClocks, ClearPending, ExecDone
<1>5. CASE TxPoll
  <2>1. SendBufEmpty \in BOOLEAN
    BY DEF SendBufEmpty
  <2>2. sci'.orfe = sci.orfe /\ sci'.rdrf = sci.rdrf
    BY <1>0, <1>5, <2>1, SciFlags DEF TxPoll
  <2> QED BY <1>5, <2>2 DEF TxPoll
<1>6. CASE Reset
  BY <1>6, <1>0, SciFlags DEF Reset
<1>7. CASE UartPutc
  BY <1>7, <1>0, SciFlags DEF UartPutc
<1>8. CASE Interrupt \/ Crash \/ WriteTdr \/ OtherInstr \/ WildJump
  BY <1>8 DEF Interrupt, Crash, WriteTdr, OtherInstr, WildJump, CanExecute, Executing
<1>9. CASE ReadRdr
  BY <1>9, <1>0, SciFlags DEF ReadRdr, CanExecute, Executing
<1>10. CASE WriteTrcsr
  BY <1>10, <1>0, SciFlags DEF WriteTrcsr, CanExecute, Executing
<1> QED BY <1>1, <1>2, <1>3, <1>4, <1>5, <1>6, <1>7, <1>8, <1>9, <1>10
     DEF Next, Core1, Instr

\* The SCI never sees an overrun: the claim of the comment above
\* feed_hd6301_from_queue (main.cpp), for every interleaving of the cores.
THEOREM Overrun == Spec => []NoOverrun
<1>1. Init => NoOverrun /\ HandoverFree
  BY DEF Init, NoOverrun, HandoverFree, SciZero
<1>2. TypeOK /\ NoOverrun /\ HandoverFree /\ [Next]_vars => NoOverrun' /\ HandoverFree'
  BY HandoverStep
<1> QED BY <1>1, <1>2, TypeCorrect, PTL DEF Spec

\* queue_try_add in handle_rx_from_st always finds room: only core 0 adds.
LEMMA TryAddStep ==
  ASSUME TypeOK, TryAddSucceeds, [Next]_vars
  PROVE  TryAddSucceeds'
<1> USE DEF TryAddSucceeds
<1>1. CASE RxTake
  BY <1>1 DEF RxTake
<1>2. CASE RxAdd \/ RxDone \/ WorkDone \/ FlashBegin \/ FlashEnd
  BY <1>2 DEF RxAdd, RxDone, WorkDone, FlashBegin, FlashEnd
<1>3. CASE FeedTake
  <2>1. rxQueue \in Seq(Nat) /\ Len(Tail(rxQueue)) = Len(rxQueue) - 1
    BY <1>3, ToSetTail DEF TypeOK, FeedTake
  <2>2. Len(rxQueue) \in Nat /\ QDepth \in Nat
    BY <2>1, SerialLinkAssumption
  <2> QED BY <1>3, <2>1, <2>2 DEF FeedTake, Core1Unchanged, core0Vars
<1>4. CASE \/ StSend \/ UartShift \/ TriggerReset \/ UNCHANGED vars
           \/ FeedGive \/ FeedDone \/ TxPoll \/ RunClocks
           \/ ClearPending \/ Reset \/ ExecDone \/ Instr \/ UartPutc
  <2>1. c0' = c0 /\ rxQueue' = rxQueue
    BY <1>4 DEF StSend, UartShift, TriggerReset, vars, FeedGive, FeedDone, TxPoll,
       RunClocks, ClearPending, Reset, ExecDone, UartPutc, Core1Unchanged, core0Vars,
       Instr, Interrupt, Crash, ReadRdr, WriteTrcsr, WriteTdr, OtherInstr, WildJump,
       InstrUnchanged
  <2> QED BY <2>1
<1> QED BY <1>1, <1>2, <1>3, <1>4 DEF Next, Core0, Core1

\* The ignored result of queue_try_add never hides a lost byte.
THEOREM TryAdd == Spec => []TryAddSucceeds
<1>1. Init => TryAddSucceeds
  BY DEF Init, TryAddSucceeds
<1>2. TypeOK /\ TryAddSucceeds /\ [Next]_vars => TryAddSucceeds'
  BY TryAddStep
<1> QED BY <1>1, <1>2, TypeCorrect, PTL DEF Spec

\* A request is outstanding only while the flag is set or the reset is next.
LEMMA RequestStep ==
  ASSUME NoRequestLost, [Next]_vars
  PROVE  NoRequestLost'
<1> USE DEF NoRequestLost, At
<1>1. CASE TriggerReset
  BY <1>1 DEF TriggerReset
<1>2. CASE ClearPending
  BY <1>2 DEF ClearPending
<1>3. CASE Reset
  BY <1>3 DEF Reset
<1>4. CASE StSend \/ UartShift \/ Core0 \/ UNCHANGED vars
  <2>1. c1' = c1 /\ pendingReset' = pendingReset /\ resetOwed' = resetOwed
    BY <1>4 DEF StSend, UartShift, Core0, RxTake, RxAdd, RxDone, WorkDone,
                FlashBegin, FlashEnd, Core0Unchanged, vars
  <2> QED BY <2>1
<1>5. CASE \/ FeedTake \/ FeedGive \/ FeedDone \/ TxPoll \/ RunClocks
           \/ ExecDone \/ Instr \/ UartPutc
  <2>1. c1 # "reset" /\ pendingReset' = pendingReset /\ resetOwed' = resetOwed
    BY <1>5 DEF FeedTake, FeedGive, FeedDone, TxPoll, RunClocks, ExecDone, UartPutc,
       Instr, Interrupt, Crash, ReadRdr, WriteTrcsr, WriteTdr, OtherInstr, WildJump,
       InstrUnchanged, CanExecute, Executing
  <2> QED BY <2>1
<1> QED BY <1>1, <1>2, <1>3, <1>4, <1>5 DEF Next, Core1

\* A reset requested by core 0 at any moment is not lost to the unlocked
\* test-and-clear of pending_reset on core 1.
THEOREM ResetRequest == Spec => []NoRequestLost
<1>1. Init => NoRequestLost
  BY DEF Init, NoRequestLost
<1>2. NoRequestLost /\ [Next]_vars => NoRequestLost'
  BY RequestStep
<1> QED BY <1>1, <1>2, PTL DEF Spec

\* Only core 1 fills the transmit FIFO, and it clears TDRE when it does.
LEMMA TdreStep ==
  ASSUME TypeOK, TdreMeansRoom, [Next]_vars
  PROVE  TdreMeansRoom'
<1> USE DEF TdreMeansRoom
<1>0. sci \in SciRegs /\ txFifo \in Nat /\ TxDepth \in Nat
  BY SerialLinkAssumption DEF TypeOK
<1>1. CASE UartShift
  BY <1>0, <1>1 DEF UartShift
<1>2. CASE TxPoll
  <2>1. CASE txFifo < TxDepth
    BY <1>2, <2>1 DEF TxPoll
  <2>2. CASE ~(txFifo < TxDepth)
    <3>1. sci'.tdre = sci.tdre
      BY <1>0, <1>2, <2>2 DEF TxPoll, TxEmpty, SendBufEmpty, SciRegs
    <3>2. freshTdre' = freshTdre
      BY <1>2, <2>2 DEF TxPoll, SendBufEmpty, TypeOK
    <3> QED BY <1>2, <2>2, <3>1, <3>2 DEF TxPoll
  <2> QED BY <2>1, <2>2
<1>3. CASE Reset
  BY <1>3 DEF Reset
<1>4. CASE UartPutc
  BY <1>0, <1>4, SciFlags DEF UartPutc
<1>5. CASE FeedGive
  <2>1. sci'.tdre = sci.tdre
    BY <1>0, <1>5 DEF FeedGive, SciIn, SciRegs
  <2> QED BY <1>5, <2>1 DEF FeedGive
<1>6. CASE ReadRdr
  BY <1>0, <1>6, SciFlags DEF ReadRdr, InstrUnchanged
<1>7. CASE WriteTrcsr
  BY <1>0, <1>7, SciFlags DEF WriteTrcsr, InstrUnchanged
<1>8. CASE \/ StSend \/ Core0 \/ TriggerReset \/ UNCHANGED vars
           \/ FeedTake \/ FeedDone \/ RunClocks \/ ClearPending \/ ExecDone
           \/ Interrupt \/ Crash \/ WriteTdr \/ OtherInstr \/ WildJump
  <2>1. sci' = sci /\ txFifo' = txFifo /\ freshTdre' = freshTdre
    BY <1>8 DEF StSend, Core0, RxTake, RxAdd, RxDone, WorkDone, FlashBegin, FlashEnd,
       TriggerReset, Core0Unchanged, vars, FeedTake, FeedDone, RunClocks,
       ClearPending, ExecDone, Interrupt, Crash, WriteTdr, OtherInstr, WildJump,
       InstrUnchanged
  <2> QED BY <2>1
<1> QED BY <1>1, <1>2, <1>3, <1>4, <1>5, <1>6, <1>7, <1>8 DEF Next, Core1, Instr

\* Between resets, a set TDRE means the UART takes the next byte at once.
THEOREM Transmitter == Spec => []TdreMeansRoom
<1>1. Init => TdreMeansRoom
  BY DEF Init, TdreMeansRoom, SciZero
<1>2. TypeOK /\ TdreMeansRoom /\ [Next]_vars => TdreMeansRoom'
  BY TdreStep
<1> QED BY <1>1, <1>2, TypeCorrect, PTL DEF Spec

-------------------------------------------------------------------------------
(* The path of the bytes: what each step moves from one stage to the next.   *)

\* The state the path consists of.
pathVars == <<ToSet(read), InRdr, InHand1, InQueue, InHand0, InFifo, rxQueue, rxFifo,
              read, sent, overflowed, discarded>>

\* Each step leaves the path alone or moves one byte one stage on.
PathIdle == UNCHANGED pathVars

ByteArrives ==
  /\ sent < MaxSend /\ sent' = sent + 1
  /\ \/ /\ rxFifo' = Append(rxFifo, sent + 1)
        /\ overflowed' = overflowed
     \/ /\ rxFifo' = rxFifo
        /\ overflowed' = overflowed \cup {sent + 1}
  /\ UNCHANGED <<rxQueue, read, discarded, InRdr, InHand1, InHand0>>

ByteTaken ==
  /\ rxFifo # <<>> /\ InHand0 = {}
  /\ InHand0' = {Head(rxFifo)} /\ rxFifo' = Tail(rxFifo)
  /\ UNCHANGED <<rxQueue, read, sent, overflowed, discarded, InRdr, InHand1>>

ByteQueued ==
  /\ InHand0 = {hand0}
  /\ rxQueue' = Append(rxQueue, hand0) /\ InHand0' = {}
  /\ UNCHANGED <<rxFifo, read, sent, overflowed, discarded, InRdr, InHand1>>

ByteUnqueued ==
  /\ rxQueue # <<>> /\ InHand1 = {}
  /\ InHand1' = {Head(rxQueue)} /\ rxQueue' = Tail(rxQueue)
  /\ UNCHANGED <<rxFifo, read, sent, overflowed, discarded, InRdr, InHand0>>

ByteGiven ==
  /\ InHand1 = {hand1} /\ InRdr = {}
  /\ InRdr' = {hand1} /\ InHand1' = {}
  /\ UNCHANGED <<rxFifo, rxQueue, read, sent, overflowed, discarded, InHand0>>

ByteRead ==
  /\ InRdr = {sci.rdr} /\ InRdr' = {}
  /\ read' = Append(read, sci.rdr)
  /\ UNCHANGED <<rxFifo, rxQueue, sent, overflowed, discarded, InHand1, InHand0>>

ByteDiscarded ==
  /\ InRdr = {sci.rdr} /\ InRdr' = {}
  /\ discarded' = discarded \cup {sci.rdr}
  /\ UNCHANGED <<rxFifo, rxQueue, read, sent, overflowed, InHand1, InHand0>>

\* A step of core 1 that leaves the SCI's receiver and its own hand alone.
LEMMA IdleStep ==
  ASSUME TypeOK,
         \/ UartShift \/ TriggerReset \/ UNCHANGED vars
         \/ RxDone \/ WorkDone \/ FlashBegin \/ FlashEnd
         \/ FeedDone \/ TxPoll \/ RunClocks \/ ClearPending \/ ExecDone \/ UartPutc
         \/ Interrupt \/ Crash \/ WriteTrcsr \/ WriteTdr \/ OtherInstr \/ WildJump
  PROVE  PathIdle
<1>0. sci \in SciRegs
  BY DEF TypeOK
<1>1. UNCHANGED <<read, rxQueue, rxFifo, sent, overflowed, discarded, hand0, hand1>>
  BY DEF UartShift, TriggerReset, vars, RxDone, WorkDone, FlashBegin, FlashEnd,
     Core0Unchanged, core0Vars, fateVars, FeedDone, TxPoll, RunClocks, ClearPending,
     ExecDone, UartPutc, Core1Unchanged, Interrupt, Crash, WriteTrcsr, WriteTdr,
     OtherInstr, WildJump, InstrUnchanged
<1>2. (c0' = "hold") <=> (c0 = "hold")
  BY DEF UartShift, TriggerReset, vars, RxDone, WorkDone, FlashBegin, FlashEnd,
     Core0Unchanged, core0Vars, FeedDone, TxPoll, RunClocks, ClearPending,
     ExecDone, UartPutc, Core1Unchanged, Interrupt, Crash, WriteTrcsr, WriteTdr,
     OtherInstr, WildJump, InstrUnchanged
<1>3. (c1' = "give") <=> (c1 = "give")
  BY DEF UartShift, TriggerReset, vars, RxDone, WorkDone, FlashBegin, FlashEnd,
     Core0Unchanged, core0Vars, FeedDone, TxPoll, RunClocks, ClearPending,
     ExecDone, UartPutc, Core1Unchanged, Interrupt, Crash, WriteTrcsr, WriteTdr,
     OtherInstr, WildJump, InstrUnchanged, At, CanExecute, Executing
<1>4. sci'.rdrf = sci.rdrf /\ sci'.rdr = sci.rdr
  <2>1. CASE TxPoll
    <3>1. SendBufEmpty \in BOOLEAN
      BY DEF SendBufEmpty
    <3> QED BY <1>0, <2>1, <3>1, SciFlags DEF TxPoll
  <2>2. CASE UartPutc
    BY <1>0, <2>2, SciFlags DEF UartPutc
  <2>3. CASE WriteTrcsr
    BY <1>0, <2>3, SciFlags DEF WriteTrcsr
  <2>4. CASE \/ UartShift \/ TriggerReset \/ UNCHANGED vars
             \/ RxDone \/ WorkDone \/ FlashBegin \/ FlashEnd
             \/ FeedDone \/ RunClocks \/ ClearPending \/ ExecDone
             \/ Interrupt \/ Crash \/ WriteTdr \/ OtherInstr \/ WildJump
    <3>1. sci' = sci
      BY <2>4 DEF UartShift, TriggerReset, vars, RxDone, WorkDone, FlashBegin,
         FlashEnd, Core0Unchanged, FeedDone, RunClocks, ClearPending, ExecDone,
         Interrupt, Crash, WriteTdr, OtherInstr, WildJump
    <3> QED BY <3>1
  <2> QED BY <2>1, <2>2, <2>3, <2>4
<1>5. InRdr' = InRdr /\ InHand1' = InHand1 /\ InHand0' = InHand0
  BY <1>1, <1>2, <1>3, <1>4 DEF InRdr, InHand1, InHand0
<1> QED BY <1>1, <1>5 DEF PathIdle, pathVars, InQueue, InFifo

\* Every step of the system is one of these moves.
LEMMA Moves ==
  ASSUME TypeOK, NoOverrun, HandoverFree, TryAddSucceeds, [Next]_vars
  PROVE  \/ PathIdle \/ ByteArrives \/ ByteTaken \/ ByteQueued \/ ByteUnqueued
         \/ ByteGiven \/ ByteRead \/ ByteDiscarded
<1> USE DEF InRdr, InHand1, InHand0
<1>0. sci \in SciRegs /\ hand1 \in Nat
  BY DEF TypeOK
<1>1. CASE StSend
  <2>1. UNCHANGED <<rxQueue, read, discarded, c0, hand0, c1, hand1, sci>>
    BY <1>1 DEF StSend, core0Vars
  <2>2. CASE Len(rxFifo) < RxDepth
    BY <1>1, <2>1, <2>2 DEF StSend, ByteArrives
  <2>3. CASE ~(Len(rxFifo) < RxDepth)
    BY <1>1, <2>1, <2>3 DEF StSend, ByteArrives
  <2> QED BY <2>2, <2>3
<1>2. CASE RxTake
  BY <1>2 DEF RxTake, Core0Unchanged, fateVars, ByteTaken
<1>3. CASE RxAdd
  BY <1>3 DEF RxAdd, Core0Unchanged, fateVars, ByteQueued, TryAddSucceeds
<1>4. CASE FeedTake
  BY <1>4 DEF FeedTake, At, Core1Unchanged, core0Vars, ByteUnqueued
<1>5. CASE FeedGive
  <2>1. c1 = "give" /\ ~sci.rdrf /\ c1' = "feed"
    BY <1>5 DEF FeedGive, At, HandoverFree
  <2>2. sci'.rdrf /\ sci'.rdr = hand1
    BY <1>0, <1>5, <2>1, SciInFree DEF FeedGive
  <2> QED BY <1>5, <2>1, <2>2 DEF FeedGive, Core1Unchanged, core0Vars, ByteGiven
<1>6. CASE Reset
  <2>1. /\ ~sci'.rdrf /\ c1 # "give" /\ c1' # "give"
        /\ discarded' = discarded \cup InRdr
        /\ UNCHANGED <<rxFifo, rxQueue, read, sent, overflowed, c0, hand0>>
    BY <1>6, <1>0, SciFlags DEF Reset, At, Core1Unchanged, core0Vars
  <2>2. CASE sci.rdrf
    BY <2>1, <2>2 DEF ByteDiscarded
  <2>3. CASE ~sci.rdrf
    BY <2>1, <2>3 DEF PathIdle, pathVars, InQueue, InFifo
  <2> QED BY <2>2, <2>3
<1>7. CASE ReadRdr
  <2>1. /\ ~sci'.rdrf /\ c1 = "exec" /\ c1' = "exec"
        /\ UNCHANGED <<rxFifo, rxQueue, discarded, sent, overflowed, c0, hand0>>
    BY <1>7, <1>0, SciFlags
       DEF ReadRdr, CanExecute, Executing, At, InstrUnchanged, Core1Unchanged, core0Vars
  <2>2. CASE sci.rdrf
    <3>1. read' = Append(read, sci.rdr)
      BY <1>7, <2>2 DEF ReadRdr
    <3> QED BY <2>1, <2>2, <3>1 DEF ByteRead
  <2>3. CASE ~sci.rdrf
    <3>1. read' = read
      BY <1>7, <2>3 DEF ReadRdr
    <3> QED BY <2>1, <2>3, <3>1 DEF PathIdle, pathVars, InQueue, InFifo
  <2> QED BY <2>2, <2>3
<1> QED BY <1>1, <1>2, <1>3, <1>4, <1>5, <1>6, <1>7, IdleStep
     DEF Next, Core0, Core1, Instr

\* No byte is in the path before it is sent.
LEMMA PathBounded ==
  ASSUME TypeOK, NothingVanishes
  PROVE  /\ sent \in Nat
         /\ ToSet(read) \subseteq 1..sent /\ InTransit \subseteq 1..sent
         /\ Below(ToSet(read) \cup InTransit, {sent + 1})
  BY DEF TypeOK, NothingVanishes, Below

\* A move of a byte keeps the stages ordered and the bytes accounted for.
LEMMA PathStep ==
  ASSUME TypeOK, PathInv,
         \/ PathIdle \/ ByteArrives \/ ByteTaken \/ ByteQueued \/ ByteUnqueued
         \/ ByteGiven \/ ByteRead \/ ByteDiscarded
  PROVE  PathInv'
<1> USE DEF PathInv, StagesOrdered, ReadInOrder, NothingVanishes, InTransit
<1>0. /\ rxFifo \in Seq(Nat) /\ rxQueue \in Seq(Nat) /\ read \in Seq(Nat)
      /\ sci.rdr \in Nat /\ hand0 \in Nat /\ hand1 \in Nat /\ sent \in Nat
  BY DEF TypeOK, SciRegs
<1>1. CASE PathIdle
  BY <1>1 DEF PathIdle, pathVars
<1>2. CASE ByteArrives
  <2>1. UNCHANGED <<rxQueue, read, discarded, InRdr, InHand1, InHand0>>
        /\ InQueue' = InQueue /\ ToSet(read)' = ToSet(read)
    BY <1>2 DEF ByteArrives, InQueue
  <2>2. 1..(sent + 1) = (1..sent) \cup {sent + 1} /\ sent + 1 \in Nat
    BY <1>0
  <2>3. CASE rxFifo' = Append(rxFifo, sent + 1) /\ overflowed' = overflowed
    <3>1. InFifo' = InFifo \cup {sent + 1}
      BY <1>0, <2>2, <2>3, ToSetAppend DEF InFifo
    <3>2. Below(InFifo, {sent + 1})
      BY PathBounded DEF Below
    <3>3. Increasing(rxFifo')
      BY <1>0, <2>2, <2>3, <3>2, IncreasingAppend DEF InFifo
    <3>4. StagesOrdered'
      BY <2>1, <3>1, <3>3, PathBounded DEF Below
    <3>5. NothingVanishes'
      BY <1>2, <2>1, <2>2, <2>3, <3>1 DEF ByteArrives
    <3> QED BY <2>1, <3>4, <3>5
  <2>4. CASE rxFifo' = rxFifo /\ overflowed' = overflowed \cup {sent + 1}
    <3>1. InFifo' = InFifo
      BY <2>4 DEF InFifo
    <3>2. StagesOrdered'
      BY <2>1, <2>4, <3>1
    <3>3. NothingVanishes'
      BY <1>2, <2>1, <2>2, <2>4, <3>1 DEF ByteArrives
    <3> QED BY <2>1, <3>2, <3>3
  <2> QED BY <1>2, <2>3, <2>4 DEF ByteArrives
<1>3. CASE ByteTaken
  <2>1. /\ UNCHANGED <<rxQueue, read, sent, overflowed, discarded, InRdr, InHand1>>
        /\ InQueue' = InQueue /\ ToSet(read)' = ToSet(read)
    BY <1>3 DEF ByteTaken, InQueue
  <2>2. InHand0 = {} /\ InFifo = InHand0' \cup InFifo'
    BY <1>0, <1>3, ToSetTail DEF ByteTaken, InFifo
  <2>3. Increasing(rxFifo)' /\ Below(InHand0', InFifo')
    BY <1>0, <1>3, IncreasingTail DEF ByteTaken, InFifo
  <2>4. StagesOrdered'
    BY <2>1, <2>2, <2>3 DEF Below
  <2>5. NothingVanishes'
    BY <2>1, <2>2
  <2> QED BY <2>1, <2>4, <2>5
<1>4. CASE ByteQueued
  <2>1. /\ UNCHANGED <<rxFifo, read, sent, overflowed, discarded, InRdr, InHand1>>
        /\ InFifo' = InFifo /\ ToSet(read)' = ToSet(read)
    BY <1>4 DEF ByteQueued, InFifo
  <2>2. InHand0 = {hand0} /\ InHand0' = {} /\ InQueue' = InQueue \cup {hand0}
    BY <1>0, <1>4, ToSetAppend DEF ByteQueued, InQueue
  <2>3. Below(InQueue, {hand0})
    BY <2>2 DEF Below
  <2>4. Increasing(rxQueue')
    BY <1>0, <1>4, <2>3, IncreasingAppend DEF ByteQueued, InQueue
  <2>5. StagesOrdered'
    BY <2>1, <2>2, <2>4 DEF Below
  <2>6. NothingVanishes'
    BY <2>1, <2>2
  <2> QED BY <2>1, <2>5, <2>6
<1>5. CASE ByteUnqueued
  <2>1. /\ UNCHANGED <<rxFifo, read, sent, overflowed, discarded, InRdr, InHand0>>
        /\ InFifo' = InFifo /\ ToSet(read)' = ToSet(read)
    BY <1>5 DEF ByteUnqueued, InFifo
  <2>2. InHand1 = {} /\ InQueue = InHand1' \cup InQueue'
    BY <1>0, <1>5, ToSetTail DEF ByteUnqueued, InQueue
  <2>3. Increasing(rxQueue)' /\ Below(InHand1', InQueue')
    BY <1>0, <1>5, IncreasingTail DEF ByteUnqueued, InQueue
  <2>4. StagesOrdered'
    BY <2>1, <2>2, <2>3 DEF Below
  <2>5. NothingVanishes'
    BY <2>1, <2>2
  <2> QED BY <2>1, <2>4, <2>5
<1>6. CASE ByteGiven
  <2>1. /\ UNCHANGED <<rxFifo, rxQueue, read, sent, overflowed, discarded, InHand0>>
        /\ InFifo' = InFifo /\ InQueue' = InQueue /\ ToSet(read)' = ToSet(read)
    BY <1>6 DEF ByteGiven, InFifo, InQueue
  <2>2. InRdr = {} /\ InRdr' = InHand1 /\ InHand1' = {}
    BY <1>6 DEF ByteGiven
  <2>3. StagesOrdered'
    BY <2>1, <2>2 DEF Below
  <2>4. NothingVanishes'
    BY <2>1, <2>2
  <2> QED BY <2>1, <2>3, <2>4
<1>7. CASE ByteRead
  <2>1. /\ UNCHANGED <<rxFifo, rxQueue, sent, overflowed, discarded, InHand1, InHand0>>
        /\ InFifo' = InFifo /\ InQueue' = InQueue
    BY <1>7 DEF ByteRead, InFifo, InQueue
  <2>2. InRdr = {sci.rdr} /\ InRdr' = {} /\ ToSet(read)' = ToSet(read) \cup {sci.rdr}
    BY <1>0, <1>7, ToSetAppend DEF ByteRead
  <2>3. Below(ToSet(read), {sci.rdr})
    BY <2>2 DEF Below
  <2>4. Increasing(read')
    BY <1>0, <1>7, <2>3, IncreasingAppend DEF ByteRead
  <2>5. StagesOrdered'
    BY <2>1, <2>2 DEF Below
  <2>6. NothingVanishes'
    BY <2>1, <2>2
  <2> QED BY <2>4, <2>5, <2>6
<1>8. CASE ByteDiscarded
  <2>1. /\ UNCHANGED <<rxFifo, rxQueue, read, sent, overflowed, InHand1, InHand0>>
        /\ InFifo' = InFifo /\ InQueue' = InQueue /\ ToSet(read)' = ToSet(read)
    BY <1>8 DEF ByteDiscarded, InFifo, InQueue
  <2>2. InRdr = {sci.rdr} /\ InRdr' = {} /\ discarded' = discarded \cup {sci.rdr}
    BY <1>8 DEF ByteDiscarded
  <2>3. StagesOrdered'
    BY <2>1, <2>2 DEF Below
  <2>4. NothingVanishes'
    BY <2>1, <2>2
  <2> QED BY <2>1, <2>3, <2>4
<1> QED BY <1>1, <1>2, <1>3, <1>4, <1>5, <1>6, <1>7, <1>8

\* The inductive invariant.
THEOREM Inductive == Spec => []IInv
<1>1. Init => PathInv
  BY ToSetEmpty DEF Init, PathInv, StagesOrdered, ReadInOrder, NothingVanishes,
     InTransit, InRdr, InHand1, InQueue, InHand0, InFifo, Below, SciZero
<1>2. TypeOK /\ NoOverrun /\ HandoverFree /\ TryAddSucceeds /\ PathInv /\ [Next]_vars
      => PathInv'
  BY Moves, PathStep
<1>3. Init => HandoverFree
  BY DEF Init, HandoverFree
<1>4. TypeOK /\ NoOverrun /\ HandoverFree /\ [Next]_vars => NoOverrun' /\ HandoverFree'
  BY HandoverStep
<1>5. Spec => []HandoverFree
  <2>1. Init => NoOverrun /\ HandoverFree
    BY <1>3 DEF Init, NoOverrun, SciZero
  <2> QED BY <2>1, <1>4, TypeCorrect, PTL DEF Spec
<1>6. Spec => []PathInv
  BY <1>1, <1>2, <1>5, TypeCorrect, Overrun, TryAdd, PTL DEF Spec
<1> QED BY <1>5, <1>6, TypeCorrect, Overrun, TryAdd, ResetRequest, Transmitter, PTL
     DEF IInv

\* Bytes are read in the order they were sent, none twice.
THEOREM InOrder == Spec => []ReadInOrder
<1>1. IInv => ReadInOrder
  BY DEF IInv, PathInv
<1> QED BY <1>1, Inductive, PTL

\* Every byte sent is read, under way, or dropped for one of the two reasons.
THEOREM Accounted == Spec => []NothingVanishes
<1>1. IInv => NothingVanishes
  BY DEF IInv, PathInv
<1> QED BY <1>1, Inductive, PTL

-------------------------------------------------------------------------------
(* Refinement: each move is a step of ByteChannel or a stutter of it.        *)

LEMMA ChannelStep ==
  ASSUME IInv, [Next]_vars
  PROVE  [Channel!Next]_(Channel!vars)
<1> USE DEF Channel!Next, Channel!vars
<1>0. /\ TypeOK /\ StagesOrdered /\ NothingVanishes
      /\ rxFifo \in Seq(Nat) /\ rxQueue \in Seq(Nat) /\ read \in Seq(Nat)
      /\ sci.rdr \in Nat /\ hand0 \in Nat /\ sent \in Nat
  BY DEF IInv, PathInv, TypeOK, SciRegs
<1>1. CASE PathIdle
  BY <1>1 DEF PathIdle, pathVars, InTransit
<1>2. CASE ByteArrives
  <2>1. InQueue' = InQueue /\ sent' = sent + 1
        /\ UNCHANGED <<read, InRdr, InHand1, InHand0>>
    BY <1>2 DEF ByteArrives, InQueue
  <2>2. CASE rxFifo' = Append(rxFifo, sent + 1)
    <3>1. InFifo' = InFifo \cup {sent + 1}
      BY <1>0, <2>2, ToSetAppend DEF InFifo
    <3>2. Channel!Accept
      BY <2>1, <3>1 DEF Channel!Accept, InTransit
    <3> QED BY <3>2
  <2>3. CASE rxFifo' = rxFifo
    BY <2>1, <2>3 DEF Channel!Overflow, InTransit, InFifo
  <2> QED BY <1>2, <2>2, <2>3 DEF ByteArrives
<1>3. CASE ByteTaken
  <2>1. InFifo \cup InHand0 = InFifo' \cup InHand0'
    BY <1>0, <1>3, ToSetTail DEF ByteTaken, InFifo
  <2> QED BY <1>3, <2>1 DEF ByteTaken, InQueue, InTransit
<1>4. CASE ByteQueued
  <2>1. InQueue \cup InHand0 = InQueue' \cup InHand0'
    BY <1>0, <1>4, ToSetAppend DEF ByteQueued, InQueue
  <2> QED BY <1>4, <2>1 DEF ByteQueued, InFifo, InTransit
<1>5. CASE ByteUnqueued
  <2>1. InQueue \cup InHand1 = InQueue' \cup InHand1'
    BY <1>0, <1>5, ToSetTail DEF ByteUnqueued, InQueue
  <2> QED BY <1>5, <2>1 DEF ByteUnqueued, InFifo, InTransit
<1>6. CASE ByteGiven
  BY <1>6 DEF ByteGiven, InFifo, InQueue, InTransit
<1>7. ASSUME InRdr = {sci.rdr}, InRdr' = {},
             UNCHANGED <<rxFifo, rxQueue, InHand1, InHand0>>
      PROVE  /\ sci.rdr \in InTransit
             /\ Channel!Oldest(sci.rdr)
             /\ InTransit' = InTransit \ {sci.rdr}
  <2>1. \A x \in InHand1 \cup InQueue \cup InHand0 \cup InFifo : sci.rdr < x /\ x \in Nat
    BY <1>0, <1>7, PathBounded DEF StagesOrdered, Below, InTransit
  <2>2. InFifo' = InFifo /\ InQueue' = InQueue
    BY <1>7 DEF InFifo, InQueue
  <2>3. sci.rdr \notin InHand1 \cup InQueue \cup InHand0 \cup InFifo
    BY <1>0, <2>1
  <2> QED BY <1>0, <1>7, <2>1, <2>2, <2>3 DEF InTransit, Channel!Oldest
<1>8. CASE ByteRead
  BY <1>7, <1>8 DEF ByteRead, Channel!Deliver
<1>9. CASE ByteDiscarded
  BY <1>7, <1>9 DEF ByteDiscarded, Channel!Discard
<1> QED BY <1>0, <1>1, <1>2, <1>3, <1>4, <1>5, <1>6, <1>8, <1>9, Moves DEF IInv

\* The path across the UART, the two cores and the SCI implements the lossy
\* FIFO channel, for every depth and every program.
THEOREM Refinement == Spec => ImplementsChannel
<1>1. Init => Channel!Init
  BY ToSetEmpty DEF Init, Channel!Init, InTransit, InRdr, InHand1, InQueue,
     InHand0, InFifo, SciZero
<1>2. IInv /\ [Next]_vars => [Channel!Next]_(Channel!vars)
  BY ChannelStep
<1> QED BY <1>1, <1>2, Inductive, PTL DEF Spec, ImplementsChannel, Channel!Spec
===============================================================================
