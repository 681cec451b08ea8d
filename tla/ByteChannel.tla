----------------------------- MODULE ByteChannel -----------------------------
(***************************************************************************)
(* What the receive path from the Atari ST to the emulated keyboard        *)
(* processor promises, whatever stages it is built from: bytes are read in  *)
(* the order they were sent, each at most once; a byte is lost only on      *)
(* arrival (the receiver has no room) or when it is the oldest one in       *)
(* transit (a reset of the processor discards its data register).          *)
(* Byte n is the n-th byte sent.                                           *)
(***************************************************************************)
EXTENDS Naturals, Sequences

VARIABLES sent,     \* number of bytes the ST has put on the line
          transit,  \* the bytes on their way
          read      \* the bytes the processor has read, in order

vars == <<sent, transit, read>>

Init == /\ sent = 0
        /\ transit = {}
        /\ read = <<>>

Oldest(b) == /\ b \in transit
             /\ \A x \in transit : b <= x

Accept == /\ sent' = sent + 1
          /\ transit' = transit \cup {sent + 1}
          /\ UNCHANGED read

Overflow == /\ sent' = sent + 1
            /\ UNCHANGED <<transit, read>>

Deliver == \E b \in transit :
             /\ Oldest(b)
             /\ transit' = transit \ {b}
             /\ read' = Append(read, b)
             /\ UNCHANGED sent

Discard == \E b \in transit :
             /\ Oldest(b)
             /\ transit' = transit \ {b}
             /\ UNCHANGED <<sent, read>>

Next == Accept \/ Overflow \/ Deliver \/ Discard

Spec == Init /\ [][Next]_vars

\* A byte accepted by the receiver does not stay in transit for ever.
FairSpec == Spec /\ WF_vars(Deliver \/ Discard)
===============================================================================
