--------------------------------- MODULE MCChip ---------------------------------
(***************************************************************************)
(* Model checking of the emulated chip with a small ROM (with the vectors   *)
(* of HD6301V1ST.img) and the programs below.                               *)
(***************************************************************************)
EXTENDS Chip, TLC

Rom == \hF000 .. \hFFFF

Code(start, bytes) == [x \in start .. (start + Len(bytes) - 1) |-> bytes[x - start + 1]]

MCImage ==
    Code(\hFFEE, <<0, 255, 254, 226, 240, 0, 253, 157, 240, 0, 240, 0, 240, 0, 240, 0, 240, 0>>)
    @@ Code(\hF000, <<\h0F, \h8E, 0, \hFF, \h20, \hFE>>)      \* sei; lds #00FF; bra *
    @@ Code(\hFEE2, <<\h4F, \h5F, \h0E, \h01, \h3B>>)         \* clra; clrb; cli; nop; rti
    @@ Code(\hFD9D, <<\hCE, \h12, \h34, \h0D, \h3B>>)         \* ldx #1234; sec; rti
    @@ [x \in Rom |-> 1]

Machine(code, a, b, ix, sp, ccr) ==
    [a |-> a, b |-> b, ix |-> ix, sp |-> sp, pc |-> \h80, ccr |-> ccr,
     mem |-> Code(\h80, code \o <<\h20, \hFE>>), calls |-> <<>>, dev |-> 0]

Edge == {\h00, \h7F, \h80, \hFF}
Bcd == {\h09, \h49, \h58, \h65, \h95, \h99}

Comparisons ==
    {Machine(<<op, y, br, \h02>>, x, x, 0, \hFF, {"I"}) :
        op \in {\h81, \hC0}, x, y \in Edge, br \in \h20 .. \h2F}
    \cup {Machine(<<\h11, br, \h02>>, x, y, 0, \hFF, {"I"}) :
        x, y \in {\h01, \h80}, br \in \h20 .. \h2F}
    \cup {Machine(<<\h8C, y, \hFF, br, \h02>>, 0, 0, x, \hFF, {"I"}) :
        x \in {\h80FF, \h7FFF, \h8000}, y \in {\h7F, \h80}, br \in \h20 .. \h2F}
Decimals ==
    {Machine(<<op, y, \h19>>, x, 0, 0, \hFF, {"I"} \cup c) :
        op \in {\h89, \h8B}, x, y \in Bcd, c \in {{}, {"C"}}}
    \cup {Machine(<<\h1B, \h19>>, x, y, 0, \hFF, {"I"}) : x, y \in Bcd}
Pairs ==
    {Machine(<<p[1], lo, p[2], hi>>, a, b, 0, \hFF, {"I"}) :
        p \in {<<\hCB, \h89>>, <<\hC0, \h82>>}, a, hi \in {\h00, \h7F, \h80},
        b, lo \in {\h00, \h01, \hFF}}
EveryOpcode ==
    {Machine(<<op, \h84, \h90, \h00>>, \h12, \h81, ix, sp, {"I", "C"}) :
        op \in 0 .. 255, <<ix, sp>> \in {<<\h0004, \hFF>>, <<\hFFF0, \h0001>>}}
\* jsr, then what a subroutine may do with the stack before it returns; the
\* interrupts are allowed.
Calls ==
    {Machine(<<\hBD, \h00, \h84, \h00>> \o body, \h12, \h34, \h5678, \hFF, {"Z"}) :
        body \in {<<\h39>>, <<\h36, \h32, \h39>>, <<\h34, \h31, \h39>>, <<\h30, \h35, \h39>>,
                  <<\h8D, \h00, \h39>>, <<\h3F, \h39>>, <<\h31, \h31>>, <<\h8E, \h00, \h90>>}}
\* Nothing there: the bytes of the hole are executed as stx $FFFF.
Wild == {[Machine(<<>>, 0, 0, \h5678, \hFF, {"I"}) EXCEPT !.pc = p] : p \in {\hEFF0, \h0010}}

MCPrograms == Comparisons \cup Decimals \cup Pairs \cup EveryOpcode \cup Calls \cup Wild

MCResting == Machine(<<>>, 0, 0, 0, \hFF, {"I"})
================================================================================
