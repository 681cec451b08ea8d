--------------------------------- MODULE Display ---------------------------------
(***************************************************************************)
(* The display driver ssd1306.c: how a text becomes pixels of the           *)
(* framebuffer, and the framebuffer the picture on the panel.  The user     *)
(* interface draws a page from an empty buffer and shows it.  The panel and *)
(* the I2C bus are external: a transfer may end early, and what it did not  *)
(* reach keeps its picture.  A text is given as code points; one of them    *)
(* may be written as a bare byte, as the labels of the keys do.  Pictures   *)
(* are sets of lit pixels <<x, y>>.                                         *)
(***************************************************************************)
EXTENDS Integers, SequencesExt

CONSTANTS
    Width, Height,          \* of the panel
    FontWidth, FontHeight,  \* of a glyph: font[1], font[0]
    Kerning,                \* CHAR_KERNING
    Glyph,                  \* font.h: the pixels of each byte that has a glyph
    Pages,                  \* what is drawn: sequences of [text, x, y, scale, inverse]
    Stops                   \* how many columns of a frame arrive

VARIABLES
    page,       \* history: the page that was drawn last
    buffer,     \* p->buffer
    shadow,     \* <<last_buf>>, or empty while it is not valid
    panel,      \* the picture on the panel
    failed      \* history: the last transfer of a frame ended early

vars == <<page, buffer, shadow, panel, failed>>

Screen == (0 .. Width - 1) \X (0 .. Height - 1)

-------------------------------------------------------------------------------
(* Texts. *)

Byte(s, k) == IF k <= Len(s) THEN s[k] ELSE 0
Continues(s, from, to) == \A k \in from .. to : Byte(s, k) \div 64 = 2
Low6(s, k) == Byte(s, k) % 64

\* utf8_next: the code point at k, and how many bytes it has.
OneByte(s, k) == [cp |-> s[k], length |-> 1]
TwoBytes(s, k) ==
    IF s[k] \div 32 = 6 /\ Continues(s, k + 1, k + 1)
    THEN [cp |-> (s[k] % 32) * 64 + Low6(s, k + 1), length |-> 2] ELSE OneByte(s, k)
NextChar(s, k) ==
    IF s[k] <= \h9F THEN OneByte(s, k)
    ELSE IF s[k] \div 16 = 14 /\ Continues(s, k + 1, k + 2)
    THEN [cp |-> (s[k] % 16) * 4096 + Low6(s, k + 1) * 64 + Low6(s, k + 2), length |-> 3]
    ELSE IF s[k] \div 8 = 30 /\ Continues(s, k + 1, k + 3)
    THEN [cp |-> (s[k] % 8) * 262144 + Low6(s, k + 1) * 4096 + Low6(s, k + 2) * 64 + Low6(s, k + 3),
          length |-> 4]
    ELSE TwoBytes(s, k)

\* The loop of the string functions and of ssd1306_utf8_charlen.
Chars(s) ==
    LET from[k \in 1 .. Len(s) + 1] ==
            IF k > Len(s) THEN <<>>
            ELSE LET char == NextChar(s, k) IN <<char.cp>> \o from[k + char.length]
    IN  from[1]

\* unicode_to_font_byte, and the question mark for what has no glyph.
FontByte(cp) == IF cp \in \h20 .. \hFF THEN cp ELSE \h3F

-------------------------------------------------------------------------------
(* Pixels.  ssd1306_draw_pixel and ssd1306_clear_pixel leave out what is off  *)
(* the screen.                                                                *)

Square(x, y, w, h) == ((x .. x + w - 1) \X (y .. y + h - 1)) \cap Screen

GlyphAt(b, x, y, scale) ==
    UNION {Square(x + g[1] * scale, y + g[2] * scale, scale, scale) : g \in Glyph[b]}

Advance(scale) == FontWidth * scale + Kerning

\* ssd1306_draw_utf8_string_with_font
DrawText(buf, s, x, y, scale) ==
    FoldLeft(LAMBDA at, cp : [x |-> at.x + Advance(scale),
                              buf |-> at.buf \cup GlyphAt(FontByte(cp), at.x, y, scale)],
             [x |-> x, buf |-> buf], Chars(s)).buf

\* ssd1306_draw_utf8_string_inverse_with_font
InverseWithoutMargin(buf, s, x, y, scale) ==
    FoldLeft(LAMBDA at, cp :
                [x |-> at.x + Advance(scale),
                 buf |-> (at.buf \cup Square(at.x, y, Advance(scale), FontHeight * scale))
                            \ GlyphAt(FontByte(cp), at.x, y, scale)],
             [x |-> x, buf |-> buf], Chars(s)).buf
DrawInverse(buf, s, x, y, scale) ==
    FoldLeft(LAMBDA at, cp :
                [x |-> at.x + Advance(scale),
                 buf |-> (at.buf \cup Square(at.x, y, Advance(scale), FontHeight * scale))
                            \ GlyphAt(FontByte(cp), at.x, y, scale)],
             [x |-> x + Kerning, buf |-> buf \cup Square(x, y, Kerning, FontHeight * scale)],
             Chars(s)).buf

-------------------------------------------------------------------------------
(* What a text is, and the bytes it is written in. *)

Tail6(cp, d) == \h80 + ((cp \div d) % 64)
Encode(cp) ==
    IF cp < \h80 THEN <<cp>>
    ELSE IF cp < \h800 THEN <<\hC0 + (cp \div 64), Tail6(cp, 1)>>
    ELSE IF cp < \h10000 THEN <<\hE0 + (cp \div 4096), Tail6(cp, 64), Tail6(cp, 1)>>
    ELSE <<\hF0 + (cp \div 262144), Tail6(cp, 4096), Tail6(cp, 64), Tail6(cp, 1)>>
Bytes(text) ==
    FoldLeft(LAMBDA s, u : s \o (IF u.bare THEN <<u.cp>> ELSE Encode(u.cp)), <<>>, text)

\* ssd1306_clear, then the calls of a page in turn.
Drawn(calls) ==
    FoldLeft(LAMBDA buf, c :
                IF c.inverse THEN DrawInverse(buf, Bytes(c.text), c.x, c.y, c.scale)
                ELSE DrawText(buf, Bytes(c.text), c.x, c.y, c.scale),
             {}, calls)

-------------------------------------------------------------------------------
(* The panel is written from its first column to its last. *)
Partly(k) == {px \in buffer' : px[1] < k} \cup {px \in panel : px[1] >= k}

Init ==
    /\ page = <<>>
    /\ buffer = {}
    /\ shadow = <<>>
    /\ panel \in {{}, Screen}
    /\ failed = TRUE

\* A page of the user interface: cleared, drawn, then ssd1306_show.
ShowNoShadow(calls) ==
    /\ page' = calls
    /\ buffer' = Drawn(calls)
    /\ IF shadow = <<buffer'>>
       THEN UNCHANGED <<shadow, panel, failed>>
       ELSE \E k \in Stops :
                /\ panel' = Partly(k)
                /\ failed' = (k # Width)
                /\ shadow' = IF shadow = <<>> THEN <<buffer'>> ELSE shadow
Show(calls) ==
    /\ page' = calls
    /\ buffer' = Drawn(calls)
    /\ IF shadow = <<buffer'>>
       THEN UNCHANGED <<shadow, panel, failed>>
       ELSE \E k \in Stops :
                /\ panel' = Partly(k)
                /\ failed' = (k # Width)
                /\ shadow' = <<buffer'>>

Next == \E calls \in Pages : Show(calls)

Spec == Init /\ [][Next]_vars

-------------------------------------------------------------------------------
(* Properties. *)

\* The k-th character of a text stands in the k-th cell of its line, whatever
\* number of bytes the ones before it have, as its own glyph, lit or dark on a
\* bar of light; nothing outside the cells of the text is touched.
Placed(c) ==
    LET left == c.x + (IF c.inverse THEN Kerning ELSE 0)
        bar == Square(c.x, c.y, Kerning + Len(c.text) * Advance(c.scale), FontHeight * c.scale)
        glyphs == UNION {GlyphAt(FontByte(c.text[k].cp), left + (k - 1) * Advance(c.scale),
                                 c.y, c.scale) : k \in DOMAIN c.text}
    IN  IF c.inverse THEN bar \ glyphs ELSE glyphs
TextShown == buffer = UNION {Placed(page[k]) : k \in DOMAIN page}

\* If the last frame that was sent arrived, the panel shows the buffer, also
\* when nothing was sent because the buffer had not changed.
PanelCurrent == ~failed => panel = buffer

\* From the text of a page to the dots of the panel.
PictureTrue == TextShown /\ PanelCurrent
================================================================================
