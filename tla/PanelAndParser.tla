----------------------------- MODULE PanelAndParser -----------------------------
(***************************************************************************)
(* The parts of Drivers that put something together out of many pieces: the *)
(* parser of report descriptors, the picture on the panel, and the live     *)
(* pages.                                                                   *)
(***************************************************************************)
EXTENDS Integers, Sequences

VARIABLES
    device, desc, p, open, fields, idRestored,
    page, buffer, shadow, panel, failed,
    livePage, asleep, dirty, log, lines, shown, since, requested, elapsed, debug, held, frame,
    recent, behind, moved, due, lag

parserVars == <<device, desc, p, open, fields, idRestored>>
displayVars == <<page, buffer, shadow, panel, failed>>
liveVars == <<livePage, asleep, dirty, log, lines, shown, since, requested, elapsed, debug, held,
              frame, recent, behind, moved, due, lag>>

-------------------------------------------------------------------------------
(* The report descriptors. *)

CONSTANTS HidDevices, StackDepth, UsageDepth, MaxPaths, MaxItems, MaxReportIds

Parser == INSTANCE HidParser WITH Devices <- HidDevices

\* The items that the parser reads, and how the standard numbers reports: the
\* first id comes before every field.
ShortItems ==
    [op : {"push", "pop", "page", "size", "count", "id", "usage", "min", "max", "collection", "end"},
     v : Nat]
    \cup [op : {"usage"}, v : Nat, page : Nat]
    \cup [op : Parser!Types, constant : BOOLEAN]
Numbered(items) ==
    \A j \in DOMAIN items, k \in DOMAIN items :
        j < k /\ items[j].op \in Parser!Types /\ items[k].op = "id" =>
            \E i \in 1 .. j - 1 : items[i].op = "id"
ASSUME DescriptorAssumption ==
    /\ {StackDepth, MaxPaths, MaxReportIds} \subseteq Nat \ {0} /\ {UsageDepth, MaxItems} \subseteq Nat
    /\ \A d \in HidDevices : d.items \in Seq(ShortItems) /\ Numbered(d.items)

ParserIdle ==
    /\ device = [protocol |-> "none", items |-> <<>>] /\ desc = <<>>
    /\ p = Parser!Start
    /\ open = <<>> /\ fields = <<>> /\ idRestored = FALSE

-------------------------------------------------------------------------------
(* The panel. *)

CONSTANTS Glyph, Drawings, Width, Height, FontWidth, FontHeight, Kerning, Stops

Panel == INSTANCE Display WITH Pages <- Drawings

\* A label of a key that is written as a bare byte is one character.
Units == [cp : Nat, bare : BOOLEAN]
Legible(text) ==
    \A k \in DOMAIN text :
        /\ text[k].cp <= \h10FFFF
        /\ text[k].bare => text[k].cp \in \h80 .. \hFF /\ (k > 1 => ~text[k - 1].bare)
\* The cells of a call; a bar of light is drawn beside what is there already.
Cells(c) ==
    Panel!Square(c.x, c.y, (IF c.inverse THEN Kerning ELSE 0) + Len(c.text) * Panel!Advance(c.scale),
                 FontHeight * c.scale)
ASSUME PanelAssumption ==
    /\ {Width, Height, FontWidth, FontHeight, Kerning} \subseteq Nat
    /\ Glyph \in [\h20 .. \hFF -> SUBSET ((0 .. FontWidth - 1) \X (0 .. FontHeight - 1))]
    /\ Drawings \subseteq Seq([text : Seq(Units), x : Nat, y : Nat, scale : Nat, inverse : BOOLEAN])
    /\ \A calls \in Drawings :
         /\ \A k \in DOMAIN calls : Legible(calls[k].text)
         /\ \A k \in DOMAIN calls, j \in DOMAIN calls :
              j < k /\ calls[k].inverse => Cells(calls[j]) \cap Cells(calls[k]) = {}

-------------------------------------------------------------------------------
(* The serial page and the test page; no mouse moves while the first is tried, *)
(* and nothing is logged while the second is. *)

CONSTANTS LogDepth, LogLines, SerialPeriod, TimerPeriod

Still == [a \in {"x", "y"} |-> 0]

Serial == INSTANCE DebugPages WITH
    Pages <- {"serial", "other"}, Events <- {"sent", "received"}, Moves <- {}, Helds <- {"nothing"},
    page <- livePage
Test == INSTANCE DebugPages WITH
    Pages <- {"mouse_debug", "other"}, Events <- {},
    Moves <- {Still, [x |-> 1, y |-> 0], [x |-> -1, y |-> -1]},
    Helds <- {"nothing", "a key"}, page <- livePage
ASSUME LiveAssumption == {LogDepth, LogLines} \subseteq Nat /\ {SerialPeriod, TimerPeriod} \subseteq Nat \ {0}
===============================================================================
