------------------------------- MODULE MCDrivers -------------------------------
(***************************************************************************)
(* Model checking of Drivers: the devices, their reports and what the panel *)
(* is asked to draw.                                                        *)
(***************************************************************************)
EXTENDS Drivers

-------------------------------------------------------------------------------
(* Two places for Xbox pads, one pad of each side of the driver. *)

Tilted == [bits |-> {}, pressure |-> [a |-> 0], trigger |-> 0, x |-> 32767, y |-> 32768]
MCPadKinds == <<{"one", "receiver"}, {"wired"}>>
MCPadReports == {Tilted}

-------------------------------------------------------------------------------
(* Report descriptors, put together from blocks. *)

Item(op, v) == [op |-> op, v |-> v]
Main(op, constant) == [op |-> op, constant |-> constant]

Buttons(n) == <<Item("page", 9), Item("min", 1), Item("max", n), Item("size", 1),
                Item("count", n), Main("in", FALSE)>>
Padding(n) == <<Item("size", n), Item("count", 1), Main("in", TRUE)>>
AxisPair == <<Item("page", 1), Item("usage", 48), Item("usage", 49), Item("size", 8),
              Item("count", 2), Main("in", FALSE)>>
LongAxis == <<[op |-> "usage", v |-> 48, page |-> 1], Item("size", 12), Item("count", 1),
              Main("in", FALSE)>>
Pushed == <<Item("push", 0), Item("page", 9), Item("usage", 4), Item("size", 2),
            Item("count", 1), Main("in", FALSE), Item("pop", 0)>>
Leds == <<Item("page", 8), Item("min", 1), Item("max", 5), Item("size", 1), Item("count", 5),
          Main("out", FALSE)>>
Vendor == <<Item("page", 65280), Item("usage", 1), Item("size", 8), Item("count", 2),
            Main("feature", FALSE)>>
Inner(block) == <<Item("usage", 1), Item("collection", 0)>> \o block \o <<Item("end", 0)>>
Under(id, block) == <<Item("id", id)>> \o block
Application(usage, block) ==
    <<Item("page", 1), Item("usage", usage), Item("collection", 1)>> \o block \o <<Item("end", 0)>>

Small == {Buttons(3), Padding(5), Inner(AxisPair), Pushed}
Blocks == Small \cup {AxisPair, LongAxis, Leds, Vendor, Inner(Buttons(3) \o Padding(5))}
Bodies == Blocks \cup {a \o b : a, b \in Blocks} \cup {a \o b \o c : a, b, c \in Small}
OfOne == {Application(u, b) : u \in {2, 4, 6}, b \in Bodies}
OfTwo == {Application(u, Under(1, a)) \o Application(v, Under(2, b) \o Under(1, c)) :
             u, v \in {2, 4, 6}, a, b, c \in {Buttons(3), AxisPair, Vendor, Pushed}}
AtLimits == {
    Application(4, Buttons(8)), Application(4, Buttons(9)),
    Application(2, Inner(Inner(Inner(AxisPair)))), Application(2, Inner(Inner(Inner(<<>>))) \o Inner(AxisPair)),
    Application(4, Under(1, AxisPair) \o Under(2, AxisPair) \o Under(3, AxisPair) \o Under(4, AxisPair)),
    Application(2, <<Item("usage", 1), Item("usage", 2), Item("usage", 3), Item("usage", 4)>>),
    Application(2, <<Item("push", 0), Item("push", 0)>>), <<Item("pop", 0)>>, <<Item("end", 0)>>,
    Application(4, Under(1, AxisPair)
                   \o <<Item("push", 0), Item("id", 2), Main("feature", TRUE), Item("pop", 0)>>
                   \o Buttons(3))}
MCDevices == {[protocol |-> protocol, items |-> d] :
                 protocol \in {"none", "keyboard"}, d \in OfOne \cup OfTwo \cup AtLimits}

-------------------------------------------------------------------------------
(* Two mice; a rotation every 2 to 9 units of time. *)

MCMice == <<1, 130>>
MCMoves == {[buttons |-> {}, x |-> 1, y |-> 0], [buttons |-> {"left"}, x |-> -3, y |-> 40]}
MCSpeeds == {-7, 8}

-------------------------------------------------------------------------------
(* A panel of 13 columns and a font of two by two. *)

MCGlyph == [b \in 32 .. 255 |->
    {<<0, 0>>} \cup (IF b % 2 = 1 THEN {<<1, 0>>} ELSE {})
               \cup (IF (b \div 2) % 2 = 1 THEN {<<1, 1>>} ELSE {})
               \cup (IF b = 63 THEN {<<0, 1>>} ELSE {})]
Char(cp) == [cp |-> cp, bare |-> FALSE]
Bare(cp) == [cp |-> cp, bare |-> TRUE]
Call(text, x, y, scale, inverse) ==
    [text |-> text, x |-> x, y |-> y, scale |-> scale, inverse |-> inverse]
Texts == {<<>>, <<Char(65), Char(233), Char(66)>>, <<Char(8364), Bare(196), Char(65)>>,
          <<Bare(134), Char(128512), Char(67)>>, <<Char(33), Bare(233)>>,
          <<Bare(232), Char(65), Char(66)>>}
MCPages == {<<Call(t, x, 0, 1, FALSE)>> : t \in Texts, x \in {0, 5}}
           \cup {<<Call(t, 4, 4, s, TRUE)>> : t \in Texts, s \in {1, 2}}
           \cup {<<Call(<<Char(65)>>, 1, 2, 1, FALSE), Call(<<Bare(233), Char(66)>>, 8, 0, 2, TRUE)>>}

-------------------------------------------------------------------------------
(* Sticks of each kind, at rest, off their centre by as much as none has to be *)
(* silent for, pushed a part of their way and to their ends. *)

Ps4(x, y, dpad) == [x |-> x, y |-> y, dpad |-> dpad, cross |-> x = y, r2_trigger |-> x]
Xbox(b, x, y) == [buttons |-> b, trigger |-> 0, x |-> x, y |-> y]
MCStickReports ==
    [hid |-> {Hid(8, x, y) : x \in {0, 128, 200, 255}, y \in {0, 127, 128, 255}}
             \cup {Hid(16, x, y) : x \in {32768, 65281, 32767}, y \in {32768, 255, 32767}},
     ps4 |-> {Ps4(x, y, 8) : x \in {0, 100, 128, 255}, y \in {0, 128, 255}}
             \cup {Ps4(x, 128, 7) : x \in {0, 128}},
     xbox |-> {Xbox({}, x, y) : x \in {-32768, -255, 16000, 32767}, y \in {-32768, 255, 32767}}
              \cup {Xbox({"a", "up"}, x, 255) : x \in {-32768, -255}}]
================================================================================
