-------------------------------- MODULE HidParser --------------------------------
(***************************************************************************)
(* USB_ProcessHIDReport of hidparser/HIDParser.c, one item of the report    *)
(* descriptor per step, the filter that hid_app_host.c gives it and what    *)
(* tuh_hid_mount_cb takes the device for.  A descriptor is a sequence of    *)
(* short items [op, ...]; numbers, units and the logical ranges that no     *)
(* code here reads are left out.  open and fields are history: the          *)
(* collections that are open and the data fields declared so far, as a      *)
(* reader of the descriptor sees them.                                      *)
(***************************************************************************)
EXTENDS Integers, SequencesExt

CONSTANTS
    Devices,        \* [protocol, items]: interfaces that are plugged in
    StackDepth,     \* HID_STATETABLE_STACK_DEPTH
    UsageDepth,     \* HID_USAGE_STACK_DEPTH
    MaxPaths,       \* HID_MAX_COLLECTIONS
    MaxItems,       \* HID_MAX_REPORTITEMS
    MaxReportIds    \* HID_MAX_REPORT_IDS

VARIABLES
    device,     \* the interface that is being mounted
    desc,       \* the items that are still to be parsed
    p,          \* the parser: its locals and ParserData
    open,       \* history: the usages of the open collections, outermost first
    fields,     \* history: the fields declared, one for each of a count
    idRestored  \* history: a pop has brought back another report id

vars == <<device, desc, p, open, fields, idRestored>>

Desktop == 1
Keypad == 7
Button == 9
MouseUsage == 2
JoystickUsage == 4
XUsage == 48
YUsage == 49
Types == {"in", "out", "feature"}

Start ==
    [tables |-> <<[page |-> 0, size |-> 0, count |-> 0, id |-> 0]>>,
     usages |-> <<>>, min |-> 0, max |-> 0,
     paths |-> [k \in 1 .. MaxPaths |-> [page |-> 0, usage |-> 0, parent |-> 0]],
     cur |-> 0,
     sizes |-> <<[id |-> 0, bits |-> [t \in Types |-> 0]]>>, report |-> 1,
     usingIds |-> FALSE, items |-> <<>>, filter |-> "undefined", result |-> "parsing"]

Table(s) == Last(s.tables)
SetTable(s, t) == [s EXCEPT !.tables = Append(Front(@), t)]
Fail(s, error) == [s EXCEPT !.result = error]

-------------------------------------------------------------------------------
(* Global items. *)

Push(s) ==
    IF Len(s.tables) = StackDepth THEN Fail(s, "HIDStackOverflow")
    ELSE [s EXCEPT !.tables = Append(@, Last(@))]

Pop(s) ==
    IF Len(s.tables) = 1 THEN Fail(s, "HIDStackUnderflow")
    ELSE [s EXCEPT !.tables = Front(@)]

\* The first id takes the place of the report without one.
ReportId(s, id) ==
    LET t == SetTable(s, [Table(s) EXCEPT !.id = id])
        known == {k \in DOMAIN s.sizes : s.sizes[k].id = id}
    IN  IF ~s.usingIds
        THEN [t EXCEPT !.usingIds = TRUE, !.sizes[t.report].id = id]
        ELSE IF known # {}
        THEN [t EXCEPT !.report = CHOOSE k \in known : \A j \in known : k <= j]
        ELSE IF Len(s.sizes) = MaxReportIds
        THEN Fail(t, "InsufficientReportIDItems")
        ELSE [t EXCEPT !.sizes = Append(@, [id |-> id, bits |-> [x \in Types |-> 0]]),
                       !.report = Len(s.sizes) + 1]

-------------------------------------------------------------------------------
(* Local items. *)

\* A long usage brings its page with it.
UsageOneMore(s, item) ==
    IF Len(s.usages) > UsageDepth THEN Fail(s, "UsageListOverflow")
    ELSE [s EXCEPT !.usages = Append(@, item.v)]
Usage(s, item) ==
    IF Len(s.usages) = UsageDepth THEN Fail(s, "UsageListOverflow")
    ELSE [SetTable(s, [Table(s) EXCEPT !.page = IF "page" \in DOMAIN item THEN item.page ELSE @])
            EXCEPT !.usages = Append(@, item.v)]

\* The usage of the next field or collection, and the locals without it.
NextUsage(s) ==
    IF s.usages # <<>> THEN Head(s.usages)
    ELSE IF s.min <= s.max THEN s.min ELSE 0
TakeUsageLast(s) ==
    IF s.usages # <<>> THEN [s EXCEPT !.usages = Front(@)]
    ELSE IF s.min <= s.max THEN [s EXCEPT !.min = @ + 1] ELSE s
TakeUsage(s) ==
    IF s.usages # <<>> THEN [s EXCEPT !.usages = Tail(@)]
    ELSE IF s.min <= s.max THEN [s EXCEPT !.min = @ + 1] ELSE s

Locals(s) == [s EXCEPT !.usages = <<>>, !.min = 0, !.max = 0]

-------------------------------------------------------------------------------
(* Collections. *)

\* An outermost collection has the first path, a nested one the next that was
\* never used.
Collection(s) ==
    LET free == {k \in 2 .. MaxPaths : s.paths[k].parent = 0}
        next == CHOOSE k \in free : \A j \in free : k <= j
        k == IF s.cur = 0 THEN 1 ELSE next
    IN  IF s.cur # 0 /\ free = {} THEN Fail(s, "InsufficientCollectionPaths")
        ELSE [TakeUsage(s) EXCEPT
                !.cur = k,
                !.paths[k] = [page |-> Table(s).page, usage |-> NextUsage(s),
                              parent |-> s.cur]]

EndCollectionToTop(s) ==
    IF s.cur = 0 THEN Fail(s, "UnexpectedEndCollection") ELSE [s EXCEPT !.cur = 0]
EndCollection(s) ==
    IF s.cur = 0 THEN Fail(s, "UnexpectedEndCollection")
    ELSE [s EXCEPT !.cur = s.paths[@].parent]

\* The paths from k to its outermost parent.
Chain(s, k) ==
    LET up[j \in 0 .. MaxPaths] == IF j = 0 THEN <<>> ELSE <<j>> \o up[s.paths[j].parent]
    IN  up[k]

-------------------------------------------------------------------------------
(* Fields. *)

\* CALLBACK_HIDParser_FilterHIDReportItem: what the interface is, once known.
Decides(page, usage) ==
    IF page # Desktop THEN "undefined"
    ELSE IF usage = JoystickUsage THEN "joystick"
    ELSE IF usage = MouseUsage THEN "mouse" ELSE "undefined"
FilterAxesFirst(s, item) ==
    LET path == s.paths[s.cur]
    IN  IF s.filter # "undefined" THEN s.filter
        ELSE IF item.page = Desktop /\ item.usage \in {XUsage, YUsage} THEN "mouse"
        ELSE IF s.cur # 0 THEN Decides(path.page, path.usage) ELSE "undefined"
Filter(s, item) ==
    LET chain == Chain(s, s.cur)
        kind(j) == Decides(s.paths[chain[j]].page, s.paths[chain[j]].usage)
        known == {j \in DOMAIN chain : kind(j) # "undefined"}
    IN  IF s.filter # "undefined" THEN s.filter
        ELSE IF known # {} THEN kind(CHOOSE j \in known : \A k \in known : j <= k)
        ELSE IF item.page = Desktop /\ item.usage \in {XUsage, YUsage} THEN "mouse"
        ELSE "undefined"
Wanted(filter, item) == filter # "undefined" /\ item.page \in {Button, Desktop}

\* One field of an input, output or feature item.  A constant one has its bits
\* and never reaches the filter.
FieldBefore(s, type, constant) ==
    LET t == Table(s)
        taken == TakeUsage(s)
        bits == s.sizes[s.report].bits[type]
        item == [id |-> t.id, type |-> type, offset |-> bits, size |-> t.size,
                 page |-> t.page, usage |-> NextUsage(s)]
        filter == IF constant THEN s.filter ELSE Filter(s, item)
    IN  IF s.result # "parsing" THEN s
        ELSE IF Len(s.items) = MaxItems THEN Fail(s, "InsufficientReportItems")
        ELSE [taken EXCEPT
                !.sizes[s.report].bits[type] = IF constant THEN @ ELSE @ + t.size,
                !.filter = filter,
                !.items = IF ~constant /\ Wanted(filter, item) THEN Append(@, item) ELSE @]
Field(s, type, constant) ==
    LET t == Table(s)
        taken == TakeUsage(s)
        bits == s.sizes[s.report].bits[type]
        item == [id |-> t.id, type |-> type, offset |-> bits, size |-> t.size,
                 page |-> t.page, usage |-> NextUsage(s)]
        filter == IF constant THEN s.filter ELSE Filter(s, item)
    IN  IF s.result # "parsing" THEN s
        ELSE IF Len(s.items) = MaxItems THEN Fail(s, "InsufficientReportItems")
        ELSE [taken EXCEPT
                !.sizes[s.report].bits[type] = @ + t.size,
                !.filter = filter,
                !.items = IF ~constant /\ Wanted(filter, item) THEN Append(@, item) ELSE @]

Main(s, item) ==
    FoldLeft(LAMBDA r, k : Field(r, item.op, item.constant), s, [k \in 1 .. Table(s).count |-> k])

-------------------------------------------------------------------------------
\* The switch of USB_ProcessHIDReport; main items end the life of the locals.
\* A size or a count is kept in a byte.
Parsed(s, item) ==
    CASE item.op = "push" -> Push(s)
      [] item.op = "pop" -> Pop(s)
      [] item.op = "page" -> SetTable(s, [Table(s) EXCEPT !.page = item.v])
      [] item.op = "size" -> SetTable(s, [Table(s) EXCEPT !.size = item.v % 256])
      [] item.op = "count" -> SetTable(s, [Table(s) EXCEPT !.count = item.v % 256])
      [] item.op = "id" -> ReportId(s, item.v)
      [] item.op = "usage" -> Usage(s, item)
      [] item.op = "min" -> [s EXCEPT !.min = item.v]
      [] item.op = "max" -> [s EXCEPT !.max = item.v]
      [] item.op = "collection" -> Locals(Collection(s))
      [] item.op = "end" -> Locals(EndCollection(s))
      [] item.op \in Types -> Locals(Main(s, item))

Finished(s) == IF s.items = <<>> THEN "NoUnfilteredReportItems" ELSE "Successful"

\* tuh_hid_mount_cb: what the interface is taken for.
MountedAs(protocol, s) ==
    CASE protocol = "keyboard" ->
            IF s.result = "Successful" /\ s.filter = "mouse" THEN "mouse" ELSE "keyboard"
      [] protocol = "mouse" -> "mouse"
      [] protocol = "none" -> IF s.result = "Successful" THEN s.filter ELSE "undefined"

-------------------------------------------------------------------------------
(* Reports, as the set of their bits that are one. *)

\* USB_SetHIDReportItemInfo and USB_GetHIDReportItemInfo: the value of an item
\* as the set of its bits.
SetItem(report, item, value) == report \cup {item.offset + b : b \in value}
GetItem(report, item) == {b \in 0 .. (item.size - 1) : item.offset + b \in report}

\* USB_GetHIDReportSize, in bytes
ReportSize(s, id, type) ==
    LET known == {k \in DOMAIN s.sizes : s.sizes[k].id = id}
        bits == s.sizes[CHOOSE k \in known : \A j \in known : k <= j].bits[type]
    IN  IF known = {} THEN 0 ELSE (bits + 7) \div 8

-------------------------------------------------------------------------------
(* History: what a reader of the descriptor understands. *)

Declared(s, item) ==
    [k \in 1 .. Table(s).count |->
        LET usages == s.usages
            usage == IF k <= Len(usages) THEN usages[k]
                     ELSE IF s.min + k - 1 - Len(usages) <= s.max THEN s.min + k - 1 - Len(usages)
                     ELSE 0
        IN  [id |-> Table(s).id, type |-> item.op, size |-> Table(s).size, page |-> Table(s).page,
             usage |-> usage, constant |-> item.constant, within |-> open]]

Opened(item) ==
    CASE item.op = "collection" -> Append(open, [page |-> Table(p).page, usage |-> NextUsage(p)])
      [] item.op = "end" /\ open # <<>> -> Front(open)
      [] OTHER -> open

-------------------------------------------------------------------------------
Init ==
    /\ device \in Devices
    /\ desc = device.items
    /\ p = Start
    /\ open = <<>> /\ fields = <<>> /\ idRestored = FALSE

ParseItem ==
    LET item == Head(desc)
        next == Parsed(p, item)
        left == IF next.result = "parsing" THEN Tail(desc) ELSE <<>>
    IN  /\ p.result = "parsing" /\ desc # <<>>
        /\ desc' = left
        /\ p' = IF next.result = "parsing" /\ left = <<>> THEN Fail(next, Finished(next)) ELSE next
        /\ open' = Opened(item)
        /\ fields' = IF item.op \in Types THEN fields \o Declared(p, item) ELSE fields
        /\ idRestored' = (idRestored \/ (item.op = "pop" /\ Table(next).id # Table(p).id))
        /\ UNCHANGED device

Next == ParseItem

Spec == Init /\ [][Next]_vars

-------------------------------------------------------------------------------
(* Properties. *)

\* The tables of the parser keep their bounds, and an index points into them.
TypeOK ==
    /\ Len(p.tables) \in 1 .. StackDepth
    /\ Len(p.usages) <= UsageDepth
    /\ p.cur \in 0 .. MaxPaths
    /\ Len(p.items) <= MaxItems
    /\ Len(p.sizes) \in 1 .. MaxReportIds /\ p.report \in DOMAIN p.sizes
    /\ p.filter \in {"undefined", "mouse", "joystick"}

Whole == p.result \in {"parsing", "Successful", "NoUnfilteredReportItems"}

\* While a descriptor is parsed the chain of paths is the collections that are
\* open, whatever was closed and opened before them.
PathIsNesting ==
    Whole =>
        LET chain == Chain(p, p.cur)
        IN  /\ Len(chain) = Len(open)
            /\ \A j \in DOMAIN chain :
                 LET path == p.paths[chain[j]]
                 IN  open[Len(open) + 1 - j] = [page |-> path.page, usage |-> path.usage]

\* A field that the handlers use: a button, an axis or a hat of a mouse or of a
\* joystick.
Control(f) ==
    /\ ~f.constant /\ f.page \in {Button, Desktop}
    /\ \E j \in DOMAIN f.within : Decides(f.within[j].page, f.within[j].usage) # "undefined"

\* The bits of the report that come before a field.
BitsBefore(k) ==
    FoldLeft(LAMBDA sum, f : IF f.id = fields[k].id /\ f.type = fields[k].type
                             THEN sum + f.size ELSE sum,
             0, SubSeq(fields, 1, k - 1))

\* Every control of a mouse or a joystick is found, at its place in the report:
\* at the bits and with the usage that the descriptor gives it, past the
\* padding, the constant fields and the other collections, in whatever way its
\* reports are numbered.  Except: a pop that brings back another report id, for
\* the parser goes on counting in the report of the id it had.
ControlsFound ==
    Whole /\ ~idRestored =>
        \A k \in DOMAIN fields : Control(fields[k]) =>
            \E j \in DOMAIN p.items :
                p.items[j] = [id |-> fields[k].id, type |-> fields[k].type,
                              offset |-> BitsBefore(k), size |-> fields[k].size,
                              page |-> fields[k].page, usage |-> fields[k].usage]

\* A report of the device can be written and read item by item: no two items
\* share a bit, and all lie in the report of the size that is asked for.
ItemsApart ==
    p.result = "Successful" /\ ~idRestored =>
        \A j \in DOMAIN p.items :
            LET item == p.items[j]
                others == {k \in DOMAIN p.items \ {j} :
                             p.items[k].id = item.id /\ p.items[k].type = item.type}
                full == UNION {SetItem({}, p.items[k], 0 .. (p.items[k].size - 1)) : k \in others}
            IN  /\ GetItem(full, item) = {}
                /\ item.offset + item.size <= 8 * ReportSize(p, item.id, item.type)

\* An interface with a mouse or a joystick in it is not taken for another kind.
TypeDeclared ==
    p.result = "Successful" /\ device.protocol = "none" =>
        LET first == {k \in DOMAIN fields : ~fields[k].constant}
        IN  first # {} =>
              LET f == fields[CHOOSE k \in first : \A j \in first : k <= j]
                  kinds == {Decides(f.within[j].page, f.within[j].usage) : j \in DOMAIN f.within}
                              \ {"undefined"}
              IN  kinds # {} => MountedAs(device.protocol, p) \in kinds

\* The items that a device is read by are the ones its descriptor declares, and
\* the tables they were put together in kept their bounds.
TableTrue ==
    TypeOK /\ PathIsNesting /\ ControlsFound /\ ItemsApart /\ TypeDeclared
================================================================================
