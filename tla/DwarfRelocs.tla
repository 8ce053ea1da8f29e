---------------------------- MODULE DwarfRelocs ----------------------------
(***************************************************************************)
(* Relocating debug and unwind information (delink-emit, dwarf_relocs.rs   *)
(* and lib.rs) and reading it again once the linker has moved the          *)
(* functions.                                                              *)
(*                                                                         *)
(* A unit's object takes the unit's slices of .debug_info and .debug_line; *)
(* the shared object takes .eh_frame, .debug_ranges and .debug_loc, or     *)
(* .ARM.exidx, as they are.  Every section is walked from its start, an    *)
(* entry a step, and an address in it gets a relocation against the        *)
(* function it lies in.  Most of what these sections say is said of        *)
(* extents, from one address to another, and many of the addresses are     *)
(* distances from an earlier one, which the walk does not touch: whether   *)
(* an extent still covers the bytes it covered depends on both ends and on *)
(* how the linker packs the functions.                                     *)
(*                                                                         *)
(* Addresses count words of four bytes, the alignment emit_cu gives to     *)
(* functions.                                                              *)
(***************************************************************************)
EXTENDS Integers, Sequences, FiniteSets

CONSTANTS
  Images,      \* the programs that may be split
  Layouts(_),  \* what the linker may do with one: function -> new address
  Shift        \* the distance the linker moves the unwind sections

\* A program: its architecture, whether every function gets a section of its own,
\* its functions, and the sections.
\*   functions: [addr, size, unit], units being 1 .. units;
\*   info: unit -> sequence of entries, an entry being a sequence of attributes
\*     [attr, form, value];
\*   line: unit -> sequence of [op, value]: "set" an address; "row" and "end"
\*     add a row that far behind it, "end" the last of a sequence;
\*   ranges, loc: [kind, lo, hi, unit]: a "pair", the "end" of a list, or a
\*     "base" that hi makes the origin of the pairs behind it;
\*   frames: [kind, begin, size]: "cie", "fde", the "end" or a "long" record;
\*   index: [begin];
\*   variables, sections: the addresses of variables and slots of .got, and the data
\*     sections, [addr, size], which have symbols too.
\* The form "unknown" stands for every reason to give up a slice.

\* The origin of .debug_str, which the linker moves like a function.
Strings == 0

\* The linker keeps functions apart, and those of one section behind each other.
Linkable(img, l) ==
  /\ l \in [{f.addr : f \in img.functions \cup img.sections} \cup img.variables \cup {Strings}
              -> Nat]
  /\ \A f, g \in img.functions :
       f # g => l[f.addr] + f.size <= l[g.addr] \/ l[g.addr] + g.size <= l[f.addr]
  /\ ~img.perFunction =>
       \A f, g \in img.functions :
         /\ f.unit = g.unit /\ f.addr < g.addr
         /\ ~\E h \in img.functions : h.unit = f.unit /\ f.addr < h.addr /\ h.addr < g.addr
         => l[g.addr] = l[f.addr] + f.size

ASSUME DwarfAssumption ==
  /\ Shift \in Int
  /\ \A img \in Images :
       /\ img.units \in Nat
       /\ \A f \in img.functions : f.addr \in Nat \ {Strings} /\ f.size \in Nat \ {0}
       /\ \A l \in Layouts(img) : Linkable(img, l)

\* Functions share no byte.
FunctionsApart(img) ==
  \A f, g \in img.functions :
    f # g => f.addr + f.size <= g.addr \/ g.addr + g.size <= f.addr

\* The unwind information is that of functions the resolver knows: every record is
\* of a part of one of them.
Described(img) ==
  /\ FunctionsApart(img)
  /\ img.frames \in Seq([kind : {"cie", "fde", "end"}, begin : Int, size : Nat])
  /\ \A k \in DOMAIN img.frames :
       img.frames[k].kind = "fde" =>
         \E f \in img.functions :
           /\ f.addr <= img.frames[k].begin /\ img.frames[k].begin < f.addr + f.size
           /\ img.frames[k].begin + img.frames[k].size <= f.addr + f.size
  /\ img.index \in Seq([begin : Int])
  /\ \A k \in DOMAIN img.index :
       \E f \in img.functions :
         /\ f.addr <= img.index[k].begin /\ img.index[k].begin < f.addr + f.size
         /\ img.index[k].begin = f.addr \/ img.index[k].begin \notin img.variables

VARIABLES
  image,
  walk,     \* how many sections have been walked
  cursor,   \* entries of the current section that have been visited
  found,    \* relocations of the current section
  relocs,   \* those attached to the sections before
  layout    \* what the linker did, <<>> before

vars == <<image, walk, cursor, found, relocs, layout>>

-----------------------------------------------------------------------------
(* The functions an address may lie in *)

Below(a) == {f \in image.functions : f.addr <= a}

\* range(..=addr).next_back(); an exact hit is its last element.
Nearest(a) == {f \in Below(a) : \A g \in Below(a) : g.addr <= f.addr}

\* resolve_addr, fde_resolve_target.
\* Mutant: only the first address of a function resolves.
ResolveStart(a) == {f \in Nearest(a) : a = f.addr}

ResolveAddr(a) == {f \in Nearest(a) : a < f.addr + f.size}

\* resolve_addr_including_end.
\* Mutant: the end of a function is looked up like any other address.
EndIsOutside(a) == ResolveAddr(a)

ResolveIncludingEnd(a) == {f \in Nearest(a) : a <= f.addr + f.size}

\* resolve_target_name: the start of a function, a variable, a byte inside a
\* function, a byte of a data section.
ResolveTarget(a) ==
  LET start    == {f \in image.functions : f.addr = a}
      variable == {[addr |-> v] : v \in image.variables \cap {a}}
  IN  IF start # {} THEN start
      ELSE IF variable # {} THEN variable
      ELSE IF ResolveAddr(a) # {} THEN ResolveAddr(a)
      ELSE {s \in image.sections : s.addr <= a /\ a < s.addr + s.size}

\* A relocation of the field at a place against the functions that own an address.
Reloc(at, owners, a) == {[at |-> at, f |-> f.addr, addend |-> a - f.addr] : f \in owners}

-----------------------------------------------------------------------------
(* The sections, in the order of the walk: units first, shared ones last.    *)
(* Workers share nothing, so one unit after the other is as good as all at   *)
(* once.                                                                     *)

Count == IF image.arch = "arm" THEN 1 ELSE 2 * image.units + 3

UnitSection(k) == <<IF k % 2 = 1 THEN "info" ELSE "line", (k + 1) \div 2>>
SharedSection == [k \in 1..3 |-> <<<<"frames", "ranges", "loc">>[k], 0>>]

Section(k) ==
  IF image.arch = "arm" THEN <<"index", 0>>
  ELSE IF k <= 2 * image.units THEN UnitSection(k) ELSE SharedSection[k - 2 * image.units]

Contents(s) ==
  CASE s[1] = "info" -> image.info[s[2]]
    [] s[1] = "line" -> image.line[s[2]]
    [] s[1] = "frames" -> image.frames
    [] s[1] = "ranges" -> image.ranges
    [] s[1] = "loc" -> image.loc
    [] s[1] = "index" -> image.index

Walking == walk < Count
Here == Section(walk + 1)
Entry == Contents(Here)[cursor + 1]
At(name) == Walking /\ Here[1] = name /\ cursor < Len(Contents(Here))
Place(field) == <<Here, cursor + 1, field>>

Init ==
  /\ image \in Images
  /\ walk = 0 /\ cursor = 0
  /\ found = {} /\ relocs = {}
  /\ layout = <<>>

\* The entry yields some relocations and the walk goes on.
Visit(new) ==
  /\ found' = found \cup new
  /\ cursor' = cursor + 1
  /\ UNCHANGED <<image, walk, relocs, layout>>

\* The walk of the section ends here with some relocations.
Leave(final) ==
  /\ relocs' = relocs \cup final
  /\ found' = {}
  /\ walk' = walk + 1
  /\ cursor' = 0
  /\ UNCHANGED <<image, layout>>

-----------------------------------------------------------------------------
(* What a step of each walk does *)

Relocated == {"low_pc", "high_pc", "entry_pc"}

AttrRelocs(entry) ==
  (UNION {Reloc(Place(k), ResolveAddr(entry[k].value), entry[k].value) :
            k \in {j \in DOMAIN entry : /\ entry[j].form = "addr" /\ entry[j].value # 0
                                        /\ entry[j].attr \in Relocated}})
    \cup {[at |-> Place(k), f |-> Strings, addend |-> entry[k].value] :
            k \in {j \in DOMAIN entry : entry[j].form = "strp"}}

Readable(entry) == \A k \in DOMAIN entry : entry[k].form # "unknown"

\* scan_debug_info: an attribute that cannot be skipped loses the whole slice.
ScanInfo == At("info") /\ Readable(Entry) /\ Visit(AttrRelocs(Entry))
InfoFails == At("info") /\ ~Readable(Entry) /\ Leave({})

\* scan_debug_line.
LineRelocs(op) ==
  IF op.op = "set" /\ op.value # 0
  THEN Reloc(Place(1), ResolveAddr(op.value), op.value) ELSE {}

ScanLine == At("line") /\ Visit(LineRelocs(Entry))

\* emit_addr_pair, emit_loc_pair.  Terminators and bases are passed over.
PairRelocs(e) ==
  IF e.kind # "pair" THEN {}
  ELSE Reloc(Place(1), ResolveAddr(e.lo), e.lo)
         \cup (IF e.hi = 0 THEN {} ELSE Reloc(Place(2), ResolveIncludingEnd(e.hi), e.hi))

ScanRanges == At("ranges") /\ Visit(PairRelocs(Entry))
ScanLoc == At("loc") /\ Visit(PairRelocs(Entry))

\* translate_eh_frame: the walk stops at a terminator and at a 64-bit record.
FrameRelocs(r) ==
  IF r.kind = "fde" THEN Reloc(Place(1), ResolveAddr(r.begin), r.begin) ELSE {}

ScanFrames ==
  At("frames") /\ Entry.kind \in {"cie", "fde"} /\ Visit(FrameRelocs(Entry))
FramesStop ==
  At("frames") /\ Entry.kind \in {"end", "long"} /\ Leave(found)

\* emit_arm_unwind.
ScanIndex == At("index") /\ Visit(Reloc(Place(1), ResolveTarget(Entry.begin), Entry.begin))

EndOfSection == Walking /\ cursor = Len(Contents(Here)) /\ Leave(found)

\* The linker places the functions.
Link ==
  /\ ~Walking /\ layout = <<>>
  /\ layout' \in Layouts(image)
  /\ UNCHANGED <<image, walk, cursor, found, relocs>>

Linked == layout # <<>>
Done == Linked /\ UNCHANGED vars

Next ==
  \/ ScanInfo \/ InfoFails \/ ScanLine \/ ScanFrames \/ FramesStop \/ ScanRanges \/ ScanLoc
  \/ ScanIndex \/ EndOfSection
  \/ Link \/ Done

Spec == Init /\ [][Next]_vars

-----------------------------------------------------------------------------
(* Reading the sections, before (new = FALSE) and after the link *)

Origin(new, f) == IF new THEN layout[f.addr] ELSE f.addr

\* What the field at a place holds: the linker's sum, or what it always held.
Held(new, at, raw) ==
  IF new /\ \E r \in relocs : r.at = at
  THEN LET r == CHOOSE x \in relocs : x.at = at IN layout[r.f] + r.addend
  ELSE raw

\* The same for a field that holds a distance from itself.
HeldRelative(new, at, raw) ==
  IF new /\ ~\E r \in relocs : r.at = at THEN raw + Shift ELSE Held(new, at, raw)

Bytes(new, lo, hi) ==
  UNION {{<<f.addr, k>> : k \in {i \in 0..(f.size - 1) : Origin(new, f) + i \in lo..(hi - 1)}} :
           f \in image.functions}

\* The places of an attribute in an entry of a unit.
Attributes(u, d, attr) ==
  {k \in DOMAIN image.info[u][d] : image.info[u][d][k].attr = attr}
Attribute(new, u, d, k) == Held(new, <<<<"info", u>>, d, k>>, image.info[u][d][k].value)

\* An extent: which one it is, and the bytes of functions it covers.
Extent(new, id, lo, hi) == [id |-> id, bytes |-> Bytes(new, lo, hi)]

\* low_pc to high_pc, which is an address or a length.
Entries(new, u, d) ==
  {Extent(new, <<"info", u, d>>, Attribute(new, u, d, i),
          Attribute(new, u, d, j)
            + IF image.info[u][d][j].form = "addr" THEN 0 ELSE Attribute(new, u, d, i)) :
     i \in Attributes(u, d, "low_pc"), j \in Attributes(u, d, "high_pc")}

\* Attributes that name one instruction.
Points(new, u, d) ==
  {Extent(new, <<"info", u, d, k>>, Attribute(new, u, d, k), Attribute(new, u, d, k) + 1) :
     k \in Attributes(u, d, "entry_pc") \cup Attributes(u, d, "call_pc")}

\* Strings, by their offsets.
Texts(new, u, d) ==
  {[id |-> <<"info", u, d, k>>,
    bytes |-> {<<Strings, Attribute(new, u, d, k) - IF new THEN layout[Strings] ELSE 0>>}] :
     k \in {j \in DOMAIN image.info[u][d] : image.info[u][d][j].form = "strp"}}

InfoExtents(new) ==
  UNION {UNION {Entries(new, u, d) \cup Points(new, u, d) \cup Texts(new, u, d) : d \in DOMAIN image.info[u]} :
           u \in 1..image.units}

\* The rows of a line table, and the address of one: so far behind what was set last.
Rows(ops) == {k \in DOMAIN ops : ops[k].op \in {"row", "end"}}
IsNext(ops, k, m) == k < m /\ ~\E n \in Rows(ops) : k < n /\ n < m
LastSets(ops, k) ==
  {j \in DOMAIN ops : j <= k /\ ops[j].op = "set" /\ \A n \in (j + 1)..k : ops[n].op # "set"}

RowAddress(new, u, k) ==
  LET ops == image.line[u]
      j == CHOOSE i \in LastSets(ops, k) : TRUE
  IN  IF LastSets(ops, k) = {} THEN ops[k].value
      ELSE Held(new, <<<<"line", u>>, j, 1>>, ops[j].value) + ops[k].value

\* From each row of the line table to the next.
LineExtents(new) ==
  UNION {{Extent(new, <<"line", u, k>>, RowAddress(new, u, k),
                 RowAddress(new, u, CHOOSE m \in Rows(image.line[u]) : IsNext(image.line[u], k, m))) :
            k \in {m \in Rows(image.line[u]) : image.line[u][m].op = "row"}} :
           u \in 1..image.units}

\* The origin of the pairs of a list: a base in front of them, or the unit's low_pc.
Starts(info) == IF info = <<>> THEN {} ELSE {k \in DOMAIN info[1] : info[1][k].attr = "low_pc"}
UnitBase(new, u) ==
  IF Starts(image.info[u]) = {} THEN 0
  ELSE Attribute(new, u, 1, CHOOSE k \in Starts(image.info[u]) : TRUE)

LastBases(list, k) ==
  {j \in 1..(k - 1) : /\ list[j].kind = "base"
                      /\ \A m \in (j + 1)..k : list[m].kind \notin {"base", "end"}}

Base(new, list, k) ==
  IF LastBases(list, k) = {} THEN UnitBase(new, list[k].unit)
  ELSE list[CHOOSE j \in LastBases(list, k) : TRUE].hi

Pairs(list) == {k \in DOMAIN list : list[k].kind = "pair"}

ListExtents(new, name, list) ==
  {Extent(new, <<name, k>>, Base(new, list, k) + Held(new, <<<<name, 0>>, k, 1>>, list[k].lo),
          Base(new, list, k) + Held(new, <<<<name, 0>>, k, 2>>, list[k].hi)) :
     k \in Pairs(list)}

Extents(new) ==
  InfoExtents(new) \cup LineExtents(new)
    \cup ListExtents(new, "ranges", image.ranges) \cup ListExtents(new, "loc", image.loc)

\* The records of .eh_frame that describe the code at an address; a reader stops at
\* the terminator too.
Begin(new, k) == HeldRelative(new, <<<<"frames", 0>>, k, 1>>, image.frames[k].begin)
Frames(new, a) ==
  {k \in DOMAIN image.frames :
     /\ image.frames[k].kind = "fde"
     /\ \A j \in 1..k : image.frames[j].kind # "end"
     /\ a \in Begin(new, k)..(Begin(new, k) + image.frames[k].size - 1)}

\* Where a binary search of .ARM.exidx for an address may end.
IndexBegin(new, k) == HeldRelative(new, <<<<"index", 0>>, k, 1>>, image.index[k].begin)
Indexed(new, a) ==
  {k \in DOMAIN image.index :
     /\ IndexBegin(new, k) <= a
     /\ k < Len(image.index) => a < IndexBegin(new, k + 1)}

Found(new, a) == IF image.arch = "arm" THEN Indexed(new, a) ELSE Frames(new, a)

-----------------------------------------------------------------------------
(* Provisions: what debug information that survives the link is like *)

In(f, a) == f.addr <= a /\ a < f.addr + f.size

\* What is described lies in a function, or in functions the linker keeps together.
Spans(img, lo, hi) ==
  \E f \in img.functions :
    /\ In(f, lo)
    /\ \/ hi <= f.addr + f.size
       \/ /\ ~img.perFunction
          /\ \A a \in lo..(hi - 1) : \E g \in img.functions : g.unit = f.unit /\ In(g, a)

\* What described dropped code lies where no function is, nor gets.
Unused(img, lo, hi) ==
  \A f \in img.functions : \A a \in {f.addr} \cup {l[f.addr] : l \in Layouts(img)} :
    hi <= a \/ a + f.size <= lo

\* A distance is no address of a function.
IsDistance(img, a) == \A f \in img.functions : a < f.addr \/ f.addr + f.size < a

\* The end of a function is given as its length; nothing tells the place of a call.
EntryTold(img, entry) ==
  /\ \A k \in DOMAIN entry :
       /\ entry[k].attr # "call_pc"
       /\ entry[k].attr = "low_pc" => entry[k].form = "addr"
       /\ entry[k].attr = "high_pc" => entry[k].form = "data"
       /\ entry[k].attr = "entry_pc" =>
            entry[k].form = "addr" /\ Spans(img, entry[k].value, entry[k].value + 1)
  /\ \A i, j \in DOMAIN entry :
       entry[i].attr = "low_pc" /\ entry[j].attr = "high_pc" =>
         IF entry[i].value = 0 THEN Unused(img, 0, entry[j].value)
         ELSE Spans(img, entry[i].value, entry[i].value + entry[j].value)

\* A slice is read to its end, or tells nothing.
UnitTold(img, info) ==
  \/ \A d \in DOMAIN info : Readable(info[d]) /\ EntryTold(img, info[d])
  \/ \A d \in DOMAIN info : \A k \in DOMAIN info[d] :
       /\ info[d][k].attr \notin {"low_pc", "high_pc", "entry_pc", "call_pc"}
       /\ info[d][k].form # "strp"

\* From row to row, the functions between the addresses set last are kept together.
LineTold(img, ops) ==
  \A k \in Rows(ops) : ops[k].op = "row" =>
    \E m \in Rows(ops), i, j \in DOMAIN ops :
      /\ IsNext(ops, k, m) /\ i \in LastSets(ops, k) /\ j \in LastSets(ops, m)
      /\ \/ /\ i = j /\ ops[i].value = 0
            /\ Unused(img, ops[k].value, ops[m].value)
         \/ /\ 0 < ops[i].value /\ ops[i].value <= ops[j].value
            /\ Spans(img, ops[i].value, ops[j].value + ops[m].value)
            /\ i = j \/ Spans(img, ops[i].value, ops[j].value + 1)

\* A pair holds addresses, the second not that of another function, or distances
\* from the start of its unit.
PairTold(img, list, k) ==
  LET lo == list[k].lo
      hi == list[k].hi
      info == img.info[list[k].unit]
      starts == {info[1][i] : i \in Starts(info)}
      distances == IsDistance(img, lo) /\ IsDistance(img, hi)
  IN  /\ list[k].unit \in 1..img.units
      /\ \/ /\ \/ \E j \in LastBases(list, k) : list[j].hi = 0
               \/ LastBases(list, k) = {} /\ \A x \in starts : x.value = 0
            /\ \/ distances /\ Unused(img, lo, hi)
               \/ \E f \in img.functions :
                    /\ f.addr <= lo /\ lo < hi /\ hi <= f.addr + f.size
                    /\ \A g \in img.functions : g.addr # hi
         \/ /\ LastBases(list, k) = {} /\ starts # {} /\ distances /\ lo >= 0
            /\ \A x \in starts : x.value # 0 /\ Spans(img, x.value, x.value + hi)

Told(img) ==
  /\ FunctionsApart(img)
  /\ \A u \in 1..img.units :
       /\ img.info[u] \in Seq(Seq([attr : STRING, form : STRING, value : Nat]))
       /\ img.line[u] \in Seq([op : STRING, value : Nat])
       /\ UnitTold(img, img.info[u]) /\ LineTold(img, img.line[u])
  /\ \A list \in {img.ranges, img.loc} :
       /\ list \in Seq([kind : {"pair", "end", "base"}, lo : Int, hi : Nat, unit : Nat])
       /\ \A k \in Pairs(list) : PairTold(img, list, k)
  /\ img.arch = "arm" => img.units = 0 /\ img.ranges = <<>> /\ img.loc = <<>>

-----------------------------------------------------------------------------
(* Properties *)

\* Every extent the debug information describes (a function, a lexical block, a
\* row of the line table, the range of a location) covers after the link the
\* very bytes it covered before, wherever the functions went.
ExtentsFollow == Linked => Extents(TRUE) = Extents(FALSE)

\* The functions are in the order they were in.
InOrder == \A f, g \in image.functions : f.addr < g.addr => layout[f.addr] < layout[g.addr]

\* Unwinding from any instruction finds the record it found before.  The index
\* of ARM is searched, so there the functions have to stay in order.
UnwindFinds ==
  Linked /\ (image.arch = "arm" => InOrder) =>
    \A f \in image.functions : \A i \in 0..(f.size - 1) :
      Found(TRUE, layout[f.addr] + i) = Found(FALSE, f.addr + i)

\* The same without the provision.
IndexFinds ==
  Linked => \A f \in image.functions : \A i \in 0..(f.size - 1) :
    Found(TRUE, layout[f.addr] + i) = Found(FALSE, f.addr + i)
=============================================================================
