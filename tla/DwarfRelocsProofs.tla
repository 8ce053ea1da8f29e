------------------------- MODULE DwarfRelocsProofs -------------------------
(***************************************************************************)
(* Unwinding works after the link, and debug information describes what it *)
(* described, for any number of units, functions and records and whatever  *)
(* the linker does, if the records are those of functions the resolver     *)
(* knows and tell only what can be told of functions that move.            *)
(***************************************************************************)
EXTENDS DwarfRelocs, WellFoundedInduction, TLAPS

\* The walk of the unwind section and the addresses in it, each at its place; what
\* is behind a terminator is not looked at.
Unwind == IF image.arch = "arm" THEN 0 ELSE 2 * image.units

Readers(k) == \A j \in 1..k : image.frames[j].kind # "end"

Fields ==
  IF image.arch = "arm"
  THEN {[at |-> <<<<"index", 0>>, k, 1>>, k |-> k, a |-> image.index[k].begin] :
          k \in DOMAIN image.index}
  ELSE {[at |-> <<<<"frames", 0>>, k, 1>>, k |-> k, a |-> image.frames[k].begin] :
          k \in {j \in DOMAIN image.frames : image.frames[j].kind = "fde" /\ Readers(j)}}

OfUnwind(r) == r.at[1][1] \in {"frames", "index"}

TypeInv ==
  /\ image \in Images
  /\ walk \in Nat /\ cursor \in Nat
  /\ Linked => layout \in Layouts(image) /\ ~Walking

\* No terminator has been passed.
BeforeEnd == walk = Unwind /\ image.arch # "arm" => Readers(cursor)

\* Relocations of the unwind section come from one of its addresses.
RelocsReal ==
  \A r \in relocs \cup found :
    OfUnwind(r) => \E x \in Fields : r \in Reloc(x.at, ResolveAddr(x.a), x.a)

\* The relocations of a slice that is given up are of another section.
FoundHere == walk # Unwind => \A r \in found : ~OfUnwind(r)

\* The addresses that have been passed have their relocations.
Passed(x) == walk > Unwind \/ (walk = Unwind /\ x.k <= cursor)
RelocsComplete ==
  \A x \in Fields : Passed(x) => Reloc(x.at, ResolveAddr(x.a), x.a) \subseteq relocs \cup found

IInv == TypeInv /\ BeforeEnd /\ RelocsReal /\ FoundHere /\ RelocsComplete

-----------------------------------------------------------------------------
(* The order of the sections *)

\* The walk is at its unwind section when that is what it reads, and only then.
LEMMA WhereUnwindIs ==
  ASSUME TypeInv, Walking
  PROVE  /\ Here[1] = "frames" <=> image.arch # "arm" /\ walk = Unwind
         /\ Here[1] = "index" <=> image.arch = "arm"
         /\ image.arch = "arm" => walk = Unwind
         /\ Here[1] = "frames" => Here = <<"frames", 0>> /\ Contents(Here) = image.frames
         /\ Here[1] = "index" => Here = <<"index", 0>> /\ Contents(Here) = image.index
<1>1. image.units \in Nat /\ walk \in Nat
  BY DwarfAssumption DEF TypeInv
<1>2. CASE image.arch = "arm"
  <2>1. Here = <<"index", 0>>
    BY <1>2 DEF Here, Section
  <2>2. walk = Unwind
    BY <1>1, <1>2 DEF Walking, Count, Unwind
  <2> QED
    BY <1>2, <2>1, <2>2 DEF Contents
<1>3. CASE image.arch # "arm"
  <2>1. CASE walk + 1 <= 2 * image.units
    <3>1. Here = UnitSection(walk + 1)
      BY <1>3, <2>1 DEF Here, Section
    <3>2. Here[1] \in {"info", "line"}
      BY <3>1 DEF UnitSection
    <3> QED
      BY <1>1, <1>3, <2>1, <3>2 DEF Unwind
  <2>2. CASE walk = 2 * image.units
    <3>1. Here = SharedSection[1]
      BY <1>1, <1>3, <2>2 DEF Here, Section
    <3>2. Here = <<"frames", 0>>
      BY <3>1 DEF SharedSection
    <3> QED
      BY <1>1, <1>3, <2>2, <3>2 DEF Unwind, Contents
  <2>3. CASE walk > 2 * image.units
    <3>1. walk - 2 * image.units \in 1..2
      BY <1>1, <1>3, <2>3 DEF Walking, Count
    <3>2. Here = SharedSection[walk - 2 * image.units + 1]
      BY <1>1, <1>3, <2>3 DEF Here, Section
    <3>3. Here \in {<<"ranges", 0>>, <<"loc", 0>>}
      BY <1>1, <3>1, <3>2 DEF SharedSection
    <3> QED
      BY <1>1, <1>3, <2>3, <3>3 DEF Unwind
  <2> QED
    BY <1>1, <2>1, <2>2, <2>3
<1> QED
  BY <1>2, <1>3

-----------------------------------------------------------------------------
(* The function an address lies in *)

\* The elements of a sequence.
LEMMA Elements ==
  ASSUME NEW S, NEW s \in Seq(S), NEW k \in DOMAIN s
  PROVE  k \in 1..Len(s) /\ s[k] \in S
  OBVIOUS

LEMMA LastBelow ==
  ASSUME NEW fa \in Nat, NEW fs \in Nat, NEW ga \in Nat, NEW gs \in Nat \ {0}, NEW a \in Int,
         fa <= a, a < fa + fs, ga <= a, fa + fs <= ga \/ ga + gs <= fa
  PROVE  ga < fa
  OBVIOUS

LEMMA Owner ==
  ASSUME image \in Images, FunctionsApart(image), NEW f \in image.functions, NEW a \in Int,
         f.addr <= a, a < f.addr + f.size
  PROVE  ResolveAddr(a) = {f}
<1>1. \A g \in image.functions : g.addr \in Nat /\ g.size \in Nat \ {0}
  BY DwarfAssumption
<1>2. f \in Below(a)
  BY DEF Below
<1>3. \A g \in Below(a) : g # f => g.addr < f.addr
  <2>1. ASSUME NEW g \in Below(a), g # f PROVE g.addr < f.addr
    <3>1. g \in image.functions /\ g.addr <= a
      BY DEF Below
    <3>2. f.addr + f.size <= g.addr \/ g.addr + g.size <= f.addr
      BY <2>1, <3>1 DEF FunctionsApart
    <3>3. f.addr \in Nat /\ f.size \in Nat /\ g.addr \in Nat /\ g.size \in Nat \ {0}
      BY <1>1, <3>1
    <3> QED
      BY <3>1, <3>2, <3>3, LastBelow
  <2> QED
    BY <2>1
<1>4. Nearest(a) = {f}
  <2>1. ASSUME NEW g \in Below(a) PROVE g.addr <= f.addr
    <3>1. f.addr \in Nat /\ g.addr \in Nat
      BY <1>1 DEF Below
    <3> QED
      BY <1>3, <3>1
  <2>2. f \in Nearest(a)
    BY <1>2, <2>1 DEF Nearest
  <2>3. ASSUME NEW g \in Nearest(a) PROVE g = f
    <3>1. g \in Below(a) /\ f.addr <= g.addr /\ g.addr \in Nat /\ f.addr \in Nat
      BY <1>1, <1>2 DEF Nearest, Below
    <3> QED
      BY <1>3, <3>1
  <2> QED
    BY <2>2, <2>3
<1> QED
  BY <1>4 DEF ResolveAddr

\* The index of ARM is resolved differently, but names the function too.
LEMMA IndexTarget ==
  ASSUME image \in Images, Described(image), NEW k \in DOMAIN image.index
  PROVE  ResolveTarget(image.index[k].begin) = ResolveAddr(image.index[k].begin)
<1> DEFINE a == image.index[k].begin
<1>1. PICK f \in image.functions :
        f.addr <= a /\ a < f.addr + f.size /\ (a = f.addr \/ a \notin image.variables)
  BY DEF Described
<1>2. FunctionsApart(image) /\ a \in Int
  <2>1. image.index \in Seq([begin : Int])
    BY DEF Described
  <2>2. image.index[k] \in [begin : Int]
    BY <2>1, Elements
  <2> QED
    BY <2>2 DEF Described
<1>3. ResolveAddr(a) = {f}
  BY <1>1, <1>2, Owner
<1>4. \A g \in image.functions : g.addr = a => g = f
  <2> SUFFICES ASSUME NEW g \in image.functions, g.addr = a PROVE g = f
    OBVIOUS
  <2>1. g.addr <= a /\ a < g.addr + g.size
    BY <1>2, DwarfAssumption
  <2> QED
    BY <1>2, <1>3, <2>1, Owner
<1>5. {g \in image.functions : g.addr = a} = IF f.addr = a THEN {f} ELSE {}
  BY <1>4
<1>6. f.addr # a => {[addr |-> v] : v \in image.variables \cap {a}} = {}
  BY <1>1
<1> HIDE DEF a
<1>7. CASE f.addr = a
  <2>1. {g \in image.functions : g.addr = a} = {f}
    BY <1>5, <1>7
  <2> QED
    BY <1>3, <2>1 DEF ResolveTarget, a
<1>8. CASE f.addr # a
  <2>1. {g \in image.functions : g.addr = a} = {}
    BY <1>5, <1>8
  <2> QED
    BY <1>3, <1>6, <1>8, <2>1, Zenon DEF ResolveTarget, a
<1> QED
  BY <1>7, <1>8

-----------------------------------------------------------------------------
(* The inductive invariant *)

LEMMA FieldShape ==
  ASSUME image \in Images, Described(image)
  PROVE  \A x \in Fields :
           /\ x.k \in Nat \ {0} /\ x.a \in Int
           /\ x.at[1][1] \in {"frames", "index"} /\ x.at[2] = x.k
           /\ \A r \in Reloc(x.at, ResolveAddr(x.a), x.a) : r.at = x.at /\ OfUnwind(r)
           /\ \A y \in Fields : x.at = y.at => x = y
<1>1. image.frames \in Seq([kind : {"cie", "fde", "end"}, begin : Int, size : Nat])
      /\ image.index \in Seq([begin : Int])
  BY DEF Described
<1>2. \A x \in Fields : \E s \in {"frames", "index"} :
        /\ x = [at |-> <<<<s, 0>>, x.k, 1>>, k |-> x.k, a |-> x.a]
        /\ x.k \in Nat \ {0} /\ x.a \in Int
        /\ s = "index" <=> image.arch = "arm"
        /\ x.a = IF s = "index" THEN image.index[x.k].begin ELSE image.frames[x.k].begin
  <2>1. ASSUME NEW k \in DOMAIN image.index
        PROVE  k \in Nat \ {0} /\ image.index[k].begin \in Int
    <3>1. k \in 1..Len(image.index) /\ image.index[k] \in [begin : Int]
      BY <1>1, Elements
    <3> QED
      BY <3>1
  <2>2. ASSUME NEW k \in DOMAIN image.frames
        PROVE  k \in Nat \ {0} /\ image.frames[k].begin \in Int
    <3>1. /\ k \in 1..Len(image.frames)
          /\ image.frames[k] \in [kind : {"cie", "fde", "end"}, begin : Int, size : Nat]
      BY <1>1, Elements
    <3> QED
      BY <3>1
  <2>3. CASE image.arch = "arm"
    <3>1. Fields = {[at |-> <<<<"index", 0>>, k, 1>>, k |-> k, a |-> image.index[k].begin] :
                      k \in DOMAIN image.index}
      BY <2>3 DEF Fields
    <3> QED
      BY <2>1, <2>3, <3>1
  <2>4. CASE image.arch # "arm"
    <3>1. Fields = {[at |-> <<<<"frames", 0>>, k, 1>>, k |-> k, a |-> image.frames[k].begin] :
                      k \in {j \in DOMAIN image.frames : image.frames[j].kind = "fde" /\ Readers(j)}}
      BY <2>4 DEF Fields
    <3> QED
      BY <2>2, <2>4, <3>1
  <2> QED
    BY <2>3, <2>4
<1>3. \A x \in Fields : x.at[1][1] \in {"frames", "index"} /\ x.at[2] = x.k
  BY <1>2
<1>4. \A x, y \in Fields : x.at = y.at => x = y
  <2>1. ASSUME NEW x \in Fields, NEW y \in Fields, x.at = y.at PROVE x = y
    <3>1. x.k = y.k
      BY <1>3, <2>1
    <3>2. x.a = y.a
      BY <1>2, <3>1
    <3> QED
      BY <1>2, <2>1, <3>1, <3>2
  <2> QED
    BY <2>1
<1>5. \A x \in Fields : \A r \in Reloc(x.at, ResolveAddr(x.a), x.a) : r.at = x.at /\ OfUnwind(r)
  BY <1>3 DEF Reloc, OfUnwind
<1> QED
  BY <1>2, <1>3, <1>4, <1>5

LEMMA InitInv ==
  ASSUME \A img \in Images : Described(img), Init
  PROVE  IInv
<1>1. image \in Images /\ walk = 0 /\ cursor = 0 /\ found = {} /\ relocs = {} /\ layout = <<>>
  BY DEF Init
<1>2. image.units \in Nat
  BY <1>1, DwarfAssumption
<1>3. ~(walk > Unwind)
  BY <1>1, <1>2 DEF Unwind
<1>4. RelocsComplete
  BY <1>1, <1>3, FieldShape DEF RelocsComplete, Passed
<1> QED
  BY <1>1, <1>4 DEF IInv, TypeInv, BeforeEnd, RelocsReal, FoundHere, Linked, Readers

\* Nothing the image decides changes with it.
LEMMA ImageStays ==
  ASSUME image' = image
  PROVE  /\ Fields' = Fields /\ Unwind' = Unwind /\ Count' = Count
         /\ \A a : ResolveAddr(a)' = ResolveAddr(a)
         /\ \A k : Readers(k)' = Readers(k)
  BY DEF Fields, Unwind, Count, ResolveAddr, Nearest, Below, Readers

\* Visiting an entry of a section without unwind information.
LEMMA OtherVisit ==
  ASSUME IInv, Walking, Here[1] \notin {"frames", "index"},
         NEW new, \A r \in new : r.at[1] = Here, Visit(new)
  PROVE  IInv'
<1>1. image' = image /\ walk' = walk /\ relocs' = relocs /\ layout' = layout
      /\ found' = found \cup new /\ cursor' = cursor + 1
  BY DEF Visit
<1>2. walk # Unwind
  BY WhereUnwindIs DEF IInv
<1>3. \A r \in new : ~OfUnwind(r)
  BY DEF OfUnwind
<1>4. TypeInv' /\ BeforeEnd'
  BY <1>1, <1>2, ImageStays DEF IInv, TypeInv, BeforeEnd, Linked, Walking
<1>5. RelocsReal'
  BY <1>1, <1>3, ImageStays DEF IInv, RelocsReal, OfUnwind
<1>6. FoundHere'
  BY <1>1, <1>3, ImageStays DEF IInv, FoundHere, OfUnwind
<1>7. RelocsComplete'
  BY <1>1, <1>2, ImageStays DEF IInv, RelocsComplete, Passed, Reloc
<1> QED
  BY <1>4, <1>5, <1>6, <1>7 DEF IInv

\* Visiting an entry of the unwind section.
LEMMA UnwindVisit ==
  ASSUME IInv, Described(image), walk = Unwind, Walking, NEW new, Visit(new),
         \A x \in Fields : x.k = cursor + 1 => new = Reloc(x.at, ResolveAddr(x.a), x.a),
         new = {} \/ \E x \in Fields : x.k = cursor + 1,
         image.arch = "arm" \/ Readers(cursor + 1)
  PROVE  IInv'
<1>1. image' = image /\ walk' = walk /\ relocs' = relocs /\ layout' = layout
      /\ found' = found \cup new /\ cursor' = cursor + 1
  BY DEF Visit
<1>2. TypeInv' /\ BeforeEnd'
  BY <1>1, ImageStays DEF IInv, TypeInv, BeforeEnd, Linked, Walking
<1>3. RelocsReal'
  <2>1. \A r \in new : \E x \in Fields : r \in Reloc(x.at, ResolveAddr(x.a), x.a)
    OBVIOUS
  <2> QED
    BY <1>1, <2>1, ImageStays DEF IInv, RelocsReal, OfUnwind
<1>4. FoundHere'
  BY <1>1, ImageStays DEF FoundHere
<1>5. RelocsComplete'
  <2>1. ASSUME NEW x \in Fields, x.k <= cursor + 1
        PROVE  Reloc(x.at, ResolveAddr(x.a), x.a) \subseteq relocs \cup found \cup new
    <3>1. x.k \in Nat /\ cursor \in Nat
      BY FieldShape DEF IInv, TypeInv
    <3>2. CASE x.k <= cursor
      BY <3>2 DEF IInv, RelocsComplete, Passed
    <3>3. CASE x.k = cursor + 1
      BY <3>3
    <3> QED
      BY <2>1, <3>1, <3>2, <3>3
  <2>2. ~(walk > Unwind)
    BY DwarfAssumption DEF IInv, TypeInv, Unwind
  <2> QED
    BY <1>1, <2>1, <2>2, ImageStays DEF RelocsComplete, Passed, Reloc
<1> QED
  BY <1>2, <1>3, <1>4, <1>5 DEF IInv

\* Leaving a section, the unwind section only once its addresses have been passed,
\* and with what was found in it.
LEMMA Leaving ==
  ASSUME IInv, Described(image), Walking, NEW final, Leave(final),
         final = found \/ (final = {} /\ walk # Unwind),
         walk = Unwind => \A x \in Fields : x.k <= cursor
  PROVE  IInv'
<1>1. image' = image /\ walk' = walk + 1 /\ layout' = layout
      /\ relocs' = relocs \cup final /\ found' = {} /\ cursor' = 0
  BY DEF Leave
<1>2. walk \in Nat /\ Unwind \in Nat
  BY DwarfAssumption DEF IInv, TypeInv, Unwind
<1>3. TypeInv' /\ BeforeEnd'
  BY <1>1, <1>2, ImageStays DEF IInv, TypeInv, BeforeEnd, Linked, Walking, Readers
<1>4. RelocsReal' /\ FoundHere'
  BY <1>1, ImageStays DEF IInv, RelocsReal, FoundHere, OfUnwind
<1>5. RelocsComplete'
  <2>1. ASSUME NEW x \in Fields, walk >= Unwind
        PROVE  Reloc(x.at, ResolveAddr(x.a), x.a) \subseteq relocs \cup final
    <3>1. Passed(x)
      BY <1>2, <2>1 DEF Passed
    <3>2. Reloc(x.at, ResolveAddr(x.a), x.a) \subseteq relocs \cup found
      BY <3>1 DEF IInv, RelocsComplete
    <3>3. CASE final = found
      BY <3>2, <3>3
    <3>4. CASE walk # Unwind
      <4>1. \A r \in found : ~OfUnwind(r)
        BY <3>4 DEF IInv, FoundHere
      <4>2. \A r \in Reloc(x.at, ResolveAddr(x.a), x.a) : OfUnwind(r)
        BY FieldShape DEF IInv, TypeInv
      <4> QED
        BY <3>2, <4>1, <4>2
    <3> QED
      BY <3>3, <3>4
  <2>2. \A x \in Fields : Passed(x)' => walk >= Unwind
    <3>1. \A x \in Fields : x.k \in Nat \ {0}
      BY FieldShape DEF IInv, TypeInv
    <3> QED
      BY <1>1, <1>2, <3>1, ImageStays DEF Passed
  <2> QED
    BY <1>1, <2>1, <2>2, ImageStays DEF RelocsComplete, Reloc
<1> QED
  BY <1>3, <1>4, <1>5 DEF IInv

-----------------------------------------------------------------------------
(* The steps *)

\* Sections without unwind information.
LEMMA OtherSteps ==
  ASSUME IInv, ScanInfo \/ ScanLine \/ ScanRanges \/ ScanLoc
  PROVE  IInv'
<1>1. Walking /\ Here[1] \notin {"frames", "index"}
  BY DEF ScanInfo, ScanLine, ScanRanges, ScanLoc, At
<1>2. \A field, owners, a : \A r \in Reloc(Place(field), owners, a) : r.at[1] = Here
  BY DEF Reloc, Place
<1>3. CASE ScanInfo
  <2>1. ASSUME NEW r \in AttrRelocs(Entry) PROVE r.at[1] = Here
    <3>1. \/ \E k \in DOMAIN Entry :
               r \in Reloc(Place(k), ResolveAddr(Entry[k].value), Entry[k].value)
          \/ \E k \in DOMAIN Entry :
               r = [at |-> Place(k), f |-> Strings, addend |-> Entry[k].value]
      BY DEF AttrRelocs
    <3>2. CASE \E k \in DOMAIN Entry :
                 r \in Reloc(Place(k), ResolveAddr(Entry[k].value), Entry[k].value)
      BY <1>2, <3>2
    <3>3. CASE \E k \in DOMAIN Entry :
                 r = [at |-> Place(k), f |-> Strings, addend |-> Entry[k].value]
      BY <3>3 DEF Place
    <3> QED
      BY <3>1, <3>2, <3>3
  <2> QED
    BY <1>1, <1>3, <2>1, OtherVisit DEF ScanInfo
<1>4. CASE ScanLine
  <2>1. \A r \in LineRelocs(Entry) : r.at[1] = Here
    BY <1>2 DEF LineRelocs
  <2> QED
    BY <1>1, <1>4, <2>1, OtherVisit DEF ScanLine
<1>5. CASE ScanRanges \/ ScanLoc
  <2>1. \A r \in PairRelocs(Entry) : r.at[1] = Here
    BY <1>2 DEF PairRelocs
  <2> QED
    BY <1>1, <1>5, <2>1, OtherVisit DEF ScanRanges, ScanLoc
<1> QED
  BY <1>3, <1>4, <1>5

LEMMA InfoFailsStep ==
  ASSUME IInv, Described(image), InfoFails
  PROVE  IInv'
<1>1. Walking /\ Here[1] = "info" /\ Leave({})
  BY DEF InfoFails, At
<1>2. walk # Unwind
  BY <1>1, WhereUnwindIs DEF IInv
<1> QED
  BY <1>1, <1>2, Leaving

LEMMA FramesStep ==
  ASSUME IInv, Described(image), ScanFrames
  PROVE  IInv'
<1>1. /\ Walking /\ Here = <<"frames", 0>> /\ walk = Unwind /\ image.arch # "arm"
      /\ Contents(Here) = image.frames
      /\ cursor < Len(image.frames)
      /\ Entry = image.frames[cursor + 1] /\ Entry.kind \in {"cie", "fde"}
      /\ Visit(FrameRelocs(Entry))
  BY WhereUnwindIs DEF IInv, ScanFrames, At, Entry
<1>2. cursor \in Nat
  BY DEF IInv, TypeInv
<1>3. Fields = {[at |-> <<<<"frames", 0>>, k, 1>>, k |-> k, a |-> image.frames[k].begin] :
                  k \in {j \in DOMAIN image.frames : image.frames[j].kind = "fde" /\ Readers(j)}}
  BY <1>1 DEF Fields
<1>4. Readers(cursor + 1)
  <2>1. Readers(cursor)
    BY <1>1 DEF IInv, BeforeEnd
  <2> QED
    BY <1>1, <1>2, <2>1 DEF Readers
<1>5. ASSUME NEW x \in Fields, x.k = cursor + 1
      PROVE  FrameRelocs(Entry) = Reloc(x.at, ResolveAddr(x.a), x.a)
  <2>1. x.at = Place(1) /\ x.a = Entry.begin /\ Entry.kind = "fde"
    BY <1>1, <1>3, <1>5 DEF Place
  <2> QED
    BY <2>1 DEF FrameRelocs
<1>6. FrameRelocs(Entry) = {} \/ \E x \in Fields : x.k = cursor + 1
  <2>1. CASE Entry.kind = "cie"
    BY <2>1 DEF FrameRelocs
  <2>2. CASE Entry.kind = "fde"
    <3>1. image.frames \in Seq([kind : {"cie", "fde", "end"}, begin : Int, size : Nat])
      BY DEF Described
    <3>2. cursor + 1 \in DOMAIN image.frames
      BY <1>1, <1>2, <3>1
    <3> DEFINE x == [at |-> <<<<"frames", 0>>, cursor + 1, 1>>, k |-> cursor + 1,
                     a |-> image.frames[cursor + 1].begin]
    <3>3. x \in Fields
      BY <1>1, <1>3, <1>4, <2>2, <3>2
    <3>4. x.k = cursor + 1
      OBVIOUS
    <3> QED
      BY <3>3, <3>4
  <2> QED
    BY <1>1, <2>1, <2>2
<1> QED
  BY <1>1, <1>4, <1>5, <1>6, UnwindVisit

LEMMA IndexStep ==
  ASSUME IInv, Described(image), ScanIndex
  PROVE  IInv'
<1>1. /\ Walking /\ Here = <<"index", 0>> /\ walk = Unwind /\ image.arch = "arm"
      /\ Contents(Here) = image.index
      /\ cursor < Len(image.index)
      /\ Entry = image.index[cursor + 1]
      /\ Visit(Reloc(Place(1), ResolveTarget(Entry.begin), Entry.begin))
  BY WhereUnwindIs DEF IInv, ScanIndex, At, Entry
<1>2. cursor \in Nat /\ image.index \in Seq([begin : Int])
  BY DEF IInv, TypeInv, Described
<1>3. Fields = {[at |-> <<<<"index", 0>>, k, 1>>, k |-> k, a |-> image.index[k].begin] :
                  k \in DOMAIN image.index}
  BY <1>1 DEF Fields
<1>4. cursor + 1 \in DOMAIN image.index
  BY <1>1, <1>2
<1>5. \E x \in Fields : x.k = cursor + 1
  <2> DEFINE x == [at |-> <<<<"index", 0>>, cursor + 1, 1>>, k |-> cursor + 1,
                   a |-> image.index[cursor + 1].begin]
  <2>1. x \in Fields
    BY <1>3, <1>4
  <2>2. x.k = cursor + 1
    OBVIOUS
  <2> QED
    BY <2>1, <2>2
<1>6. ASSUME NEW x \in Fields, x.k = cursor + 1
      PROVE  x.at = Place(1) /\ x.a = Entry.begin
  BY <1>1, <1>3, <1>6 DEF Place
<1>7. Visit(Reloc(Place(1), ResolveAddr(Entry.begin), Entry.begin))
  BY <1>1, <1>4, IndexTarget DEF IInv, TypeInv
<1> QED
  BY <1>1, <1>5, <1>6, <1>7, UnwindVisit

\* No address is left behind the place where the walk stops.
LEMMA StopStep ==
  ASSUME IInv, Described(image), FramesStop
  PROVE  IInv'
<1>1. /\ Walking /\ Here = <<"frames", 0>> /\ walk = Unwind /\ image.arch # "arm"
      /\ cursor < Len(image.frames)
      /\ image.frames[cursor + 1].kind \in {"end", "long"}
      /\ Leave(found)
  BY WhereUnwindIs DEF IInv, FramesStop, At, Entry
<1>2. cursor \in Nat
      /\ image.frames \in Seq([kind : {"cie", "fde", "end"}, begin : Int, size : Nat])
  BY DEF IInv, TypeInv, Described
<1>3. image.frames[cursor + 1] \in [kind : {"cie", "fde", "end"}, begin : Int, size : Nat]
  <2>1. cursor + 1 \in DOMAIN image.frames
    BY <1>1, <1>2
  <2> QED
    BY <1>2, <2>1, Elements
<1>4. image.frames[cursor + 1].kind = "end"
  BY <1>1, <1>3
<1>5. \A x \in Fields : x.k \in Nat /\ Readers(x.k)
  <2>1. Fields = {[at |-> <<<<"frames", 0>>, k, 1>>, k |-> k, a |-> image.frames[k].begin] :
                    k \in {j \in DOMAIN image.frames : image.frames[j].kind = "fde" /\ Readers(j)}}
    BY <1>1 DEF Fields
  <2>2. \A x \in Fields : Readers(x.k)
    BY <2>1
  <2>3. \A x \in Fields : x.k \in Nat
    BY FieldShape DEF IInv, TypeInv
  <2> QED
    BY <2>2, <2>3
<1>6. \A x \in Fields : x.k <= cursor
  BY <1>2, <1>4, <1>5 DEF Readers
<1> QED
  BY <1>1, <1>6, Leaving

LEMMA EndStep ==
  ASSUME IInv, Described(image), EndOfSection
  PROVE  IInv'
<1>1. Walking /\ cursor = Len(Contents(Here)) /\ Leave(found)
  BY DEF EndOfSection
<1>2. ASSUME walk = Unwind, NEW x \in Fields PROVE x.k <= cursor
  <2>1. image.frames \in Seq([kind : {"cie", "fde", "end"}, begin : Int, size : Nat])
        /\ image.index \in Seq([begin : Int])
    BY DEF Described
  <2>2. CASE image.arch = "arm"
    <3>1. cursor = Len(image.index)
      BY <1>1, <2>2, WhereUnwindIs DEF IInv
    <3>2. x.k \in DOMAIN image.index
      BY <2>2 DEF Fields
    <3> QED
      BY <2>1, <3>1, <3>2
  <2>3. CASE image.arch # "arm"
    <3>1. cursor = Len(image.frames)
      BY <1>1, <1>2, <2>3, WhereUnwindIs DEF IInv
    <3>2. x.k \in DOMAIN image.frames
      BY <2>3 DEF Fields
    <3> QED
      BY <2>1, <3>1, <3>2
  <2> QED
    BY <2>2, <2>3
<1> QED
  BY <1>1, <1>2, Leaving

LEMMA LinkStep ==
  ASSUME IInv, Link
  PROVE  IInv'
<1>1. image' = image /\ walk' = walk /\ cursor' = cursor /\ found' = found /\ relocs' = relocs
      /\ layout' \in Layouts(image) /\ ~Walking
  BY DEF Link
<1>2. TypeInv'
  BY <1>1, ImageStays DEF IInv, TypeInv, Walking
<1> QED
  BY <1>1, <1>2, ImageStays
  DEF IInv, BeforeEnd, RelocsReal, FoundHere, RelocsComplete, OfUnwind, Passed, Reloc

LEMMA Stutter ==
  ASSUME IInv, UNCHANGED vars
  PROVE  IInv'
<1>1. image' = image /\ walk' = walk /\ cursor' = cursor /\ found' = found /\ relocs' = relocs
      /\ layout' = layout
  BY DEF vars
<1>2. TypeInv'
  BY <1>1, ImageStays DEF IInv, TypeInv, Walking, Linked
<1> QED
  BY <1>1, <1>2, ImageStays
  DEF IInv, BeforeEnd, RelocsReal, FoundHere, RelocsComplete, OfUnwind, Passed, Reloc

\* While the unwind section is walked its addresses have the relocations they need,
\* and so has the unwind information of what is linked.
THEOREM UnwindRelocated ==
  ASSUME \A img \in Images : Described(img)
  PROVE  Spec => []IInv
<1>1. Init => IInv
  BY InitInv
<1>2. IInv /\ [Next]_vars => IInv'
  <2>1. ASSUME IInv PROVE Described(image)
    BY <2>1 DEF IInv, TypeInv
  <2> QED
    BY <2>1, OtherSteps, InfoFailsStep, FramesStep, IndexStep, StopStep, EndStep, LinkStep, Stutter
    DEF Next, Done
<1> QED
  BY <1>1, <1>2, PTL DEF Spec

-----------------------------------------------------------------------------
(* What the relocations make of the addresses *)

\* Functions at fa and ga, of fs and gs bytes, that move to fl and gl.
LEMMA InExtent ==
  ASSUME NEW fa \in Nat, NEW fs \in Nat, NEW fl \in Nat, NEW i \in 0..(fs - 1),
         NEW ga \in Nat, NEW gs \in Nat, NEW gl \in Nat, NEW b \in Int, NEW s \in Nat,
         ga <= b, b < ga + gs, b + s <= ga + gs,
         \/ fa = ga /\ fl = gl
         \/ /\ fa + fs <= ga \/ ga + gs <= fa
            /\ fl + fs <= gl \/ gl + gs <= fl
  PROVE  fl + i \in (gl + (b - ga))..(gl + (b - ga) + s - 1) <=> fa + i \in b..(b + s - 1)
  OBVIOUS

LEMMA BehindBegin ==
  ASSUME NEW fa \in Nat, NEW fs \in Nat, NEW fl \in Nat, NEW i \in 0..(fs - 1),
         NEW ga \in Nat, NEW gs \in Nat, NEW gl \in Nat, NEW b \in Int,
         ga <= b, b < ga + gs,
         \/ fa = ga /\ fl = gl
         \/ /\ fa + fs <= ga \/ ga + gs <= fa
            /\ fl + fs <= gl \/ gl + gs <= fl
            /\ fa < ga => fl < gl
            /\ ga < fa => gl < fl
  PROVE  gl + (b - ga) <= fl + i <=> b <= fa + i
  OBVIOUS

LEMMA Comparable ==
  ASSUME NEW a \in Int, NEW b \in Int
  PROVE  a < b <=> ~(b <= a)
  OBVIOUS

\* An address moves with its function.
LEMMA Moves ==
  ASSUME IInv, Described(image), Linked, NEW x \in Fields, NEW f \in image.functions,
         f.addr <= x.a, x.a < f.addr + f.size
  PROVE  HeldRelative(TRUE, x.at, x.a) = layout[f.addr] + (x.a - f.addr)
<1> DEFINE r == [at |-> x.at, f |-> f.addr, addend |-> x.a - f.addr]
<1>1. \A y \in Fields :
        /\ y.k \in Nat \ {0} /\ y.a \in Int
        /\ \A q \in Reloc(y.at, ResolveAddr(y.a), y.a) : q.at = y.at /\ OfUnwind(q)
        /\ \A z \in Fields : y.at = z.at => y = z
        /\ y.at[1][1] \in {"frames", "index"}
  BY FieldShape DEF IInv, TypeInv
<1>2. Reloc(x.at, ResolveAddr(x.a), x.a) = {r}
  <2>1. ResolveAddr(x.a) = {f}
    BY <1>1, Owner DEF IInv, TypeInv, Described
  <2> QED
    BY <2>1 DEF Reloc
<1>3. walk > Unwind
  BY DwarfAssumption DEF IInv, TypeInv, Walking, Count, Unwind
<1>4. \A q \in found : ~OfUnwind(q)
  <2>1. walk # Unwind
    BY <1>3, DwarfAssumption DEF IInv, TypeInv, Unwind
  <2> QED
    BY <2>1 DEF IInv, FoundHere
<1>5. r \in relocs
  <2>1. r \in relocs \cup found
    BY <1>2, <1>3 DEF IInv, RelocsComplete, Passed
  <2>2. OfUnwind(r)
    BY <1>1, <1>2
  <2> QED
    BY <1>4, <2>1, <2>2
<1>6. ASSUME NEW q \in relocs, q.at = x.at PROVE q = r
  <2>1. OfUnwind(q)
    BY <1>1, <1>6 DEF OfUnwind
  <2>2. PICK y \in Fields : q \in Reloc(y.at, ResolveAddr(y.a), y.a)
    BY <2>1 DEF IInv, RelocsReal
  <2>3. y = x
    BY <1>1, <1>6, <2>2
  <2> QED
    BY <1>2, <2>2, <2>3
<1>7. r.at = x.at /\ r.f = f.addr /\ r.addend = x.a - f.addr
  OBVIOUS
<1>8. (CHOOSE q \in relocs : q.at = x.at) = r
  <2>1. \E q \in relocs : q.at = x.at
    BY <1>5, <1>7
  <2> DEFINE c == CHOOSE q \in relocs : q.at = x.at
  <2>2. c \in relocs /\ c.at = x.at
    BY <2>1
  <2> QED
    BY <1>6, <2>2
<1>9. \E q \in relocs : q.at = x.at
  BY <1>5, <1>7
<1> QED
  BY <1>7, <1>8, <1>9 DEF HeldRelative, Held

\* Functions are where they were and where the linker put them.
LEMMA Places ==
  ASSUME IInv, Linked
  PROVE  /\ \A f \in image.functions :
              f.addr \in Nat /\ f.size \in Nat \ {0} /\ layout[f.addr] \in Nat
         /\ \A f, g \in image.functions :
              f # g => \/ layout[f.addr] + f.size <= layout[g.addr]
                      \/ layout[g.addr] + g.size <= layout[f.addr]
<1>1. Linkable(image, layout)
  BY DwarfAssumption DEF IInv, TypeInv
<1> QED
  BY <1>1, DwarfAssumption DEF Linkable, IInv, TypeInv

-----------------------------------------------------------------------------
(* Unwinding *)

LEMMA FramesFollow ==
  ASSUME IInv, Described(image), Linked, image.arch # "arm",
         NEW f \in image.functions, NEW i \in 0..(f.size - 1)
  PROVE  Frames(TRUE, layout[f.addr] + i) = Frames(FALSE, f.addr + i)
<1>1. f.addr \in Nat /\ f.size \in Nat \ {0} /\ layout[f.addr] \in Nat /\ i \in Nat
  BY Places
<1>2. ASSUME NEW k \in DOMAIN image.frames, image.frames[k].kind = "fde", Readers(k)
      PROVE  layout[f.addr] + i \in Begin(TRUE, k)..(Begin(TRUE, k) + image.frames[k].size - 1)
               <=> f.addr + i \in Begin(FALSE, k)..(Begin(FALSE, k) + image.frames[k].size - 1)
  <2> DEFINE x == [at |-> <<<<"frames", 0>>, k, 1>>, k |-> k, a |-> image.frames[k].begin]
  <2>1. x \in Fields
    BY <1>2 DEF Fields
  <2>2. image.frames[k].begin \in Int /\ image.frames[k].size \in Nat
    <3>1. image.frames \in Seq([kind : {"cie", "fde", "end"}, begin : Int, size : Nat])
      BY DEF Described
    <3>2. image.frames[k] \in [kind : {"cie", "fde", "end"}, begin : Int, size : Nat]
      BY <3>1, Elements
    <3> QED
      BY <3>2
  <2>3. PICK g \in image.functions :
          /\ g.addr <= image.frames[k].begin /\ image.frames[k].begin < g.addr + g.size
          /\ image.frames[k].begin + image.frames[k].size <= g.addr + g.size
    BY <1>2 DEF Described
  <2>4. g.addr \in Nat /\ g.size \in Nat \ {0} /\ layout[g.addr] \in Nat
    BY Places
  <2>5. Begin(TRUE, k) = layout[g.addr] + (image.frames[k].begin - g.addr)
    <3>1. x.at = <<<<"frames", 0>>, k, 1>> /\ x.a = image.frames[k].begin
      OBVIOUS
    <3>2. HeldRelative(TRUE, x.at, x.a) = layout[g.addr] + (x.a - g.addr)
      <4>1. g.addr <= x.a /\ x.a < g.addr + g.size
        BY <2>3, <3>1
      <4> HIDE DEF x
      <4> QED
        BY <2>1, <4>1, Moves
    <3> QED
      BY <3>1, <3>2 DEF Begin
  <2>6. Begin(FALSE, k) = image.frames[k].begin
    BY DEF Begin, HeldRelative, Held
  <2>7. \/ f.addr = g.addr /\ layout[f.addr] = layout[g.addr]
        \/ /\ f.addr + f.size <= g.addr \/ g.addr + g.size <= f.addr
           /\ \/ layout[f.addr] + f.size <= layout[g.addr]
              \/ layout[g.addr] + g.size <= layout[f.addr]
    BY Places DEF Described, FunctionsApart
  <2>8. f.size \in Nat /\ g.size \in Nat
    BY <1>1, <2>4
  <2>9. layout[f.addr] + i
            \in (layout[g.addr] + (image.frames[k].begin - g.addr))
               ..(layout[g.addr] + (image.frames[k].begin - g.addr) + image.frames[k].size - 1)
          <=> f.addr + i \in image.frames[k].begin
                              ..(image.frames[k].begin + image.frames[k].size - 1)
    BY <1>1, <2>2, <2>3, <2>4, <2>7, <2>8, InExtent
  <2> QED
    BY <2>5, <2>6, <2>9
<1> QED
  BY <1>2 DEF Frames, Readers

LEMMA IndexFollows ==
  ASSUME IInv, Described(image), Linked, image.arch = "arm", InOrder,
         NEW f \in image.functions, NEW i \in 0..(f.size - 1), NEW k \in DOMAIN image.index
  PROVE  /\ IndexBegin(TRUE, k) \in Int /\ IndexBegin(FALSE, k) \in Int
         /\ IndexBegin(TRUE, k) <= layout[f.addr] + i <=> IndexBegin(FALSE, k) <= f.addr + i
<1> DEFINE x == [at |-> <<<<"index", 0>>, k, 1>>, k |-> k, a |-> image.index[k].begin]
<1>1. f.addr \in Nat /\ f.size \in Nat \ {0} /\ layout[f.addr] \in Nat /\ i \in Nat
  BY Places
<1>2. x \in Fields
  BY DEF Fields
<1>3. image.index[k].begin \in Int
  <2>1. image.index \in Seq([begin : Int])
    BY DEF Described
  <2>2. image.index[k] \in [begin : Int]
    BY <2>1, Elements
  <2> QED
    BY <2>2
<1>4. PICK g \in image.functions :
        g.addr <= image.index[k].begin /\ image.index[k].begin < g.addr + g.size
  BY DEF Described
<1>5. g.addr \in Nat /\ g.size \in Nat \ {0} /\ layout[g.addr] \in Nat
  BY Places
<1>6. IndexBegin(TRUE, k) = layout[g.addr] + (image.index[k].begin - g.addr)
  <2>1. x.at = <<<<"index", 0>>, k, 1>> /\ x.a = image.index[k].begin
    OBVIOUS
  <2>2. HeldRelative(TRUE, x.at, x.a) = layout[g.addr] + (x.a - g.addr)
    <3>1. g.addr <= x.a /\ x.a < g.addr + g.size
      BY <1>4, <2>1
    <3> HIDE DEF x
    <3> QED
      BY <1>2, <3>1, Moves
  <2> QED
    BY <2>1, <2>2 DEF IndexBegin
<1>7. IndexBegin(FALSE, k) = image.index[k].begin
  BY DEF IndexBegin, HeldRelative, Held
<1>8. \/ f.addr = g.addr /\ layout[f.addr] = layout[g.addr]
      \/ /\ f.addr + f.size <= g.addr \/ g.addr + g.size <= f.addr
         /\ \/ layout[f.addr] + f.size <= layout[g.addr]
            \/ layout[g.addr] + g.size <= layout[f.addr]
         /\ f.addr < g.addr => layout[f.addr] < layout[g.addr]
         /\ g.addr < f.addr => layout[g.addr] < layout[f.addr]
  <2>1. CASE f = g
    BY <2>1
  <2>2. CASE f # g
    <3>1. f.addr + f.size <= g.addr \/ g.addr + g.size <= f.addr
      BY <2>2 DEF Described, FunctionsApart
    <3>2. \/ layout[f.addr] + f.size <= layout[g.addr]
          \/ layout[g.addr] + g.size <= layout[f.addr]
      BY <2>2, Places
    <3>3. /\ f.addr < g.addr => layout[f.addr] < layout[g.addr]
          /\ g.addr < f.addr => layout[g.addr] < layout[f.addr]
      BY DEF InOrder
    <3> QED
      BY <3>1, <3>2, <3>3
  <2> QED
    BY <2>1, <2>2
<1>9. f.size \in Nat /\ g.size \in Nat
  BY <1>1, <1>5
<1>10. layout[g.addr] + (image.index[k].begin - g.addr) <= layout[f.addr] + i
         <=> image.index[k].begin <= f.addr + i
  BY <1>1, <1>3, <1>4, <1>5, <1>8, <1>9, BehindBegin
<1>11. layout[g.addr] + (image.index[k].begin - g.addr) \in Int
  BY <1>3, <1>5
<1> HIDE DEF x
<1> QED
  BY <1>3, <1>6, <1>7, <1>10, <1>11

LEMMA UnwindFindsFollows ==
  ASSUME IInv, Described(image)
  PROVE  UnwindFinds
<1> SUFFICES ASSUME Linked, image.arch = "arm" => InOrder,
                    NEW f \in image.functions, NEW i \in 0..(f.size - 1)
             PROVE  Found(TRUE, layout[f.addr] + i) = Found(FALSE, f.addr + i)
  BY DEF UnwindFinds
<1>1. CASE image.arch # "arm"
  BY <1>1, FramesFollow DEF Found
<1>2. CASE image.arch = "arm"
  <2>1. \A k \in DOMAIN image.index :
          /\ IndexBegin(TRUE, k) \in Int /\ IndexBegin(FALSE, k) \in Int
          /\ IndexBegin(TRUE, k) <= layout[f.addr] + i <=> IndexBegin(FALSE, k) <= f.addr + i
    BY <1>2, IndexFollows
  <2>2. layout[f.addr] + i \in Int /\ f.addr + i \in Int
    BY Places
  <2>3. \A k \in DOMAIN image.index : k < Len(image.index) => k + 1 \in DOMAIN image.index
    BY DEF Described
  <2>4. \A k \in DOMAIN image.index :
          layout[f.addr] + i < IndexBegin(TRUE, k) <=> f.addr + i < IndexBegin(FALSE, k)
    BY <2>1, <2>2, Comparable
  <2>5. Indexed(TRUE, layout[f.addr] + i) = Indexed(FALSE, f.addr + i)
    BY <2>1, <2>3, <2>4 DEF Indexed
  <2> QED
    BY <1>2, <2>5 DEF Found
<1> QED
  BY <1>1, <1>2

\* Unwinding from any instruction of the linked program finds the records that
\* described the instruction before, for every program whose unwind information is
\* that of functions the resolver knows: emit_shared_dwarf and translate_eh_frame
\* for AArch64, emit_arm_unwind for ARM.
THEOREM UnwindingFinds ==
  ASSUME \A img \in Images : Described(img)
  PROVE  Spec => []UnwindFinds
<1>1. IInv => Described(image)
  BY DEF IInv, TypeInv
<1>2. IInv => UnwindFinds
  BY <1>1, UnwindFindsFollows
<1> QED
  BY <1>2, UnwindRelocated, PTL

-----------------------------------------------------------------------------
(* The relocations of debug information *)

Debug == {"info", "line", "ranges", "loc"}

\* A slice of which nothing is given up, and the fields of an entry.
Legible(s) == s[1] = "info" => \A d \in DOMAIN Contents(s) : Readable(Contents(s)[d])
Slots(s, c) == IF s[1] = "info" THEN DOMAIN Contents(s)[c] ELSE {1, 2}

\* The relocations a field should have.
WantedInfo(at, x) ==
  IF x.form = "strp" THEN {[at |-> at, f |-> Strings, addend |-> x.value]}
  ELSE IF x.form = "addr" /\ x.value # 0 /\ x.attr \in Relocated
       THEN Reloc(at, ResolveAddr(x.value), x.value) ELSE {}

WantedLine(at, x, j) ==
  IF j = 1 /\ x.op = "set" /\ x.value # 0 THEN Reloc(at, ResolveAddr(x.value), x.value) ELSE {}

WantedPair(at, x, j) ==
  IF x.kind # "pair" THEN {}
  ELSE IF j = 1 THEN Reloc(at, ResolveAddr(x.lo), x.lo)
  ELSE IF x.hi # 0 THEN Reloc(at, ResolveIncludingEnd(x.hi), x.hi) ELSE {}

Wanted(s, c, j) ==
  LET x == Contents(s)[c]
      at == <<s, c, j>>
  IN  IF s[1] = "info" THEN WantedInfo(at, x[j])
      ELSE IF s[1] = "line" THEN WantedLine(at, x, j)
      ELSE WantedPair(at, x, j)

\* No field of the debug information has a relocation it should not have.
DebugReal ==
  \A r \in relocs \cup found :
    r.at[1][1] \in Debug =>
      /\ r.at[1][1] # "info" => r.at[3] \in {1, 2}
      /\ r.at = <<r.at[1], r.at[2], r.at[3]>>
      /\ r \in Wanted(r.at[1], r.at[2], r.at[3])

\* Those of a section that was walked to its end have theirs, and those of the
\* section at hand that were passed.
DebugComplete ==
  \A k \in 1..Count :
    LET s == Section(k)
    IN  s[1] \in Debug /\ Legible(s) =>
          \A c \in DOMAIN Contents(s) : \A j \in Slots(s, c) :
            /\ k <= walk => Wanted(s, c, j) \subseteq relocs
            /\ k = walk + 1 /\ c <= cursor => Wanted(s, c, j) \subseteq found

DebugInv == TypeInv /\ DebugReal /\ DebugComplete

\* Nothing the image decides changes with it.
LEMMA ProgramStays ==
  ASSUME image' = image
  PROVE  /\ Count' = Count
         /\ \A k : Section(k)' = Section(k)
         /\ \A s : Contents(s)' = Contents(s) /\ Legible(s)' = Legible(s)
         /\ \A s, c : Slots(s, c)' = Slots(s, c)
         /\ \A s, c, j : Wanted(s, c, j)' = Wanted(s, c, j)
<1>1. \A s : Contents(s)' = Contents(s)
  BY DEF Contents
<1>2. \A a : ResolveAddr(a)' = ResolveAddr(a) /\ ResolveIncludingEnd(a)' = ResolveIncludingEnd(a)
  BY DEF ResolveAddr, ResolveIncludingEnd, Nearest, Below
<1>3. Count' = Count /\ \A k : Section(k)' = Section(k)
  BY DEF Count, Section, UnitSection, SharedSection
<1>4. \A s, c : Slots(s, c)' = Slots(s, c) /\ Legible(s)' = Legible(s)
  BY <1>1 DEF Slots, Legible, Readable
<1>5. \A at, x : WantedInfo(at, x)' = WantedInfo(at, x)
  BY <1>2 DEF WantedInfo, Reloc
<1>6. \A at, x, j : WantedLine(at, x, j)' = WantedLine(at, x, j)
  BY <1>2 DEF WantedLine, Reloc
<1>7. \A at, x, j : WantedPair(at, x, j)' = WantedPair(at, x, j)
  BY <1>2 DEF WantedPair, Reloc
<1>8. \A s, c, j : Wanted(s, c, j)' = Wanted(s, c, j)
  BY <1>1, <1>5, <1>6, <1>7 DEF Wanted
<1> QED
  BY <1>1, <1>3, <1>4, <1>8

\* The debug sections, each a sequence of entries.
LEMMA SectionKinds ==
  ASSUME image \in Images, Told(image), NEW k \in 1..Count, Section(k)[1] \in Debug
  PROVE  /\ Section(k)[1] \in {"info", "line"} => Section(k)[2] \in 1..image.units
         /\ DOMAIN Contents(Section(k)) = 1..Len(Contents(Section(k)))
         /\ Len(Contents(Section(k))) \in Nat
<1>1. image.units \in Nat
  BY DwarfAssumption
<1>2. image.arch # "arm"
  BY DEF Section, Debug
<1>3. k \in Nat /\ 1 <= k /\ k <= 2 * image.units + 3
  BY <1>1, <1>2 DEF Count
<1>4. Section(k) = IF k <= 2 * image.units THEN UnitSection(k) ELSE SharedSection[k - 2 * image.units]
  BY <1>2 DEF Section
<1>5. CASE k <= 2 * image.units
  <2>1. (k + 1) \div 2 \in 1..image.units
    BY <1>1, <1>3, <1>5
  <2>2. Section(k)[1] \in {"info", "line"} /\ Section(k)[2] \in 1..image.units
    BY <1>4, <1>5, <2>1 DEF UnitSection
  <2>3. /\ image.info[Section(k)[2]] \in Seq(Seq([attr : STRING, form : STRING, value : Nat]))
        /\ image.line[Section(k)[2]] \in Seq([op : STRING, value : Nat])
    BY <2>2 DEF Told
  <2>4. CASE Section(k)[1] = "info"
    <3>1. Contents(Section(k)) = image.info[Section(k)[2]]
      BY <2>4 DEF Contents
    <3> QED
      BY <2>2, <2>3, <3>1
  <2>5. CASE Section(k)[1] = "line"
    <3>1. Contents(Section(k)) = image.line[Section(k)[2]]
      BY <2>5 DEF Contents
    <3> QED
      BY <2>2, <2>3, <3>1
  <2> QED
    BY <2>2, <2>4, <2>5
<1>6. CASE k > 2 * image.units
  <2>1. k - 2 * image.units \in 1..3
    BY <1>1, <1>3, <1>6
  <2>2. Section(k) \in {<<"frames", 0>>, <<"ranges", 0>>, <<"loc", 0>>}
    BY <1>1, <1>3, <1>4, <1>6, <2>1 DEF SharedSection
  <2>3. Contents(Section(k)) \in {image.ranges, image.loc} /\ Section(k)[1] \notin {"info", "line"}
    BY <2>2 DEF Contents, Debug
  <2>4. Contents(Section(k)) \in Seq([kind : {"pair", "end", "base"}, lo : Int, hi : Nat, unit : Nat])
    BY <2>3 DEF Told
  <2> QED
    BY <2>3, <2>4
<1> QED
  BY <1>1, <1>3, <1>5, <1>6

LEMMA DebugVisit ==
  ASSUME DebugInv, Told(image), Walking, NEW new, Visit(new),
         \A r \in new :
           /\ \E j : r.at = <<Here, cursor + 1, j>> /\ (Here[1] # "info" => j \in {1, 2})
           /\ Here[1] \in Debug => r \in Wanted(Here, cursor + 1, r.at[3]),
         Here[1] \in Debug =>
           \A j \in Slots(Here, cursor + 1) : Wanted(Here, cursor + 1, j) \subseteq new
  PROVE  DebugInv'
<1>1. image' = image /\ walk' = walk /\ relocs' = relocs /\ layout' = layout
      /\ found' = found \cup new /\ cursor' = cursor + 1
  BY DEF Visit
<1>2. walk \in Nat /\ cursor \in Nat
  BY DEF DebugInv, TypeInv
<1>3. TypeInv'
  BY <1>1, <1>2, ProgramStays DEF DebugInv, TypeInv, Linked, Walking
<1>4. DebugReal'
  <2> SUFFICES ASSUME NEW r \in relocs \cup found \cup new, r.at[1][1] \in Debug
               PROVE  /\ r.at[1][1] # "info" => r.at[3] \in {1, 2}
                      /\ r.at = <<r.at[1], r.at[2], r.at[3]>>
                      /\ r \in Wanted(r.at[1], r.at[2], r.at[3])
    BY <1>1, ProgramStays DEF DebugReal
  <2>1. CASE r \in relocs \cup found
    BY <2>1 DEF DebugInv, DebugReal
  <2>2. CASE r \in new
    <3>1. PICK j : r.at = <<Here, cursor + 1, j>> /\ (Here[1] # "info" => j \in {1, 2})
      BY <2>2
    <3>2. r.at[1] = Here /\ r.at[2] = cursor + 1 /\ r.at[3] = j
      BY <3>1
    <3> QED
      BY <2>2, <3>1, <3>2
  <2> QED
    BY <2>1, <2>2
<1>5. DebugComplete'
  <2> SUFFICES ASSUME NEW k \in 1..Count, Section(k)[1] \in Debug, Legible(Section(k)),
                      NEW c \in DOMAIN Contents(Section(k)), NEW j \in Slots(Section(k), c)
               PROVE  /\ k <= walk => Wanted(Section(k), c, j) \subseteq relocs
                      /\ k = walk + 1 /\ c <= cursor + 1 =>
                           Wanted(Section(k), c, j) \subseteq found \cup new
    BY <1>1, ProgramStays DEF DebugComplete
  <2>1. /\ k <= walk => Wanted(Section(k), c, j) \subseteq relocs
        /\ k = walk + 1 /\ c <= cursor => Wanted(Section(k), c, j) \subseteq found
    BY DEF DebugInv, DebugComplete
  <2>2. k = walk + 1 /\ c = cursor + 1 => Wanted(Section(k), c, j) \subseteq new
    BY DEF Here
  <2>3. k = walk + 1 /\ c <= cursor + 1 => c = cursor + 1 \/ c <= cursor
    <3>1. c \in Nat
      BY SectionKinds DEF DebugInv, TypeInv
    <3> QED
      BY <1>2, <3>1
  <2> QED
    BY <2>1, <2>2, <2>3
<1> QED
  BY <1>3, <1>4, <1>5 DEF DebugInv

LEMMA DebugLeave ==
  ASSUME DebugInv, Told(image), Walking, NEW final, Leave(final), final \in {found, {}},
         Here[1] \in Debug /\ Legible(Here) =>
           final = found /\ \A c \in DOMAIN Contents(Here) : c <= cursor
  PROVE  DebugInv'
<1>1. image' = image /\ walk' = walk + 1 /\ layout' = layout
      /\ relocs' = relocs \cup final /\ found' = {} /\ cursor' = 0
  BY DEF Leave
<1>2. walk \in Nat /\ cursor \in Nat
  BY DEF DebugInv, TypeInv
<1>3. TypeInv'
  BY <1>1, <1>2, ProgramStays DEF DebugInv, TypeInv, Linked, Walking
<1>4. DebugReal'
  <2> SUFFICES ASSUME NEW r \in relocs \cup final, r.at[1][1] \in Debug
               PROVE  /\ r.at[1][1] # "info" => r.at[3] \in {1, 2}
                      /\ r.at = <<r.at[1], r.at[2], r.at[3]>>
                      /\ r \in Wanted(r.at[1], r.at[2], r.at[3])
    BY <1>1, ProgramStays DEF DebugReal
  <2>1. r \in relocs \cup found
    OBVIOUS
  <2> QED
    BY <2>1 DEF DebugInv, DebugReal
<1>5. DebugComplete'
  <2> SUFFICES ASSUME NEW k \in 1..Count, Section(k)[1] \in Debug, Legible(Section(k)),
                      NEW c \in DOMAIN Contents(Section(k)), NEW j \in Slots(Section(k), c)
               PROVE  /\ k <= walk + 1 => Wanted(Section(k), c, j) \subseteq relocs \cup final
                      /\ ~(k = walk + 1 + 1 /\ c <= 0)
    BY <1>1, ProgramStays DEF DebugComplete
  <2>1. /\ k <= walk => Wanted(Section(k), c, j) \subseteq relocs
        /\ k = walk + 1 /\ c <= cursor => Wanted(Section(k), c, j) \subseteq found
    BY DEF DebugInv, DebugComplete
  <2>2. k = walk + 1 => final = found /\ c <= cursor
    BY DEF Here
  <2>3. k \in Int /\ (k <= walk + 1 => k <= walk \/ k = walk + 1)
    BY <1>2
  <2>4. c \in 1..Len(Contents(Section(k))) /\ Len(Contents(Section(k))) \in Nat
    BY SectionKinds DEF DebugInv, TypeInv
  <2>5. ~(c <= 0)
    BY <2>4
  <2> QED
    BY <2>1, <2>2, <2>3, <2>5
<1> QED
  BY <1>3, <1>4, <1>5 DEF DebugInv

\* Every debug section there is, while it is at hand.
LEMMA AtHand ==
  ASSUME DebugInv, Walking
  PROVE  walk + 1 \in 1..Count /\ Here = Section(walk + 1)
<1>1. walk \in Nat /\ Count \in Nat
  BY DwarfAssumption DEF DebugInv, TypeInv, Count
<1> QED
  BY <1>1 DEF Walking, Here

-----------------------------------------------------------------------------
(* The steps, again *)

LEMMA InfoVisit ==
  ASSUME DebugInv, Told(image), ScanInfo
  PROVE  DebugInv'
<1>1. Walking /\ Here[1] = "info" /\ Entry = Contents(Here)[cursor + 1] /\ Visit(AttrRelocs(Entry))
  BY DEF ScanInfo, At, Entry
<1>2. \A k : Place(k) = <<Here, cursor + 1, k>>
  BY DEF Place
<1>3. \A k : Wanted(Here, cursor + 1, k) = WantedInfo(Place(k), Entry[k])
  BY <1>1, <1>2 DEF Wanted
<1>4. Slots(Here, cursor + 1) = DOMAIN Entry
  BY <1>1 DEF Slots
<1>5. ASSUME NEW r \in AttrRelocs(Entry)
      PROVE  \E k \in DOMAIN Entry : r.at = Place(k) /\ r \in WantedInfo(Place(k), Entry[k])
  <2>1. CASE \E k \in DOMAIN Entry :
               /\ Entry[k].form = "addr" /\ Entry[k].value # 0 /\ Entry[k].attr \in Relocated
               /\ r \in Reloc(Place(k), ResolveAddr(Entry[k].value), Entry[k].value)
    <3>1. PICK k \in DOMAIN Entry :
               /\ Entry[k].form = "addr" /\ Entry[k].value # 0 /\ Entry[k].attr \in Relocated
               /\ r \in Reloc(Place(k), ResolveAddr(Entry[k].value), Entry[k].value)
      BY <2>1
    <3>2. r.at = Place(k)
      BY <3>1 DEF Reloc
    <3> QED
      BY <3>1, <3>2 DEF WantedInfo
  <2>2. CASE \E k \in DOMAIN Entry :
               /\ Entry[k].form = "strp"
               /\ r = [at |-> Place(k), f |-> Strings, addend |-> Entry[k].value]
    BY <2>2 DEF WantedInfo
  <2> QED
    BY <2>1, <2>2 DEF AttrRelocs
<1>6. ASSUME NEW k \in DOMAIN Entry
      PROVE  WantedInfo(Place(k), Entry[k]) \subseteq AttrRelocs(Entry)
  BY DEF WantedInfo, AttrRelocs
<1>7. \A r \in AttrRelocs(Entry) :
        /\ \E j : r.at = <<Here, cursor + 1, j>> /\ (Here[1] # "info" => j \in {1, 2})
        /\ r \in Wanted(Here, cursor + 1, r.at[3])
  <2> SUFFICES ASSUME NEW r \in AttrRelocs(Entry)
               PROVE  /\ \E j : r.at = <<Here, cursor + 1, j>>
                      /\ r \in Wanted(Here, cursor + 1, r.at[3])
    BY <1>1
  <2>1. PICK k \in DOMAIN Entry : r.at = Place(k) /\ r \in WantedInfo(Place(k), Entry[k])
    BY <1>5
  <2>2. r.at = <<Here, cursor + 1, k>> /\ r.at[3] = k
    BY <1>2, <2>1
  <2> QED
    BY <1>3, <2>1, <2>2
<1>8. \A j \in Slots(Here, cursor + 1) : Wanted(Here, cursor + 1, j) \subseteq AttrRelocs(Entry)
  BY <1>3, <1>4, <1>6
<1> QED
  BY <1>1, <1>7, <1>8, DebugVisit

LEMMA LineVisit ==
  ASSUME DebugInv, Told(image), ScanLine
  PROVE  DebugInv'
<1>1. Walking /\ Here[1] = "line" /\ Entry = Contents(Here)[cursor + 1] /\ Visit(LineRelocs(Entry))
  BY DEF ScanLine, At, Entry
<1>2. \A k : Place(k) = <<Here, cursor + 1, k>>
  BY DEF Place
<1>3. \A j : Wanted(Here, cursor + 1, j) = WantedLine(<<Here, cursor + 1, j>>, Entry, j)
  BY <1>1 DEF Wanted
<1>4. Slots(Here, cursor + 1) = {1, 2}
  BY <1>1 DEF Slots
<1>5. LineRelocs(Entry) = WantedLine(<<Here, cursor + 1, 1>>, Entry, 1)
  BY <1>2 DEF LineRelocs, WantedLine
<1>6. WantedLine(<<Here, cursor + 1, 2>>, Entry, 2) = {}
  BY DEF WantedLine
<1>7. \A r \in LineRelocs(Entry) : r.at = <<Here, cursor + 1, 1>> /\ r.at[3] = 1
  BY <1>2 DEF LineRelocs, Reloc
<1>8. \A r \in LineRelocs(Entry) :
        /\ \E j : r.at = <<Here, cursor + 1, j>> /\ (Here[1] # "info" => j \in {1, 2})
        /\ r \in Wanted(Here, cursor + 1, r.at[3])
  BY <1>3, <1>5, <1>7
<1>9. \A j \in Slots(Here, cursor + 1) : Wanted(Here, cursor + 1, j) \subseteq LineRelocs(Entry)
  BY <1>3, <1>4, <1>5, <1>6
<1> QED
  BY <1>1, <1>8, <1>9, DebugVisit

LEMMA PairVisit ==
  ASSUME DebugInv, Told(image), ScanRanges \/ ScanLoc
  PROVE  DebugInv'
<1>1. /\ Walking /\ Here[1] \in {"ranges", "loc"} /\ Entry = Contents(Here)[cursor + 1]
      /\ Visit(PairRelocs(Entry))
  BY DEF ScanRanges, ScanLoc, At, Entry
<1>2. \A k : Place(k) = <<Here, cursor + 1, k>>
  BY DEF Place
<1>3. \A j : Wanted(Here, cursor + 1, j) = WantedPair(<<Here, cursor + 1, j>>, Entry, j)
  BY <1>1 DEF Wanted
<1>4. Slots(Here, cursor + 1) = {1, 2}
  BY <1>1 DEF Slots
<1>5. PairRelocs(Entry) = WantedPair(<<Here, cursor + 1, 1>>, Entry, 1)
                            \cup WantedPair(<<Here, cursor + 1, 2>>, Entry, 2)
  BY <1>2 DEF PairRelocs, WantedPair
<1>6. \A j \in {1, 2} : \A r \in WantedPair(<<Here, cursor + 1, j>>, Entry, j) :
        r.at = <<Here, cursor + 1, j>> /\ r.at[3] = j
  BY DEF WantedPair, Reloc
<1>7. \A r \in PairRelocs(Entry) :
        /\ \E j : r.at = <<Here, cursor + 1, j>> /\ (Here[1] # "info" => j \in {1, 2})
        /\ r \in Wanted(Here, cursor + 1, r.at[3])
  BY <1>3, <1>5, <1>6
<1>8. \A j \in Slots(Here, cursor + 1) : Wanted(Here, cursor + 1, j) \subseteq PairRelocs(Entry)
  BY <1>3, <1>4, <1>5
<1> QED
  BY <1>1, <1>7, <1>8, DebugVisit

LEMMA OtherVisits ==
  ASSUME DebugInv, Told(image), ScanFrames \/ ScanIndex
  PROVE  DebugInv'
<1>1. Walking /\ Here[1] \in {"frames", "index"}
  BY DEF ScanFrames, ScanIndex, At
<1>2. Here[1] \notin Debug
  BY <1>1 DEF Debug
<1>3. PICK new : /\ Visit(new)
                 /\ \A r \in new : r.at = <<Here, cursor + 1, 1>>
  <2>1. CASE ScanFrames
    <3>1. \A r \in FrameRelocs(Entry) : r.at = <<Here, cursor + 1, 1>>
      BY DEF FrameRelocs, Reloc, Place
    <3> QED
      BY <2>1, <3>1 DEF ScanFrames
  <2>2. CASE ScanIndex
    <3>1. \A r \in Reloc(Place(1), ResolveTarget(Entry.begin), Entry.begin) :
            r.at = <<Here, cursor + 1, 1>>
      BY DEF Reloc, Place
    <3> QED
      BY <2>2, <3>1 DEF ScanIndex
  <2> QED
    BY <2>1, <2>2
<1> QED
  BY <1>1, <1>2, <1>3, DebugVisit

LEMMA Leaves ==
  ASSUME DebugInv, Told(image), InfoFails \/ FramesStop \/ EndOfSection
  PROVE  DebugInv'
<1>1. CASE InfoFails
  <2>1. /\ Walking /\ Here[1] = "info" /\ cursor < Len(Contents(Here)) /\ Leave({})
        /\ ~Readable(Contents(Here)[cursor + 1])
    BY <1>1 DEF InfoFails, At, Entry
  <2>2. cursor + 1 \in DOMAIN Contents(Here)
    <3>1. DOMAIN Contents(Here) = 1..Len(Contents(Here)) /\ Len(Contents(Here)) \in Nat
      BY <2>1, AtHand, SectionKinds DEF DebugInv, TypeInv, Debug
    <3>2. cursor \in Nat
      BY DEF DebugInv, TypeInv
    <3> QED
      BY <2>1, <3>1, <3>2
  <2>3. ~Legible(Here)
    BY <2>1, <2>2 DEF Legible
  <2> QED
    BY <2>1, <2>3, DebugLeave
<1>2. CASE FramesStop
  <2>1. Walking /\ Here[1] \notin Debug /\ Leave(found)
    BY <1>2 DEF FramesStop, At, Debug
  <2> QED
    BY <2>1, DebugLeave
<1>3. CASE EndOfSection
  <2>1. Walking /\ Leave(found) /\ cursor = Len(Contents(Here))
    BY <1>3 DEF EndOfSection
  <2>2. ASSUME Here[1] \in Debug PROVE \A c \in DOMAIN Contents(Here) : c <= cursor
    <3>1. DOMAIN Contents(Here) = 1..Len(Contents(Here)) /\ Len(Contents(Here)) \in Nat
      BY <2>1, <2>2, AtHand, SectionKinds DEF DebugInv, TypeInv
    <3> QED
      BY <2>1, <3>1
  <2> QED
    BY <2>1, <2>2, DebugLeave
<1> QED
  BY <1>1, <1>2, <1>3

LEMMA DebugRelocated ==
  ASSUME \A img \in Images : Told(img)
  PROVE  Spec => []DebugInv
<1>1. Init => DebugInv
  <2> SUFFICES ASSUME Init PROVE DebugInv
    OBVIOUS
  <2>1. image \in Images /\ walk = 0 /\ cursor = 0 /\ found = {} /\ relocs = {} /\ layout = <<>>
    BY DEF Init
  <2>2. ASSUME NEW k \in 1..Count, Section(k)[1] \in Debug,
               NEW c \in DOMAIN Contents(Section(k))
        PROVE  ~(k <= 0) /\ ~(c <= 0)
    <3>1. c \in 1..Len(Contents(Section(k))) /\ Len(Contents(Section(k))) \in Nat
      BY <2>1, <2>2, SectionKinds
    <3> QED
      BY <3>1
  <2>3. DebugComplete
    BY <2>1, <2>2 DEF DebugComplete
  <2> QED
    BY <2>1, <2>3 DEF DebugInv, TypeInv, DebugReal, Linked
<1>2. DebugInv /\ [Next]_vars => DebugInv'
  <2> SUFFICES ASSUME DebugInv, [Next]_vars PROVE DebugInv'
    OBVIOUS
  <2>1. Told(image)
    BY DEF DebugInv, TypeInv
  <2>2. CASE UNCHANGED vars
    <3>1. image' = image /\ walk' = walk /\ cursor' = cursor /\ found' = found
          /\ relocs' = relocs /\ layout' = layout
      BY <2>2 DEF vars
    <3> QED
      BY <3>1, ProgramStays DEF DebugInv, TypeInv, DebugReal, DebugComplete, Linked, Walking
  <2>3. CASE Link
    <3>1. /\ image' = image /\ walk' = walk /\ cursor' = cursor /\ found' = found
          /\ relocs' = relocs /\ layout' \in Layouts(image) /\ ~Walking
      BY <2>3 DEF Link
    <3> QED
      BY <3>1, ProgramStays DEF DebugInv, TypeInv, DebugReal, DebugComplete, Linked, Walking
  <2>4. CASE Done
    <3>1. image' = image /\ walk' = walk /\ cursor' = cursor /\ found' = found
          /\ relocs' = relocs /\ layout' = layout
      BY <2>4 DEF Done, vars
    <3> QED
      BY <3>1, ProgramStays DEF DebugInv, TypeInv, DebugReal, DebugComplete, Linked, Walking
  <2> QED
    BY <2>1, <2>2, <2>3, <2>4, InfoVisit, LineVisit, PairVisit, OtherVisits, Leaves DEF Next
<1> QED
  BY <1>1, <1>2, PTL DEF Spec

-----------------------------------------------------------------------------
(* Functions that stay together *)

Moved(f, a) == layout[f.addr] + (a - f.addr)

\* A nonempty set of natural numbers has a least element.
LEMMA LeastNat ==
  ASSUME NEW S \in SUBSET Nat, S # {}
  PROVE  \E n \in S : \A m \in S : n <= m
<1>1. IsWellFoundedOn(OpToRel(<, Nat), Nat)
  BY NatLessThanWellFounded
<1>2. PICK n \in S : \A m \in S : ~(<<m, n>> \in OpToRel(<, Nat))
  BY <1>1, WFMin
<1>3. \A m \in S : ~(m < n)
  BY <1>2 DEF OpToRel
<1> QED
  BY <1>3

\* An address is in one function.
LEMMA OneFunction ==
  ASSUME image \in Images, FunctionsApart(image), NEW f \in image.functions,
         NEW g \in image.functions, NEW a \in Int, In(f, a), In(g, a)
  PROVE  f = g
<1>1. f.addr \in Nat /\ f.size \in Nat /\ g.addr \in Nat /\ g.size \in Nat
  BY DwarfAssumption
<1> QED
  BY <1>1 DEF FunctionsApart, In

\* The same after the link.
LEMMA OnePlace ==
  ASSUME DebugInv, Linked, NEW f \in image.functions, NEW g \in image.functions,
         NEW a \in Int, NEW b \in Int, In(f, a), In(g, b), Moved(f, a) = Moved(g, b)
  PROVE  f = g
<1>1. f.addr \in Nat /\ f.size \in Nat /\ g.addr \in Nat /\ g.size \in Nat
  BY DwarfAssumption DEF DebugInv, TypeInv
<1>2. Linkable(image, layout)
  BY DwarfAssumption DEF DebugInv, TypeInv
<1>3. layout[f.addr] \in Nat /\ layout[g.addr] \in Nat
  BY <1>2 DEF Linkable
<1>4. f # g => \/ layout[f.addr] + f.size <= layout[g.addr]
               \/ layout[g.addr] + g.size <= layout[f.addr]
  BY <1>2 DEF Linkable
<1> QED
  BY <1>1, <1>3, <1>4 DEF Moved, In

\* What lies between two addresses of a described part, and how the part moves.
SpansFrom(f, lo, hi) ==
  /\ In(f, lo)
  /\ \/ hi <= f.addr + f.size
     \/ /\ ~image.perFunction
        /\ \A a \in lo..(hi - 1) : \E g \in image.functions : g.unit = f.unit /\ In(g, a)

LEMMA SpanOwned ==
  ASSUME image \in Images, NEW f \in image.functions, NEW lo \in Int, NEW hi \in Int,
         SpansFrom(f, lo, hi), NEW a \in lo..(hi - 1)
  PROVE  \E g \in image.functions : In(g, a)
<1>1. f.addr \in Nat /\ f.size \in Nat
  BY DwarfAssumption
<1>2. CASE hi <= f.addr + f.size
  BY <1>1, <1>2 DEF SpansFrom, In
<1>3. CASE \A b \in lo..(hi - 1) : \E g \in image.functions : g.unit = f.unit /\ In(g, b)
  BY <1>3
<1> QED
  BY <1>2, <1>3 DEF SpansFrom

\* The function behind another one of its unit, without a gap, stays behind it.
LEMMA StaysBehind ==
  ASSUME DebugInv, FunctionsApart(image), Linked, ~image.perFunction,
         NEW h \in image.functions, NEW g \in image.functions, h.unit = g.unit,
         h.addr + h.size = g.addr
  PROVE  layout[g.addr] = layout[h.addr] + h.size
<1>1. \A f \in image.functions : f.addr \in Nat /\ f.size \in Nat \ {0}
  BY DwarfAssumption DEF DebugInv, TypeInv
<1>2. Linkable(image, layout)
  BY DwarfAssumption DEF DebugInv, TypeInv
<1>3. h.addr < g.addr
  BY <1>1
<1>4. ASSUME NEW k \in image.functions, h.addr < k.addr, k.addr < g.addr PROVE FALSE
  <2>1. k.addr \in Nat /\ h.addr \in Nat /\ h.size \in Nat /\ In(h, k.addr) /\ In(k, k.addr)
    BY <1>1, <1>4 DEF In
  <2>2. h = k
    BY <2>1, OneFunction DEF DebugInv, TypeInv
  <2> QED
    BY <1>4, <2>1, <2>2
<1> QED
  BY <1>2, <1>3, <1>4 DEF Linkable

LEMMA SpanMoves ==
  ASSUME DebugInv, FunctionsApart(image), Linked, NEW f \in image.functions,
         NEW lo \in Int, NEW hi \in Int, SpansFrom(f, lo, hi),
         NEW a \in lo..(hi - 1), NEW g \in image.functions, In(g, a)
  PROVE  Moved(g, a) = Moved(f, a)
<1>1. \A h \in image.functions : h.addr \in Nat /\ h.size \in Nat \ {0} /\ layout[h.addr] \in Nat
  <2>1. Linkable(image, layout)
    BY DwarfAssumption DEF DebugInv, TypeInv
  <2> QED
    BY <2>1, DwarfAssumption DEF Linkable, DebugInv, TypeInv
<1>2. In(f, lo) /\ lo \in Nat
  BY <1>1 DEF SpansFrom, In
<1>3. CASE hi <= f.addr + f.size
  <2>1. In(f, a)
    BY <1>1, <1>2, <1>3 DEF In
  <2>2. g = f
    BY <2>1, OneFunction DEF DebugInv, TypeInv
  <2> QED
    BY <2>2
<1>4. CASE /\ ~image.perFunction
           /\ \A b \in lo..(hi - 1) : \E h \in image.functions : h.unit = f.unit /\ In(h, b)
  <2> DEFINE Apart(b) == \E h \in image.functions : In(h, b) /\ Moved(h, b) # Moved(f, b)
             T == {b \in lo..(hi - 1) : Apart(b)}
  <2>1. ASSUME T # {} PROVE FALSE
    <3>1. T \in SUBSET Nat
      BY <1>2
    <3>2. PICK b \in T : \A c \in T : b <= c
      <4> HIDE DEF T
      <4> QED
        BY <2>1, <3>1, LeastNat
    <3>3. b \in lo..(hi - 1) /\ b \in Nat
      BY <3>1
    <3>4. PICK h \in image.functions : In(h, b) /\ Moved(h, b) # Moved(f, b)
      OBVIOUS
    <3>5. h # f
      BY <3>4
    <3>6. ~In(h, lo)
      BY <1>2, <3>5, OneFunction DEF DebugInv, TypeInv
    <3>7. lo < h.addr /\ h.addr <= b
      BY <1>1, <1>2, <3>3, <3>4, <3>6 DEF In
    <3>8. h.addr - 1 \in lo..(hi - 1) /\ h.addr - 1 < b
      BY <1>1, <1>2, <3>3, <3>7
    <3>9. PICK k \in image.functions : k.unit = f.unit /\ In(k, h.addr - 1)
      BY <1>4, <3>8
    <3>10. h.unit = f.unit
      <4>1. PICK m \in image.functions : m.unit = f.unit /\ In(m, b)
        BY <1>4, <3>3
      <4>2. m = h
        BY <3>3, <3>4, <4>1, OneFunction DEF DebugInv, TypeInv
      <4> QED
        BY <4>1, <4>2
    <3>11. k # h /\ k.addr < h.addr
      BY <1>1, <3>9 DEF In
    <3>12. k.addr + k.size = h.addr
      BY <1>1, <3>9, <3>11 DEF In, FunctionsApart
    <3>13. layout[h.addr] = layout[k.addr] + k.size
      BY <1>4, <3>9, <3>10, <3>12, StaysBehind
    <3>14. ~Apart(h.addr - 1)
      <4>1. h.addr - 1 \notin T
        <5> HIDE DEF T
        <5> QED
          BY <1>1, <3>2, <3>3, <3>8
      <4> QED
        BY <3>8, <4>1
    <3>15. Moved(k, h.addr - 1) = Moved(f, h.addr - 1)
      BY <3>9, <3>14
    <3>16. Moved(h, b) = Moved(f, b)
      BY <1>1, <3>3, <3>12, <3>13, <3>15 DEF Moved
    <3> QED
      BY <3>4, <3>16
  <2> QED
    BY <2>1
<1> QED
  BY <1>3, <1>4 DEF SpansFrom

Covers(from, to, x, y) == Bytes(TRUE, from, to) = Bytes(FALSE, x, y)

\* The bytes in an extent of a described part are those in the moved extent.
LEMMA SpanCovers ==
  ASSUME DebugInv, FunctionsApart(image), Linked, NEW f \in image.functions,
         NEW lo \in Int, NEW hi \in Int, SpansFrom(f, lo, hi),
         NEW x \in Int, NEW y \in Int, lo <= x, y <= hi
  PROVE  Covers(Moved(f, x), Moved(f, y), x, y)
<1>1. \A h \in image.functions : h.addr \in Nat /\ h.size \in Nat \ {0} /\ layout[h.addr] \in Nat
  <2>1. Linkable(image, layout)
    BY DwarfAssumption DEF DebugInv, TypeInv
  <2> QED
    BY <2>1, DwarfAssumption DEF Linkable, DebugInv, TypeInv
<1>2. ASSUME NEW g \in image.functions, NEW i \in 0..(g.size - 1)
      PROVE  layout[g.addr] + i \in Moved(f, x)..(Moved(f, y) - 1) <=> g.addr + i \in x..(y - 1)
  <2>1. g.addr + i \in Int /\ In(g, g.addr + i) /\ Moved(g, g.addr + i) = layout[g.addr] + i
    BY <1>1 DEF In, Moved
  <2>2. ASSUME g.addr + i \in x..(y - 1)
        PROVE  layout[g.addr] + i \in Moved(f, x)..(Moved(f, y) - 1)
    <3>1. g.addr + i \in lo..(hi - 1)
      BY <2>1, <2>2
    <3>2. layout[g.addr] + i = Moved(f, g.addr + i)
      BY <2>1, <3>1, SpanMoves
    <3> QED
      BY <1>1, <2>1, <2>2, <3>2 DEF Moved
  <2>3. ASSUME layout[g.addr] + i \in Moved(f, x)..(Moved(f, y) - 1)
        PROVE  g.addr + i \in x..(y - 1)
    <3> DEFINE a == layout[g.addr] + i - layout[f.addr] + f.addr
    <3>1. a \in x..(y - 1) /\ a \in Int /\ Moved(f, a) = layout[g.addr] + i
      BY <1>1, <2>3 DEF Moved
    <3> HIDE DEF a
    <3>2. a \in lo..(hi - 1)
      BY <3>1
    <3>3. PICK h \in image.functions : In(h, a)
      BY <3>2, SpanOwned DEF DebugInv, TypeInv
    <3>4. Moved(h, a) = Moved(f, a)
      BY <3>2, <3>3, SpanMoves
    <3>5. g = h
      BY <2>1, <3>1, <3>3, <3>4, OnePlace
    <3>6. a = g.addr + i
      BY <1>1, <3>1, <3>4, <3>5 DEF Moved
    <3> QED
      BY <3>1, <3>6
  <2> QED
    BY <2>2, <2>3
<1> DEFINE New(g) == {<<g.addr, k>> : k \in {i \in 0..(g.size - 1) :
                                       Origin(TRUE, g) + i \in Moved(f, x)..(Moved(f, y) - 1)}}
           Old(g) == {<<g.addr, k>> : k \in {i \in 0..(g.size - 1) :
                                       Origin(FALSE, g) + i \in x..(y - 1)}}
<1>3. ASSUME NEW g \in image.functions PROVE New(g) = Old(g)
  <2>1. Origin(TRUE, g) = layout[g.addr] /\ Origin(FALSE, g) = g.addr
    BY DEF Origin
  <2> QED
    BY <1>2, <2>1
<1>4. /\ Bytes(TRUE, Moved(f, x), Moved(f, y)) = UNION {New(g) : g \in image.functions}
      /\ Bytes(FALSE, x, y) = UNION {Old(g) : g \in image.functions}
  BY DEF Bytes
<1> HIDE DEF New, Old
<1>5. {New(g) : g \in image.functions} = {Old(g) : g \in image.functions}
  BY <1>3
<1> QED
  BY <1>4, <1>5 DEF Covers

\* Where there is no function, before or after, nothing is covered.
LEMMA UnusedCovers ==
  ASSUME DebugInv, Linked, NEW x \in Int, NEW y \in Int, Unused(image, x, y)
  PROVE  Covers(x, y, x, y)
<1>1. \A h \in image.functions : h.addr \in Nat /\ h.size \in Nat \ {0} /\ layout[h.addr] \in Nat
  <2>1. Linkable(image, layout)
    BY DwarfAssumption DEF DebugInv, TypeInv
  <2> QED
    BY <2>1, DwarfAssumption DEF Linkable, DebugInv, TypeInv
<1>2. ASSUME NEW g \in image.functions, NEW i \in 0..(g.size - 1), NEW new \in BOOLEAN
      PROVE  Origin(new, g) + i \notin x..(y - 1)
  <2>1. layout \in Layouts(image)
    BY DEF DebugInv, TypeInv
  <2>2. Origin(new, g) \in {g.addr} \cup {l[g.addr] : l \in Layouts(image)}
    BY <2>1 DEF Origin
  <2>3. y <= Origin(new, g) \/ Origin(new, g) + g.size <= x
    BY <2>2 DEF Unused
  <2>4. Origin(new, g) \in Nat /\ g.size \in Nat
    BY <1>1 DEF Origin
  <2> QED
    BY <2>3, <2>4
<1>3. \A new \in BOOLEAN : Bytes(new, x, y) = {}
  BY <1>2 DEF Bytes
<1> QED
  BY <1>3 DEF Covers

-----------------------------------------------------------------------------
(* What a field holds after the link *)

FieldOf(s, c, j) ==
  /\ \E k \in 1..Count : s = Section(k)
  /\ s[1] \in Debug /\ Legible(s)
  /\ c \in DOMAIN Contents(s) /\ j \in Slots(s, c)

HoldsSum(s, c, j) ==
  \A raw : /\ Wanted(s, c, j) = {} => Held(TRUE, <<s, c, j>>, raw) = raw
           /\ \A w : Wanted(s, c, j) = {w} /\ w.at = <<s, c, j>> =>
                Held(TRUE, <<s, c, j>>, raw) = layout[w.f] + w.addend

\* A field that should have no relocation holds what it held, another one the sum.
LEMMA HeldThere ==
  ASSUME DebugInv, Linked, NEW s, NEW c, NEW j, FieldOf(s, c, j)
  PROVE  HoldsSum(s, c, j)
<1> SUFFICES ASSUME NEW raw
             PROVE  /\ Wanted(s, c, j) = {} => Held(TRUE, <<s, c, j>>, raw) = raw
                    /\ \A w : Wanted(s, c, j) = {w} /\ w.at = <<s, c, j>> =>
                         Held(TRUE, <<s, c, j>>, raw) = layout[w.f] + w.addend
  BY DEF HoldsSum
<1> PICK k \in 1..Count : s = Section(k)
  BY DEF FieldOf
<1> DEFINE at == <<s, c, j>>
<1>1. k <= walk
  <2>1. walk \in Nat /\ Count \in Nat /\ ~(walk < Count)
    BY DwarfAssumption DEF DebugInv, TypeInv, Walking, Count
  <2> QED
    BY <2>1
<1>2. Wanted(s, c, j) \subseteq relocs
  BY <1>1 DEF DebugInv, DebugComplete, FieldOf
<1>3. ASSUME NEW r \in relocs, r.at = at PROVE r \in Wanted(s, c, j)
  <2>1. r.at[1] = s /\ r.at[2] = c /\ r.at[3] = j
    BY <1>3
  <2> QED
    BY <2>1 DEF DebugInv, DebugReal, FieldOf
<1> HIDE DEF at
<1>4. CASE Wanted(s, c, j) = {}
  <2>1. ~\E r \in relocs : r.at = at
    BY <1>3, <1>4
  <2>2. Held(TRUE, at, raw) = raw
    BY <2>1 DEF Held
  <2> QED
    BY <1>4, <2>2 DEF at
<1>5. ASSUME NEW w, Wanted(s, c, j) = {w}, w.at = <<s, c, j>>
      PROVE  Held(TRUE, at, raw) = layout[w.f] + w.addend
  <2>1. w \in relocs /\ w.at = at
    BY <1>2, <1>5 DEF at
  <2>2. \A r \in relocs : r.at = at => r = w
    BY <1>3, <1>5
  <2>3. (CHOOSE r \in relocs : r.at = at) = w
    BY <2>1, <2>2
  <2> QED
    BY <2>1, <2>3 DEF Held
<1> QED
  BY <1>4, <1>5 DEF at

\* Where the sections are in the walk.
LEMMA UnitsWalked ==
  ASSUME image \in Images, image.arch # "arm", NEW u \in 1..image.units
  PROVE  /\ \E k \in 1..Count : <<"info", u>> = Section(k)
         /\ \E k \in 1..Count : <<"line", u>> = Section(k)
<1>1. image.units \in Nat /\ u \in Nat /\ 1 <= u /\ u <= image.units
  BY DwarfAssumption
<1>2. 2 * u - 1 \in 1..Count /\ 2 * u \in 1..Count
      /\ 2 * u - 1 <= 2 * image.units /\ 2 * u <= 2 * image.units
  BY <1>1 DEF Count
<1>3. (2 * u - 1) % 2 = 1 /\ (2 * u) % 2 = 0 /\ (2 * u) \div 2 = u /\ (2 * u + 1) \div 2 = u
  BY <1>1
<1>4. (2 * u - 1) + 1 = 2 * u
  BY <1>1
<1>5. Section(2 * u - 1) = UnitSection(2 * u - 1) /\ Section(2 * u) = UnitSection(2 * u)
  BY <1>2 DEF Section
<1>6. UnitSection(2 * u - 1) = <<"info", u>> /\ UnitSection(2 * u) = <<"line", u>>
  BY <1>3, <1>4 DEF UnitSection
<1> QED
  BY <1>2, <1>5, <1>6

LEMMA ListsWalked ==
  ASSUME image \in Images, image.arch # "arm"
  PROVE  /\ \E k \in 1..Count : <<"ranges", 0>> = Section(k)
         /\ \E k \in 1..Count : <<"loc", 0>> = Section(k)
<1>1. image.units \in Nat
  BY DwarfAssumption
<1> DEFINE n == 2 * image.units
<1>2. n + 2 \in 1..Count /\ n + 3 \in 1..Count /\ ~(n + 2 <= n) /\ ~(n + 3 <= n)
      /\ n + 2 - n = 2 /\ n + 3 - n = 3
  BY <1>1 DEF Count
<1>5. n \in Nat
  BY <1>1
<1> HIDE DEF n
<1>3. Section(n + 2) = SharedSection[2] /\ Section(n + 3) = SharedSection[3]
  <2>1. \A k : Section(k) = IF k <= n THEN UnitSection(k) ELSE SharedSection[k - n]
    BY DEF Section, n
  <2> QED
    BY <1>2, <1>5, <2>1
<1>4. SharedSection[2] = <<"ranges", 0>> /\ SharedSection[3] = <<"loc", 0>>
  BY DEF SharedSection
<1> QED
  BY <1>2, <1>3, <1>4

LEMMA UnitsOnly ==
  ASSUME Told(image), NEW u \in 1..image.units
  PROVE  image.arch # "arm"
<1>1. image.arch = "arm" => image.units = 0
  BY DEF Told
<1> QED
  BY <1>1

NewAttribute(u, d, k) == Attribute(TRUE, u, d, k)
NewField(at, raw) == Held(TRUE, at, raw)

LEMMA AttributeHeld ==
  ASSUME DebugInv, Told(image), Linked, NEW u \in 1..image.units,
         \A d \in DOMAIN image.info[u] : Readable(image.info[u][d]),
         NEW d \in DOMAIN image.info[u], NEW k \in DOMAIN image.info[u][d]
  PROVE  LET x == image.info[u][d][k]
         IN  /\ x.form = "data" => NewAttribute(u, d, k) = x.value
             /\ x.form = "addr" /\ x.value = 0 => NewAttribute(u, d, k) = x.value
             /\ x.form = "strp" => NewAttribute(u, d, k) = layout[Strings] + x.value
             /\ \A f \in image.functions :
                  x.form = "addr" /\ x.value # 0 /\ x.attr \in Relocated /\ In(f, x.value) =>
                    NewAttribute(u, d, k) = Moved(f, x.value)
<1> DEFINE x == image.info[u][d][k]
           s == <<"info", u>>
<1>1. image \in Images /\ image.arch # "arm" /\ FunctionsApart(image)
  BY UnitsOnly DEF DebugInv, TypeInv, Told
<1>2. PICK n \in 1..Count : s = Section(n)
  BY <1>1, UnitsWalked
<1>3. s[1] = "info" /\ s[2] = u
  OBVIOUS
<1>4. Contents(s) = image.info[u]
  BY <1>3 DEF Contents
<1>5. FieldOf(s, d, k)
  BY <1>2, <1>3, <1>4 DEF FieldOf, Legible, Slots, Debug
<1>6. Wanted(s, d, k) = WantedInfo(<<s, d, k>>, x)
  BY <1>3, <1>4 DEF Wanted
<1>7. NewAttribute(u, d, k) = Held(TRUE, <<s, d, k>>, x.value)
  BY DEF Attribute, NewAttribute
<1> HIDE DEF s, x
<1>8. /\ Wanted(s, d, k) = {} => Held(TRUE, <<s, d, k>>, x.value) = x.value
      /\ \A w : Wanted(s, d, k) = {w} /\ w.at = <<s, d, k>> =>
           Held(TRUE, <<s, d, k>>, x.value) = layout[w.f] + w.addend
  <2>1. HoldsSum(s, d, k)
    BY <1>5, HeldThere
  <2> QED
    BY <2>1 DEF HoldsSum
<1>9. x.form = "data" => NewAttribute(u, d, k) = x.value
  BY <1>6, <1>7, <1>8 DEF WantedInfo
<1>10. x.form = "addr" /\ x.value = 0 => NewAttribute(u, d, k) = x.value
  BY <1>6, <1>7, <1>8 DEF WantedInfo
<1>11. ASSUME x.form = "strp" PROVE NewAttribute(u, d, k) = layout[Strings] + x.value
  <2> DEFINE w == [at |-> <<s, d, k>>, f |-> Strings, addend |-> x.value]
  <2>1. Wanted(s, d, k) = {w}
    BY <1>6, <1>11 DEF WantedInfo
  <2>2. w.at = <<s, d, k>> /\ w.f = Strings /\ w.addend = x.value
    OBVIOUS
  <2> HIDE DEF w
  <2> QED
    BY <1>7, <1>8, <2>1, <2>2
<1>12. ASSUME NEW f \in image.functions, x.form = "addr", x.value # 0, x.attr \in Relocated,
              In(f, x.value)
       PROVE  NewAttribute(u, d, k) = Moved(f, x.value)
  <2> DEFINE w == [at |-> <<s, d, k>>, f |-> f.addr, addend |-> x.value - f.addr]
  <2>1. x.value \in Int
    <3>1. image.info[u] \in Seq(Seq([attr : STRING, form : STRING, value : Nat]))
      BY DEF Told
    <3>2. image.info[u][d] \in Seq([attr : STRING, form : STRING, value : Nat])
      BY <3>1, Elements
    <3>3. x \in [attr : STRING, form : STRING, value : Nat]
      BY <3>2, Elements DEF x
    <3> QED
      BY <3>3
  <2>2. ResolveAddr(x.value) = {f}
    BY <1>1, <1>12, <2>1, Owner DEF In
  <2>3. Wanted(s, d, k) = {w}
    BY <1>6, <1>12, <2>2 DEF WantedInfo, Reloc
  <2>4. w.at = <<s, d, k>> /\ w.f = f.addr /\ w.addend = x.value - f.addr
    OBVIOUS
  <2> HIDE DEF w
  <2> QED
    BY <1>7, <1>8, <2>3, <2>4 DEF Moved
<1> QED
  BY <1>9, <1>10, <1>11, <1>12 DEF x

LEMMA SetHeld ==
  ASSUME DebugInv, Told(image), Linked, NEW u \in 1..image.units,
         NEW k \in DOMAIN image.line[u], image.line[u][k].op = "set"
  PROVE  LET x == image.line[u][k].value
         IN  /\ x = 0 => NewField(<<<<"line", u>>, k, 1>>, x) = x
             /\ \A f \in image.functions :
                  x # 0 /\ In(f, x) => NewField(<<<<"line", u>>, k, 1>>, x) = Moved(f, x)
<1> DEFINE x == image.line[u][k].value
           s == <<"line", u>>
<1>1. image \in Images /\ image.arch # "arm" /\ FunctionsApart(image)
  BY UnitsOnly DEF DebugInv, TypeInv, Told
<1>2. PICK n \in 1..Count : s = Section(n)
  BY <1>1, UnitsWalked
<1>3. s[1] = "line" /\ s[2] = u
  OBVIOUS
<1>4. Contents(s) = image.line[u]
  BY <1>3 DEF Contents
<1>5. FieldOf(s, k, 1)
  BY <1>2, <1>3, <1>4 DEF FieldOf, Legible, Slots, Debug
<1>6. Wanted(s, k, 1) = IF x # 0 THEN Reloc(<<s, k, 1>>, ResolveAddr(x), x) ELSE {}
  BY <1>3, <1>4 DEF Wanted, WantedLine
<1> HIDE DEF s, x
<1>7. /\ Wanted(s, k, 1) = {} => NewField(<<s, k, 1>>, x) = x
      /\ \A w : Wanted(s, k, 1) = {w} /\ w.at = <<s, k, 1>> =>
           NewField(<<s, k, 1>>, x) = layout[w.f] + w.addend
  <2>1. HoldsSum(s, k, 1)
    BY <1>5, HeldThere
  <2> QED
    BY <2>1 DEF HoldsSum, NewField
<1>8. ASSUME NEW f \in image.functions, x # 0, In(f, x)
      PROVE  NewField(<<s, k, 1>>, x) = Moved(f, x)
  <2> DEFINE w == [at |-> <<s, k, 1>>, f |-> f.addr, addend |-> x - f.addr]
  <2>1. x \in Int
    <3>1. image.line[u] \in Seq([op : STRING, value : Nat])
      BY DEF Told
    <3>2. image.line[u][k] \in [op : STRING, value : Nat]
      BY <3>1, Elements
    <3> QED
      BY <3>2 DEF x
  <2>2. ResolveAddr(x) = {f}
    BY <1>1, <1>8, <2>1, Owner DEF In
  <2>3. Wanted(s, k, 1) = {w}
    BY <1>6, <1>8, <2>2 DEF Reloc
  <2>4. w.at = <<s, k, 1>> /\ w.f = f.addr /\ w.addend = x - f.addr
    OBVIOUS
  <2> HIDE DEF w
  <2> QED
    BY <1>7, <2>3, <2>4 DEF Moved
<1> QED
  BY <1>6, <1>7, <1>8 DEF s, x

\* The function an address is the end of, if no other one begins there.
LEMMA EndOwner ==
  ASSUME image \in Images, FunctionsApart(image), NEW f \in image.functions, NEW a \in Int,
         f.addr <= a, a <= f.addr + f.size, \A g \in image.functions : g.addr # a
  PROVE  ResolveIncludingEnd(a) = {f}
<1>1. \A g \in image.functions : g.addr \in Nat /\ g.size \in Nat \ {0}
  BY DwarfAssumption
<1>2. ASSUME NEW g \in Below(a), g # f PROVE g.addr < f.addr
  <2>1. g \in image.functions /\ g.addr <= a /\ g.addr # a
    BY DEF Below
  <2>2. f.addr + f.size <= g.addr \/ g.addr + g.size <= f.addr
    BY <1>2, <2>1 DEF FunctionsApart
  <2> QED
    BY <1>1, <2>1, <2>2
<1>3. f \in Below(a)
  BY DEF Below
<1>4. Nearest(a) = {f}
  <2>1. \A g \in Below(a) : g.addr <= f.addr
    <3>1. \A g \in Below(a) : g.addr \in Nat
      BY <1>1 DEF Below
    <3> QED
      BY <1>1, <1>2, <3>1
  <2>2. f \in Nearest(a)
    BY <1>3, <2>1 DEF Nearest
  <2>3. ASSUME NEW g \in Nearest(a), g # f PROVE FALSE
    <3>1. g \in Below(a) /\ f.addr <= g.addr /\ g.addr \in Nat /\ f.addr \in Nat
      BY <1>1, <1>3 DEF Nearest, Below
    <3>2. g.addr < f.addr
      BY <1>2, <2>3, <3>1
    <3> QED
      BY <3>1, <3>2
  <2> QED
    BY <2>2, <2>3
<1> QED
  BY <1>4 DEF ResolveIncludingEnd

\* A distance resolves to nothing.
LEMMA DistanceOwner ==
  ASSUME image \in Images, NEW a \in Int, IsDistance(image, a)
  PROVE  ResolveAddr(a) = {} /\ ResolveIncludingEnd(a) = {}
<1>1. ASSUME NEW f \in Nearest(a) PROVE ~(a <= f.addr + f.size) /\ ~(a < f.addr + f.size)
  <2>1. f \in image.functions /\ f.addr <= a /\ f.addr \in Nat /\ f.size \in Nat
    BY DwarfAssumption DEF Nearest, Below
  <2> QED
    BY <2>1 DEF IsDistance
<1> QED
  BY <1>1 DEF ResolveAddr, ResolveIncludingEnd

PairMoves(name, list, k) ==
  LET lo == list[k].lo
      hi == list[k].hi
      newLo == NewField(<<<<name, 0>>, k, 1>>, lo)
      newHi == NewField(<<<<name, 0>>, k, 2>>, hi)
  IN  /\ lo \in Int /\ hi \in Nat
      /\ IsDistance(image, lo) => newLo = lo
      /\ IsDistance(image, hi) => newHi = hi
      /\ \A f \in image.functions :
           /\ In(f, lo) => newLo = Moved(f, lo)
           /\ /\ f.addr < hi /\ hi <= f.addr + f.size
              /\ \A g \in image.functions : g.addr # hi
              => newHi = Moved(f, hi)

LEMMA PairHeld ==
  ASSUME DebugInv, Told(image), Linked, image.arch # "arm", NEW name \in {"ranges", "loc"},
         NEW list, list = IF name = "ranges" THEN image.ranges ELSE image.loc, NEW k \in Pairs(list)
  PROVE  PairMoves(name, list, k)
<1> DEFINE s == <<name, 0>>
           lo == list[k].lo
           hi == list[k].hi
<1>1. image \in Images /\ FunctionsApart(image)
  BY DEF DebugInv, TypeInv, Told
<1>2. /\ name \in {"ranges", "loc"} /\ list \in {image.ranges, image.loc}
      /\ name = "ranges" => list = image.ranges
      /\ name = "loc" => list = image.loc
  OBVIOUS
<1>3. PICK n \in 1..Count : s = Section(n)
  BY <1>1, <1>2, ListsWalked
<1>4. s[1] = name /\ Contents(s) = list
  BY <1>2 DEF Contents
<1>5. k \in DOMAIN list /\ list[k].kind = "pair" /\ lo \in Int /\ hi \in Nat
  <2>1. list \in Seq([kind : {"pair", "end", "base"}, lo : Int, hi : Nat, unit : Nat])
    BY <1>2 DEF Told
  <2>2. k \in DOMAIN list /\ list[k].kind = "pair"
    BY DEF Pairs
  <2>3. list[k] \in [kind : {"pair", "end", "base"}, lo : Int, hi : Nat, unit : Nat]
    BY <2>1, <2>2, Elements
  <2> QED
    BY <2>2, <2>3
<1>6. FieldOf(s, k, 1) /\ FieldOf(s, k, 2)
  BY <1>2, <1>3, <1>4, <1>5 DEF FieldOf, Legible, Slots, Debug
<1>7. /\ Wanted(s, k, 1) = Reloc(<<s, k, 1>>, ResolveAddr(lo), lo)
      /\ Wanted(s, k, 2) = IF hi # 0 THEN Reloc(<<s, k, 2>>, ResolveIncludingEnd(hi), hi) ELSE {}
  BY <1>2, <1>4, <1>5 DEF Wanted, WantedPair
<1> HIDE DEF s, lo, hi
<1>8. /\ Wanted(s, k, 1) = {} => NewField(<<s, k, 1>>, lo) = lo
      /\ \A w : Wanted(s, k, 1) = {w} /\ w.at = <<s, k, 1>> =>
           NewField(<<s, k, 1>>, lo) = layout[w.f] + w.addend
  <2>1. HoldsSum(s, k, 1)
    BY <1>6, HeldThere
  <2> QED
    BY <2>1 DEF HoldsSum, NewField
<1>13. /\ Wanted(s, k, 2) = {} => NewField(<<s, k, 2>>, hi) = hi
       /\ \A w : Wanted(s, k, 2) = {w} /\ w.at = <<s, k, 2>> =>
            NewField(<<s, k, 2>>, hi) = layout[w.f] + w.addend
  <2>1. HoldsSum(s, k, 2)
    BY <1>6, HeldThere
  <2> QED
    BY <2>1 DEF HoldsSum, NewField
<1>9. IsDistance(image, lo) => NewField(<<s, k, 1>>, lo) = lo
  BY <1>1, <1>5, <1>7, <1>8, DistanceOwner DEF Reloc
<1>10. IsDistance(image, hi) => NewField(<<s, k, 2>>, hi) = hi
  <2>1. hi \in Int
    BY <1>5
  <2>2. IsDistance(image, hi) => Wanted(s, k, 2) = {}
    BY <1>1, <1>7, <2>1, DistanceOwner DEF Reloc
  <2> QED
    BY <1>13, <2>2
<1>11. ASSUME NEW f \in image.functions, In(f, lo)
       PROVE  NewField(<<s, k, 1>>, lo) = Moved(f, lo)
  <2> DEFINE w == [at |-> <<s, k, 1>>, f |-> f.addr, addend |-> lo - f.addr]
  <2>1. ResolveAddr(lo) = {f}
    BY <1>1, <1>5, <1>11, Owner DEF In
  <2>2. Wanted(s, k, 1) = {w}
    BY <1>7, <2>1 DEF Reloc
  <2>3. w.at = <<s, k, 1>> /\ w.f = f.addr /\ w.addend = lo - f.addr
    OBVIOUS
  <2> HIDE DEF w
  <2> QED
    BY <1>8, <2>2, <2>3 DEF Moved
<1>12. ASSUME NEW f \in image.functions, f.addr < hi, hi <= f.addr + f.size,
              \A g \in image.functions : g.addr # hi
       PROVE  NewField(<<s, k, 2>>, hi) = Moved(f, hi)
  <2> DEFINE w == [at |-> <<s, k, 2>>, f |-> f.addr, addend |-> hi - f.addr]
  <2>1. f.addr \in Nat /\ f.size \in Nat
    BY <1>1, DwarfAssumption
  <2>2. ResolveIncludingEnd(hi) = {f}
    BY <1>1, <1>5, <1>12, <2>1, EndOwner
  <2>3. Wanted(s, k, 2) = {w}
    BY <1>5, <1>7, <1>12, <2>1, <2>2 DEF Reloc
  <2>4. w.at = <<s, k, 2>> /\ w.f = f.addr /\ w.addend = hi - f.addr
    OBVIOUS
  <2> HIDE DEF w
  <2> QED
    BY <1>13, <2>3, <2>4 DEF Moved
<1> QED
  BY <1>5, <1>9, <1>10, <1>11, <1>12 DEF s, lo, hi, PairMoves

-----------------------------------------------------------------------------
(* Every extent covers what it covered *)

\* An extent of a part that is kept together, whose ends move with its function.
Carried(a, x, y, from, to) ==
  \A f \in image.functions : In(f, a) => from = Moved(f, x) /\ to = Moved(f, y)

LEMMA SpansCover ==
  ASSUME DebugInv, FunctionsApart(image), Linked, NEW a \in Int, NEW hi \in Int,
         Spans(image, a, hi), NEW x \in Int, NEW y \in Int, a <= x, y <= hi, NEW from, NEW to,
         Carried(a, x, y, from, to)
  PROVE  Covers(from, to, x, y)
<1>1. PICK f \in image.functions : SpansFrom(f, a, hi)
  BY DEF Spans, SpansFrom
<1>2. In(f, a)
  BY <1>1 DEF SpansFrom
<1>3. from = Moved(f, x) /\ to = Moved(f, y)
  BY <1>2 DEF Carried
<1>4. Covers(Moved(f, x), Moved(f, y), x, y)
  BY <1>1, SpanCovers
<1> QED
  BY <1>3, <1>4

LEMMA MovedNat ==
  ASSUME DebugInv, Linked, NEW f \in image.functions
  PROVE  f.addr \in Nat /\ f.size \in Nat \ {0} /\ layout[f.addr] \in Nat
<1>1. Linkable(image, layout)
  BY DwarfAssumption DEF DebugInv, TypeInv
<1> QED
  BY <1>1, DwarfAssumption DEF Linkable, DebugInv, TypeInv

\* The attributes of an entry.
LEMMA AttributeTyped ==
  ASSUME Told(image), NEW u \in 1..image.units, NEW d \in DOMAIN image.info[u],
         NEW k \in DOMAIN image.info[u][d]
  PROVE  image.info[u][d][k].value \in Nat
<1>1. image.info[u] \in Seq(Seq([attr : STRING, form : STRING, value : Nat]))
  BY DEF Told
<1>2. image.info[u][d] \in Seq([attr : STRING, form : STRING, value : Nat])
  BY <1>1, Elements
<1>3. image.info[u][d][k] \in [attr : STRING, form : STRING, value : Nat]
  BY <1>2, Elements
<1> QED
  BY <1>3

Quiet(info) ==
  \A d \in DOMAIN info : \A k \in DOMAIN info[d] :
    /\ info[d][k].attr \notin {"low_pc", "high_pc", "entry_pc", "call_pc"}
    /\ info[d][k].form # "strp"

LEMMA UnitCases ==
  ASSUME Told(image), NEW u \in 1..image.units
  PROVE  \/ \A d \in DOMAIN image.info[u] :
              Readable(image.info[u][d]) /\ EntryTold(image, image.info[u][d])
         \/ Quiet(image.info[u])
<1>1. UnitTold(image, image.info[u])
  BY DEF Told
<1> QED
  BY <1>1 DEF UnitTold, Quiet

LEMMA EntriesFollow ==
  ASSUME DebugInv, Told(image), Linked, NEW u \in 1..image.units, NEW d \in DOMAIN image.info[u]
  PROVE  Entries(TRUE, u, d) = Entries(FALSE, u, d)
<1> DEFINE Pc(new, i, j) ==
             Extent(new, <<"info", u, d>>, Attribute(new, u, d, i),
                    Attribute(new, u, d, j)
                      + IF image.info[u][d][j].form = "addr" THEN 0 ELSE Attribute(new, u, d, i))
<1>1. ASSUME NEW i \in Attributes(u, d, "low_pc"), NEW j \in Attributes(u, d, "high_pc")
      PROVE  Pc(TRUE, i, j) = Pc(FALSE, i, j)
  <2> DEFINE entry == image.info[u][d]
             x == entry[i].value
             n == entry[j].value
  <2>1. /\ i \in DOMAIN entry /\ entry[i].attr = "low_pc"
        /\ j \in DOMAIN entry /\ entry[j].attr = "high_pc"
    BY DEF Attributes
  <2>2. ~Quiet(image.info[u])
    BY <2>1 DEF Quiet
  <2>3. \A e \in DOMAIN image.info[u] :
          Readable(image.info[u][e]) /\ EntryTold(image, image.info[u][e])
    BY <2>2, UnitCases
  <2>4. EntryTold(image, entry)
    BY <2>3
  <2>5. /\ entry[i].form = "addr" /\ entry[j].form = "data"
        /\ IF x = 0 THEN Unused(image, 0, n) ELSE Spans(image, x, x + n)
    BY <2>1, <2>4 DEF EntryTold
  <2>6. x \in Nat /\ n \in Nat
    BY <2>1, AttributeTyped
  <2>7. Attribute(FALSE, u, d, i) = x /\ Attribute(FALSE, u, d, j) = n
    BY DEF Attribute, Held
  <2>8. NewAttribute(u, d, j) = n
    BY <2>1, <2>3, <2>5, AttributeHeld
  <2>9. /\ x = 0 => NewAttribute(u, d, i) = x
        /\ \A f \in image.functions : x # 0 /\ In(f, x) => NewAttribute(u, d, i) = Moved(f, x)
    <3>1. "low_pc" \in Relocated
      BY DEF Relocated
    <3> QED
      BY <2>1, <2>3, <2>5, <3>1, AttributeHeld
  <2>10. Covers(NewAttribute(u, d, i), n + NewAttribute(u, d, i), x, n + x)
    <3> HIDE DEF x, n
    <3>1. CASE x = 0
      <4>1. n + x = n /\ Unused(image, x, n)
        BY <2>5, <2>6, <3>1
      <4>2. Covers(x, n, x, n)
        BY <2>6, <4>1, UnusedCovers
      <4>3. n + NewAttribute(u, d, i) = n
        BY <2>6, <2>9, <3>1
      <4> QED
        BY <2>9, <3>1, <4>1, <4>2, <4>3
    <3>2. CASE x # 0
      <4>1. Spans(image, x, n + x)
        <5>1. x + n = n + x
          BY <2>6
        <5> QED
          BY <2>5, <3>2, <5>1
      <4>2. ASSUME NEW f \in image.functions, In(f, x)
            PROVE  /\ NewAttribute(u, d, i) = Moved(f, x)
                   /\ n + NewAttribute(u, d, i) = Moved(f, n + x)
        <5>1. NewAttribute(u, d, i) = Moved(f, x)
          BY <2>9, <3>2, <4>2
        <5>2. layout[f.addr] \in Nat /\ f.addr \in Nat
          BY MovedNat
        <5> QED
          BY <2>6, <5>1, <5>2 DEF Moved
      <4>3. x \in Int /\ n + x \in Int /\ x <= x /\ n + x <= n + x
        BY <2>6
      <4>4. FunctionsApart(image)
        BY DEF Told
      <4>5. Carried(x, x, n + x, NewAttribute(u, d, i), n + NewAttribute(u, d, i))
        BY <4>2 DEF Carried
      <4> QED
        BY <4>1, <4>3, <4>4, <4>5, SpansCover
    <3> QED
      BY <3>1, <3>2
  <2> QED
    BY <2>5, <2>7, <2>8, <2>10 DEF Extent, Covers, NewAttribute
<1> DEFINE New(i, j) == Pc(TRUE, i, j)
           Old(i, j) == Pc(FALSE, i, j)
           A == Attributes(u, d, "low_pc")
           B == Attributes(u, d, "high_pc")
<1> DEFINE News == {New(i, j) : i \in A, j \in B}
           Olds == {Old(i, j) : i \in A, j \in B}
<1>2. Entries(TRUE, u, d) = News
  BY DEF Entries
<1>3. Entries(FALSE, u, d) = Olds
  BY DEF Entries
<1>4. \A i \in A, j \in B : New(i, j) = Old(i, j)
  BY <1>1
<1> HIDE DEF New, Old, A, B
<1>5. News = Olds
  BY <1>4
<1> HIDE DEF News, Olds
<1> QED
  BY <1>2, <1>3, <1>5

LEMMA PointsFollow ==
  ASSUME DebugInv, Told(image), Linked, NEW u \in 1..image.units, NEW d \in DOMAIN image.info[u]
  PROVE  Points(TRUE, u, d) = Points(FALSE, u, d)
<1> DEFINE Pc(new, k) == Extent(new, <<"info", u, d, k>>, Attribute(new, u, d, k),
                               Attribute(new, u, d, k) + 1)
<1>1. ASSUME NEW k \in Attributes(u, d, "entry_pc") \cup Attributes(u, d, "call_pc")
      PROVE  Pc(TRUE, k) = Pc(FALSE, k)
  <2> DEFINE entry == image.info[u][d]
             x == entry[k].value
  <2>1. k \in DOMAIN entry /\ entry[k].attr \in {"entry_pc", "call_pc"}
    BY DEF Attributes
  <2>2. ~Quiet(image.info[u])
    BY <2>1 DEF Quiet
  <2>3. \A e \in DOMAIN image.info[u] :
          Readable(image.info[u][e]) /\ EntryTold(image, image.info[u][e])
    BY <2>2, UnitCases
  <2>4. entry[k].attr = "entry_pc" /\ entry[k].form = "addr" /\ Spans(image, x, x + 1)
    BY <2>1, <2>3 DEF EntryTold
  <2>5. x \in Nat
    BY <2>1, AttributeTyped
  <2>6. Attribute(FALSE, u, d, k) = x
    BY DEF Attribute, Held
  <2>7. x # 0
    <3>1. PICK f \in image.functions : In(f, x)
      BY <2>4 DEF Spans
    <3>2. f.addr \in Nat \ {0}
      BY DwarfAssumption DEF DebugInv, TypeInv, Strings
    <3>3. f.addr <= x
      BY <3>1 DEF In
    <3> HIDE DEF x
    <3> QED
      BY <3>2, <3>3
  <2>8. \A f \in image.functions : In(f, x) => NewAttribute(u, d, k) = Moved(f, x)
    <3>1. "entry_pc" \in Relocated
      BY DEF Relocated
    <3> QED
      BY <2>1, <2>3, <2>4, <2>7, <3>1, AttributeHeld
  <2>9. Covers(NewAttribute(u, d, k), NewAttribute(u, d, k) + 1, x, x + 1)
    <3> HIDE DEF x
    <3>1. ASSUME NEW f \in image.functions, In(f, x)
          PROVE  /\ NewAttribute(u, d, k) = Moved(f, x)
                 /\ NewAttribute(u, d, k) + 1 = Moved(f, x + 1)
      <4>1. NewAttribute(u, d, k) = Moved(f, x)
        BY <2>8, <3>1
      <4>2. layout[f.addr] \in Nat /\ f.addr \in Nat
        BY MovedNat
      <4> QED
        BY <2>5, <4>1, <4>2 DEF Moved
    <3>2. x \in Int /\ x + 1 \in Int /\ x <= x /\ x + 1 <= x + 1 /\ Spans(image, x, x + 1)
      BY <2>4, <2>5
    <3>3. FunctionsApart(image)
      BY DEF Told
    <3>4. Carried(x, x, x + 1, NewAttribute(u, d, k), NewAttribute(u, d, k) + 1)
      BY <3>1 DEF Carried
    <3> QED
      BY <3>2, <3>3, <3>4, SpansCover
  <2> QED
    BY <2>6, <2>9 DEF Extent, Covers, NewAttribute
<1>2. \A new : Points(new, u, d) =
        {Pc(new, k) : k \in Attributes(u, d, "entry_pc") \cup Attributes(u, d, "call_pc")}
  BY DEF Points
<1> HIDE DEF Pc
<1> QED
  BY <1>1, <1>2

LEMMA TextsFollow ==
  ASSUME DebugInv, Told(image), Linked, NEW u \in 1..image.units, NEW d \in DOMAIN image.info[u]
  PROVE  Texts(TRUE, u, d) = Texts(FALSE, u, d)
<1>1. ASSUME NEW k \in DOMAIN image.info[u][d], image.info[u][d][k].form = "strp"
      PROVE  NewAttribute(u, d, k) - layout[Strings] = image.info[u][d][k].value - 0
             /\ Attribute(FALSE, u, d, k) = image.info[u][d][k].value
  <2>1. ~Quiet(image.info[u])
    BY <1>1 DEF Quiet
  <2>2. \A e \in DOMAIN image.info[u] : Readable(image.info[u][e])
    BY <2>1, UnitCases
  <2>3. NewAttribute(u, d, k) = layout[Strings] + image.info[u][d][k].value
    BY <1>1, <2>2, AttributeHeld
  <2>4. Attribute(FALSE, u, d, k) = image.info[u][d][k].value
    BY DEF Attribute, Held
  <2>5. image.info[u][d][k].value \in Nat
    BY AttributeTyped
  <2>6. layout[Strings] \in Nat
    <3>1. Linkable(image, layout)
      BY DwarfAssumption DEF DebugInv, TypeInv
    <3> QED
      BY <3>1 DEF Linkable
  <2>7. NewAttribute(u, d, k) - layout[Strings] = image.info[u][d][k].value - 0
    <3> DEFINE n == NewAttribute(u, d, k)
               o == layout[Strings]
               v == image.info[u][d][k].value
    <3>1. n = o + v /\ v \in Nat /\ o \in Nat
      BY <2>3, <2>5, <2>6
    <3> HIDE DEF n, o, v
    <3>2. n - o = v - 0
      BY <3>1
    <3> QED
      BY <3>2 DEF n, o, v
  <2> QED
    BY <2>4, <2>7
<1> QED
  BY <1>1 DEF Texts, NewAttribute

LEMMA InfoFollows ==
  ASSUME DebugInv, Told(image), Linked
  PROVE  InfoExtents(TRUE) = InfoExtents(FALSE)
<1> DEFINE All(new, u, d) == Entries(new, u, d) \cup Points(new, u, d) \cup Texts(new, u, d)
           Unit(new, u) == UNION {All(new, u, d) : d \in DOMAIN image.info[u]}
<1>1. \A u \in 1..image.units : \A d \in DOMAIN image.info[u] : All(TRUE, u, d) = All(FALSE, u, d)
  BY EntriesFollow, PointsFollow, TextsFollow
<1> HIDE DEF All
<1>2. ASSUME NEW u \in 1..image.units PROVE Unit(TRUE, u) = Unit(FALSE, u)
  <2>1. {All(TRUE, u, d) : d \in DOMAIN image.info[u]} = {All(FALSE, u, d) : d \in DOMAIN image.info[u]}
    BY <1>1
  <2> QED
    BY <2>1
<1> HIDE DEF Unit
<1>3. {Unit(TRUE, u) : u \in 1..image.units} = {Unit(FALSE, u) : u \in 1..image.units}
  BY <1>2
<1>4. \A new : InfoExtents(new) = UNION {Unit(new, u) : u \in 1..image.units}
  BY DEF InfoExtents, Unit, All
<1> QED
  BY <1>3, <1>4

NewRow(u, k) == RowAddress(TRUE, u, k)
OldRow(u, k) == RowAddress(FALSE, u, k)
Following(u, k) ==
  CHOOSE m \in Rows(image.line[u]) : IsNext(image.line[u], k, m)

\* The opcodes of a line table.
LEMMA LineTyped ==
  ASSUME Told(image), NEW u \in 1..image.units
  PROVE  /\ DOMAIN image.line[u] \subseteq Nat
         /\ \A k \in DOMAIN image.line[u] : image.line[u][k].value \in Nat
<1>1. image.line[u] \in Seq([op : STRING, value : Nat])
  BY DEF Told
<1>2. DOMAIN image.line[u] = 1..Len(image.line[u]) /\ Len(image.line[u]) \in Nat
  BY <1>1
<1>3. ASSUME NEW k \in DOMAIN image.line[u] PROVE image.line[u][k].value \in Nat
  <2>1. image.line[u][k] \in [op : STRING, value : Nat]
    BY <1>1, Elements
  <2> QED
    BY <2>1
<1> QED
  BY <1>2, <1>3

\* There is one row behind a row, if any.
LEMMA OneNext ==
  ASSUME Told(image), NEW u \in 1..image.units, NEW k \in DOMAIN image.line[u],
         NEW m \in Rows(image.line[u]), IsNext(image.line[u], k, m)
  PROVE  Following(u, k) = m
<1>1. \A n \in Rows(image.line[u]) : n \in Nat
  BY LineTyped DEF Rows
<1>2. ASSUME NEW n \in Rows(image.line[u]), IsNext(image.line[u], k, n) PROVE n = m
  <2>1. n \in Nat /\ m \in Nat /\ k \in Nat
    BY <1>1, LineTyped
  <2>2. k < m /\ ~(k < n /\ n < m) /\ k < n /\ ~(k < m /\ m < n)
    BY <1>2 DEF IsNext
  <2> QED
    BY <2>1, <2>2
<1> QED
  BY <1>2 DEF Following

\* A row lies behind the address set last.
LEMMA BehindSet ==
  ASSUME Told(image), NEW u \in 1..image.units, NEW k \in DOMAIN image.line[u],
         NEW j \in LastSets(image.line[u], k)
  PROVE  LET x == image.line[u][j].value
             n == image.line[u][k].value
         IN  /\ j \in DOMAIN image.line[u] /\ image.line[u][j].op = "set"
             /\ NewRow(u, k) = NewField(<<<<"line", u>>, j, 1>>, x) + n
             /\ OldRow(u, k) = x + n
<1> DEFINE ops == image.line[u]
<1>1. j \in DOMAIN ops /\ ops[j].op = "set"
  BY DEF LastSets
<1>2. ASSUME NEW i \in LastSets(ops, k) PROVE i = j
  <2>1. i \in Nat /\ j \in Nat /\ k \in Nat
    BY LineTyped DEF LastSets
  <2>2. /\ i <= k /\ ops[i].op = "set" /\ \A n \in (i + 1)..k : ops[n].op # "set"
        /\ j <= k /\ ops[j].op = "set" /\ \A n \in (j + 1)..k : ops[n].op # "set"
    BY DEF LastSets
  <2>3. i \notin (j + 1)..k /\ j \notin (i + 1)..k
    BY <2>2
  <2> QED
    BY <2>1, <2>2, <2>3
<1>3. (CHOOSE i \in LastSets(ops, k) : TRUE) = j
  BY <1>2
<1>4. LastSets(ops, k) # {}
  OBVIOUS
<1>5. \A new : RowAddress(new, u, k) = Held(new, <<<<"line", u>>, j, 1>>, ops[j].value) + ops[k].value
  BY <1>3, <1>4 DEF RowAddress
<1>6. OldRow(u, k) = ops[j].value + ops[k].value
  BY <1>5 DEF OldRow, Held
<1>7. NewRow(u, k) = NewField(<<<<"line", u>>, j, 1>>, ops[j].value) + ops[k].value
  BY <1>5 DEF NewRow, NewField
<1> QED
  BY <1>1, <1>6, <1>7

\* The addresses set before two rows, if what is between them is kept together.
LEMMA SetsMove ==
  ASSUME DebugInv, Told(image), Linked, NEW u \in 1..image.units,
         NEW i \in DOMAIN image.line[u], NEW j \in DOMAIN image.line[u],
         image.line[u][i].op = "set", image.line[u][j].op = "set",
         0 < image.line[u][i].value, image.line[u][i].value <= image.line[u][j].value,
         i = j \/ Spans(image, image.line[u][i].value, image.line[u][j].value + 1),
         NEW f \in image.functions, In(f, image.line[u][i].value)
  PROVE  /\ NewField(<<<<"line", u>>, i, 1>>, image.line[u][i].value) = Moved(f, image.line[u][i].value)
         /\ NewField(<<<<"line", u>>, j, 1>>, image.line[u][j].value) = Moved(f, image.line[u][j].value)
<1> DEFINE x == image.line[u][i].value
           y == image.line[u][j].value
<1>1. x \in Nat /\ y \in Nat /\ x # 0 /\ y # 0
  BY LineTyped
<1>2. NewField(<<<<"line", u>>, i, 1>>, x) = Moved(f, x)
  BY <1>1, SetHeld
<1>3. CASE i = j
  BY <1>2, <1>3
<1>4. CASE Spans(image, x, y + 1)
  <2>1. \A h \in image.functions : In(h, y) => NewField(<<<<"line", u>>, j, 1>>, y) = Moved(h, y)
    BY <1>1, SetHeld
  <2>2. x <= y
    OBVIOUS
  <2>3. In(f, x)
    OBVIOUS
  <2>4. image \in Images /\ FunctionsApart(image)
    BY DEF DebugInv, TypeInv, Told
  <2> HIDE DEF x, y
  <2>5. x \in Int /\ y + 1 \in Int /\ y \in x..(y + 1 - 1)
    BY <1>1, <2>2
  <2>6. PICK g \in image.functions : SpansFrom(g, x, y + 1)
    BY <1>4 DEF Spans, SpansFrom
  <2>7. g = f
    BY <2>3, <2>4, <2>5, <2>6, OneFunction DEF SpansFrom
  <2>8. PICK h \in image.functions : In(h, y)
    BY <2>4, <2>5, <2>6, SpanOwned
  <2>9. Moved(h, y) = Moved(f, y)
    BY <2>4, <2>5, <2>6, <2>7, <2>8, SpanMoves
  <2> QED
    BY <1>2, <2>1, <2>8, <2>9 DEF x, y
<1> QED
  BY <1>3, <1>4

\* From a row to the next.
LEMMA RowFollows ==
  ASSUME DebugInv, Told(image), Linked, NEW u \in 1..image.units,
         NEW k \in Rows(image.line[u]), image.line[u][k].op = "row"
  PROVE  Covers(NewRow(u, k), NewRow(u, Following(u, k)), OldRow(u, k), OldRow(u, Following(u, k)))
<1> DEFINE ops == image.line[u]
<1>1. PICK m \in Rows(ops), i \in DOMAIN ops, j \in DOMAIN ops :
        /\ IsNext(ops, k, m) /\ i \in LastSets(ops, k) /\ j \in LastSets(ops, m)
        /\ \/ /\ i = j /\ ops[i].value = 0
              /\ Unused(image, ops[k].value, ops[m].value)
           \/ /\ 0 < ops[i].value /\ ops[i].value <= ops[j].value
              /\ Spans(image, ops[i].value, ops[j].value + ops[m].value)
              /\ i = j \/ Spans(image, ops[i].value, ops[j].value + 1)
  BY DEF Told, LineTold
<1>2. k \in DOMAIN ops /\ m \in DOMAIN ops
  BY DEF Rows
<1>3. Following(u, k) = m
  BY <1>1, <1>2, OneNext
<1> DEFINE a == ops[i].value
           b == ops[j].value
           n == ops[k].value
           o == ops[m].value
           from == NewField(<<<<"line", u>>, i, 1>>, a)
           to == NewField(<<<<"line", u>>, j, 1>>, b)
<1>4. /\ NewRow(u, k) = from + n /\ NewRow(u, m) = to + o
      /\ OldRow(u, k) = a + n /\ OldRow(u, m) = b + o
      /\ ops[i].op = "set" /\ ops[j].op = "set"
  BY <1>1, <1>2, BehindSet
<1>5. a \in Nat /\ b \in Nat /\ n \in Nat /\ o \in Nat
  BY <1>2, LineTyped
<1>6. Covers(from + n, to + o, a + n, b + o)
  <2>1. CASE i = j /\ a = 0 /\ Unused(image, n, o)
    <3>1. from = 0 /\ to = 0 /\ b = 0
      BY <1>4, <2>1, SetHeld
    <3>2. Covers(n, o, n, o)
      BY <1>5, <2>1, UnusedCovers
    <3> HIDE DEF a, b, n, o, from, to
    <3>3. from + n = n /\ to + o = o /\ a + n = n /\ b + o = o
      BY <1>5, <2>1, <3>1
    <3> QED
      BY <3>2, <3>3
  <2>2. CASE 0 < a /\ a <= b /\ Spans(image, a, b + o) /\ (i = j \/ Spans(image, a, b + 1))
    <3>1. ASSUME NEW f \in image.functions, In(f, a)
          PROVE  from = Moved(f, a) /\ to = Moved(f, b)
      BY <1>4, <2>2, <3>1, SetsMove
    <3> HIDE DEF a, b, n, o, from, to
    <3>2. ASSUME NEW f \in image.functions, In(f, a)
          PROVE  from + n = Moved(f, a + n) /\ to + o = Moved(f, b + o)
      <4>1. f.addr \in Nat /\ layout[f.addr] \in Nat
        BY MovedNat
      <4>2. from = Moved(f, a) /\ to = Moved(f, b)
        BY <3>1, <3>2
      <4> QED
        BY <1>5, <4>1, <4>2 DEF Moved
    <3>3. a \in Int /\ b + o \in Int /\ a + n \in Int /\ a <= a + n /\ b + o <= b + o
      BY <1>5
    <3>4. FunctionsApart(image)
      BY DEF Told
    <3>5. Carried(a, a + n, b + o, from + n, to + o)
      BY <3>2 DEF Carried
    <3> QED
      BY <2>2, <3>3, <3>4, <3>5, SpansCover
  <2> QED
    BY <1>1, <2>1, <2>2
<1> QED
  BY <1>3, <1>4, <1>6

LEMMA LinesFollow ==
  ASSUME DebugInv, Told(image), Linked
  PROVE  LineExtents(TRUE) = LineExtents(FALSE)
<1> DEFINE New(u, k) == [id |-> <<"line", u, k>>, bytes |-> Bytes(TRUE, NewRow(u, k), NewRow(u, Following(u, k)))]
           Old(u, k) == [id |-> <<"line", u, k>>, bytes |-> Bytes(FALSE, OldRow(u, k), OldRow(u, Following(u, k)))]
           Ks(u) == {m \in Rows(image.line[u]) : image.line[u][m].op = "row"}
           News(u) == {New(u, k) : k \in Ks(u)}
           Olds(u) == {Old(u, k) : k \in Ks(u)}
<1>1. \A u \in 1..image.units : \A k \in Ks(u) : New(u, k) = Old(u, k)
  BY RowFollows DEF Covers
<1> HIDE DEF New, Old, Ks
<1>2. \A u \in 1..image.units : News(u) = Olds(u)
  BY <1>1
<1>3. LineExtents(TRUE) = UNION {News(u) : u \in 1..image.units}
  BY DEF LineExtents, Extent, NewRow, Following, New, Ks
<1>4. LineExtents(FALSE) = UNION {Olds(u) : u \in 1..image.units}
  BY DEF LineExtents, Extent, OldRow, Following, Old, Ks
<1> HIDE DEF News, Olds
<1>5. {News(u) : u \in 1..image.units} = {Olds(u) : u \in 1..image.units}
  BY <1>2
<1> QED
  BY <1>3, <1>4, <1>5

NewBase(list, k) == Base(TRUE, list, k)
OldBase(list, k) == Base(FALSE, list, k)

\* Where a unit starts.
LEMMA StartHeld ==
  ASSUME DebugInv, Told(image), Linked, NEW u \in 1..image.units, NEW s \in Starts(image.info[u])
  PROVE  LET x == image.info[u][1][s].value
         IN  /\ x \in Nat /\ Attribute(FALSE, u, 1, s) = x
             /\ x = 0 => NewAttribute(u, 1, s) = x
             /\ \A f \in image.functions : x # 0 /\ In(f, x) => NewAttribute(u, 1, s) = Moved(f, x)
<1> DEFINE info == image.info[u]
           x == info[1][s].value
<1>1. info # <<>> /\ s \in DOMAIN info[1] /\ info[1][s].attr = "low_pc"
  BY DEF Starts
<1>2. 1 \in DOMAIN info
  <2>1. info \in Seq(Seq([attr : STRING, form : STRING, value : Nat]))
    BY DEF Told
  <2> QED
    BY <1>1, <2>1
<1>3. \A d \in DOMAIN info : Readable(info[d]) /\ EntryTold(image, info[d])
  <2>1. ~Quiet(info)
    BY <1>1, <1>2 DEF Quiet
  <2> QED
    BY <2>1, UnitCases
<1>4. info[1][s].form = "addr"
  BY <1>1, <1>2, <1>3 DEF EntryTold
<1>5. x \in Nat
  BY <1>1, <1>2, AttributeTyped
<1>6. Attribute(FALSE, u, 1, s) = x
  BY DEF Attribute, Held
<1>7. "low_pc" \in Relocated
  BY DEF Relocated
<1> QED
  BY <1>1, <1>2, <1>3, <1>4, <1>5, <1>6, <1>7, AttributeHeld

\* The origin of a pair.
LEMMA BaseHeld ==
  ASSUME DebugInv, Told(image), Linked, NEW list, DOMAIN list \subseteq Nat, NEW k \in DOMAIN list,
         list[k].unit \in 1..image.units
  PROVE  LET info == image.info[list[k].unit]
         IN  /\ \A j \in LastBases(list, k) : list[j].hi = 0 => NewBase(list, k) = 0 /\ OldBase(list, k) = 0
             /\ LastBases(list, k) = {} /\ Starts(info) = {} =>
                  NewBase(list, k) = 0 /\ OldBase(list, k) = 0
             /\ LastBases(list, k) = {} /\ Starts(info) # {} =>
                  \E s \in Starts(info) :
                    LET x == info[1][s].value
                    IN  /\ OldBase(list, k) = x /\ x \in Nat
                        /\ x = 0 => NewBase(list, k) = x
                        /\ \A f \in image.functions : x # 0 /\ In(f, x) => NewBase(list, k) = Moved(f, x)
<1> DEFINE u == list[k].unit
           info == image.info[u]
<1>1. ASSUME NEW j \in LastBases(list, k), list[j].hi = 0
      PROVE  NewBase(list, k) = 0 /\ OldBase(list, k) = 0
  <2>1. ASSUME NEW i \in LastBases(list, k) PROVE i = j
    <3>1. i \in 1..(k - 1) /\ j \in 1..(k - 1) /\ k \in Nat
      BY DEF LastBases
    <3>2. /\ list[i].kind = "base" /\ \A m \in (i + 1)..k : list[m].kind \notin {"base", "end"}
          /\ list[j].kind = "base" /\ \A m \in (j + 1)..k : list[m].kind \notin {"base", "end"}
      BY DEF LastBases
    <3>3. i \notin (j + 1)..k /\ j \notin (i + 1)..k
      BY <3>2
    <3> QED
      BY <3>1, <3>3
  <2>2. (CHOOSE i \in LastBases(list, k) : TRUE) = j
    BY <2>1
  <2>3. LastBases(list, k) # {}
    OBVIOUS
  <2> QED
    BY <1>1, <2>2, <2>3 DEF NewBase, OldBase, Base
<1>2. ASSUME LastBases(list, k) = {}, Starts(info) = {}
      PROVE  NewBase(list, k) = 0 /\ OldBase(list, k) = 0
  BY <1>2 DEF NewBase, OldBase, Base, UnitBase
<1>3. ASSUME LastBases(list, k) = {}, Starts(info) # {}
      PROVE  \E s \in Starts(info) :
               /\ OldBase(list, k) = info[1][s].value /\ info[1][s].value \in Nat
               /\ info[1][s].value = 0 => NewBase(list, k) = info[1][s].value
               /\ \A f \in image.functions :
                    info[1][s].value # 0 /\ In(f, info[1][s].value) =>
                      NewBase(list, k) = Moved(f, info[1][s].value)
  <2> DEFINE s == CHOOSE i \in Starts(info) : TRUE
  <2>1. s \in Starts(info)
    BY <1>3
  <2>2. NewBase(list, k) = NewAttribute(u, 1, s)
    BY <1>3 DEF NewBase, Base, UnitBase, NewAttribute
  <2>3. OldBase(list, k) = Attribute(FALSE, u, 1, s)
    BY <1>3 DEF OldBase, Base, UnitBase
  <2> HIDE DEF s
  <2> QED
    BY <2>1, <2>2, <2>3, StartHeld
<1> QED
  BY <1>1, <1>2, <1>3

\* A pair of addresses, or of distances from the start of nothing.
LEMMA ZeroBase ==
  ASSUME DebugInv, Told(image), Linked, NEW list, DOMAIN list \subseteq Nat, NEW k \in DOMAIN list,
         list[k].unit \in 1..image.units,
         \/ \E j \in LastBases(list, k) : list[j].hi = 0
         \/ /\ LastBases(list, k) = {}
            /\ \A s \in Starts(image.info[list[k].unit]) : image.info[list[k].unit][1][s].value = 0
  PROVE  NewBase(list, k) = 0 /\ OldBase(list, k) = 0
<1>1. CASE \E j \in LastBases(list, k) : list[j].hi = 0
  BY <1>1, BaseHeld
<1>2. CASE LastBases(list, k) = {} /\ Starts(image.info[list[k].unit]) = {}
  BY <1>2, BaseHeld
<1>3. CASE /\ LastBases(list, k) = {} /\ Starts(image.info[list[k].unit]) # {}
           /\ \A s \in Starts(image.info[list[k].unit]) : image.info[list[k].unit][1][s].value = 0
  BY <1>3, BaseHeld
<1> QED
  BY <1>1, <1>2, <1>3, Zenon

\* A pair of distances from the start of its unit.
LEMMA RelativeFollows ==
  ASSUME DebugInv, Told(image), Linked, NEW list, DOMAIN list \subseteq Nat, NEW k \in DOMAIN list,
         NEW u \in 1..image.units, u = list[k].unit,
         LastBases(list, k) = {}, Starts(image.info[u]) # {},
         NEW lo \in Int, NEW hi \in Int, lo >= 0,
         \A s \in Starts(image.info[u]) :
           /\ image.info[u][1][s].value # 0
           /\ Spans(image, image.info[u][1][s].value, image.info[u][1][s].value + hi)
  PROVE  Covers(NewBase(list, k) + lo, NewBase(list, k) + hi, OldBase(list, k) + lo, OldBase(list, k) + hi)
<1> DEFINE from == NewBase(list, k)
           base == OldBase(list, k)
<1>1. PICK s \in Starts(image.info[u]) :
        /\ base = image.info[u][1][s].value
        /\ \A f \in image.functions :
             image.info[u][1][s].value # 0 /\ In(f, image.info[u][1][s].value) =>
               from = Moved(f, image.info[u][1][s].value)
  BY BaseHeld
<1>2. image.info[u][1][s].value \in Nat
  BY StartHeld
<1>3. base \in Nat /\ base # 0 /\ Spans(image, base, base + hi)
  BY <1>1, <1>2, Zenon
<1>4. \A f \in image.functions : In(f, base) => from = Moved(f, base)
  BY <1>1
<1> HIDE DEF from, base
<1>5. ASSUME NEW f \in image.functions, In(f, base)
      PROVE  from + lo = Moved(f, base + lo) /\ from + hi = Moved(f, base + hi)
  <2>1. f.addr \in Nat /\ layout[f.addr] \in Nat
    BY MovedNat
  <2>2. from = Moved(f, base)
    BY <1>4, <1>5
  <2> QED
    BY <1>3, <2>1, <2>2 DEF Moved
<1>6. base \in Int /\ base + hi \in Int /\ base + lo \in Int /\ base <= base + lo /\ base + hi <= base + hi
  BY <1>3
<1>7. FunctionsApart(image)
  BY DEF Told
<1>8. Carried(base, base + lo, base + hi, from + lo, from + hi)
  BY <1>5 DEF Carried
<1>9. Covers(from + lo, from + hi, base + lo, base + hi)
  BY <1>3, <1>6, <1>7, <1>8, SpansCover
<1> QED
  BY <1>9 DEF from, base

\* A pair of addresses of one function, or of dropped code.
LEMMA AbsoluteFollows ==
  ASSUME DebugInv, Told(image), Linked, NEW name, NEW list, NEW k \in DOMAIN list,
         PairMoves(name, list, k),
         \/ /\ IsDistance(image, list[k].lo) /\ IsDistance(image, list[k].hi)
            /\ Unused(image, list[k].lo, list[k].hi)
         \/ \E f \in image.functions :
              /\ f.addr <= list[k].lo /\ list[k].lo < list[k].hi /\ list[k].hi <= f.addr + f.size
              /\ \A g \in image.functions : g.addr # list[k].hi
  PROVE  LET lo == list[k].lo
             hi == list[k].hi
         IN  Covers(0 + NewField(<<<<name, 0>>, k, 1>>, lo), 0 + NewField(<<<<name, 0>>, k, 2>>, hi),
                    0 + lo, 0 + hi)
<1> DEFINE lo == list[k].lo
           hi == list[k].hi
           newLo == NewField(<<<<name, 0>>, k, 1>>, lo)
           newHi == NewField(<<<<name, 0>>, k, 2>>, hi)
<1>1. /\ lo \in Int /\ hi \in Int
      /\ IsDistance(image, lo) => newLo = lo
      /\ IsDistance(image, hi) => newHi = hi
      /\ \A f \in image.functions :
           /\ In(f, lo) => newLo = Moved(f, lo)
           /\ f.addr < hi /\ hi <= f.addr + f.size /\ (\A g \in image.functions : g.addr # hi) =>
                newHi = Moved(f, hi)
  BY DEF PairMoves
<1>2. \/ IsDistance(image, lo) /\ IsDistance(image, hi) /\ Unused(image, lo, hi)
      \/ \E f \in image.functions :
           /\ f.addr <= lo /\ lo < hi /\ hi <= f.addr + f.size
           /\ \A g \in image.functions : g.addr # hi
  OBVIOUS
<1> HIDE DEF lo, hi, newLo, newHi
<1>3. ASSUME IsDistance(image, lo), IsDistance(image, hi), Unused(image, lo, hi)
      PROVE  Covers(0 + newLo, 0 + newHi, 0 + lo, 0 + hi)
  <2>1. Covers(lo, hi, lo, hi)
    BY <1>1, <1>3, UnusedCovers
  <2>2. 0 + newLo = lo /\ 0 + newHi = hi /\ 0 + lo = lo /\ 0 + hi = hi
    BY <1>1, <1>3
  <2> QED
    BY <2>1, <2>2
<1>4. ASSUME NEW f \in image.functions, f.addr <= lo, lo < hi, hi <= f.addr + f.size,
             \A g \in image.functions : g.addr # hi
      PROVE  Covers(0 + newLo, 0 + newHi, 0 + lo, 0 + hi)
  <2>1. f.addr \in Nat /\ f.size \in Nat /\ layout[f.addr] \in Nat
    BY MovedNat
  <2>2. In(f, lo) /\ f.addr < hi
    BY <1>1, <1>4, <2>1 DEF In
  <2>3. newLo = Moved(f, lo) /\ newHi = Moved(f, hi)
    BY <1>1, <1>4, <2>2
  <2>4. SpansFrom(f, lo, hi) /\ lo <= lo /\ hi <= hi
    BY <1>1, <1>4, <2>2 DEF SpansFrom
  <2>5. FunctionsApart(image)
    BY DEF Told
  <2>6. Covers(Moved(f, lo), Moved(f, hi), lo, hi)
    BY <1>1, <2>4, <2>5, SpanCovers
  <2>7. Moved(f, lo) \in Int /\ Moved(f, hi) \in Int
    BY <1>1, <2>1 DEF Moved
  <2>8. 0 + newLo = Moved(f, lo) /\ 0 + newHi = Moved(f, hi) /\ 0 + lo = lo /\ 0 + hi = hi
    BY <1>1, <2>3, <2>7
  <2> QED
    BY <2>6, <2>8
<1>5. Covers(0 + newLo, 0 + newHi, 0 + lo, 0 + hi)
  BY <1>2, <1>3, <1>4
<1> QED
  BY <1>5 DEF lo, hi, newLo, newHi

\* A pair says after the link what it said before.
PairKept(name, list, k) ==
  Covers(NewBase(list, k) + NewField(<<<<name, 0>>, k, 1>>, list[k].lo),
         NewBase(list, k) + NewField(<<<<name, 0>>, k, 2>>, list[k].hi),
         OldBase(list, k) + list[k].lo, OldBase(list, k) + list[k].hi)

LEMMA ToldPairFollows ==
  ASSUME DebugInv, Told(image), Linked, NEW name, NEW list, DOMAIN list \subseteq Nat,
         NEW k \in DOMAIN list, PairMoves(name, list, k), PairTold(image, list, k)
  PROVE  PairKept(name, list, k)
<1> DEFINE lo == list[k].lo
           hi == list[k].hi
           u == list[k].unit
           info == image.info[u]
           apart == IsDistance(image, lo) /\ IsDistance(image, hi)
<1>1. /\ u \in 1..image.units
      /\ \/ /\ \/ \E j \in LastBases(list, k) : list[j].hi = 0
               \/ LastBases(list, k) = {} /\ \A s \in Starts(info) : info[1][s].value = 0
            /\ \/ apart /\ Unused(image, lo, hi)
               \/ \E f \in image.functions :
                    /\ f.addr <= lo /\ lo < hi /\ hi <= f.addr + f.size
                    /\ \A g \in image.functions : g.addr # hi
         \/ /\ LastBases(list, k) = {} /\ Starts(info) # {} /\ apart /\ lo >= 0
            /\ \A s \in Starts(info) :
                 info[1][s].value # 0 /\ Spans(image, info[1][s].value, info[1][s].value + hi)
  BY DEF PairTold
<1>2. CASE /\ \/ \E j \in LastBases(list, k) : list[j].hi = 0
              \/ LastBases(list, k) = {} /\ \A s \in Starts(info) : info[1][s].value = 0
           /\ \/ apart /\ Unused(image, lo, hi)
              \/ \E f \in image.functions :
                   /\ f.addr <= lo /\ lo < hi /\ hi <= f.addr + f.size
                   /\ \A g \in image.functions : g.addr # hi
  <2>1. NewBase(list, k) = 0 /\ OldBase(list, k) = 0
    BY <1>1, <1>2, ZeroBase, Zenon
  <2>2. Covers(0 + NewField(<<<<name, 0>>, k, 1>>, lo), 0 + NewField(<<<<name, 0>>, k, 2>>, hi),
               0 + lo, 0 + hi)
    BY <1>2, AbsoluteFollows
  <2> QED
    BY <2>1, <2>2 DEF PairKept
<1>3. CASE /\ LastBases(list, k) = {} /\ Starts(info) # {} /\ apart /\ lo >= 0
           /\ \A s \in Starts(info) :
                info[1][s].value # 0 /\ Spans(image, info[1][s].value, info[1][s].value + hi)
  <2>1. lo \in Int /\ hi \in Int
    BY DEF PairMoves
  <2>2. /\ NewField(<<<<name, 0>>, k, 1>>, lo) = lo
        /\ NewField(<<<<name, 0>>, k, 2>>, hi) = hi
    BY <1>3 DEF PairMoves
  <2>3. Covers(NewBase(list, k) + lo, NewBase(list, k) + hi, OldBase(list, k) + lo, OldBase(list, k) + hi)
    <3> HIDE DEF lo, hi
    <3> QED
      BY <1>1, <1>3, <2>1, RelativeFollows, Zenon
  <2> QED
    BY <2>2, <2>3 DEF PairKept
<1> QED
  BY <1>1, <1>2, <1>3, Zenon

\* From the start of a pair to its end.
LEMMA PairFollows ==
  ASSUME DebugInv, Told(image), Linked, image.arch # "arm", NEW name \in {"ranges", "loc"},
         NEW list, list = IF name = "ranges" THEN image.ranges ELSE image.loc, NEW k \in Pairs(list)
  PROVE  PairKept(name, list, k)
<1>1. list \in {image.ranges, image.loc}
  OBVIOUS
<1>2. list \in Seq([kind : {"pair", "end", "base"}, lo : Int, hi : Nat, unit : Nat])
  BY <1>1 DEF Told
<1>3. DOMAIN list \subseteq Nat
  BY <1>2
<1>4. PairTold(image, list, k)
  BY <1>1 DEF Told
<1>5. k \in DOMAIN list
  BY DEF Pairs
<1>6. PairMoves(name, list, k)
  BY PairHeld
<1> QED
  BY <1>3, <1>4, <1>5, <1>6, ToldPairFollows

LEMMA ListFollows ==
  ASSUME DebugInv, Told(image), Linked, NEW name \in {"ranges", "loc"},
         NEW list, list = IF name = "ranges" THEN image.ranges ELSE image.loc
  PROVE  ListExtents(TRUE, name, list) = ListExtents(FALSE, name, list)
<1> DEFINE New(k) == [id |-> <<name, k>>,
                      bytes |-> Bytes(TRUE, NewBase(list, k) + NewField(<<<<name, 0>>, k, 1>>, list[k].lo),
                                            NewBase(list, k) + NewField(<<<<name, 0>>, k, 2>>, list[k].hi))]
           Old(k) == [id |-> <<name, k>>,
                      bytes |-> Bytes(FALSE, OldBase(list, k) + list[k].lo, OldBase(list, k) + list[k].hi)]
           News == {New(k) : k \in Pairs(list)}
           Olds == {Old(k) : k \in Pairs(list)}
<1>1. ASSUME NEW k \in Pairs(list) PROVE New(k) = Old(k)
  <2>1. CASE image.arch = "arm"
    <3>1. list = <<>>
      BY <2>1 DEF Told
    <3>2. k \in DOMAIN list
      BY DEF Pairs
    <3> QED
      BY <3>1, <3>2
  <2>2. CASE image.arch # "arm"
    BY <2>2, PairFollows DEF PairKept, Covers
  <2> QED
    BY <2>1, <2>2
<1>2. ListExtents(TRUE, name, list) = News
  BY DEF ListExtents, Extent, NewBase, NewField
<1>3. ListExtents(FALSE, name, list) = Olds
  BY DEF ListExtents, Extent, OldBase, Held
<1> HIDE DEF New, Old
<1>4. News = Olds
  BY <1>1
<1> HIDE DEF News, Olds
<1> QED
  BY <1>2, <1>3, <1>4

LEMMA ExtentsCover ==
  ASSUME DebugInv, Told(image)
  PROVE  ExtentsFollow
<1> SUFFICES ASSUME Linked PROVE Extents(TRUE) = Extents(FALSE)
  BY DEF ExtentsFollow
<1>1. ListExtents(TRUE, "ranges", image.ranges) = ListExtents(FALSE, "ranges", image.ranges)
  BY ListFollows
<1>2. ListExtents(TRUE, "loc", image.loc) = ListExtents(FALSE, "loc", image.loc)
  BY ListFollows
<1>3. InfoExtents(TRUE) = InfoExtents(FALSE) /\ LineExtents(TRUE) = LineExtents(FALSE)
  BY InfoFollows, LinesFollow
<1> QED
  BY <1>1, <1>2, <1>3 DEF Extents

\* Debug information that tells only what can be told of functions that move (Told)
\* is true after the link: whatever the units, the sections and the layout, each
\* extent that scan_debug_info, scan_debug_line, emit_addr_pair and emit_loc_pair
\* relocate covers the bytes it covered before.
THEOREM ExtentsCovered ==
  ASSUME \A img \in Images : Told(img)
  PROVE  Spec => []ExtentsFollow
<1>1. DebugInv => ExtentsFollow
  BY ExtentsCover DEF DebugInv, TypeInv
<1>2. Spec => []DebugInv
  BY DebugRelocated
<1> QED
  BY <1>1, <1>2, PTL
=============================================================================
