------------------------------ MODULE IdaGroups ------------------------------
(***************************************************************************)
(* The contents of the objects of `delink ida-split' (emit.rs of           *)
(* delink-ida): the check of a grouping (expand_function_ranges,           *)
(* validate_data_ranges), what a group puts into its object (emit_object)  *)
(* and what is left for __shared_data (emit_shared_excluding).             *)
(*                                                                         *)
(* An object is a set of sections, each the set of the original addresses  *)
(* whose bytes it holds in their order, the symbols it defines, and its    *)
(* relocations, all by original address.                                   *)
(***************************************************************************)
EXTENDS IdaSymbols, Sequences, SequencesExt

CONSTANT Width      \* bytes of a pointer

DataClasses == {"data", "const", "bss"}

\* One entry of idapro.json: function addresses, code ranges, data ranges.
Interval == [start : Nat, end : Nat]
Group == [functions : Seq(Nat), code : SUBSET Interval,
          data : SUBSET [class : DataClasses, start : Nat, end : Nat]]

Empty(group) == group.functions = <<>> /\ group.code = {} /\ group.data = {}

Overlap(r1, r2) == r1.start < r2.end /\ r2.start < r1.end

\* All ranges of one kind, with the file that lists them.
CodeRanges(groups) ==
  UNION {{[file |-> k, range |-> r] : r \in groups[k].code} : k \in DOMAIN groups}
DataRanges(groups) ==
  UNION {{[file |-> k, range |-> r] : r \in groups[k].data} : k \in DOMAIN groups}

Owned(groups)     == {x.range : x \in DataRanges(groups)}
OwnedCode(groups) == UNION {Bytes(x.range) : x \in CodeRanges(groups)}

\* The maximal runs of consecutive addresses of a set (subtract_ranges).
Runs(set) ==
  {{b \in set : a <= b /\ a..b \subseteq set} : a \in {a \in set : a - 1 \notin set}}

-----------------------------------------------------------------------------
(* The check of a grouping *)

Selected(img, range) == {f \in img.functions : range.start <= f.start /\ f.start < range.end}

\* The function starts of one file, explicit ones first.
Listed(groups, k) == Range(groups[k].functions)
Ranged(img, groups, k) ==
  {f.start : f \in UNION {Selected(img, r) : r \in groups[k].code}}

Contained(img, range, classes) ==
  \E s \in img.sections :
    s.class \in classes /\ s.start <= range.start /\ range.end <= s.end

Disjoint(ranges) ==
  /\ \A x \in ranges : x.range.start < x.range.end
  /\ \A x, y \in ranges : x # y => ~Overlap(x.range, y.range)

\* Mutant: only functions that begin inside are looked at.
NoTail(img, range) == \A f \in Selected(img, range) : f.end <= range.end

\* A range may not begin inside a function, nor end inside one.
WholeFunctions(img, range) ==
  \A f \in img.functions : f.start < range.end /\ range.start < f.end =>
    range.start <= f.start /\ f.end <= range.end

OneOwner(img, groups) ==
  /\ \A k \in DOMAIN groups :
       /\ \A i, j \in DOMAIN groups[k].functions :
            groups[k].functions[i] = groups[k].functions[j] => i = j
       /\ Listed(groups, k) \cap Ranged(img, groups, k) = {}
  /\ \A j, k \in DOMAIN groups : j # k =>
       Listed(groups, j) \cap (Listed(groups, k) \cup Ranged(img, groups, k)) = {}

\* expand_function_ranges: without ranges the lists are not checked here.
RangesValid(img, groups) ==
  CodeRanges(groups) # {} =>
    /\ Disjoint(CodeRanges(groups))
    /\ \A x \in CodeRanges(groups) : /\ Contained(img, x.range, {"code"})
                                     /\ WholeFunctions(img, x.range)
    /\ \A k \in DOMAIN groups : Listed(groups, k) \subseteq {f.start : f \in img.functions}
    /\ OneOwner(img, groups)

\* A logical bss may lie in the data segment, rdata in the import table.
Home(class) == CASE class = "bss"   -> {"bss", "data"}
                 [] class = "const" -> {"const", "xtrn"}
                 [] class = "data"  -> {"data"}

\* validate_data_ranges
DataValid(img, groups) ==
  /\ Disjoint(DataRanges(groups))
  /\ \A x \in DataRanges(groups) : Contained(img, x.range, Home(x.range.class))

Accepted(img, groups) == RangesValid(img, groups) /\ DataValid(img, groups)

\* The starts a group emits once expanded.
Starts(img, groups, k) == Listed(groups, k) \cup Ranged(img, groups, k)

-----------------------------------------------------------------------------
(* Pieces of an object *)

\* original_virtual_end, original_initialized_end: where the binary's section
\* ends, compared as it stands with addresses of the database.
SectionAt(img, a) == CHOOSE s \in img.sections : a \in Bytes(s)
VirtualEnd(img, r) == Min({r.end, SectionAt(img, r.start).stop - img.shift})
InitializedEnd(img, a) == SectionAt(img, a).init - img.shift

Piece(kind, holds) == [kind |-> kind, holds |-> holds]
Defined(symbol, a) == [symbol |-> symbol, at |-> a]
Relocation(at, ref) == [at |-> at, symbol |-> ref.symbol, addend |-> ref.addend]

Tables(img, f) == {t \in img.tables : t.owner = f.start}

\* What the gaps leave out for functions: up to their last tables, wherever they are.
Covered(img, fns) ==
  UNION {f.start..(Max({f.end} \cup {t.end : t \in Tables(img, f)}) - 1) : f \in fns}

\* A function is emitted with its tables in the segment of code it is in.
Owns(img, f) ==
  {t \in Tables(img, f) :
     \E s \in img.sections : s.class = "code" /\ {f.start, t.start} \subseteq Bytes(s)}
EmitEnd(img, f) == Max({f.end} \cup {t.end : t \in Owns(img, f)})

\* Mutant: a table behind its function is left out.
BodyOnly(img, f) == Bytes(f)

\* A function and the tables that follow it.
Body(img, f) == f.start..(EmitEnd(img, f) - 1)

Fields(img, f) == UNION {{t.dispatch} \cup {e.at : e \in t.entries} : t \in Owns(img, f)}

Fits(at, run) == at..(at + Width - 1) \subseteq run

\* The pointers of a run of bytes; what resolves to nothing is left as it is.
PointerRelocations(img, owned, run) ==
  UNION {{Relocation(p.at, ref) : ref \in ResolveSplitData(img, owned, p.target)} :
           p \in {p \in Pointers(img) : Fits(p.at, run)}}

\* A pointer that begins in the run and ends outside.
Cut(img, run) == \E p \in Pointers(img) : p.at \in run /\ ~Fits(p.at, run)

\* Recovery runs over the spans between the tables; a span is its function.
Spans(img, f) == Runs(Bytes(f) \ UNION {Bytes(t) : t \in Owns(img, f)})

BranchRelocations(img, f) ==
  UNION {{Relocation(b.at, ref) : ref \in ResolveCode(img, b.target)} :
           b \in {b \in img.branches : ~b.short /\
                  \E span \in Spans(img, f) : b.at \in span /\ b.target \notin span}}

TableRelocations(img, f) ==
  {Relocation(t.dispatch, Reference(Local(t.start), 0)) : t \in Owns(img, f)} \cup
  UNION {{Relocation(e.at, ref) :
            ref \in IF e.target \in Body(img, f) THEN {Reference(Local(e.target), 0)}
                    ELSE ResolveCode(img, e.target)} :
           e \in UNION {t.entries : t \in Owns(img, f)}}

FunctionRelocations(img, owned, f) ==
  {r \in PointerRelocations(img, owned, Body(img, f)) : r.at \notin Fields(img, f)}
  \cup BranchRelocations(img, f) \cup TableRelocations(img, f)

\* The labels of a run of code, but for those of the tables in it.
Labels(img, run, tables) ==
  {Defined(LabelSymbol(img, n), n.addr) :
     n \in {n \in img.names : n.addr \in run /\ n.addr \notin {t.start : t \in tables}}}

FunctionSymbols(img, f) ==
  {Defined(FunctionSymbol(img, f), f.start)} \cup Labels(img, Body(img, f), {}) \cup
  {Defined(Local(a), a) : a \in {t.start : t \in Owns(img, f)} \cup
     {e.target : e \in {e \in UNION {t.entries : t \in Owns(img, f)} :
                          e.target \in Body(img, f)}}}

\* Where the entries of a table belong: one behind the other, a pointer each.
Slots(t) == {t.start + i * Width : i \in 0..((t.end - t.start) \div Width - 1)}

InvalidTables(img, f) ==
  \E t \in Owns(img, f) :
    \/ t.start < f.start \/ t.end > SectionAt(img, f.start).end
    \/ ~Fits(t.dispatch, Bytes(f))
    \/ {e.at : e \in t.entries} # Slots(t)
    \/ \E u \in Owns(img, f) : u # t /\ Overlap(t, u)

\* A function whose bytes the binary does not have is skipped with a warning.
Backed(img, f) == EmitEnd(img, f) <= SectionAt(img, f.start).stop

DataKind(img, class, a) ==
  IF class = "data" /\ a >= InitializedEnd(img, a) THEN "bss"
  ELSE IF class = "xtrn" THEN "const" ELSE class

StartSymbol(img, class, a) ==
  {Defined(StartOf(class), a) : s \in {s \in First(img, class) : class # "xtrn" /\ s.start = a}}

VariableSymbols(img, run) ==
  {Defined(LabelSymbol(img, n), n.addr) : n \in {n \in Variables(img) : n.addr \in run}}

-----------------------------------------------------------------------------
(* The object of a group *)

Chosen(img, groups, k) == {f \in img.functions : f.start \in Starts(img, groups, k)}

Taken(img, fns) == UNION {Body(img, f) : f \in fns}

\* Bytes of the group's code ranges between its functions.
Gaps(img, groups, k) ==
  UNION {Runs(Bytes(r) \ Covered(img, Chosen(img, groups, k))) : r \in groups[k].code}

\* The ranges of data, cut off where the section of the binary ends.
Pieces(img, groups, k) ==
  {[class |-> r.class, start |-> r.start, run |-> r.start..(VirtualEnd(img, r) - 1)] :
     r \in {r \in groups[k].data : r.start < VirtualEnd(img, r)}}

ObjectOf(img, groups, k) ==
  LET owned  == Owned(groups)
      tables == UNION {Tables(img, f) : f \in Chosen(img, groups, k)}
      fns    == {f \in Chosen(img, groups, k) : Backed(img, f)}
      gaps   == Gaps(img, groups, k)
      data   == Pieces(img, groups, k)
      kind(d) == DataKind(img, d.class, d.start)
  IN  [sections |-> {Piece("code", Taken(img, fns) \cup UNION gaps)} \cup
                    {Piece(kind(d), d.run) : d \in data},
       symbols  |-> (UNION {FunctionSymbols(img, f) : f \in fns}) \cup
                    (UNION {Labels(img, gap, tables) : gap \in gaps}) \cup
                    (UNION {{Defined(Anchor(d.class, d.start), d.start)} \cup
                              StartSymbol(img, d.class, d.start) \cup
                              VariableSymbols(img, d.run) : d \in data}),
       relocations |-> (UNION {FunctionRelocations(img, owned, f) : f \in fns}) \cup
                       (UNION {PointerRelocations(img, owned, gap) : gap \in gaps}) \cup
                       (UNION {PointerRelocations(img, owned, d.run) :
                                 d \in {d \in data : kind(d) # "bss"}})]

\* What makes emit_object give up.
ObjectFails(img, groups, k) ==
  \/ \E i, j \in DOMAIN groups[k].functions :
       i # j /\ groups[k].functions[i] = groups[k].functions[j]
  \/ ~(Listed(groups, k) \subseteq {f.start : f \in img.functions})
  \/ \E f \in Chosen(img, groups, k) : InvalidTables(img, f)
  \/ \E d \in Pieces(img, groups, k) :
       DataKind(img, d.class, d.start) # "bss" /\ Cut(img, d.run)

-----------------------------------------------------------------------------
(* The shared object *)

Emitted(img, groups) == UNION {Chosen(img, groups, k) : k \in DOMAIN groups}

\* Runs of code that no group takes, if any group takes a function.
CodeGaps(img, groups) ==
  LET within(s) == {f \in Emitted(img, groups) : f.start \in Bytes(s)}
      left(s) == s.start..(VirtualEnd(img, s) - 1) \ (OwnedCode(groups) \cup Covered(img, within(s)))
  IN  IF \A k \in DOMAIN groups : Starts(img, groups, k) = {} THEN {}
      ELSE UNION {Runs(left(s)) : s \in {s \in img.sections : s.class = "code"}}

\* Mutant: a range given away stays in the shared object too.
AllFragments(img, groups) ==
  UNION {{[class |-> s.class, start |-> Min(run), run |-> run] :
            run \in Runs(s.start..(VirtualEnd(img, s) - 1))} :
           s \in {s \in img.sections : s.class # "code"}}

\* Runs of data that no group takes.
Fragments(img, groups) ==
  LET excluded == UNION {Bytes(r) : r \in Owned(groups)}
  IN  UNION {{[class |-> s.class, start |-> Min(run), run |-> run] :
                run \in Runs(s.start..(VirtualEnd(img, s) - 1) \ excluded)} :
               s \in {s \in img.sections : s.class # "code"}}

SharedObject(img, groups) ==
  LET owned  == Owned(groups)
      tables == UNION {Owns(img, f) : f \in Emitted(img, groups)}
      gaps   == CodeGaps(img, groups)
      data   == Fragments(img, groups)
      kind(d) == DataKind(img, d.class, d.start)
  IN  [sections |-> {Piece("code", gap) : gap \in gaps} \cup
                    {Piece(kind(d), d.run) : d \in data},
       symbols  |-> (UNION {Labels(img, gap, tables) : gap \in gaps}) \cup
                    (UNION {StartSymbol(img, d.class, d.start) \cup
                              VariableSymbols(img, d.run) : d \in data}),
       relocations |-> UNION {PointerRelocations(img, owned, run) :
                                run \in gaps \cup {d.run : d \in {d \in data : kind(d) # "bss"}}}]

\* A fragment that ends inside a pointer ends the whole run.
SharedFails(img, groups) ==
  \E d \in Fragments(img, groups) :
    DataKind(img, d.class, d.start) # "bss" /\ Cut(img, d.run)

\* shared_empty: such an object is removed again.
Nothing(object) == object.sections = {}

-----------------------------------------------------------------------------
(* The default grouping *)

\* generate: one file per function name.
Generate(img) ==
  [k \in {FunctionSymbol(img, f) : f \in img.functions} |->
     [functions |-> SetToSortSeq({f.start : f \in {f \in img.functions : FunctionSymbol(img, f) = k}},
                                 LAMBDA a, b : a < b),
      code |-> {}, data |-> {}]]
=============================================================================
