----------------------------- MODULE IdaSymbols -----------------------------
(***************************************************************************)
(* What the IDA importer knows of an image (the model of delink-ida, lib.rs) *)
(* and how it turns an address into a symbol and an addend: link names       *)
(* (normalize_ida_link_names), IdaSymbols (resolver.rs) and, for addresses   *)
(* of data given to an object, resolve_split_data (emit.rs).                 *)
(*                                                                           *)
(* A resolution is a set: empty, or one reference.  A symbol is a triple, a  *)
(* name from IDA with the suffix it was given (0 for none), or a generated   *)
(* one.  The names usually hold those of the functions too.                    *)
(***************************************************************************)
EXTENDS Integers, FiniteSets, FiniteSetsExt

CONSTANT Texts      \* the names of the images

Classes == {"code", "data", "const", "bss", "xtrn"}

\* stop: where the section of the binary that backs this segment ends; init:
\* the end of its last byte that is not zero.  Both in IDA's addresses.
Section == [class : Classes, start : Nat, end : Nat, stop : Nat, init : Nat]

Function == [start : Nat, end : Nat, name : Texts]

\* entries: the case pointers, by their address; dispatch: the field of the
\* jump that holds the address of the table.
Table == [owner : Nat, start : Nat, end : Nat, dispatch : Nat,
          entries : SUBSET [at : Nat, target : Nat]]

Label == [addr : Nat, size : Nat, name : Texts]

\* words: what the binary stores where somebody sees a pointer; fixups: the
\* pointers IDA sees; base: the binary's own relocations, in its addresses.
\* branches: calls and jumps, by the displacement field, short if it has 8
\* bits; shift: how far the database is rebased; coff: the output format.
Model ==
  [sections : SUBSET Section, functions : SUBSET Function,
   tables : SUBSET Table, names : SUBSET Label,
   words : SUBSET [at : Nat, value : Nat],
   fixups : SUBSET [at : Nat, target : Nat], base : SUBSET Nat,
   branches : SUBSET [at : Nat, target : Nat, short : BOOLEAN],
   shift : Int, coff : BOOLEAN]

Bytes(x) == x.start..(x.end - 1)

\* What iter().find() gives: the segments are in address order.
First(img, class) ==
  {s \in img.sections : s.class = class /\
     \A t \in img.sections : t.class = class => s.start <= t.start}

-----------------------------------------------------------------------------
(* Absolute relocations *)

\* Mutant: an offset operand of IDA is taken at its word.
AllFixups(img) == img.fixups

\* An offset operand may be a displacement: the stored value has to agree.
Confirmed(img) ==
  {r \in img.fixups : \E w \in img.words :
     w.at = r.at /\ (w.value = r.target \/ w.value + img.shift = r.target)}

\* combined_relocations: the binary's own, where IDA has none.
Pointers(img) ==
  Confirmed(img) \cup
  {[at |-> w.at, target |-> w.value + img.shift] :
     w \in {w \in img.words : /\ w.at - img.shift \in img.base
                              /\ \A r \in Confirmed(img) : r.at # w.at}}

-----------------------------------------------------------------------------
(* Link names *)

Named(text, suffix)    == <<"name", text, suffix>>
Anchor(class, address) == <<"anchor", class, address>>
StartOf(class)         == <<"start", class, 0>>
Local(address)         == <<"label", "", address>>

Places(img, text) ==
  {f.start : f \in {f \in img.functions : f.name = text}} \cup
  {n.addr : n \in {n \in img.names : n.name = text}}

\* The one place that keeps a name: an import if there is one.
Kept(img, text) ==
  LET places  == Places(img, text)
      imports == {a \in places : \E s \in img.sections : s.class = "xtrn" /\ a \in Bytes(s)}
  IN  Min(IF imports # {} THEN imports ELSE places)

\* Mutant: the names are left as IDA gives them.
RawLinkName(img, text, address) == Named(text, 0)

\* normalize_ida_link_names, for COFF only.
LinkName(img, text, address) ==
  Named(text, IF img.coff /\ address # Kept(img, text) THEN address ELSE 0)

FunctionSymbol(img, f) == LinkName(img, f.name, f.start)
LabelSymbol(img, n)    == LinkName(img, n.name, n.addr)

-----------------------------------------------------------------------------
(* Resolution *)

Reference(symbol, addend) == [symbol |-> symbol, addend |-> addend]

\* Named data: only the first section of each class is looked at.
Variables(img) ==
  {n \in img.names :
     /\ \A f \in img.functions : f.start # n.addr
     /\ \E class \in Classes \ {"code"} :
          \E s \in First(img, class) : n.addr \in Bytes(s)}

\* The names map: an exported name wins over the function's own.
At(img, a) ==
  LET labels == {n \in img.names : n.addr = a}
  IN  IF labels # {} THEN {Reference(LabelSymbol(img, n), 0) : n \in labels}
      ELSE {Reference(FunctionSymbol(img, f), 0) : f \in {f \in img.functions : f.start = a}}

Within(img, a) ==
  {Reference(FunctionSymbol(img, f), a - f.start) :
     f \in {f \in img.functions : a \in Bytes(f)}}

\* The last variable that starts at or below a, if it is long enough.
Covering(img, a) ==
  {Reference(LabelSymbol(img, n), a - n.addr) :
     n \in {n \in Variables(img) :
              /\ n.addr <= a /\ a - n.addr < n.size
              /\ \A m \in Variables(img) : m.addr <= a => m.addr <= n.addr}}

\* The first of two resolutions that says anything.
Else(r1, r2) == IF r1 # {} THEN r1 ELSE r2

ResolveExact(img, a) == Else(At(img, a), Covering(img, a))

ResolveCode(img, a) == Else(At(img, a), Within(img, a))

SectionRelative(img, a) ==
  LET from(class) == {Reference(StartOf(class), a - s.start) :
                        s \in {s \in First(img, class) : a \in Bytes(s)}}
  IN  Else(from("data"), Else(from("const"), from("bss")))

ResolveData(img, a) ==
  Else(ResolveExact(img, a), Else(Within(img, a), SectionRelative(img, a)))

\* resolve_split_data: owned are the ranges of data the grouping gives away.
ResolveSplitData(img, owned, a) ==
  Else(ResolveExact(img, a),
       Else({Reference(Anchor(r.class, r.start), a - r.start) : r \in {r \in owned : a \in Bytes(r)}},
            ResolveData(img, a)))
=============================================================================
