---------------------------- MODULE SymbolNames ----------------------------
(***************************************************************************)
(* The names under which split objects refer to each other: the resolver   *)
(* GlobalSymbols of delink-core (symbols.rs).                              *)
(*                                                                         *)
(* Once an image is split, the only thing that ties a reference in one     *)
(* object to a definition in another is a symbol name, so the resolver     *)
(* renames every definition whose name is shared, and every lookup hands   *)
(* out the renamed name.                                                   *)
(*                                                                         *)
(* A definition is a function (code) or a variable, and a name is a stem   *)
(* followed by dotted numbers: `f.10' is [stem |-> "f", dots |-> <<16>>].  *)
(* A C identifier has no dots; compiler-made locals such as `CSWTCH.5' do. *)
(***************************************************************************)
EXTENDS Naturals, Sequences

CONSTANTS
  Stems,      \* dotless names
  Anonymous   \* the stem "<anon>", of a function DWARF does not name

ASSUME NamesAssumption == Anonymous \in Stems

Name == [stem : Stems, dots : Seq(Nat)]

\* `unit' is the position of the compilation unit in the index.
Definition ==
  [addr : Nat, size : Nat, name : Name, code : BOOLEAN, global : BOOLEAN,
   unit : Nat]

IsIdentifier(name) == name.dots = <<>>

Plain(stem) == [stem |-> stem, dots |-> <<>>]

\* What format!("{}.{addr:x}") makes of a name.
Suffixed(name, addr) == [name EXCEPT !.dots = Append(@, addr)]

-----------------------------------------------------------------------------
(* Building the maps *)

\* maps_from_cus: one map from addresses to functions and one to variables.
\* A later unit overwrites an earlier one at the same address.
\* Sizeless functions and variables at address zero are left out.
Mapped(defs) ==
  {d \in defs :
     /\ IF d.code THEN d.size > 0 ELSE d.addr > 0
     /\ \A e \in defs :
          e.code = d.code /\ e.addr = d.addr => e.unit <= d.unit}

\* Mutant: only functions are counted.
CollidingFunctions(defs) ==
  {d.name : d \in {e \in defs : e.code /\ \E f \in defs :
                     f # e /\ f.name = e.name /\ f.code}}

\* The names that more than one entry of the two maps carries.
Colliding(defs) ==
  {d.name : d \in {e \in defs : \E f \in defs : f # e /\ f.name = e.name}}

\* Mutant: every definition is renamed.
AlwaysSuffixed(defs, d) == Suffixed(d.name, d.addr)

\* disambiguate_names: the name of definition d among the definitions defs.
ExportName(defs, d) ==
  IF d.name \in Colliding(defs) THEN Suffixed(d.name, d.addr) ELSE d.name

\* Provision: no definition is already called what a shared name is renamed to.
NoDottedTwin(defs) ==
  \A d, e \in defs : d.name \in Colliding(defs) => e.name # Suffixed(d.name, d.addr)

-----------------------------------------------------------------------------
(* Looking an address up *)

At(defs, code, a) == {d \in defs : d.code = code /\ d.addr = a}

\* functions.range(..=a).next_back(), when it reaches beyond a.
ResolveInto(defs, a) ==
  {f \in defs :
     /\ f.code /\ f.addr <= a /\ a < f.addr + f.size
     /\ \A g \in defs : g.code /\ g.addr <= a => g.addr <= f.addr}

\* References the lookup of `a' may return; none when it fails.
Refer(defs, found, a) ==
  {[symbol |-> ExportName(defs, d), addend |-> a - d.addr] : d \in found}

\* The first data section in the order of the code that contains a.
SectionRelative(sections, a) ==
  {[symbol |-> Plain(s.start), addend |-> a - s.base] :
     s \in {t \in sections : t.base <= a /\ a < t.limit}}

\* resolve_data: a variable, then a function, then a data section.
ResolveData(defs, sections, a) ==
  IF At(defs, FALSE, a) # {} THEN Refer(defs, At(defs, FALSE, a), a)
  ELSE IF ResolveInto(defs, a) # {} THEN Refer(defs, ResolveInto(defs, a), a)
  ELSE SectionRelative(sections, a)

\* resolve: a branch names a function by its first address only.
Resolve(defs, a) == Refer(defs, At(defs, TRUE, a), a)
=============================================================================
