------------------------------ MODULE PeSplit ------------------------------
(***************************************************************************)
(* Splitting a Windows program into objects (delink-pe emit.rs, pe-split)  *)
(* and linking them again.                                                 *)
(*                                                                         *)
(* Once the PDB is indexed, a pool of workers writes one object per unit,  *)
(* in any order; then one more object receives the data sections as a      *)
(* whole.  Code and data may be in both, names must not be.  With          *)
(* --replace-rep-ret the prefix byte of every "rep ret" is dropped and     *)
(* everything behind it in the function moves.                             *)
(*                                                                         *)
(* An address is a byte; a relocated field has Width bytes.  What an       *)
(* object says is a function of the index, so the objects are operators    *)
(* and the variables say which of them are on disk.                        *)
(***************************************************************************)
EXTENDS PeIndex

CONSTANTS
  Width,    \* bytes of a relocated field
  Images    \* the images the split may be given

\* An image: the fields the disassembly and the base relocations lead to, each
\* with the address it refers to; the prefix bytes; the bytes of jump tables.
\*   "branch", "entry": looked up as code; "rip": looked up as data;
\*   "abs": a base relocation.
Field == [at : Nat, kind : {"branch", "entry", "rip", "abs"}, target : Nat]
Image == [fields : SUBSET Field, prefixes : SUBSET Nat, tables : SUBSET Nat,
          replaceRepRet : BOOLEAN]

ASSUME SplitAssumption == Width \in Nat \ {0} /\ Images \subseteq Image

VARIABLES
  image,    \* {} until the split looks at it
  disk,     \* unit -> "waiting", "written" or "failed"
  shared    \* "waiting", "written" or "failed"

splitVars == <<image, disk, shared>>
vars == <<indexVars, splitVars>>

-----------------------------------------------------------------------------
(* The body of a function *)

In(a, lo, size) == a >= lo /\ a < lo + size
Inside(x, lo, size) == x.at >= lo /\ x.at + Width <= lo + size

\* The prefixes that may be dropped: on x86-64 not those in jump tables.
RepRets(img) == IF X86 THEN img.prefixes ELSE img.prefixes \ img.tables

\* rep_ret_offsets, as filtered: the prefixes to drop from a function.
F3(f) ==
  IF image.replaceRepRet THEN {p \in RepRets(image) : In(p, f.va, f.size)} ELSE {}

\* strip_rep_ret_prefixes: the bytes of the function that are left, in their
\* order, each standing for its original address.
Left(f) == {a \in f.va..(f.va + f.size - 1) : a \notin F3(f)}
Stripped(f) ==
  [k \in 1..Cardinality(Left(f)) |->
     CHOOSE a \in Left(f) : Cardinality({b \in Left(f) : b <= a}) = k]

\* remap_after_strip.
\* Mutant: offsets stay what they were.
NoRemap(f, a) == a - f.va

Remap(f, a) == (a - f.va) - Cardinality({p \in F3(f) : p < a})

\* The functions of a unit that reach its object, in order of address.
Live(u) ==
  {f \in units[u].functions : f.size > 0 /\ InSection("text", f.va)}
Emitted(u) == {f \in Live(u) : f.va + f.size <= Section["text"].hi}

-----------------------------------------------------------------------------
(* What an object defines: [name, external, f, va]; f is the function around *)
(* the definition, if there is one.                                          *)

Def(name, external, f, va) == [name |-> name, external |-> external, f |-> f, va |-> va]

LabelVas(f) == {v \in DOMAIN variables : In(v, f.va + 1, f.size - 1)}

\* A function, its aliases and the labels inside it.  An alias that already is
\* a local name is left out.
\* Mutant: aliases are not emitted.
NoAliases(f, earlier) ==
  {Def(f.name, f.public, {f}, f.va)}
    \cup {Def(variables[v].name, variables[v].public, {f}, v) : v \in LabelVas(f)}

FunctionDefs(f, earlier) ==
  LET own == Def(f.name, f.public, {f}, f.va)
  IN  {own}
      \cup {Def(a, TRUE, {f}, f.va) : a \in DOMAIN f.aliases \ ({f.name} \cup earlier)}
      \cup {Def(variables[v].name, variables[v].public, {f}, v) : v \in LabelVas(f)}

\* local_syms when f comes to be emitted, and once it is.
EarlierNames(u, f) ==
  UNION {{d.name : d \in FunctionDefs(g, {})} : g \in {h \in Emitted(u) : h.va < f.va}}
LocalNames(u, f) == EarlierNames(u, f) \cup {d.name : d \in FunctionDefs(f, {})}

\* Contributions outside .text, to sections the image has.
Contribs(u) == {c \in units[u].contribs : c.section # "text" /\ c.section \in DOMAIN Section}

ContribDefs(c) ==
  {Def(variables[v].name, variables[v].public, {}, v) :
     v \in {w \in DOMAIN variables : In(w, c.va, c.size)}}

UnitDefs(u) ==
  (UNION {FunctionDefs(f, EarlierNames(u, f)) : f \in Emitted(u)})
    \cup (UNION {ContribDefs(c) : c \in Contribs(u)})

-----------------------------------------------------------------------------
(* What an object refers to: [field, f, place, name, addend, local]          *)

Ref(x, f, place, ans, local) ==
  [field |-> x, f |-> f, place |-> place, name |-> ans.name, addend |-> ans.addend,
   local |-> local]

\* Branches inside the function stay as they are.
Answers(f, x) ==
  CASE x.kind = "branch" -> IF In(x.target, f.va, f.size) THEN {} ELSE ResolveCode(x.target)
    [] x.kind = "entry"  -> ResolveCode(x.target)
    [] OTHER             -> ResolveData(x.target)

\* Recovered references use a local symbol that is already there, absolute
\* pointers always an undefined one.
FunctionRefs(u, f) ==
  UNION {{Ref(x, {f}, Remap(f, x.at), ans, x.kind # "abs" /\ ans.name \in LocalNames(u, f)) :
            ans \in Answers(f, x)} :
          x \in {y \in image.fields : Inside(y, f.va, f.size)}}

\* A contribution of uninitialised data has no bytes.
ContribRefs(c) ==
  UNION {{Ref(x, {}, x.at - c.va, ans, FALSE) : ans \in ResolveData(x.target)} :
          x \in {y \in image.fields : ~c.uninit /\ y.kind = "abs" /\ Inside(y, c.va, c.size)}}

UnitRefs(u) ==
  (UNION {FunctionRefs(u, f) : f \in Emitted(u)})
    \cup (UNION {ContribRefs(c) : c \in Contribs(u)})

-----------------------------------------------------------------------------
(* The shared object *)

SharedSections == {s \in {"rdata", "data", "bss"} : s \in DOMAIN Section}

\* The units split_all_pe takes up.
Splits(u) == \E f \in units[u].functions : f.size > 0

\* Mutant: a unit without functions is thought to have an object.
ClaimedByAll ==
  {v \in DOMAIN variables : \E u \in DOMAIN units : \E c \in units[u].contribs :
     c.section # "text" /\ In(v, c.va, c.size)}

\* claimed_vas: the variables the objects of units define.
Claimed ==
  {v \in DOMAIN variables : \E u \in DOMAIN units : Splits(u) /\ \E c \in units[u].contribs :
     c.section # "text" /\ In(v, c.va, c.size)}

SharedDefs ==
  {Def(StartOf(s), TRUE, {}, Section[s].lo) : s \in SharedSections}
    \cup {Def(variables[v].name, variables[v].public, {}, v) :
            v \in {w \in DOMAIN variables \ Claimed : \E s \in SharedSections : InSection(s, w)}}

SharedRefs ==
  UNION {UNION {{Ref(x, {}, x.at - Section[s].lo, ans, FALSE) : ans \in ResolveData(x.target)} :
           x \in {y \in image.fields : y.kind = "abs"
                    /\ Inside(y, Section[s].lo, Section[s].hi - Section[s].lo)}} :
         s \in SharedSections}

-----------------------------------------------------------------------------
(* The split *)

Init ==
  /\ IndexInit
  /\ image = {} /\ disk = <<>> /\ shared = "waiting"

Index == IndexNext /\ UNCHANGED splitVars

StartWorkers ==
  /\ phase = "emit" /\ phase' = "split"
  /\ image' \in Images
  /\ disk' = [u \in {v \in DOMAIN units : Splits(v)} |-> "waiting"]
  /\ UNCHANGED <<globals, primary, aliases, publicData, publicCode, seen, fresh, framed,
                 scope, current, functions, variables, inlined, modules, units, shared>>

\* emit_pe_cu.
EmitUnit(u) ==
  /\ phase = "split" /\ disk[u] = "waiting" /\ Live(u) # {}
  /\ disk' = [disk EXCEPT ![u] = "written"]
  /\ UNCHANGED <<indexVars, image, shared>>

\* The unit has no function in .text, or the file cannot be written.
EmitFails(u) ==
  /\ phase = "split" /\ disk[u] = "waiting"
  /\ disk' = [disk EXCEPT ![u] = "failed"]
  /\ UNCHANGED <<indexVars, image, shared>>

\* emit_pe_shared, when all workers are done.
EmitShared ==
  /\ phase = "split" /\ \A u \in DOMAIN disk : disk[u] # "waiting"
  /\ phase' = "done" /\ shared' \in {"written", "failed"}
  /\ UNCHANGED <<globals, primary, aliases, publicData, publicCode, seen, fresh, framed,
                 scope, current, functions, variables, inlined, modules, units, image, disk>>

Done == phase = "done" /\ UNCHANGED vars

Next ==
  \/ Index
  \/ StartWorkers
  \/ \E u \in DOMAIN disk : EmitUnit(u) \/ EmitFails(u)
  \/ EmitShared
  \/ Done

Spec == Init /\ [][Next]_vars

-----------------------------------------------------------------------------
(* Linking the objects (external) *)

Objects ==
  {u \in DOMAIN disk : disk[u] = "written"} \cup (IF shared = "written" THEN {0} ELSE {})

Defs(o) == IF o = 0 THEN SharedDefs ELSE UnitDefs(o)
Refs(o) == IF o = 0 THEN SharedRefs ELSE UnitRefs(o)

\* All external definitions, each with its object.
Externals == UNION {{<<o, d>> : d \in {e \in Defs(o) : e.external}} : o \in Objects}

\* The definitions a reference may be bound to.
Binding(o, r) ==
  IF r.local THEN {d \in Defs(o) : d.name = r.name}
  ELSE {e[2] : e \in {x \in Externals : x[2].name = r.name}}

\* What other libraries supply.
Supplied ==
  Range(Imports) \cup Range(Literals) \cup Range(CodePublics) \cup {<<"__ImageBase">>}

\* The original address of the byte at a distance from a definition.
Reached(d, addend) ==
  IF d.f = {} THEN {d.va + addend}
  ELSE LET f == CHOOSE g \in d.f : TRUE
           k == Remap(f, d.va) + addend + 1
       IN  IF k \in DOMAIN Stripped(f) THEN {Stripped(f)[k]} ELSE {}

-----------------------------------------------------------------------------
(* Provisions: what compilers and linkers see to *)

OwnName(r) == IF r.kind = "proc" THEN ProcName(r) ELSE DataName(r.raw)

\* A link name stands for one address, and what is not there has another name
\* of its own.
LinkNamesApart ==
  /\ \A p, q \in Publics : p.name = q.name => p.va = q.va
  /\ \A k \in DOMAIN Modules : \A r \in Modules[k].records : \A p \in Publics :
       r.va # 0 /\ OwnName(r) = p.name => r.va = p.va

Procedures(k) == {r \in Modules[k].records : r.kind = "proc" /\ ~Dropped(r)}

\* No static was folded with a procedure that has a link name.
NamedAreGlobal ==
  \A k \in DOMAIN Modules : \A r \in Procedures(k) : \A p \in Publics :
    r.va = p.va => r.global

\* The procedures of a module do not reach into each other.
ProceduresApart ==
  \A k \in DOMAIN Modules : \A r, s \in Procedures(k) : r.va < s.va => r.va + r.len <= s.va

\* What a linker sees of the record by its own name.
Exported(r) == r.va # 0 /\ r.kind # "label" /\ r.global

\* Two external names are never alike, and the starts of sections have names
\* nobody else has.
GlobalsApart ==
  /\ \A k, j \in DOMAIN Modules : \A r \in Modules[k].records : \A q \in Modules[j].records :
       Exported(r) /\ Exported(q) /\ OwnName(r) = OwnName(q) => r.va = q.va
  /\ \A s \in DOMAIN Section :
       /\ \A p \in Publics : p.name # StartOf(s)
       /\ \A k \in DOMAIN Modules : \A r \in Modules[k].records : OwnName(r) # StartOf(s)

Apart(va, size, lo, hi) == va + size <= lo \/ hi <= va

\* An address belongs to one section, one module and one procedure.
AddressesOnce ==
  /\ \A s, t \in DOMAIN Section : s # t =>
       Section[s].hi <= Section[t].lo \/ Section[t].hi <= Section[s].lo
  /\ \A k, j \in DOMAIN Modules :
       /\ \A r \in Procedures(k) : \A q \in Procedures(j) :
            (r.va = q.va => k = j /\ r = q) /\ (r.va < q.va => r.va + r.len <= q.va)
       /\ k # j => \A c \in Modules[k].contribs : \A d \in Modules[j].contribs :
                     Apart(c.va, c.size, d.va, d.va + d.size)

\* Procedures are in .text, contributions in the section they name.
SectionsKept ==
  \A k \in DOMAIN Modules :
    /\ \A r \in Procedures(k) :
         /\ "text" \in DOMAIN Section
         /\ r.va >= Section["text"].lo /\ r.va + r.len <= Section["text"].hi
    /\ \A c \in Modules[k].contribs : \A s \in DOMAIN Section :
         IF c.section = s THEN c.va >= Section[s].lo /\ c.va + c.size <= Section[s].hi
         ELSE Apart(c.va, c.size, Section[s].lo, Section[s].hi)

\* Some object has the bytes at an address.
Housed(v) ==
  \/ \E s \in {"rdata", "data", "bss"} : InSection(s, v)
  \/ \E k \in DOMAIN Modules :
       \/ \E r \in Procedures(k) : In(v, r.va + 1, r.len - 1)
       \/ /\ Procedures(k) # {}
          /\ \E c \in Modules[k].contribs :
               c.section \in DOMAIN Section \ {"text"} /\ In(v, c.va, c.size)

\* External data are somewhere, and of the import section only slots are used.
DataHoused ==
  /\ \A k \in DOMAIN Modules : \A r \in Modules[k].records :
       Exported(r) /\ r.kind = "data" => Housed(r.va)
  /\ \A p \in Publics : ~p.code => Housed(p.va)
  /\ \A img \in Images : \A x \in img.fields :
       InSection("idata", x.target) => x.target \in DOMAIN Imports

\* What an object has no symbol for is nobody's static.
Static(n) ==
  \/ \E a \in DOMAIN functions : functions[a].name = n /\ ~functions[a].public
  \/ \E v \in DOMAIN variables : variables[v].name = n /\ ~variables[v].public

StaticsNear == \A o \in Objects : \A r \in Refs(o) : r.local \/ ~Static(r.name)

\* Where an object refers to a static, its name is that of nothing else there.
StaticsTold ==
  \A o \in Objects : \A r \in Refs(o) : \A d \in Defs(o) :
    Static(r.name) /\ d.name = r.name => d.va + r.addend = r.field.target

\* What the linker supplies has a name of its own.
LibrariesApart ==
  \A l \in {<<Imports[a], a>> : a \in DOMAIN Imports}
             \cup {<<Literals[a], a>> : a \in DOMAIN Literals}
             \cup {<<<<"__ImageBase">>, ImageBase>>} :
    /\ \A p \in Publics : p.name = l[1] => p.va = l[2]
    /\ \A k \in DOMAIN Modules : \A r \in Modules[k].records :
         r.va # 0 /\ OwnName(r) = l[1] => r.va = l[2]
    /\ \A s \in DOMAIN Section : l[1] # StartOf(s)

\* A public symbol in a procedure is code and at its start, a datum in one ends
\* with it.
ProceduresWhole ==
  \A k \in DOMAIN Modules : \A q \in Procedures(k) :
    /\ \A p \in Publics : In(p.va, q.va, q.len) => p.code /\ p.va = q.va
    /\ \A j \in DOMAIN Modules : \A r \in Modules[j].records :
         r.kind = "data" /\ In(r.va, q.va, q.len) => r.va + TypeByteSize(r.type) <= q.va + q.len

AsCode(x) == x.kind \in {"branch", "entry"}
Described(v) ==
  \E k \in DOMAIN Modules : \E r \in Modules[k].records :
    r.kind # "proc" /\ r.va # 0 /\ r.va = v

\* Between what is described in a procedure and data that is referred to
\* something outside of the procedures is described.
DataDescribed ==
  \A img \in Images : \A x \in {y \in img.fields : ~AsCode(y)} :
    \A k \in DOMAIN Modules : \A q \in Procedures(k) :
      \A v \in {w \in q.va..(q.va + q.len - 1) : Described(w)} :
        \/ x.target < v
        \/ \E j \in DOMAIN Modules : \E p \in Procedures(j) : In(x.target, p.va, p.len)
        \/ \E w \in (v + 1)..x.target :
             Described(w) /\ \A j \in DOMAIN Modules : \A p \in Procedures(j) : ~In(w, p.va, p.len)

\* "No fixup field, label, or table ever sits on an F3 prefix", and none refers
\* to what lies behind one by an offset across it.
PrefixesClear ==
  \A img \in Images : \A x \in img.fields : img.replaceRepRet =>
    \A p \in RepRets(img) :
      /\ ~In(p, x.at, Width)
      /\ \A k \in DOMAIN Modules : \A q \in Procedures(k) :
           In(p, q.va, q.len) /\ In(x.target, q.va, q.len) =>
             \/ x.target < p
             \/ x.kind = "branch" /\ In(x.at, q.va, q.len)
             \/ ~AsCode(x) /\ x.target # p /\ Described(x.target)

-----------------------------------------------------------------------------
(* Properties *)

\* No two objects on disk define one external name, whichever workers failed;
\* and when none did, every name an object needs is defined by one of them or
\* comes from a library (emit_pe_cu, claimed_vas, emit_pe_shared).
NamesLink ==
  phase = "done" =>
    /\ \A e1, e2 \in Externals : e1[2].name = e2[2].name => e1 = e2
    /\ (shared = "written" /\ \A u \in DOMAIN disk : disk[u] = "written") =>
         \A o \in Objects : \A r \in Refs(o) : r.name \in Supplied \/ Binding(o, r) # {}

\* A relocation is on the bytes of the field it stands for, wherever dropped
\* prefixes have moved them, and leads to the byte the field referred to, by
\* whatever name and offset (resolve_code, resolve_data, remap_after_strip).
ReferencesReach ==
  phase = "done" =>
    \A o \in Objects : \A r \in Refs(o) :
      /\ \A f \in r.f : \A k \in 1..Width : Stripped(f)[r.place + k] = r.field.at + k - 1
      /\ \A d \in Binding(o, r) : Reached(d, r.addend) = {r.field.target}

\* A branch inside a function still spans the bytes it spanned.
BranchesStay ==
  phase = "done" =>
    \A u \in Objects \ {0} : \A f \in Emitted(u) : \A x \in image.fields :
      x.kind = "branch" /\ Inside(x, f.va, f.size) /\ In(x.target, f.va, f.size)
        => Remap(f, x.target) - Remap(f, x.at) = x.target - x.at

\* Every link name the original program had for a function is defined where the
\* function now starts ("so every name the original link knew is defined").
LinkNamesDefined ==
  phase = "done" =>
    \A u \in Objects \ {0} : \A f \in Emitted(u) :
      \A k \in {j \in DOMAIN globals : globals[j].va = f.va} :
        \E d \in UnitDefs(u) :
          d.name = globals[k].name /\ d.external /\ d.f = {f} /\ Remap(f, d.va) = 0
=============================================================================
