------------------------------ MODULE PeIndex ------------------------------
(***************************************************************************)
(* Indexing a Windows program from its PDB (delink-pe, cu.rs, symbols.rs). *)
(*                                                                         *)
(* The PDB is read in two passes: the global stream, whose public symbols  *)
(* give addresses their link names, then module after module, whose        *)
(* records give functions, variables and labels an extent and an owner.    *)
(* The records of a stream come in any order; the linker drops code it     *)
(* does not need and leaves its records behind at address 0, and it folds  *)
(* equal functions so that one address has several names.                  *)
(*                                                                         *)
(* A name is a sequence of strings, so that a decoration is a step of its  *)
(* own.                                                                    *)
(***************************************************************************)
EXTENDS Integers, Sequences, FiniteSets, Bags, SequencesExt

CONSTANTS
  X86,         \* 32-bit code: names get the decorations of C
  Publics,     \* public records the global stream may hold: [va, name, code]
  MaxPublics,  \* bound: the length of that stream
  Modules,     \* the modules in order: [records, contribs]
  Udt,         \* unique name of a type -> size of its complete definition
  Section,     \* name of a section -> [lo, hi], its first address and the one past it
  ImageBase, Imports, Literals  \* an address; address -> name; address -> name

\* A record of a module.  A procedure has the sizes of its parameters if it is
\* __stdcall, and its frame record, if it has one, says whether it was declared
\* inline; a datum has a type.  Address 0: dropped by the linker.
Record ==
  [kind : {"proc"}, va : Nat, len : Nat, raw : Seq(STRING), global : BOOLEAN,
   params : SUBSET Seq(Nat), frame : SUBSET BOOLEAN]
    \cup [kind : {"data"}, va : Nat, raw : Seq(STRING), global : BOOLEAN,
          type : [size : Nat, unique : STRING]]
    \cup [kind : {"label"}, va : Nat, raw : Seq(STRING)]

\* A stretch of a section that came from the module.
Contribution == [va : Nat, size : Nat, section : STRING, uninit : BOOLEAN]

ASSUME PeAssumption ==
  /\ X86 \in BOOLEAN /\ MaxPublics \in Nat /\ ImageBase \in Nat
  /\ \A p \in Publics : p.va \in Nat /\ p.code \in BOOLEAN
  /\ \A s \in DOMAIN Section : Section[s].lo \in Nat /\ Section[s].hi \in Nat
  /\ \A n \in DOMAIN Udt : Udt[n] \in Nat
  /\ Modules \in Seq([records : SUBSET Record, contribs : SUBSET Contribution])

VARIABLES
  phase,      \* "publics", "modules", then what the split does with the index
  globals,    \* the public records read so far, in order
  primary,    \* mangled_by_va: address -> link name
  aliases,    \* public_aliases_by_va: address -> the bag of its other link names
  publicData, publicCode,
  seen,       \* records of the current module read so far
  fresh,      \* the procedure whose frame record comes next (at most one)
  framed,     \* history: the procedures whose frame record was read
  scope,      \* current_proc_name (at most one)
  current,    \* functions of the current module
  functions, variables, \* all of them, by address
  inlined,    \* names of the procedures declared inline
  modules,    \* modules read so far
  units       \* the units kept: [functions, contribs]

indexVars == <<phase, globals, primary, aliases, publicData, publicCode, seen, fresh,
               framed, scope, current, functions, variables, inlined, modules, units>>

-----------------------------------------------------------------------------
(* Names and sizes *)

Put(map, a, v) == [x \in DOMAIN map \cup {a} |-> IF x = a THEN v ELSE map[x]]
PutNew(map, a, v) == IF a \in DOMAIN map THEN map ELSE Put(map, a, v)

Align4(n) == 4 * ((n + 3) \div 4)
ParamBytes(sizes) == FoldSeq(LAMBDA s, sum : Align4(s) + sum, 0, sizes)

\* x86_c_data_name.
DataName(raw) == IF X86 THEN <<"_">> \o raw ELSE raw

\* The name a procedure has without a public symbol: __stdcall is decorated.
ProcName(p) ==
  IF X86 /\ p.params # {}
  THEN <<"_">> \o p.raw \o <<"@", ToString(ParamBytes(CHOOSE s \in p.params : TRUE))>>
  ELSE p.raw

\* type_byte_size: a forward reference is completed by its unique name.
TypeByteSize(t) ==
  IF t.size > 0 THEN t.size
  ELSE IF t.unique \in DOMAIN Udt THEN Udt[t.unique] ELSE 0

NameAt(va, fallback) == IF va \in DOMAIN primary THEN primary[va] ELSE fallback

-----------------------------------------------------------------------------
(* The global stream *)

IndexInit ==
  /\ phase = "publics" /\ globals = <<>>
  /\ primary = <<>> /\ aliases = <<>> /\ publicData = <<>> /\ publicCode = <<>>
  /\ seen = {} /\ fresh = {} /\ framed = {} /\ scope = {} /\ current = {}
  /\ functions = <<>> /\ variables = <<>> /\ inlined = {} /\ modules = 0 /\ units = <<>>

\* The other names once the name takes the place of the primary one.
\* Mutant: a name that comes back stays among the aliases.
DemoteKeepingName(old, known, name) ==
  IF old \in DOMAIN known THEN known ELSE known (+) SetToBag({old})

Demote(old, known, name) ==
  LET others == [a \in DOMAIN known \ {name} |-> known[a]]
  IN  IF old \in DOMAIN others THEN others ELSE others (+) SetToBag({old})

OtherNames(va) == IF va \in DOMAIN aliases THEN aliases[va] ELSE EmptyBag

\* The last public symbol of an address gives it its name.
ReadPublic(p) ==
  /\ phase = "publics" /\ Len(globals) < MaxPublics
  /\ globals' = Append(globals, p)
  /\ primary' = Put(primary, p.va, p.name)
  /\ aliases' =
       IF p.va \in DOMAIN primary /\ primary[p.va] # p.name
       THEN Put(aliases, p.va, Demote(primary[p.va], OtherNames(p.va), p.name))
       ELSE aliases
  /\ publicCode' = IF p.code THEN Put(publicCode, p.va, p.name) ELSE publicCode
  /\ publicData' = IF p.code THEN publicData ELSE Put(publicData, p.va, p.name)
  /\ UNCHANGED <<phase, seen, fresh, framed, scope, current, functions, variables,
                 inlined, modules, units>>

EndGlobals ==
  /\ phase = "publics" /\ phase' = "modules"
  /\ UNCHANGED <<globals, primary, aliases, publicData, publicCode, seen, fresh, framed,
                 scope, current, functions, variables, inlined, modules, units>>

-----------------------------------------------------------------------------
(* The stream of a module *)

Module == Modules[modules + 1]

\* The next record of the module.
Read(r) ==
  /\ phase = "modules" /\ modules < Len(Modules)
  /\ fresh = {} /\ r \in Module.records \ seen
  /\ seen' = seen \cup {r}
  /\ UNCHANGED <<phase, globals, primary, aliases, publicData, publicCode, modules, units>>

\* A record of code the linker dropped ends the scope of the procedure before
\* it and leaves nothing else.
Dropped(p) == p.va = 0 \/ p.len = 0

PeFunction(p) ==
  [name |-> NameAt(p.va, ProcName(p)), va |-> p.va, size |-> p.len, public |-> p.global,
   aliases |-> OtherNames(p.va)]

\* Mutant: a dropped procedure leaves the scope as it was.
ScopeKept(p) == IF Dropped(p) THEN scope ELSE {PeFunction(p).name}

Scope(p) == IF Dropped(p) THEN {} ELSE {PeFunction(p).name}

ReadProcedure(p) ==
  /\ p.kind = "proc" /\ Read(p)
  /\ scope' = Scope(p)
  /\ fresh' = IF p.frame = {} THEN {} ELSE {p}
  /\ IF Dropped(p) THEN UNCHANGED <<functions, current>>
     ELSE /\ functions' = PutNew(functions, p.va, PeFunction(p))
          /\ current' = current \cup {PeFunction(p)}
  /\ UNCHANGED <<framed, variables, inlined>>

\* S_FRAMEPROC, directly behind the procedure it describes.
ReadFrame ==
  \E p \in fresh :
    /\ phase = "modules"
    /\ inlined' = IF TRUE \in p.frame THEN inlined \cup scope ELSE inlined
    /\ fresh' = {} /\ framed' = framed \cup {p}
    /\ UNCHANGED <<phase, globals, primary, aliases, publicData, publicCode, seen, scope,
                   current, functions, variables, modules, units>>

ReadData(d) ==
  /\ d.kind = "data" /\ Read(d)
  /\ variables' =
       IF d.va = 0 THEN variables
       ELSE PutNew(variables, d.va, [name |-> NameAt(d.va, DataName(d.raw)),
                                     public |-> d.global, size |-> TypeByteSize(d.type)])
  /\ UNCHANGED <<fresh, framed, scope, current, functions, inlined>>

ReadLabel(l) ==
  /\ l.kind = "label" /\ Read(l)
  /\ variables' =
       IF l.va = 0 THEN variables
       ELSE PutNew(variables, l.va, [name |-> NameAt(l.va, DataName(l.raw)),
                                     public |-> FALSE, size |-> 0])
  /\ UNCHANGED <<fresh, framed, scope, current, functions, inlined>>

\* A module with neither functions nor contributions leaves no unit.
EndModule ==
  /\ phase = "modules" /\ modules < Len(Modules) /\ seen = Module.records /\ fresh = {}
  /\ units' = IF current # {} \/ Module.contribs # {}
              THEN Append(units, [functions |-> current, contribs |-> Module.contribs])
              ELSE units
  /\ modules' = modules + 1
  /\ seen' = {} /\ scope' = {} /\ current' = {}
  /\ UNCHANGED <<phase, globals, primary, aliases, publicData, publicCode, fresh, framed,
                 functions, variables, inlined>>

\* Public data nobody described becomes a variable of unknown size.
EndModules ==
  /\ phase = "modules" /\ modules = Len(Modules) /\ phase' = "emit"
  /\ variables' =
       [a \in DOMAIN variables \cup DOMAIN publicData |->
          IF a \in DOMAIN variables THEN variables[a]
          ELSE [name |-> publicData[a], public |-> TRUE, size |-> 0]]
  /\ UNCHANGED <<globals, primary, aliases, publicData, publicCode, seen, fresh, framed,
                 scope, current, functions, inlined, modules, units>>

IndexNext ==
  \/ \E p \in Publics : ReadPublic(p)
  \/ EndGlobals
  \/ \E k \in DOMAIN Modules : \E r \in Modules[k].records :
       ReadProcedure(r) \/ ReadData(r) \/ ReadLabel(r)
  \/ ReadFrame
  \/ EndModule
  \/ EndModules

IndexSpec == IndexInit /\ [][IndexNext]_indexVars

-----------------------------------------------------------------------------
(* Looking addresses up.  An answer is a set with at most one name and offset. *)

CodePublics == [a \in DOMAIN publicCode \ DOMAIN functions |-> publicCode[a]]

InSection(s, a) == s \in DOMAIN Section /\ a >= Section[s].lo /\ a < Section[s].hi

\* The entry at or before an address.
Floor(S, a) == {s \in S : s <= a /\ \A t \in S : t <= a => t <= s}

FirstAnswer(answers) ==
  LET some == {k \in DOMAIN answers : answers[k] # {}}
  IN  IF some = {} THEN {}
      ELSE answers[CHOOSE k \in some : \A j \in some : k <= j]

Answer(name, addend) == {[name |-> name, addend |-> addend]}
Exactly(map, a) == IF a \in DOMAIN map THEN Answer(map[a], 0) ELSE {}
Starting(map, a) == IF a \in DOMAIN map THEN Answer(map[a].name, 0) ELSE {}

\* Inside an entry of known size.
Within(map, a) ==
  UNION {Answer(map[s].name, a - s) : s \in {t \in Floor(DOMAIN map, a) : a < t + map[t].size}}

DataSections == <<"rdata", "data", "bss", "idata">>
StartOf(s) == <<"start of", s>>

\* Inside a public function nobody described: up to the next one.
WithinPublic(a) ==
  UNION {Answer(CodePublics[s], a - s) :
           s \in {t \in Floor(DOMAIN CodePublics, a) :
                    "text" \in DOMAIN Section => a < Section["text"].hi}}

\* Inside a datum of unknown size: up to the next one or the end of the section.
WithinUnsized(a) ==
  UNION {Answer(variables[s].name, a - s) :
           s \in {t \in Floor(DOMAIN variables, a) :
                    /\ variables[t].size = 0
                    /\ \A k \in Range(DataSections) : InSection(k, t) => a < Section[k].hi}}

SectionRelative(a) ==
  FirstAnswer([k \in DOMAIN DataSections |->
    IF InSection(DataSections[k], a)
    THEN Answer(StartOf(DataSections[k]), a - Section[DataSections[k]].lo) ELSE {}])

ResolveCode(a) ==
  FirstAnswer(<< Starting(functions, a), Within(functions, a), Exactly(Imports, a),
                 Exactly(CodePublics, a), WithinPublic(a) >>)

ResolveData(a) ==
  FirstAnswer(<< IF a = ImageBase THEN Answer(<<"__ImageBase">>, 0) ELSE {},
                 Exactly(Imports, a), Starting(variables, a), Starting(functions, a),
                 Within(variables, a), Within(functions, a), Exactly(Literals, a),
                 WithinUnsized(a), SectionRelative(a) >>)

-----------------------------------------------------------------------------
(* Properties *)

\* However the public symbols come, every link name of an address is kept, once:
\* as the name of what lies there or as one of its aliases (build_cu_index).
LinkNamesKept ==
  \A a \in DOMAIN primary :
    /\ {primary[a]} \cup DOMAIN OtherNames(a)
         = {globals[k].name : k \in {j \in DOMAIN globals : globals[j].va = a}}
    /\ primary[a] \notin DOMAIN OtherNames(a)
    /\ \A n \in DOMAIN OtherNames(a) : OtherNames(a)[n] = 1

\* The list of inline functions names exactly the procedures whose own frame
\* record declares them inline, not the one in front of it (current_proc_name).
InlinedAreDeclared ==
  inlined = {PeFunction(p).name : p \in {q \in framed : TRUE \in q.frame /\ ~Dropped(q)}}
=============================================================================
