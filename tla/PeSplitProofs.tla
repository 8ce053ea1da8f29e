---------------------------- MODULE PeSplitProofs ----------------------------
(***************************************************************************)
(* A PDB of any size, its records in any order.                            *)
(*                                                                         *)
(* The list of inline functions: a frame record says whether a procedure   *)
(* is inline without naming it, and the scan has to know whose it is.  The *)
(* link names: those of an address are all kept however they come, and     *)
(* every object defines those of its functions.  The objects: no name is   *)
(* defined twice, none is missing, and every relocation is on its field    *)
(* and leads to the byte the field referred to.                            *)
(***************************************************************************)
EXTENDS PeSplit, FiniteSetTheorems, WellFoundedInduction, TLAPS

DeclaredInline == {PeFunction(p).name : p \in {q \in framed : TRUE \in q.frame /\ ~Dropped(q)}}

\* No frame record has been read while the public symbols still give names.
NamesFirst == phase = "publics" => framed = {} /\ fresh = {} /\ inlined = {}

\* The open scope is that of the procedure whose frame record comes next.
ScopeIsFresh == \A p \in fresh : scope = Scope(p)

IInv == NamesFirst /\ ScopeIsFresh /\ inlined = DeclaredInline

-----------------------------------------------------------------------------

LEMMA InitInv == Init => IInv
BY DEF Init, IndexInit, IInv, NamesFirst, ScopeIsFresh, DeclaredInline

\* Once the public symbols are read, names stay as they are.
LEMMA NamesStay ==
  ASSUME UNCHANGED <<primary, aliases>>
  PROVE  \A p : PeFunction(p)' = PeFunction(p) /\ Scope(p)' = Scope(p)
BY DEF PeFunction, NameAt, OtherNames, Scope

LEMMA ProcedureInv ==
  ASSUME IInv, NEW p, ReadProcedure(p)
  PROVE  IInv'
<1>1. /\ phase = "modules" /\ phase' = "modules" /\ scope' = Scope(p) /\ fresh' \subseteq {p}
      /\ UNCHANGED <<primary, aliases, framed, inlined>>
  BY DEF ReadProcedure, Read
<1>2. ScopeIsFresh'
  BY <1>1, NamesStay DEF ScopeIsFresh
<1>3. DeclaredInline' = DeclaredInline
  BY <1>1, NamesStay DEF DeclaredInline
<1> QED
  BY <1>1, <1>2, <1>3 DEF IInv, NamesFirst

LEMMA FrameInv ==
  ASSUME IInv, ReadFrame
  PROVE  IInv'
<1>1. PICK p \in fresh :
        /\ phase = "modules" /\ phase' = "modules"
        /\ inlined' = IF TRUE \in p.frame THEN inlined \cup scope ELSE inlined
        /\ fresh' = {} /\ framed' = framed \cup {p}
        /\ UNCHANGED <<primary, aliases>>
  BY DEF ReadFrame
<1>2. scope = Scope(p)
  BY DEF IInv, ScopeIsFresh
<1>3. DeclaredInline' = DeclaredInline \cup (IF TRUE \in p.frame THEN Scope(p) ELSE {})
  <2>1. DeclaredInline' =
          {PeFunction(q).name : q \in {r \in framed \cup {p} : TRUE \in r.frame /\ ~Dropped(r)}}
    BY <1>1, NamesStay DEF DeclaredInline
  <2> QED
    BY <2>1 DEF DeclaredInline, Scope
<1> QED
  BY <1>1, <1>2, <1>3 DEF IInv, NamesFirst, ScopeIsFresh

LEMMA IndexInv ==
  ASSUME IInv, IndexNext
  PROVE  IInv'
<1>1. CASE \E p \in Publics : ReadPublic(p)
  <2>1. phase = "publics" /\ UNCHANGED <<phase, framed, fresh, inlined>>
    BY <1>1 DEF ReadPublic
  <2> QED
    BY <2>1 DEF IInv, NamesFirst, ScopeIsFresh, DeclaredInline
<1>2. ASSUME NEW k \in DOMAIN Modules, NEW r \in Modules[k].records,
             ReadData(r) \/ ReadLabel(r)
      PROVE  IInv'
  <2>1. /\ phase = "modules"
        /\ UNCHANGED <<phase, primary, aliases, framed, fresh, scope, inlined>>
    BY <1>2 DEF ReadData, ReadLabel, Read
  <2> QED
    BY <2>1, NamesStay DEF IInv, NamesFirst, ScopeIsFresh, DeclaredInline
<1>3. CASE EndGlobals \/ EndModule \/ EndModules
  <2>1. /\ phase' # "publics" /\ UNCHANGED <<primary, aliases, framed, fresh, inlined>>
        /\ fresh = {} \/ scope' = scope
    BY <1>3 DEF EndGlobals, EndModule, EndModules
  <2> QED
    BY <2>1, NamesStay DEF IInv, NamesFirst, ScopeIsFresh, DeclaredInline
<1> QED
  BY <1>1, <1>2, <1>3, ProcedureInv, FrameInv DEF IndexNext

\* Working on the objects leaves the index alone.
LEMMA SplitInv ==
  ASSUME IInv, phase' # "publics",
         UNCHANGED <<primary, aliases, framed, fresh, scope, inlined>>
  PROVE  IInv'
<1>1. DeclaredInline' = DeclaredInline
  BY NamesStay DEF DeclaredInline
<1>2. ScopeIsFresh'
  BY NamesStay DEF IInv, ScopeIsFresh
<1> QED
  BY <1>1, <1>2 DEF IInv, NamesFirst

LEMMA StepInv ==
  ASSUME IInv, [Next]_vars
  PROVE  IInv'
<1>1. CASE Index
  BY <1>1, IndexInv DEF Index
<1>2. CASE StartWorkers \/ (\E u \in DOMAIN disk : EmitUnit(u) \/ EmitFails(u)) \/ EmitShared
  <2>1. phase' # "publics" /\ UNCHANGED <<primary, aliases, framed, fresh, scope, inlined>>
    BY <1>2 DEF StartWorkers, EmitUnit, EmitFails, EmitShared, indexVars
  <2> QED
    BY <2>1, SplitInv
<1>3. CASE UNCHANGED vars
  <2>1. UNCHANGED <<phase, primary, aliases, framed, fresh, scope, inlined>>
    BY <1>3 DEF vars, indexVars
  <2>2. DeclaredInline' = DeclaredInline
    BY <2>1, NamesStay DEF DeclaredInline
  <2>3. ScopeIsFresh'
    BY <2>1, NamesStay DEF IInv, ScopeIsFresh
  <2> QED
    BY <2>1, <2>2, <2>3 DEF IInv, NamesFirst
<1> QED
  BY <1>1, <1>2, <1>3 DEF Next, Done

-----------------------------------------------------------------------------

\* However the records of a PDB come, of whatever modules and however many of
\* them were dropped, the inline functions are those whose own frame record
\* declares them inline.
THEOREM InlineListTrue == Spec => []InlinedAreDeclared
<1>1. IInv => InlinedAreDeclared
  BY DEF IInv, DeclaredInline, InlinedAreDeclared
<1> QED
  BY <1>1, InitInv, StepInv, PTL DEF Spec

-----------------------------------------------------------------------------
(* Link names *)

\* The link names an address was given by the public symbols read so far.
NamesGiven(a) == {globals[k].name : k \in {j \in DOMAIN globals : globals[j].va = a}}

\* The maps are about the addresses of the public symbols read.
GlobalsTrue ==
  /\ globals \in Seq(Publics)
  /\ \A a : a \in DOMAIN primary <=> NamesGiven(a) # {}
  /\ DOMAIN aliases \subseteq DOMAIN primary

KeptInv == GlobalsTrue /\ LinkNamesKept

LEMMA NamesAfter ==
  ASSUME globals \in Seq(Publics), NEW p \in Publics, globals' = Append(globals, p), NEW a
  PROVE  NamesGiven(a)' = NamesGiven(a) \cup (IF a = p.va THEN {p.name} ELSE {})
<1> DEFINE n == Len(globals)
<1>1. /\ n \in Nat /\ DOMAIN globals = 1..n /\ DOMAIN globals' = 1..(n + 1)
      /\ globals'[n + 1] = p /\ \A k \in 1..n : globals'[k] = globals[k]
  OBVIOUS
<1> HIDE DEF n
<1>2. NamesGiven(a)' = {globals'[k].name : k \in {j \in 1..(n + 1) : globals'[j].va = a}}
  BY <1>1 DEF NamesGiven
<1>3. 1..(n + 1) = 1..n \cup {n + 1}
  BY <1>1
<1>4. NamesGiven(a) = {globals[k].name : k \in {j \in 1..n : globals[j].va = a}}
  BY <1>1 DEF NamesGiven
<1> QED
  BY <1>1, <1>2, <1>3, <1>4

LEMMA PublicKept ==
  ASSUME KeptInv, NEW p \in Publics, ReadPublic(p)
  PROVE  KeptInv'
<1>1. /\ globals \in Seq(Publics) /\ globals' = Append(globals, p)
      /\ primary' = Put(primary, p.va, p.name)
  BY DEF KeptInv, GlobalsTrue, ReadPublic
<1>2. \A a : NamesGiven(a)' = NamesGiven(a) \cup (IF a = p.va THEN {p.name} ELSE {})
  BY <1>1, NamesAfter
<1>3. DOMAIN primary' = DOMAIN primary \cup {p.va} /\ primary'[p.va] = p.name
      /\ \A a \in DOMAIN primary \ {p.va} : primary'[a] = primary[a]
  BY <1>1 DEF Put
<1>4. /\ DOMAIN aliases' \subseteq DOMAIN primary'
      /\ \A a : a # p.va => OtherNames(a)' = OtherNames(a)
  BY <1>3 DEF ReadPublic, Put, OtherNames, KeptInv, GlobalsTrue
<1>5. GlobalsTrue'
  <2>1. globals' \in Seq(Publics)
    BY <1>1
  <2> QED
    BY <2>1, <1>2, <1>3, <1>4 DEF GlobalsTrue, KeptInv
<1> DEFINE Once(a) ==
      /\ {primary[a]} \cup DOMAIN OtherNames(a) = NamesGiven(a)
      /\ primary[a] \notin DOMAIN OtherNames(a)
      /\ \A n \in DOMAIN OtherNames(a) : OtherNames(a)[n] = 1
<1>6. \A a \in DOMAIN primary : Once(a)
  BY DEF KeptInv, LinkNamesKept, NamesGiven
<1>7. ASSUME NEW a \in DOMAIN primary', a # p.va
      PROVE  Once(a)'
  BY <1>2, <1>3, <1>4, <1>6, <1>7
<1>8. Once(p.va)'
  <2>1. CASE p.va \notin DOMAIN primary
    <3>1. OtherNames(p.va)' = EmptyBag /\ DOMAIN EmptyBag = {}
      BY <2>1 DEF ReadPublic, OtherNames, KeptInv, GlobalsTrue, EmptyBag, SetToBag
    <3>2. NamesGiven(p.va) = {}
      BY <2>1 DEF KeptInv, GlobalsTrue
    <3> QED
      BY <3>1, <3>2, <1>2, <1>3
  <2>2. CASE p.va \in DOMAIN primary /\ primary[p.va] = p.name
    <3>1. OtherNames(p.va)' = OtherNames(p.va)
      BY <2>2 DEF ReadPublic, OtherNames
    <3> QED
      BY <3>1, <2>2, <1>2, <1>3, <1>6
  <2>3. CASE p.va \in DOMAIN primary /\ primary[p.va] # p.name
    <3>1. OtherNames(p.va)' = Demote(primary[p.va], OtherNames(p.va), p.name)
      BY <2>3 DEF ReadPublic, OtherNames, Put
    <3>2. Once(p.va)
      BY <2>3, <1>6
    <3>3. /\ DOMAIN OtherNames(p.va)' = (DOMAIN OtherNames(p.va) \ {p.name}) \cup {primary[p.va]}
          /\ \A n \in DOMAIN OtherNames(p.va)' : OtherNames(p.va)'[n] = 1
      <4> DEFINE known == OtherNames(p.va)
                 old == primary[p.va]
      <4>1. (\A n \in DOMAIN known : known[n] = 1) /\ old \notin DOMAIN known /\ old # p.name
        BY <3>2, <2>3
      <4> HIDE DEF known, old
      <4>2. /\ DOMAIN Demote(old, known, p.name) = (DOMAIN known \ {p.name}) \cup {old}
            /\ \A n \in DOMAIN Demote(old, known, p.name) : Demote(old, known, p.name)[n] = 1
        BY <4>1 DEF Demote, (+), SetToBag
      <4> QED
        BY <4>2, <3>1 DEF known, old
    <3> QED
      BY <3>2, <3>3, <2>3, <1>2, <1>3
  <2> QED
    BY <2>1, <2>2, <2>3
<1>9. LinkNamesKept'
  BY <1>7, <1>8 DEF LinkNamesKept, NamesGiven
<1> QED
  BY <1>5, <1>9 DEF KeptInv

LEMMA RestKept ==
  ASSUME KeptInv, UNCHANGED <<globals, primary, aliases>>
  PROVE  KeptInv'
BY DEF KeptInv, GlobalsTrue, LinkNamesKept, NamesGiven, OtherNames

\* Every step but the reading of a public symbol leaves the names alone.
LEMMA NamesMove ==
  ASSUME [Next]_vars
  PROVE  (\E p \in Publics : ReadPublic(p)) \/ UNCHANGED <<globals, primary, aliases>>
BY DEF Next, Index, IndexNext, ReadPublic, EndGlobals, ReadProcedure, ReadData, ReadLabel, Read,
       ReadFrame, EndModule, EndModules, StartWorkers, EmitUnit, EmitFails, EmitShared, Done,
       vars, indexVars

\* However the public symbols come, every link name of an address is kept, once.
THEOREM LinkNamesSurvive == Spec => []LinkNamesKept
<1>1. Init => KeptInv
  BY DEF Init, IndexInit, KeptInv, GlobalsTrue, LinkNamesKept, NamesGiven
<1>2. KeptInv /\ [Next]_vars => KeptInv'
  BY NamesMove, PublicKept, RestKept
<1>3. KeptInv => LinkNamesKept
  BY DEF KeptInv
<1> QED
  BY <1>1, <1>2, <1>3, PTL DEF Spec

-----------------------------------------------------------------------------

\* Every entry of the index goes back to a record: data and labels bear a name
\* of their address, and a function is what a procedure of its module became.
FunctionsOf(k) == {PeFunction(r) : r \in Procedures(k)}

Faithful(entry, va) == \A p \in Publics : p.name = entry => p.va = va

NamesTrue ==
  /\ \A a \in DOMAIN primary : Faithful(primary[a], a)
  /\ \A a \in DOMAIN publicData : Faithful(publicData[a], a)
  /\ \A v \in DOMAIN variables : Faithful(variables[v].name, v)
  /\ DOMAIN publicData \subseteq Nat /\ DOMAIN variables \subseteq Nat

UnitType == [functions : SUBSET UNION {FunctionsOf(k) : k \in DOMAIN Modules},
             contribs : {Modules[k].contribs : k \in DOMAIN Modules}]

UnitsTrue ==
  /\ modules \in Nat
  /\ current # {} => modules + 1 \in DOMAIN Modules
  /\ current \subseteq FunctionsOf(modules + 1)
  /\ units \in Seq(UnitType)
  /\ \A u \in DOMAIN units : \E k \in DOMAIN Modules : units[u].functions \subseteq FunctionsOf(k)

\* Nothing bears a name while names still come.
PublicsFirst == phase = "publics" => current = {} /\ units = <<>>

DiskTrue ==
  /\ DOMAIN disk \subseteq DOMAIN units
  /\ phase \in {"split", "done"} => image \in Images
  /\ phase \in {"publics", "modules", "emit"} => disk = <<>>

LinkInv == KeptInv /\ NamesTrue /\ UnitsTrue /\ PublicsFirst /\ DiskTrue

LEMMA FunctionsStay ==
  ASSUME UNCHANGED <<primary, aliases>>
  PROVE  /\ \A p : PeFunction(p)' = PeFunction(p)
         /\ \A k : FunctionsOf(k)' = FunctionsOf(k)
         /\ UnitType' = UnitType
<1>1. \A p : PeFunction(p)' = PeFunction(p)
  BY DEF PeFunction, NameAt, OtherNames
<1>2. \A k : FunctionsOf(k)' = FunctionsOf(k)
  <2>1. \A k : FunctionsOf(k)' = {PeFunction(r)' : r \in Procedures(k)}
    BY DEF FunctionsOf, Procedures, Dropped
  <2> QED
    BY <1>1, <2>1 DEF FunctionsOf
<1> QED
  BY <1>1, <1>2 DEF UnitType

LEMMA ElementTyped ==
  ASSUME NEW S, NEW s \in Seq(S), NEW k \in DOMAIN s
  PROVE  s[k] \in S
OBVIOUS

LEMMA RecordTyped ==
  ASSUME NEW k \in DOMAIN Modules, NEW r \in Modules[k].records
  PROVE  r.va \in Nat /\ (r.kind = "proc" => r.len \in Nat)
<1>1. Modules[k] \in [records : SUBSET Record, contribs : SUBSET Contribution]
  BY PeAssumption, ElementTyped DEF PeAssumption
<1>2. r \in Record
  BY <1>1
<1>3. CASE r \in [kind : {"proc"}, va : Nat, len : Nat, raw : Seq(STRING), global : BOOLEAN,
                  params : SUBSET Seq(Nat), frame : SUBSET BOOLEAN]
  BY <1>3
<1>4. CASE r \in [kind : {"data"}, va : Nat, raw : Seq(STRING), global : BOOLEAN,
                  type : [size : Nat, unique : STRING]]
  BY <1>4
<1>5. CASE r \in [kind : {"label"}, va : Nat, raw : Seq(STRING)]
  BY <1>5
<1> QED
  BY <1>2, <1>3, <1>4, <1>5 DEF Record

LEMMA RecordKind ==
  ASSUME NEW k \in DOMAIN Modules, NEW r \in Modules[k].records
  PROVE  r.kind \in {"proc", "data", "label"}
<1>1. Modules[k] \in [records : SUBSET Record, contribs : SUBSET Contribution]
  BY PeAssumption, ElementTyped DEF PeAssumption
<1>2. r \in Record
  BY <1>1
<1> QED
  BY <1>2 DEF Record

LEMMA ProcedureTyped ==
  ASSUME NEW k \in DOMAIN Modules, NEW r \in Procedures(k)
  PROVE  /\ r \in Modules[k].records /\ r.kind = "proc" /\ r.va # 0
         /\ r.va \in Nat /\ r.len \in Nat
BY RecordTyped DEF Procedures, Dropped

\* A name at an address, whether it comes from a public symbol or the record.
LEMMA NameFaithful ==
  ASSUME LinkNamesApart, NamesTrue,
         NEW k \in DOMAIN Modules, NEW r \in Modules[k].records, r.va # 0
  PROVE  Faithful(NameAt(r.va, OwnName(r)), r.va)
BY DEF LinkNamesApart, NamesTrue, Faithful, NameAt

LEMMA PublicLinks ==
  ASSUME LinkNamesApart, LinkInv, NEW p \in Publics, ReadPublic(p), UNCHANGED splitVars
  PROVE  LinkInv'
<1>1. KeptInv'
  BY PublicKept DEF LinkInv
<1>2. Faithful(p.name, p.va)
  BY DEF LinkNamesApart, Faithful
<1>3. NamesTrue'
  <2>1. /\ primary' = Put(primary, p.va, p.name) /\ variables' = variables
        /\ publicData' = publicData \/ publicData' = Put(publicData, p.va, p.name)
    BY DEF ReadPublic
  <2> QED
    BY <1>2, <2>1, PeAssumption DEF NamesTrue, LinkInv, Put, Faithful, PeAssumption
<1>4. phase = "publics" /\ UNCHANGED <<phase, current, units, modules, disk, image>>
  BY DEF ReadPublic, splitVars
<1>5. UnitsTrue' /\ PublicsFirst' /\ DiskTrue'
  <2>1. current' = {} /\ units' = <<>> /\ disk' = <<>>
    BY <1>4 DEF LinkInv, PublicsFirst, DiskTrue
  <2> QED
    BY <1>4, <2>1 DEF LinkInv, UnitsTrue, PublicsFirst, DiskTrue
<1> QED
  BY <1>1, <1>3, <1>5 DEF LinkInv

\* What the other steps have in common.
LEMMA LinksStay ==
  ASSUME LinkInv, UNCHANGED <<globals, primary, aliases, publicData>>,
         NamesTrue', UnitsTrue', PublicsFirst', DiskTrue'
  PROVE  LinkInv'
BY RestKept DEF LinkInv

LEMMA ProcedureLinks ==
  ASSUME LinkInv, NEW k \in DOMAIN Modules, NEW r \in Modules[k].records, ReadProcedure(r),
         UNCHANGED splitVars
  PROVE  LinkInv'
<1>1. /\ phase = "modules" /\ r \in Module.records /\ r.kind = "proc" /\ modules < Len(Modules)
      /\ UNCHANGED <<phase, globals, primary, aliases, publicData, modules, units, variables,
                     disk, image>>
      /\ current' = IF Dropped(r) THEN current ELSE current \cup {PeFunction(r)}
  BY DEF ReadProcedure, Read, splitVars
<1>2. modules + 1 \in DOMAIN Modules
  BY <1>1, PeAssumption DEF LinkInv, UnitsTrue, PeAssumption
<1>3. current' \subseteq FunctionsOf(modules + 1)
  BY <1>1, <1>2 DEF LinkInv, UnitsTrue, FunctionsOf, Procedures, Module
<1>4. UnitsTrue'
  BY <1>1, <1>2, <1>3, FunctionsStay DEF LinkInv, UnitsTrue
<1>5. NamesTrue' /\ PublicsFirst' /\ DiskTrue'
  BY <1>1 DEF LinkInv, NamesTrue, PublicsFirst, DiskTrue, Faithful
<1> QED
  BY <1>1, <1>4, <1>5, LinksStay

LEMMA VariableLinks ==
  ASSUME LinkNamesApart, LinkInv, NEW k \in DOMAIN Modules, NEW r \in Modules[k].records,
         ReadData(r) \/ ReadLabel(r), UNCHANGED splitVars
  PROVE  LinkInv'
<1>1. /\ phase = "modules" /\ r.kind # "proc"
      /\ UNCHANGED <<phase, globals, primary, aliases, publicData, modules, units, current,
                     disk, image>>
  BY DEF ReadData, ReadLabel, Read, splitVars
<1>2. PICK v : /\ v.name = NameAt(r.va, OwnName(r))
               /\ variables' = IF r.va = 0 THEN variables ELSE PutNew(variables, r.va, v)
  BY <1>1 DEF ReadData, ReadLabel, OwnName
<1>3. NamesTrue'
  <2>1. ASSUME NEW w \in DOMAIN variables'
        PROVE  Faithful(variables'[w].name, w)
    <3>1. CASE w \in DOMAIN variables /\ variables'[w] = variables[w]
      BY <3>1 DEF LinkInv, NamesTrue
    <3>2. CASE ~(w \in DOMAIN variables /\ variables'[w] = variables[w])
      <4>1. r.va # 0 /\ w = r.va /\ variables'[w] = v
        BY <3>2, <1>2 DEF PutNew, Put
      <4> QED
        BY <4>1, <1>2, NameFaithful DEF LinkInv
    <3> QED
      BY <3>1, <3>2
  <2>2. DOMAIN variables' \subseteq Nat
    BY <1>2, RecordTyped DEF PutNew, Put, LinkInv, NamesTrue
  <2> QED
    BY <2>1, <2>2, <1>1 DEF LinkInv, NamesTrue, Faithful
<1>4. UnitsTrue'
  BY <1>1, FunctionsStay DEF LinkInv, UnitsTrue
<1>5. PublicsFirst' /\ DiskTrue'
  BY <1>1 DEF LinkInv, PublicsFirst, DiskTrue
<1> QED
  BY <1>1, <1>3, <1>4, <1>5, LinksStay

LEMMA ModuleLinks ==
  ASSUME LinkInv, EndModule, UNCHANGED splitVars
  PROVE  LinkInv'
<1>1. /\ phase = "modules" /\ modules < Len(Modules) /\ modules' = modules + 1 /\ current' = {}
      /\ UNCHANGED <<phase, globals, primary, aliases, publicData, variables, disk, image>>
  BY DEF EndModule, splitVars
<1> DEFINE unit == [functions |-> current, contribs |-> Module.contribs]
<1>2. modules \in Nat /\ modules + 1 \in DOMAIN Modules
  BY <1>1, PeAssumption DEF LinkInv, UnitsTrue, PeAssumption
<1>3. unit \in UnitType /\ unit.functions \subseteq FunctionsOf(modules + 1)
  <2>1. current \subseteq FunctionsOf(modules + 1)
    BY DEF LinkInv, UnitsTrue
  <2> QED
    BY <1>2, <2>1 DEF UnitType, Module
<1>4. units \in Seq(UnitType) /\ (units' = units \/ units' = Append(units, unit))
  BY DEF EndModule, LinkInv, UnitsTrue
<1> HIDE DEF unit
<1>5. units' \in Seq(UnitType)
  BY <1>3, <1>4
<1>6. ASSUME NEW u \in DOMAIN units'
      PROVE  \E k \in DOMAIN Modules : units'[u].functions \subseteq FunctionsOf(k)
  <2>1. (u \in DOMAIN units /\ units'[u] = units[u]) \/ units'[u] = unit
    BY <1>4
  <2> QED
    BY <2>1, <1>2, <1>3 DEF LinkInv, UnitsTrue
<1>7. DOMAIN units \subseteq DOMAIN units'
  BY <1>4
<1>8. UnitsTrue'
  BY <1>1, <1>2, <1>5, <1>6, FunctionsStay DEF UnitsTrue
<1>9. NamesTrue' /\ PublicsFirst' /\ DiskTrue'
  BY <1>1, <1>7 DEF LinkInv, NamesTrue, PublicsFirst, DiskTrue, Faithful
<1> QED
  BY <1>1, <1>8, <1>9, LinksStay

LEMMA ModulesLinks ==
  ASSUME LinkInv, EndModules, UNCHANGED splitVars
  PROVE  LinkInv'
<1>1. /\ phase' = "emit" /\ phase = "modules"
      /\ UNCHANGED <<globals, primary, aliases, publicData, modules, units, current, disk, image>>
  BY DEF EndModules, splitVars
<1>2. ASSUME NEW v \in DOMAIN variables'
      PROVE  Faithful(variables'[v].name, v)
  <2>1. CASE v \in DOMAIN variables
    BY <2>1 DEF EndModules, LinkInv, NamesTrue
  <2>2. CASE v \notin DOMAIN variables
    <3>1. v \in DOMAIN publicData /\ variables'[v].name = publicData[v]
      BY <2>2 DEF EndModules
    <3> QED
      BY <3>1 DEF LinkInv, NamesTrue
  <2> QED
    BY <2>1, <2>2
<1>3. NamesTrue'
  <2>1. DOMAIN variables' \subseteq Nat
    BY DEF EndModules, LinkInv, NamesTrue
  <2> QED
    BY <1>1, <1>2, <2>1 DEF LinkInv, NamesTrue, Faithful
<1>4. UnitsTrue'
  BY <1>1, FunctionsStay DEF LinkInv, UnitsTrue
<1>5. PublicsFirst' /\ DiskTrue'
  BY <1>1 DEF LinkInv, PublicsFirst, DiskTrue
<1> QED
  BY <1>1, <1>3, <1>4, <1>5, LinksStay

\* Frame records, and the work on the objects.
LEMMA OtherLinks ==
  ASSUME LinkInv,
         ((ReadFrame \/ EndGlobals) /\ UNCHANGED splitVars) \/ StartWorkers \/ EmitShared
           \/ (\E u \in DOMAIN disk : EmitUnit(u) \/ EmitFails(u)) \/ UNCHANGED vars
  PROVE  LinkInv'
<1>1. UNCHANGED <<globals, primary, aliases, publicData, modules, units, current, variables>>
  BY DEF ReadFrame, EndGlobals, StartWorkers, EmitShared, EmitUnit, EmitFails, vars, indexVars
<1>2. phase' = "publics" => phase = "publics"
  BY DEF ReadFrame, EndGlobals, StartWorkers, EmitShared, EmitUnit, EmitFails, vars, indexVars
<1>3. DiskTrue'
  <2>1. CASE StartWorkers
    BY <2>1 DEF StartWorkers, DiskTrue
  <2>2. CASE \E u \in DOMAIN disk : EmitUnit(u) \/ EmitFails(u)
    BY <2>2, <1>1 DEF EmitUnit, EmitFails, indexVars, DiskTrue, LinkInv
  <2>3. CASE EmitShared
    BY <2>3 DEF EmitShared, DiskTrue, LinkInv
  <2>4. CASE (ReadFrame \/ EndGlobals) /\ UNCHANGED splitVars
    BY <2>4, <1>1 DEF ReadFrame, EndGlobals, splitVars, DiskTrue, LinkInv
  <2>5. CASE UNCHANGED vars
    BY <2>5 DEF vars, indexVars, splitVars, DiskTrue, LinkInv
  <2> QED
    BY <2>1, <2>2, <2>3, <2>4, <2>5
<1>4. NamesTrue' /\ UnitsTrue' /\ PublicsFirst'
  BY <1>1, <1>2, FunctionsStay DEF LinkInv, NamesTrue, UnitsTrue, PublicsFirst, Faithful
<1> QED
  BY <1>1, <1>3, <1>4, LinksStay

LEMMA StepLinks ==
  ASSUME LinkNamesApart, LinkInv, [Next]_vars
  PROVE  LinkInv'
BY PublicLinks, ProcedureLinks, VariableLinks, ModuleLinks, ModulesLinks, OtherLinks
   DEF Next, Index, IndexNext, Done

\* The other names of an address are link names.
LEMMA OthersAreLinkNames ==
  ASSUME LinkInv, NEW va, NEW n \in DOMAIN OtherNames(va)
  PROVE  \E p \in Publics : p.va = va /\ p.name = n
<1>1. va \in DOMAIN primary
  BY DEF OtherNames, EmptyBag, SetToBag, LinkInv, KeptInv, GlobalsTrue
<1>2. n \in NamesGiven(va)
  BY <1>1 DEF LinkInv, KeptInv, LinkNamesKept, NamesGiven
<1>3. PICK j \in DOMAIN globals : globals[j].va = va /\ globals[j].name = n
  BY <1>2 DEF NamesGiven
<1>4. globals[j] \in Publics
  BY DEF LinkInv, KeptInv, GlobalsTrue
<1> QED
  BY <1>3, <1>4

\* No function in front of one has taken its link names.
LEMMA LinkNameFresh ==
  ASSUME LinkNamesApart, ProceduresApart, LinkInv,
         NEW u \in DOMAIN units, NEW f \in Emitted(u), NEW p \in Publics, p.va = f.va
  PROVE  p.name \notin EarlierNames(u, f)
<1>1. PICK k \in DOMAIN Modules : units[u].functions \subseteq FunctionsOf(k)
  BY DEF LinkInv, UnitsTrue
<1>2. SUFFICES ASSUME NEW g \in Emitted(u), g.va < f.va,
                      NEW d \in FunctionDefs(g, {}), d.name = p.name
               PROVE  FALSE
  BY DEF EarlierNames
<1>3. PICK r \in Procedures(k) : f = PeFunction(r)
  BY <1>1 DEF Emitted, Live, FunctionsOf
<1>4. PICK q \in Procedures(k) : g = PeFunction(q)
  BY <1>1 DEF Emitted, Live, FunctionsOf
<1>5. /\ f.va = r.va
      /\ g.va = q.va /\ g.size = q.len /\ g.name = NameAt(q.va, ProcName(q))
      /\ g.aliases = OtherNames(q.va)
  BY <1>3, <1>4 DEF PeFunction
<1>6. /\ r \in Modules[k].records /\ q \in Modules[k].records
      /\ r.kind = "proc" /\ q.kind = "proc" /\ q.va # 0
      /\ q.va \in Nat /\ q.len \in Nat /\ r.va \in Nat
  BY ProcedureTyped
<1>7. q.va < r.va /\ q.va + q.len <= r.va
  BY <1>2, <1>5 DEF ProceduresApart
<1>8. Faithful(g.name, q.va)
  BY <1>5, <1>6, NameFaithful DEF LinkInv, OwnName
<1>9. \A a \in DOMAIN g.aliases : Faithful(a, q.va)
  BY <1>5, OthersAreLinkNames DEF LinkNamesApart, Faithful
<1>10. \A v \in LabelVas(g) : v < r.va /\ Faithful(variables[v].name, v)
  BY <1>5, <1>6, <1>7 DEF LabelVas, In, LinkInv, NamesTrue
<1>11. PICK v : v < r.va /\ Faithful(d.name, v)
  BY <1>5, <1>6, <1>7, <1>8, <1>9, <1>10 DEF FunctionDefs, Def
<1>12. v = r.va
  BY <1>2, <1>5, <1>11 DEF Faithful
<1> QED
  BY <1>6, <1>11, <1>12

\* What the code writes for a function whose names are those of its address.
LEMMA OwnNamesDefined ==
  ASSUME LinkNamesApart, NamedAreGlobal, ProceduresApart, LinkInv, phase = "done",
         NEW u \in DOMAIN units, NEW f \in Emitted(u),
         NEW i \in DOMAIN globals, globals[i].va = f.va
  PROVE  \E d \in UnitDefs(u) :
           d.name = globals[i].name /\ d.external /\ d.f = {f} /\ Remap(f, d.va) = 0
<1> DEFINE n == globals[i].name
<1>1. PICK k \in DOMAIN Modules : units[u].functions \subseteq FunctionsOf(k)
  BY DEF LinkInv, UnitsTrue
<1>2. globals[i] \in Publics
  BY DEF LinkInv, KeptInv, GlobalsTrue
<1>3. PICK r \in Procedures(k) : f = PeFunction(r)
  BY <1>1 DEF Emitted, Live, FunctionsOf
<1>4. /\ f.va = r.va /\ f.size = r.len /\ f.public = r.global
      /\ f.name = NameAt(r.va, ProcName(r)) /\ f.aliases = OtherNames(r.va)
  BY <1>3 DEF PeFunction
<1>5. f.public
  BY <1>2, <1>4 DEF NamedAreGlobal
<1>6. f.va \in DOMAIN primary /\ n \in {f.name} \cup DOMAIN f.aliases
  <2>1. n \in NamesGiven(f.va)
    BY DEF NamesGiven
  <2>2. f.va \in DOMAIN primary
    BY <2>1 DEF LinkInv, KeptInv, GlobalsTrue
  <2>3. {primary[f.va]} \cup DOMAIN OtherNames(f.va) = NamesGiven(f.va)
    BY <2>2 DEF LinkInv, KeptInv, LinkNamesKept, NamesGiven
  <2> QED
    BY <2>1, <2>2, <2>3, <1>4 DEF NameAt
<1>7. Remap(f, f.va) = 0
  <2>1. f.va \in Nat
    BY <1>4, ProcedureTyped
  <2>2. image.prefixes \subseteq Nat
    BY SplitAssumption DEF LinkInv, DiskTrue, SplitAssumption, Image
  <2>3. {p \in F3(f) : p < f.va} = {}
    BY <2>1, <2>2 DEF F3, RepRets, In
  <2>4. Cardinality({}) = 0
    BY FS_EmptySet
  <2> QED
    <3>1. \A a \in Nat : (a - a) - 0 = 0
      OBVIOUS
    <3>2. Remap(f, f.va) = (f.va - f.va) - Cardinality({p \in F3(f) : p < f.va})
      BY DEF Remap
    <3> QED
      BY <2>1, <2>3, <2>4, <3>1, <3>2
<1>8. n \notin EarlierNames(u, f)
  BY <1>2, LinkNameFresh
<1> DEFINE own   == Def(f.name, f.public, {f}, f.va)
           alias == Def(n, TRUE, {f}, f.va)
<1>9. own \in FunctionDefs(f, EarlierNames(u, f))
  BY DEF FunctionDefs
<1>10. n # f.name => alias \in FunctionDefs(f, EarlierNames(u, f))
  BY <1>6, <1>8 DEF FunctionDefs
<1>11. FunctionDefs(f, EarlierNames(u, f)) \subseteq UnitDefs(u)
  BY DEF UnitDefs
<1>12. CASE n = f.name
  <2>1. own.name = n /\ own.external /\ own.f = {f} /\ own.va = f.va
    BY <1>12, <1>5 DEF Def
  <2> HIDE DEF own
  <2> QED
    BY <2>1, <1>9, <1>11, <1>7
<1>13. CASE n # f.name
  <2>1. alias.name = n /\ alias.external /\ alias.f = {f} /\ alias.va = f.va
    BY DEF Def
  <2> HIDE DEF alias
  <2> QED
    BY <2>1, <1>10, <1>11, <1>13, <1>7
<1> QED
  BY <1>12, <1>13

\* Every link name the program had for a function is defined where the function
\* starts in the object it went to, whatever the modules, whichever workers
\* failed and whatever prefixes were dropped, provided a link name stands for
\* one address, no static was folded with a procedure that has one, and the
\* procedures of a module do not reach into each other.
THEOREM LinkNamesLink ==
  ASSUME LinkNamesApart, NamedAreGlobal, ProceduresApart
  PROVE  Spec => []LinkNamesDefined
<1>1. Init => LinkInv
  BY DEF Init, IndexInit, LinkInv, KeptInv, GlobalsTrue, LinkNamesKept, NamesGiven, NamesTrue,
         UnitsTrue, PublicsFirst, DiskTrue
<1>2. LinkInv /\ [Next]_vars => LinkInv'
  BY StepLinks
<1>3. LinkInv => LinkNamesDefined
  <2>1. SUFFICES ASSUME LinkInv, phase = "done", NEW u \in Objects \ {0}, NEW f \in Emitted(u),
                        NEW i \in {j \in DOMAIN globals : globals[j].va = f.va}
                 PROVE  \E d \in UnitDefs(u) :
                          d.name = globals[i].name /\ d.external /\ d.f = {f} /\ Remap(f, d.va) = 0
    BY DEF LinkNamesDefined
  <2>2. u \in DOMAIN units
    BY <2>1 DEF Objects, LinkInv, DiskTrue
  <2> QED
    BY <2>1, <2>2, OwnNamesDefined
<1> QED
  BY <1>1, <1>2, <1>3, PTL DEF Spec

-----------------------------------------------------------------------------
(* Every name defined once, every name defined *)

\* Where an external name comes from.
Source(n, a) ==
  \/ \E p \in Publics : p.name = n /\ p.va = a
  \/ \E k \in DOMAIN Modules : \E r \in Modules[k].records :
       Exported(r) /\ r.va = a /\ OwnName(r) = n

VariablesTrue ==
  /\ \A v \in DOMAIN publicData : \E p \in Publics :
       ~p.code /\ p.va = v /\ p.name = publicData[v]
  /\ \A v \in DOMAIN variables : variables[v].public => Source(variables[v].name, v) /\ Housed(v)

\* Each unit is one of the modules read, and each module with code is a unit.
Owned(own) ==
  /\ own \in [DOMAIN units -> 1..modules]
  /\ \A u, w \in DOMAIN units : own[u] = own[w] => u = w
  /\ \A u \in DOMAIN units :
       units[u].functions = FunctionsOf(own[u]) /\ units[u].contribs = Modules[own[u]].contribs
  /\ \A k \in 1..modules : Procedures(k) # {} => \E u \in DOMAIN units : own[u] = k

FunctionsTrue ==
  /\ modules \in 0..Len(Modules)
  /\ modules < Len(Modules) =>
       current = {PeFunction(r) : r \in seen \cap Procedures(modules + 1)}
  /\ \A a \in DOMAIN functions : \E k \in DOMAIN Modules : \E r \in Procedures(k) :
       functions[a] = PeFunction(r)

\* In which order the phases come.
PhasesTrue ==
  /\ phase = "publics" =>
       /\ modules = 0 /\ units = <<>> /\ seen = {} /\ current = {}
       /\ functions = <<>> /\ variables = <<>>
  /\ phase \in {"emit", "split", "done"} => modules = Len(Modules)
  /\ phase \in {"split", "done"} => DOMAIN disk = {u \in DOMAIN units : Splits(u)}

OwnersInv == (\E own : Owned(own)) /\ FunctionsTrue /\ PhasesTrue /\ VariablesTrue

LEMMA ModulesTyped == Modules \in Seq([records : SUBSET Record, contribs : SUBSET Contribution])
BY PeAssumption DEF PeAssumption

\* The name of a record at an address is a name of that address.
LEMMA NameSource ==
  ASSUME LinkInv, NEW k \in DOMAIN Modules, NEW r \in Modules[k].records, Exported(r)
  PROVE  Source(NameAt(r.va, OwnName(r)), r.va)
<1>1. CASE r.va \in DOMAIN primary
  <2>1. primary[r.va] \in NamesGiven(r.va)
    BY <1>1 DEF LinkInv, KeptInv, LinkNamesKept, NamesGiven
  <2>2. PICK i \in DOMAIN globals : globals[i].va = r.va /\ globals[i].name = primary[r.va]
    BY <2>1 DEF NamesGiven
  <2>3. globals[i] \in Publics
    BY DEF LinkInv, KeptInv, GlobalsTrue
  <2> QED
    BY <1>1, <2>2, <2>3 DEF Source, NameAt
<1>2. CASE r.va \notin DOMAIN primary
  BY <1>2 DEF Source, NameAt
<1> QED
  BY <1>1, <1>2

\* Units and what belongs to them, when the names and the units stay.
LEMMA OwnersStay ==
  ASSUME \E own : Owned(own), UNCHANGED <<units, modules, primary, aliases>>
  PROVE  (\E own : Owned(own))'
<1>1. PICK own : Owned(own)
  OBVIOUS
<1>2. \A u : (units[u].functions)' = units[u].functions /\ (units[u].contribs)' = units[u].contribs
  OBVIOUS
<1>3. Owned(own)'
  BY <1>1, <1>2, FunctionsStay DEF Owned
<1> QED
  BY <1>3

LEMMA PublicOwners ==
  ASSUME LinkInv, OwnersInv, NEW p \in Publics, ReadPublic(p), UNCHANGED splitVars
  PROVE  OwnersInv'
<1>1. /\ phase = "publics"
      /\ UNCHANGED <<phase, seen, current, functions, variables, modules, units, disk>>
      /\ publicData' = IF p.code THEN publicData ELSE Put(publicData, p.va, p.name)
  BY DEF ReadPublic, splitVars
<1>2. /\ modules = 0 /\ units = <<>> /\ seen = {} /\ current = {}
      /\ functions = <<>> /\ variables = <<>>
  BY <1>1 DEF OwnersInv, PhasesTrue
<1>3. (\E own : Owned(own))'
  <2>1. Owned(<<>>)'
    BY <1>1, <1>2 DEF Owned
  <2> QED
    BY <2>1
<1>4. FunctionsTrue'
  BY <1>1, <1>2, ModulesTyped DEF FunctionsTrue
<1>5. PhasesTrue'
  BY <1>1, <1>2 DEF PhasesTrue
<1>6. VariablesTrue'
  <2>1. \A v \in DOMAIN publicData' : \E q \in Publics :
          ~q.code /\ q.va = v /\ q.name = publicData'[v]
    BY <1>1, PeAssumption DEF OwnersInv, VariablesTrue, Put, PeAssumption
  <2> QED
    BY <1>1, <1>2, <2>1 DEF VariablesTrue
<1> QED
  BY <1>3, <1>4, <1>5, <1>6 DEF OwnersInv

LEMMA ProcedureOwners ==
  ASSUME LinkInv, OwnersInv, NEW k \in DOMAIN Modules, NEW r \in Modules[k].records,
         ReadProcedure(r), UNCHANGED splitVars
  PROVE  OwnersInv'
<1>1. /\ phase = "modules" /\ r \in Module.records /\ r.kind = "proc" /\ modules < Len(Modules)
      /\ seen' = seen \cup {r}
      /\ UNCHANGED <<phase, primary, aliases, publicData, modules, units, variables, disk>>
      /\ current' = IF Dropped(r) THEN current ELSE current \cup {PeFunction(r)}
      /\ functions' = IF Dropped(r) THEN functions ELSE PutNew(functions, r.va, PeFunction(r))
  BY DEF ReadProcedure, Read, splitVars
<1>2. (\E own : Owned(own))'
  BY <1>1, OwnersStay DEF OwnersInv
<1>3. modules + 1 \in DOMAIN Modules /\ Module = Modules[modules + 1]
  BY <1>1, ModulesTyped DEF OwnersInv, FunctionsTrue, Module
<1>4. r \in Procedures(modules + 1) <=> ~Dropped(r)
  BY <1>1, <1>3 DEF Procedures
<1>5. FunctionsTrue'
  <2>1. current' = {PeFunction(q) : q \in seen' \cap Procedures(modules + 1)}
    BY <1>1, <1>4 DEF OwnersInv, FunctionsTrue
  <2>2. ASSUME NEW a \in DOMAIN functions'
        PROVE  \E j \in DOMAIN Modules : \E q \in Procedures(j) : functions'[a] = PeFunction(q)
    <3>1. CASE a \in DOMAIN functions /\ functions'[a] = functions[a]
      BY <3>1 DEF OwnersInv, FunctionsTrue
    <3>2. CASE ~(a \in DOMAIN functions /\ functions'[a] = functions[a])
      <4>1. ~Dropped(r) /\ functions'[a] = PeFunction(r)
        BY <1>1, <3>2 DEF PutNew, Put
      <4> QED
        BY <4>1, <1>3, <1>4
    <3> QED
      BY <3>1, <3>2
  <2>3. \A q : PeFunction(q)' = PeFunction(q)
    BY <1>1, FunctionsStay
  <2>4. current' = {PeFunction(q)' : q \in seen' \cap Procedures(modules + 1)}
    BY <2>1, <2>3
  <2>5. \A a \in DOMAIN functions' : \E j \in DOMAIN Modules : \E q \in Procedures(j) :
          functions'[a] = PeFunction(q)'
    BY <2>2, <2>3
  <2>6. modules' \in 0..Len(Modules)
    BY <1>1 DEF OwnersInv, FunctionsTrue
  <2> QED
    BY <1>1, <2>4, <2>5, <2>6 DEF FunctionsTrue
<1>6. PhasesTrue' /\ VariablesTrue'
  BY <1>1 DEF OwnersInv, PhasesTrue, VariablesTrue
<1> QED
  BY <1>2, <1>5, <1>6 DEF OwnersInv

LEMMA VariableOwners ==
  ASSUME DataHoused, LinkInv, OwnersInv, NEW k \in DOMAIN Modules, NEW r \in Modules[k].records,
         ReadData(r) \/ ReadLabel(r), UNCHANGED splitVars
  PROVE  OwnersInv'
<1>1. /\ phase = "modules" /\ r.kind # "proc" /\ r \in Module.records /\ modules < Len(Modules)
      /\ seen' = seen \cup {r}
      /\ UNCHANGED <<phase, primary, aliases, publicData, modules, units, current, functions,
                     disk>>
  BY DEF ReadData, ReadLabel, Read, splitVars
<1>2. (\E own : Owned(own))'
  BY <1>1, OwnersStay DEF OwnersInv
<1>3. FunctionsTrue'
  <2>1. seen' \cap Procedures(modules + 1) = seen \cap Procedures(modules + 1)
    BY <1>1 DEF Procedures
  <2> QED
    BY <1>1, <2>1, FunctionsStay DEF OwnersInv, FunctionsTrue
<1>4. PICK v : /\ v.name = NameAt(r.va, OwnName(r))
               /\ v.public => Exported(r) \/ r.va = 0
               /\ r.kind = "label" => ~v.public
               /\ variables' = IF r.va = 0 THEN variables ELSE PutNew(variables, r.va, v)
  <2>1. CASE ReadData(r)
    BY <2>1 DEF ReadData, OwnName, Exported
  <2>2. CASE ReadLabel(r)
    BY <2>2 DEF ReadLabel, OwnName, Exported
  <2> QED
    BY <2>1, <2>2
<1>5. VariablesTrue'
  <2>1. ASSUME NEW w \in DOMAIN variables', variables'[w].public
        PROVE  Source(variables'[w].name, w) /\ Housed(w)
    <3>1. CASE w \in DOMAIN variables /\ variables'[w] = variables[w]
      BY <2>1, <3>1 DEF OwnersInv, VariablesTrue
    <3>2. CASE ~(w \in DOMAIN variables /\ variables'[w] = variables[w])
      <4>1. r.va # 0 /\ w = r.va /\ variables'[w] = v
        BY <3>2, <1>4 DEF PutNew, Put
      <4>2. Exported(r) /\ r.kind = "data"
        <5>1. r.kind \in {"data", "label"}
          BY <1>1, RecordKind
        <5> QED
          BY <4>1, <2>1, <1>4, <5>1
      <4>3. Source(v.name, w)
        BY <4>1, <4>2, <1>4, NameSource
      <4>4. Housed(w)
        BY <4>1, <4>2 DEF DataHoused
      <4> QED
        BY <4>1, <4>3, <4>4
    <3> QED
      BY <3>1, <3>2
  <2> QED
    BY <1>1, <2>1 DEF OwnersInv, VariablesTrue
<1>6. PhasesTrue'
  BY <1>1 DEF OwnersInv, PhasesTrue
<1> QED
  BY <1>2, <1>3, <1>5, <1>6 DEF OwnersInv

LEMMA ModuleOwners ==
  ASSUME LinkInv, OwnersInv, EndModule, UNCHANGED splitVars
  PROVE  OwnersInv'
<1>1. /\ phase = "modules" /\ modules < Len(Modules) /\ modules' = modules + 1
      /\ seen = Module.records /\ seen' = {} /\ current' = {}
      /\ UNCHANGED <<phase, primary, aliases, publicData, functions, variables, disk>>
  BY DEF EndModule, splitVars
<1>2. /\ modules \in Nat /\ Len(Modules) \in Nat /\ DOMAIN Modules = 1..Len(Modules)
      /\ modules + 1 \in DOMAIN Modules /\ Module = Modules[modules + 1]
  BY <1>1, ModulesTyped DEF OwnersInv, FunctionsTrue, Module
<1>3. current = FunctionsOf(modules + 1)
  <2>1. seen \cap Procedures(modules + 1) = Procedures(modules + 1)
    BY <1>1, <1>2 DEF Procedures
  <2> QED
    BY <1>1, <2>1 DEF OwnersInv, FunctionsTrue, FunctionsOf
<1> DEFINE unit == [functions |-> current, contribs |-> Module.contribs]
           n == Len(units)
<1>4. unit.functions = FunctionsOf(modules + 1) /\ unit.contribs = Modules[modules + 1].contribs
  BY <1>2, <1>3
<1>5. /\ n \in Nat /\ DOMAIN units = 1..n
      /\ units' = units \/ units' = Append(units, unit)
      /\ Procedures(modules + 1) # {} => units' = Append(units, unit)
  BY <1>3 DEF EndModule, LinkInv, UnitsTrue, FunctionsOf
<1>6. PICK own : Owned(own)
  BY DEF OwnersInv
<1>7. units \in Seq(UnitType)
  BY DEF LinkInv, UnitsTrue
<1> HIDE DEF unit, n
<1>8. ASSUME units' = units, Procedures(modules + 1) = {}
      PROVE  (\E w : Owned(w))'
  <2>1. \A u : (units[u].functions)' = units[u].functions /\ (units[u].contribs)' = units[u].contribs
    BY <1>8
  <2>2. 1..(modules + 1) = (1..modules) \cup {modules + 1}
    BY <1>2
  <2>3. Owned(own)'
    BY <1>1, <1>2, <1>6, <1>8, <2>1, <2>2, FunctionsStay DEF Owned
  <2> QED
    BY <2>3
<1>9. ASSUME units' = Append(units, unit)
      PROVE  (\E w : Owned(w))'
  <2>0. PICK new : new = [u \in 1..(n + 1) |-> IF u = n + 1 THEN modules + 1 ELSE own[u]]
    OBVIOUS
  <2>1. /\ DOMAIN units' = 1..(n + 1) /\ units'[n + 1] = unit
        /\ \A u \in 1..n : units'[u] = units[u]
    <3>1. Len(Append(units, unit)) = n + 1
      BY <1>5, <1>7 DEF n
    <3> QED
      BY <1>5, <1>7, <1>9, <3>1 DEF n
  <2>2. \A u \in 1..n : own[u] \in 1..modules
    BY <1>5, <1>6 DEF Owned
  <2>3. \A u \in 1..n : new[u] = own[u] /\ new[u] \in 1..modules
    BY <1>5, <2>0, <2>2
  <2>4. new[n + 1] = modules + 1
    BY <1>5, <2>0
  <2>5. \A u \in 1..(n + 1) : u \in 1..n \/ u = n + 1
    BY <1>5
  <2>6. new \in [1..(n + 1) -> 1..(modules + 1)]
    <3>1. \A u \in 1..(n + 1) : new[u] \in 1..(modules + 1)
      BY <1>2, <2>3, <2>4, <2>5
    <3> QED
      BY <2>0, <3>1
  <2>7. \A u, w \in 1..(n + 1) : new[u] = new[w] => u = w
    <3>1. \A u \in 1..n : new[u] # modules + 1
      BY <1>2, <2>3
    <3>2. \A u, w \in 1..n : new[u] = new[w] => u = w
      BY <1>5, <1>6, <2>3 DEF Owned
    <3> QED
      BY <2>4, <2>5, <3>1, <3>2
  <2>8. \A u \in 1..(n + 1) : /\ units'[u].functions = FunctionsOf(new[u])
                              /\ units'[u].contribs = Modules[new[u]].contribs
    BY <1>4, <1>5, <1>6, <2>1, <2>3, <2>4, <2>5 DEF Owned
  <2>9. \A k \in 1..(modules + 1) : Procedures(k) # {} => \E u \in 1..(n + 1) : new[u] = k
    <3>1. \A k \in 1..(modules + 1) : k \in 1..modules \/ k = modules + 1
      BY <1>2
    <3>2. \A k \in 1..modules : Procedures(k) # {} => \E u \in 1..n : own[u] = k
      BY <1>5, <1>6 DEF Owned
    <3>3. n + 1 \in 1..(n + 1) /\ 1..n \subseteq 1..(n + 1)
      BY <1>5
    <3> QED
      BY <2>3, <2>4, <3>1, <3>2, <3>3
  <2>10. \A k : FunctionsOf(k)' = FunctionsOf(k)
    BY <1>1, FunctionsStay
  <2>11. Owned(new)'
    BY <1>1, <2>1, <2>6, <2>7, <2>8, <2>9, <2>10 DEF Owned
  <2> QED
    BY <2>11
<1>10. FunctionsTrue'
  <2>1. modules' \in 0..Len(Modules)
    BY <1>1, <1>2
  <2>2. seen' \cap Procedures(modules' + 1) = {}
    BY <1>1
  <2> QED
    BY <1>1, <2>1, <2>2, FunctionsStay DEF OwnersInv, FunctionsTrue
<1>11. PhasesTrue' /\ VariablesTrue'
  BY <1>1 DEF OwnersInv, PhasesTrue, VariablesTrue
<1> QED
  BY <1>5, <1>8, <1>9, <1>10, <1>11 DEF OwnersInv

LEMMA ModulesOwners ==
  ASSUME DataHoused, LinkInv, OwnersInv, EndModules, UNCHANGED splitVars
  PROVE  OwnersInv'
<1>1. /\ phase = "modules" /\ phase' = "emit" /\ modules = Len(Modules)
      /\ UNCHANGED <<seen, primary, aliases, publicData, functions, current, modules, units, disk>>
  BY DEF EndModules, splitVars
<1>2. (\E own : Owned(own))' /\ FunctionsTrue'
  BY <1>1, OwnersStay, FunctionsStay DEF OwnersInv, FunctionsTrue
<1>3. PhasesTrue'
  BY <1>1 DEF PhasesTrue
<1>4. ASSUME NEW v \in DOMAIN variables', variables'[v].public
      PROVE  Source(variables'[v].name, v) /\ Housed(v)
  <2>1. CASE v \in DOMAIN variables
    BY <1>4, <2>1 DEF EndModules, OwnersInv, VariablesTrue
  <2>2. CASE v \notin DOMAIN variables
    <3>1. v \in DOMAIN publicData /\ variables'[v].name = publicData[v]
      BY <2>2 DEF EndModules
    <3>2. PICK p \in Publics : ~p.code /\ p.va = v /\ p.name = publicData[v]
      BY <3>1 DEF OwnersInv, VariablesTrue
    <3> QED
      BY <3>1, <3>2 DEF Source, DataHoused
  <2> QED
    BY <2>1, <2>2
<1>5. VariablesTrue'
  BY <1>1, <1>4 DEF OwnersInv, VariablesTrue
<1> QED
  BY <1>2, <1>3, <1>5 DEF OwnersInv

\* Frame records, and the work on the objects.
LEMMA OtherOwners ==
  ASSUME LinkInv, OwnersInv,
         ((ReadFrame \/ EndGlobals) /\ UNCHANGED splitVars) \/ StartWorkers \/ EmitShared
           \/ (\E u \in DOMAIN disk : EmitUnit(u) \/ EmitFails(u)) \/ UNCHANGED vars
  PROVE  OwnersInv'
<1>1. UNCHANGED <<seen, primary, aliases, publicData, functions, variables, current, modules, units>>
  BY DEF ReadFrame, EndGlobals, StartWorkers, EmitShared, EmitUnit, EmitFails, vars, indexVars
<1>2. (\E own : Owned(own))' /\ FunctionsTrue' /\ VariablesTrue'
  BY <1>1, OwnersStay, FunctionsStay DEF OwnersInv, FunctionsTrue, VariablesTrue
<1>3. \A u : Splits(u)' = Splits(u)
  BY <1>1 DEF Splits
<1>4. PhasesTrue'
  <2>1. CASE StartWorkers
    BY <2>1, <1>1, <1>3 DEF StartWorkers, PhasesTrue, OwnersInv
  <2>2. CASE \E u \in DOMAIN disk : EmitUnit(u) \/ EmitFails(u)
    <3>1. DOMAIN disk' = DOMAIN disk /\ phase = "split" /\ phase' = phase
      BY <2>2 DEF EmitUnit, EmitFails, indexVars
    <3> QED
      BY <3>1, <1>1, <1>3 DEF PhasesTrue, OwnersInv
  <2>3. CASE EmitShared
    BY <2>3, <1>1, <1>3 DEF EmitShared, PhasesTrue, OwnersInv
  <2>4. CASE (ReadFrame \/ EndGlobals) /\ UNCHANGED splitVars
    BY <2>4, <1>1 DEF ReadFrame, EndGlobals, splitVars, PhasesTrue, OwnersInv
  <2>5. CASE UNCHANGED vars
    BY <2>5, <1>1, <1>3 DEF vars, indexVars, splitVars, PhasesTrue, OwnersInv
  <2> QED
    BY <2>1, <2>2, <2>3, <2>4, <2>5
<1> QED
  BY <1>2, <1>4 DEF OwnersInv

LEMMA StepOwners ==
  ASSUME DataHoused, LinkInv, OwnersInv, [Next]_vars
  PROVE  OwnersInv'
BY PublicOwners, ProcedureOwners, VariableOwners, ModuleOwners, ModulesOwners, OtherOwners
   DEF Next, Index, IndexNext, Done

LEMMA InitOwners == Init => OwnersInv
<1>1. ASSUME Init
      PROVE  OwnersInv
  <2>1. Owned(<<>>) /\ FunctionsTrue
    BY <1>1, ModulesTyped DEF Init, IndexInit, Owned, FunctionsTrue
  <2>2. PhasesTrue /\ VariablesTrue
    BY <1>1 DEF Init, IndexInit, PhasesTrue, VariablesTrue
  <2> QED
    BY <2>1, <2>2 DEF OwnersInv
<1> QED
  BY <1>1

\* What an external definition is, by name and address: of a function, of a datum.
FunctionDef(f, n, v) ==
  IF v # f.va THEN Def(variables[v].name, variables[v].public, {f}, v)
  ELSE IF n = f.name THEN Def(n, f.public, {f}, v) ELSE Def(n, TRUE, {f}, v)

DatumDef(v) == Def(variables[v].name, variables[v].public, {}, v)

LEMMA OneAddress ==
  ASSUME LinkNamesApart, GlobalsApart, NEW n, NEW a, NEW b, Source(n, a), Source(n, b)
  PROVE  a = b
BY DEF Source, LinkNamesApart, GlobalsApart, Exported

LEMMA NotAStart ==
  ASSUME GlobalsApart, NEW n, NEW a, Source(n, a), NEW s \in DOMAIN Section
  PROVE  n # StartOf(s)
BY DEF Source, GlobalsApart

LEMMA ContribTyped ==
  ASSUME NEW k \in DOMAIN Modules, NEW c \in Modules[k].contribs
  PROVE  c.va \in Nat /\ c.size \in Nat
<1>1. Modules[k] \in [records : SUBSET Record, contribs : SUBSET Contribution]
  BY PeAssumption, ElementTyped DEF PeAssumption
<1> QED
  BY <1>1 DEF Contribution

\* The module of a unit, and the procedure of a function.
LEMMA OwnerTyped ==
  ASSUME OwnersInv, NEW own, Owned(own), NEW u \in DOMAIN units
  PROVE  /\ own[u] \in DOMAIN Modules
         /\ units[u].functions = FunctionsOf(own[u])
         /\ units[u].contribs = Modules[own[u]].contribs
<1>1. own[u] \in 1..modules /\ modules \in 0..Len(Modules)
  BY DEF Owned, OwnersInv, FunctionsTrue
<1>2. DOMAIN Modules = 1..Len(Modules) /\ Len(Modules) \in Nat
  BY ModulesTyped
<1> QED
  BY <1>1, <1>2 DEF Owned

LEMMA EmittedIsProcedure ==
  ASSUME OwnersInv, NEW own, Owned(own), NEW u \in DOMAIN units, NEW f \in Emitted(u)
  PROVE  \E r \in Procedures(own[u]) :
           /\ f = PeFunction(r)
           /\ f.va = r.va /\ f.size = r.len /\ f.public = r.global
           /\ f.name = NameAt(r.va, OwnName(r)) /\ f.aliases = OtherNames(r.va)
           /\ r.va \in Nat /\ r.len \in Nat \ {0} /\ r \in Modules[own[u]].records
           /\ f.public => Exported(r)
<1>1. own[u] \in DOMAIN Modules
  BY OwnerTyped
<1>2. PICK r \in Procedures(own[u]) : f = PeFunction(r)
  BY OwnerTyped DEF Emitted, Live, FunctionsOf
<1>3. /\ r \in Modules[own[u]].records /\ r.kind = "proc" /\ r.va # 0
      /\ r.va \in Nat /\ r.len \in Nat /\ r.len # 0
  BY <1>1, ProcedureTyped DEF Procedures, Dropped
<1> QED
  BY <1>2, <1>3 DEF PeFunction, OwnName, Exported

LEMMA FunctionExternals ==
  ASSUME LinkInv, OwnersInv, NEW own, Owned(own),
         NEW u \in DOMAIN units, NEW f \in Emitted(u),
         NEW S, NEW d \in FunctionDefs(f, S), d.external
  PROVE  /\ d = FunctionDef(f, d.name, d.va) /\ Source(d.name, d.va)
         /\ d.va \in Nat /\ f.va <= d.va /\ d.va < f.va + f.size
<1>1. PICK r \in Procedures(own[u]) :
        /\ f.va = r.va /\ f.size = r.len /\ f.public = r.global
        /\ f.name = NameAt(r.va, OwnName(r)) /\ f.aliases = OtherNames(r.va)
        /\ r.va \in Nat /\ r.len \in Nat \ {0} /\ r \in Modules[own[u]].records
        /\ f.public => Exported(r)
  BY EmittedIsProcedure
<1>2. own[u] \in DOMAIN Modules
  BY OwnerTyped
<1>3. CASE d = Def(f.name, f.public, {f}, f.va)
  <2>1. d.name = f.name /\ d.va = f.va /\ f.public
    BY <1>3 DEF Def
  <2>2. Source(d.name, d.va)
    BY <1>1, <1>2, <2>1, NameSource
  <2>3. d = FunctionDef(f, d.name, d.va)
    BY <1>3, <2>1 DEF FunctionDef
  <2> QED
    BY <1>1, <2>1, <2>2, <2>3
<1>4. ASSUME NEW a \in DOMAIN f.aliases \ ({f.name} \cup S), d = Def(a, TRUE, {f}, f.va)
      PROVE  /\ d = FunctionDef(f, d.name, d.va) /\ Source(d.name, d.va)
             /\ d.va \in Nat /\ f.va <= d.va /\ d.va < f.va + f.size
  <2>1. d.name = a /\ d.va = f.va
    BY <1>4 DEF Def
  <2>2. Source(d.name, d.va)
    BY <1>1, <2>1, OthersAreLinkNames DEF Source
  <2>3. d = FunctionDef(f, d.name, d.va)
    BY <1>4, <2>1 DEF FunctionDef
  <2> QED
    BY <1>1, <2>1, <2>2, <2>3
<1>5. ASSUME NEW v \in LabelVas(f), d = Def(variables[v].name, variables[v].public, {f}, v)
      PROVE  /\ d = FunctionDef(f, d.name, d.va) /\ Source(d.name, d.va)
             /\ d.va \in Nat /\ f.va <= d.va /\ d.va < f.va + f.size
  <2>1. d.name = variables[v].name /\ d.va = v /\ variables[v].public
    BY <1>5 DEF Def
  <2>2. v \in DOMAIN variables /\ v \in Nat /\ v >= f.va + 1 /\ v < f.va + 1 + (f.size - 1)
    BY DEF LabelVas, In, LinkInv, NamesTrue
  <2>3. Source(d.name, d.va)
    BY <2>1, <2>2 DEF OwnersInv, VariablesTrue
  <2>4. f.va <= v /\ v < f.va + f.size /\ v # f.va
    BY <1>1, <2>2
  <2>5. d = FunctionDef(f, d.name, d.va)
    BY <1>5, <2>1, <2>4 DEF FunctionDef
  <2> QED
    BY <2>1, <2>2, <2>3, <2>4, <2>5
<1> QED
  BY <1>3, <1>4, <1>5 DEF FunctionDefs

LEMMA DatumExternal ==
  ASSUME OwnersInv, NEW v \in DOMAIN variables, DatumDef(v).external
  PROVE  Source(DatumDef(v).name, v) /\ DatumDef(v).va = v
BY DEF DatumDef, Def, OwnersInv, VariablesTrue

\* A function is in .text, a contribution that is emitted elsewhere.
LEMMA CodeNotData ==
  ASSUME AddressesOnce, SectionsKept, OwnersInv, NEW own, Owned(own),
         NEW u \in DOMAIN units, NEW f \in Emitted(u), NEW s \in DOMAIN Section \ {"text"},
         NEW a \in Nat, f.va <= a, a < f.va + f.size
  PROVE  ~InSection(s, a)
<1>1. PICK r \in Procedures(own[u]) :
        f.va = r.va /\ f.size = r.len /\ r.va \in Nat /\ r.len \in Nat \ {0}
  BY EmittedIsProcedure
<1>2. own[u] \in DOMAIN Modules
  BY OwnerTyped
<1>3. /\ "text" \in DOMAIN Section
      /\ r.va >= Section["text"].lo /\ r.va + r.len <= Section["text"].hi
  BY <1>2 DEF SectionsKept
<1>4. /\ Section["text"].lo \in Nat /\ Section["text"].hi \in Nat
      /\ Section[s].lo \in Nat /\ Section[s].hi \in Nat
  BY <1>3, PeAssumption DEF PeAssumption
<1>5. Section[s].hi <= Section["text"].lo \/ Section["text"].hi <= Section[s].lo
  BY <1>3 DEF AddressesOnce
<1> QED
  BY <1>1, <1>3, <1>4, <1>5 DEF InSection

LEMMA ContribInSection ==
  ASSUME SectionsKept, OwnersInv, NEW own, Owned(own),
         NEW u \in DOMAIN units, NEW c \in Contribs(u), NEW a \in Nat, In(a, c.va, c.size)
  PROVE  c.section \in DOMAIN Section \ {"text"} /\ InSection(c.section, a)
<1>1. c \in Modules[own[u]].contribs /\ own[u] \in DOMAIN Modules
      /\ c.section \in DOMAIN Section \ {"text"}
  BY OwnerTyped DEF Contribs
<1>2. c.va >= Section[c.section].lo /\ c.va + c.size <= Section[c.section].hi
  BY <1>1 DEF SectionsKept
<1>3. c.va \in Nat /\ c.size \in Nat
  BY <1>1, ContribTyped
<1>4. Section[c.section].lo \in Nat /\ Section[c.section].hi \in Nat
  BY <1>1, PeAssumption DEF PeAssumption
<1> QED
  BY <1>1, <1>2, <1>3, <1>4 DEF In, InSection

\* The two kinds of definitions of a unit's object.
LEMMA UnitDefKinds ==
  ASSUME NEW u, NEW d \in UnitDefs(u)
  PROVE  \/ \E f \in Emitted(u) : d \in FunctionDefs(f, EarlierNames(u, f))
         \/ \E c \in Contribs(u) : \E v \in DOMAIN variables :
              In(v, c.va, c.size) /\ d = DatumDef(v)
<1>1. \/ d \in UNION {FunctionDefs(f, EarlierNames(u, f)) : f \in Emitted(u)}
      \/ d \in UNION {ContribDefs(c) : c \in Contribs(u)}
  BY DEF UnitDefs
<1>2. CASE d \in UNION {FunctionDefs(f, EarlierNames(u, f)) : f \in Emitted(u)}
  BY <1>2
<1>3. CASE d \in UNION {ContribDefs(c) : c \in Contribs(u)}
  <2>1. PICK c \in Contribs(u) : d \in ContribDefs(c)
    BY <1>3
  <2> QED
    BY <2>1 DEF ContribDefs, DatumDef
<1> QED
  BY <1>1, <1>2, <1>3

Provided == LinkNamesApart /\ GlobalsApart /\ AddressesOnce /\ SectionsKept /\ DataHoused

\* No object of a unit defines what the object of another does.
LEMMA UnitsApart ==
  ASSUME Provided, LinkInv, OwnersInv,
         NEW u \in DOMAIN units, NEW d \in UnitDefs(u), d.external,
         NEW w \in DOMAIN units, NEW e \in UnitDefs(w), e.external,
         d.name = e.name
  PROVE  u = w /\ d = e
<1>1. PICK own : Owned(own)
  BY DEF OwnersInv
<1>2. DOMAIN variables \subseteq Nat
  BY DEF LinkInv, NamesTrue
<1>3. /\ own[u] \in DOMAIN Modules /\ own[w] \in DOMAIN Modules
      /\ own[u] = own[w] => u = w
  BY <1>1, OwnerTyped DEF Owned
<1>4. ASSUME NEW f \in Emitted(u), d \in FunctionDefs(f, EarlierNames(u, f)),
             NEW g \in Emitted(w), e \in FunctionDefs(g, EarlierNames(w, g))
      PROVE  u = w /\ d = e
  <2>1. /\ d = FunctionDef(f, d.name, d.va) /\ Source(d.name, d.va)
        /\ d.va \in Nat /\ f.va <= d.va /\ d.va < f.va + f.size
    BY <1>1, <1>4, FunctionExternals
  <2>2. /\ e = FunctionDef(g, e.name, e.va) /\ Source(e.name, e.va)
        /\ e.va \in Nat /\ g.va <= e.va /\ e.va < g.va + g.size
    BY <1>1, <1>4, FunctionExternals
  <2>3. d.va = e.va
    BY <2>1, <2>2, OneAddress DEF Provided
  <2>4. PICK r \in Procedures(own[u]) :
          f = PeFunction(r) /\ f.va = r.va /\ f.size = r.len /\ r.va \in Nat /\ r.len \in Nat \ {0}
    BY <1>1, EmittedIsProcedure
  <2>5. PICK q \in Procedures(own[w]) :
          g = PeFunction(q) /\ g.va = q.va /\ g.size = q.len /\ q.va \in Nat /\ q.len \in Nat \ {0}
    BY <1>1, EmittedIsProcedure
  <2>6. /\ r.va < q.va => r.va + r.len <= q.va
        /\ q.va < r.va => q.va + q.len <= r.va
        /\ r.va = q.va => own[u] = own[w] /\ r = q
    BY <1>3 DEF Provided, AddressesOnce
  <2>7. r.va = q.va
    BY <2>1, <2>2, <2>3, <2>4, <2>5, <2>6
  <2>8. u = w /\ f = g
    BY <1>3, <2>4, <2>5, <2>6, <2>7
  <2> QED
    BY <2>1, <2>2, <2>3, <2>8
<1>5. ASSUME NEW i \in DOMAIN units, NEW x \in UnitDefs(i), x.external,
             NEW j \in DOMAIN units, NEW y \in UnitDefs(j), y.external,
             NEW f \in Emitted(i), x \in FunctionDefs(f, EarlierNames(i, f)),
             NEW c \in Contribs(j), NEW v \in DOMAIN variables, In(v, c.va, c.size), y = DatumDef(v)
      PROVE  x.name # y.name
  <2>1. Source(x.name, x.va) /\ x.va \in Nat /\ f.va <= x.va /\ x.va < f.va + f.size
    BY <1>1, <1>5, FunctionExternals
  <2>2. Source(y.name, v)
    BY <1>5, DatumExternal
  <2>3. c.section \in DOMAIN Section \ {"text"} /\ InSection(c.section, v)
    BY <1>1, <1>2, <1>5, ContribInSection DEF Provided
  <2>4. ~InSection(c.section, x.va)
    BY <1>1, <2>1, <2>3, CodeNotData DEF Provided
  <2> QED
    BY <2>1, <2>2, <2>3, <2>4, OneAddress DEF Provided
<1>6. ASSUME NEW c \in Contribs(u), NEW v \in DOMAIN variables, In(v, c.va, c.size), d = DatumDef(v),
             NEW b \in Contribs(w), NEW x \in DOMAIN variables, In(x, b.va, b.size), e = DatumDef(x)
      PROVE  u = w /\ d = e
  <2>1. v = x
    BY <1>6, DatumExternal, OneAddress DEF Provided
  <2>2. c \in Modules[own[u]].contribs /\ b \in Modules[own[w]].contribs
    BY <1>1, OwnerTyped DEF Contribs
  <2>3. c.va \in Nat /\ c.size \in Nat /\ b.va \in Nat /\ b.size \in Nat /\ v \in Nat
    BY <1>2, <1>3, <2>2, ContribTyped
  <2>4. own[u] # own[w] => Apart(c.va, c.size, b.va, b.va + b.size)
    BY <1>3, <2>2 DEF Provided, AddressesOnce
  <2>5. own[u] = own[w]
    BY <1>6, <2>1, <2>3, <2>4 DEF Apart, In
  <2> QED
    BY <1>3, <1>6, <2>1, <2>5
<1> QED
  BY <1>4, <1>5, <1>6, UnitDefKinds

LEMMA SharedSectionTyped ==
  ASSUME NEW s \in SharedSections
  PROVE  s \in DOMAIN Section \ {"text"} /\ s \in {"rdata", "data", "bss"}
<1>1. s \in {"rdata", "data", "bss"} /\ s \in DOMAIN Section
  BY DEF SharedSections
<1> QED
  BY <1>1

LEMMA SharedDefKinds ==
  ASSUME NEW d \in SharedDefs
  PROVE  \/ \E s \in SharedSections : d = Def(StartOf(s), TRUE, {}, Section[s].lo)
         \/ \E v \in DOMAIN variables \ Claimed :
              (\E s \in SharedSections : InSection(s, v)) /\ d = DatumDef(v)
BY DEF SharedDefs, DatumDef

\* Nor does the shared object define what a unit's object does.
LEMMA SharedApart ==
  ASSUME Provided, LinkInv, OwnersInv,
         NEW u \in DOMAIN units, Splits(u), NEW d \in UnitDefs(u), d.external,
         NEW e \in SharedDefs, e.external
  PROVE  d.name # e.name
<1>1. PICK own : Owned(own)
  BY DEF OwnersInv
<1>2. DOMAIN variables \subseteq Nat
  BY DEF LinkInv, NamesTrue
<1>3. Source(d.name, d.va)
  <2>1. CASE \E f \in Emitted(u) : d \in FunctionDefs(f, EarlierNames(u, f))
    BY <1>1, <2>1, FunctionExternals
  <2>2. CASE \E v \in DOMAIN variables : d = DatumDef(v)
    BY <2>2, DatumExternal
  <2> QED
    BY <2>1, <2>2, UnitDefKinds
<1>4. CASE \E s \in SharedSections : e = Def(StartOf(s), TRUE, {}, Section[s].lo)
  <2>1. PICK s \in SharedSections : e = Def(StartOf(s), TRUE, {}, Section[s].lo)
    BY <1>4
  <2>2. e.name = StartOf(s)
    BY <2>1 DEF Def
  <2> QED
    BY <1>3, <2>2, SharedSectionTyped, NotAStart DEF Provided
<1>5. ASSUME NEW v \in DOMAIN variables \ Claimed, NEW s \in SharedSections, InSection(s, v),
             e = DatumDef(v), d.name = e.name
      PROVE  FALSE
  <2>1. d.va = v
    BY <1>3, <1>5, DatumExternal, OneAddress DEF Provided
  <2>2. CASE \E f \in Emitted(u) : d \in FunctionDefs(f, EarlierNames(u, f))
    <3>1. PICK f \in Emitted(u) : d \in FunctionDefs(f, EarlierNames(u, f))
      BY <2>2
    <3>2. d.va \in Nat /\ f.va <= d.va /\ d.va < f.va + f.size
      BY <1>1, <3>1, FunctionExternals
    <3>3. ~InSection(s, d.va)
      BY <1>1, <3>2, CodeNotData, SharedSectionTyped DEF Provided
    <3> QED
      BY <1>5, <2>1, <3>3
  <2>3. CASE \E c \in Contribs(u) : \E x \in DOMAIN variables :
               In(x, c.va, c.size) /\ d = DatumDef(x)
    <3>1. PICK c \in Contribs(u) : \E x \in DOMAIN variables :
            In(x, c.va, c.size) /\ d = DatumDef(x)
      BY <2>3
    <3>2. In(v, c.va, c.size)
      BY <2>1, <3>1 DEF DatumDef, Def
    <3>3. v \in Claimed
      BY <3>2, <1>5 DEF Claimed, Contribs
    <3> QED
      BY <3>3
  <2> QED
    BY <2>2, <2>3, UnitDefKinds
<1> QED
  BY <1>4, <1>5, SharedDefKinds

LEMMA SharedOnce ==
  ASSUME Provided, LinkInv, OwnersInv,
         NEW d \in SharedDefs, d.external, NEW e \in SharedDefs, e.external, d.name = e.name
  PROVE  d = e
<1>1. ASSUME NEW s \in SharedSections, d = Def(StartOf(s), TRUE, {}, Section[s].lo),
             NEW t \in SharedSections, e = Def(StartOf(t), TRUE, {}, Section[t].lo)
      PROVE  d = e
  <2>1. StartOf(s) = StartOf(t)
    BY <1>1 DEF Def
  <2>2. StartOf(s)[2] = s /\ StartOf(t)[2] = t
    BY DEF StartOf
  <2> QED
    BY <1>1, <2>1, <2>2
<1>2. ASSUME NEW x \in SharedDefs, x.external, NEW y \in SharedDefs, y.external,
             NEW s \in SharedSections, x = Def(StartOf(s), TRUE, {}, Section[s].lo),
             NEW v \in DOMAIN variables, y = DatumDef(v)
      PROVE  x.name # y.name
  <2>1. x.name = StartOf(s)
    BY <1>2 DEF Def
  <2> QED
    BY <1>2, <2>1, DatumExternal, NotAStart, SharedSectionTyped DEF Provided
<1>3. ASSUME NEW v \in DOMAIN variables, d = DatumDef(v), NEW x \in DOMAIN variables, e = DatumDef(x)
      PROVE  d = e
  BY <1>3, DatumExternal, OneAddress DEF Provided
<1> QED
  BY <1>1, <1>2, <1>3, SharedDefKinds

LEMMA ObjectsOfUnits ==
  ASSUME LinkInv, OwnersInv, phase = "done", NEW u \in Objects, u # 0
  PROVE  u \in DOMAIN units /\ Splits(u) /\ Defs(u) = UnitDefs(u) /\ Refs(u) = UnitRefs(u)
BY DEF Objects, OwnersInv, PhasesTrue, Defs, Refs

LEMMA ExternalsOnce ==
  ASSUME Provided, LinkInv, OwnersInv, phase = "done",
         NEW x \in Externals, NEW y \in Externals, x[2].name = y[2].name
  PROVE  x = y
<1>1. PICK o \in Objects : \E d \in Defs(o) : d.external /\ x = <<o, d>>
  BY DEF Externals
<1>2. PICK p \in Objects : \E e \in Defs(p) : e.external /\ y = <<p, e>>
  BY DEF Externals
<1>3. PICK d \in Defs(o) : d.external /\ x = <<o, d>>
  BY <1>1
<1>4. PICK e \in Defs(p) : e.external /\ y = <<p, e>>
  BY <1>2
<1>5. d.name = e.name
  BY <1>3, <1>4
<1>6. CASE o # 0 /\ p # 0
  BY <1>3, <1>4, <1>5, <1>6, ObjectsOfUnits, UnitsApart
<1>7. CASE o = 0 /\ p = 0
  BY <1>3, <1>4, <1>5, <1>7, SharedOnce DEF Defs
<1>8. CASE o # 0 /\ p = 0
  BY <1>3, <1>4, <1>5, <1>8, ObjectsOfUnits, SharedApart DEF Defs
<1>9. CASE o = 0 /\ p # 0
  BY <1>3, <1>4, <1>5, <1>9, ObjectsOfUnits, SharedApart DEF Defs
<1> QED
  BY <1>6, <1>7, <1>8, <1>9

-----------------------------------------------------------------------------
(* What an address is looked up as *)

\* A nonempty set of natural numbers has a least element.
LEMMA LeastOf ==
  ASSUME NEW S \in SUBSET Nat, S # {}
  PROVE  \E n \in S : \A m \in S : n <= m
<1>1. IsWellFoundedOn(OpToRel(<, Nat), Nat)
  BY NatLessThanWellFounded
<1>2. PICK n \in S : \A m \in S : ~(<<m, n>> \in OpToRel(<, Nat))
  BY <1>1, WFMin
<1>3. \A m \in S : ~(m < n)
  BY <1>2 DEF OpToRel
<1> QED
  BY <1>3

LEMMA FirstAnswerFirst ==
  ASSUME NEW n \in Nat, NEW answers, DOMAIN answers = 1..n, NEW x \in FirstAnswer(answers)
  PROVE  \E k \in 1..n : x \in answers[k] /\ \A j \in 1..n : answers[j] # {} => k <= j
<1> DEFINE some == {k \in DOMAIN answers : answers[k] # {}}
           k == CHOOSE k \in some : \A j \in some : k <= j
<1>1. some # {} /\ x \in answers[k]
  BY DEF FirstAnswer
<1>2. some \in SUBSET Nat
  OBVIOUS
<1> HIDE DEF some
<1>3. \E i \in some : \A j \in some : i <= j
  BY <1>1, <1>2, LeastOf
<1>4. k \in some /\ \A j \in some : k <= j
  BY <1>3
<1> QED
  BY <1>1, <1>4 DEF some

NamesFunction(n) == \E a \in DOMAIN functions : functions[a].name = n
NamesVariable(n) == \E v \in DOMAIN variables : variables[v].name = n

\* Code is found by the name of a function or by one of a library.
LEMMA CodeAnswers ==
  ASSUME NEW a, NEW x \in ResolveCode(a)
  PROVE  NamesFunction(x.name) \/ x.name \in Supplied
<1> DEFINE answers == << Starting(functions, a), Within(functions, a), Exactly(Imports, a),
                         Exactly(CodePublics, a), WithinPublic(a) >>
<1>1. DOMAIN answers = 1..5 /\ x \in FirstAnswer(answers)
  BY DEF ResolveCode
<1>2. /\ answers[1] = Starting(functions, a) /\ answers[2] = Within(functions, a)
      /\ answers[3] = Exactly(Imports, a) /\ answers[4] = Exactly(CodePublics, a)
      /\ answers[5] = WithinPublic(a)
  OBVIOUS
<1> HIDE DEF answers
<1>3. PICK k \in 1..5 : x \in answers[k]
  BY <1>1, FirstAnswerFirst
<1>4. x \in Starting(functions, a) \/ x \in Within(functions, a) => NamesFunction(x.name)
  BY DEF Starting, Within, Floor, Answer, NamesFunction
<1>5. x \in Exactly(Imports, a) => x.name \in Supplied
  BY DEF Exactly, Answer, Supplied, Range
<1>6. x \in Exactly(CodePublics, a) \/ x \in WithinPublic(a) => x.name \in Range(CodePublics)
  BY DEF Exactly, WithinPublic, Floor, Answer, Range
<1> QED
  BY <1>2, <1>3, <1>4, <1>5, <1>6 DEF Supplied

\* Data are found by the name of a variable or a function, by one of a library,
\* or by the start of their section.
LEMMA DataAnswers ==
  ASSUME NEW a, NEW x \in ResolveData(a), InSection("idata", a) => a \in DOMAIN Imports
  PROVE  \/ NamesVariable(x.name) \/ NamesFunction(x.name) \/ x.name \in Supplied
         \/ \E s \in SharedSections : x.name = StartOf(s)
<1> DEFINE answers == << IF a = ImageBase THEN Answer(<<"__ImageBase">>, 0) ELSE {},
                         Exactly(Imports, a), Starting(variables, a), Starting(functions, a),
                         Within(variables, a), Within(functions, a), Exactly(Literals, a),
                         WithinUnsized(a), SectionRelative(a) >>
<1>1. DOMAIN answers = 1..9 /\ x \in FirstAnswer(answers)
  BY DEF ResolveData
<1>2. /\ answers[1] = IF a = ImageBase THEN Answer(<<"__ImageBase">>, 0) ELSE {}
      /\ answers[2] = Exactly(Imports, a) /\ answers[3] = Starting(variables, a)
      /\ answers[4] = Starting(functions, a) /\ answers[5] = Within(variables, a)
      /\ answers[6] = Within(functions, a) /\ answers[7] = Exactly(Literals, a)
      /\ answers[8] = WithinUnsized(a) /\ answers[9] = SectionRelative(a)
  OBVIOUS
<1> HIDE DEF answers
<1>3. PICK k \in 1..9 : x \in answers[k] /\ \A j \in 1..9 : answers[j] # {} => k <= j
  BY <1>1, FirstAnswerFirst
<1>4. x \in answers[1] => x.name \in Supplied
  BY <1>2 DEF Answer, Supplied
<1>5. x \in answers[2] \/ x \in answers[7] => x.name \in Supplied
  BY <1>2 DEF Exactly, Answer, Supplied, Range
<1>6. x \in answers[3] \/ x \in answers[5] \/ x \in answers[8] => NamesVariable(x.name)
  BY <1>2 DEF Starting, Within, WithinUnsized, Floor, Answer, NamesVariable
<1>7. x \in answers[4] \/ x \in answers[6] => NamesFunction(x.name)
  BY <1>2 DEF Starting, Within, Floor, Answer, NamesFunction
<1>8. CASE k = 9
  <2>1. a \notin DOMAIN Imports
    <3>1. answers[2] = {}
      BY <1>3, <1>8
    <3> QED
      BY <1>2, <3>1 DEF Exactly, Answer
  <2>2. x \in SectionRelative(a)
    BY <1>2, <1>3, <1>8
  <2> DEFINE starts == [j \in DOMAIN DataSections |->
               IF InSection(DataSections[j], a)
               THEN Answer(StartOf(DataSections[j]), a - Section[DataSections[j]].lo) ELSE {}]
  <2>3. DOMAIN starts = 1..4 /\ x \in FirstAnswer(starts)
    BY <2>2 DEF SectionRelative, DataSections
  <2>4. PICK j \in 1..4 : x \in starts[j]
    <3> HIDE DEF starts
    <3> QED
      BY <2>3, FirstAnswerFirst
  <2>5. InSection(DataSections[j], a) /\ x.name = StartOf(DataSections[j])
    <3>1. j \in DOMAIN DataSections
      BY DEF DataSections
    <3>2. starts[j] # {} => InSection(DataSections[j], a)
      BY <3>1
    <3>3. InSection(DataSections[j], a) =>
            starts[j] = Answer(StartOf(DataSections[j]), a - Section[DataSections[j]].lo)
      BY <3>1
    <3> HIDE DEF starts
    <3> QED
      BY <2>4, <3>2, <3>3 DEF Answer
  <2>6. DataSections[j] \in {"rdata", "data", "bss", "idata"}
    BY DEF DataSections
  <2>7. DataSections[j] \in SharedSections
    BY <2>1, <2>5, <2>6 DEF SharedSections, InSection
  <2> QED
    BY <2>5, <2>7
<1> QED
  BY <1>3, <1>4, <1>5, <1>6, <1>7, <1>8

-----------------------------------------------------------------------------
(* What a reference is bound to *)

AllWritten == shared = "written" /\ \A u \in DOMAIN disk : disk[u] = "written"

LEMMA ExternalIn ==
  ASSUME NEW o \in Objects, NEW d \in Defs(o), d.external
  PROVE  \E x \in Externals : x[2].name = d.name
<1>1. <<o, d>> \in Externals
  BY DEF Externals
<1>2. <<o, d>>[2].name = d.name
  OBVIOUS
<1> QED
  BY <1>1, <1>2

\* The unit of a module with a procedure is on disk.
LEMMA ModuleWritten ==
  ASSUME LinkInv, OwnersInv, phase = "done", AllWritten, NEW own, Owned(own),
         NEW k \in DOMAIN Modules, Procedures(k) # {}
  PROVE  \E u \in DOMAIN units :
           /\ own[u] = k /\ u \in Objects /\ u # 0 /\ Splits(u) /\ Defs(u) = UnitDefs(u)
           /\ units[u].functions = FunctionsOf(k) /\ units[u].contribs = Modules[k].contribs
<1>1. modules = Len(Modules) /\ DOMAIN Modules = 1..Len(Modules)
  BY ModulesTyped DEF OwnersInv, PhasesTrue
<1>2. PICK u \in DOMAIN units : own[u] = k
  BY <1>1 DEF Owned
<1>3. units[u].functions = FunctionsOf(k) /\ units[u].contribs = Modules[k].contribs
  BY <1>2 DEF Owned
<1>4. Splits(u)
  <2>1. PICK r \in Procedures(k) : TRUE
    OBVIOUS
  <2>2. r.len \in Nat /\ r.len # 0 /\ PeFunction(r).size = r.len
    BY ProcedureTyped DEF Procedures, Dropped, PeFunction
  <2>3. PeFunction(r) \in units[u].functions
    BY <1>3 DEF FunctionsOf
  <2> QED
    BY <2>2, <2>3 DEF Splits
<1>5. u \in DOMAIN disk /\ u \in Objects
  BY <1>2, <1>4 DEF OwnersInv, PhasesTrue, AllWritten, Objects
<1>6. u # 0
  BY <1>2 DEF LinkInv, UnitsTrue
<1> QED
  BY <1>2, <1>3, <1>4, <1>5, <1>6 DEF Defs

LEMMA ProcedureWritten ==
  ASSUME SectionsKept, LinkInv, OwnersInv, phase = "done", AllWritten,
         NEW k \in DOMAIN Modules, NEW r \in Procedures(k)
  PROVE  \E u \in Objects : PeFunction(r) \in Emitted(u) /\ Defs(u) = UnitDefs(u)
<1>1. PICK own : Owned(own)
  BY DEF OwnersInv
<1>2. PICK u \in Objects :
        units[u].functions = FunctionsOf(k) /\ Defs(u) = UnitDefs(u)
  BY <1>1, ModuleWritten
<1>3. /\ r.va \in Nat /\ r.len \in Nat /\ r.len # 0
      /\ PeFunction(r).va = r.va /\ PeFunction(r).size = r.len
  BY ProcedureTyped DEF Procedures, Dropped, PeFunction
<1>4. /\ "text" \in DOMAIN Section
      /\ r.va >= Section["text"].lo /\ r.va + r.len <= Section["text"].hi
  BY DEF SectionsKept
<1>5. Section["text"].lo \in Nat /\ Section["text"].hi \in Nat
  BY <1>4, PeAssumption DEF PeAssumption
<1>6. PeFunction(r) \in units[u].functions
  BY <1>2 DEF FunctionsOf
<1>7. InSection("text", r.va) /\ r.len > 0
  BY <1>3, <1>4, <1>5 DEF InSection
<1>8. PeFunction(r) \in Emitted(u)
  BY <1>3, <1>4, <1>6, <1>7 DEF Emitted, Live
<1> QED
  BY <1>2, <1>8

LEMMA FunctionBound ==
  ASSUME SectionsKept, LinkInv, OwnersInv, phase = "done", AllWritten,
         NEW n, NamesFunction(n), ~Static(n)
  PROVE  \E x \in Externals : x[2].name = n
<1>1. PICK a \in DOMAIN functions : functions[a].name = n /\ functions[a].public
  BY DEF NamesFunction, Static
<1>2. PICK k \in DOMAIN Modules : \E r \in Procedures(k) : functions[a] = PeFunction(r)
  BY DEF OwnersInv, FunctionsTrue
<1>3. PICK u \in Objects : functions[a] \in Emitted(u) /\ Defs(u) = UnitDefs(u)
  BY <1>2, ProcedureWritten
<1> DEFINE f == functions[a]
           d == Def(f.name, f.public, {f}, f.va)
<1>4. d \in FunctionDefs(f, EarlierNames(u, f)) /\ d.name = n /\ d.external
  BY <1>1 DEF FunctionDefs, Def
<1>5. d \in Defs(u)
  BY <1>3, <1>4 DEF UnitDefs
<1> HIDE DEF d
<1> QED
  BY <1>4, <1>5, ExternalIn

LEMMA VariableBound ==
  ASSUME SectionsKept, LinkInv, OwnersInv, phase = "done", AllWritten,
         NEW n, NamesVariable(n), ~Static(n)
  PROVE  \E x \in Externals : x[2].name = n
<1>1. PICK v \in DOMAIN variables : variables[v].name = n /\ variables[v].public
  BY DEF NamesVariable, Static
<1>2. Housed(v) /\ v \in Nat
  BY <1>1 DEF OwnersInv, VariablesTrue, LinkInv, NamesTrue
<1>3. DatumDef(v).name = n /\ DatumDef(v).external
  BY <1>1 DEF DatumDef, Def
<1>4. PICK own : Owned(own)
  BY DEF OwnersInv
<1>5. ASSUME NEW u \in Objects, Defs(u) = UnitDefs(u), NEW c \in Contribs(u), In(v, c.va, c.size)
      PROVE  \E x \in Externals : x[2].name = n
  <2>1. DatumDef(v) \in ContribDefs(c)
    BY <1>5 DEF ContribDefs, DatumDef
  <2>2. DatumDef(v) \in Defs(u)
    BY <1>5, <2>1 DEF UnitDefs
  <2> QED
    BY <1>3, <2>2, ExternalIn
<1>6. ASSUME NEW s \in {"rdata", "data", "bss"}, InSection(s, v)
      PROVE  \E x \in Externals : x[2].name = n
  <2>1. s \in SharedSections
    BY <1>6 DEF SharedSections, InSection
  <2>2. CASE v \in Claimed
    <3>1. PICK u \in DOMAIN units : Splits(u) /\ \E c \in units[u].contribs :
            c.section # "text" /\ In(v, c.va, c.size)
      BY <2>2 DEF Claimed
    <3>2. PICK c \in units[u].contribs : c.section # "text" /\ In(v, c.va, c.size)
      BY <3>1
    <3>3. u \in Objects /\ u # 0 /\ Defs(u) = UnitDefs(u)
      BY <3>1, <1>4 DEF OwnersInv, PhasesTrue, AllWritten, Objects, Defs, Owned, LinkInv, UnitsTrue
    <3>4. c \in Modules[own[u]].contribs /\ own[u] \in DOMAIN Modules
      BY <1>4, OwnerTyped
    <3>5. c.section \in DOMAIN Section
      <4>1. s \in DOMAIN Section /\ v >= Section[s].lo /\ v < Section[s].hi
        BY <1>6 DEF InSection
      <4>2. c.va \in Nat /\ c.size \in Nat /\ Section[s].lo \in Nat /\ Section[s].hi \in Nat
        BY <3>4, <4>1, ContribTyped, PeAssumption DEF PeAssumption
      <4>3. c.section # s => Apart(c.va, c.size, Section[s].lo, Section[s].hi)
        BY <3>4, <4>1 DEF SectionsKept
      <4>4. c.section = s
        BY <1>2, <3>2, <4>1, <4>2, <4>3 DEF In, Apart
      <4> QED
        BY <4>1, <4>4
    <3>6. c \in Contribs(u)
      BY <3>2, <3>5 DEF Contribs
    <3> QED
      BY <1>5, <3>2, <3>3, <3>6
  <2>3. CASE v \notin Claimed
    <3>1. DatumDef(v) \in SharedDefs
      BY <1>6, <2>1, <2>3 DEF SharedDefs, DatumDef
    <3>2. 0 \in Objects /\ Defs(0) = SharedDefs
      BY DEF AllWritten, Objects, Defs
    <3> QED
      BY <1>3, <3>1, <3>2, ExternalIn
  <2> QED
    BY <2>2, <2>3
<1>7. ASSUME NEW k \in DOMAIN Modules, NEW r \in Procedures(k), In(v, r.va + 1, r.len - 1)
      PROVE  \E x \in Externals : x[2].name = n
  <2> DEFINE f == PeFunction(r)
             d == Def(variables[v].name, variables[v].public, {f}, v)
  <2>1. PICK u \in Objects : f \in Emitted(u) /\ Defs(u) = UnitDefs(u)
    BY ProcedureWritten
  <2>2. v \in LabelVas(f)
    BY <1>7 DEF LabelVas, PeFunction
  <2>3. d \in FunctionDefs(f, EarlierNames(u, f)) /\ d.name = n /\ d.external
    BY <1>1, <2>2 DEF FunctionDefs, Def
  <2>4. d \in Defs(u)
    BY <2>1, <2>3 DEF UnitDefs
  <2> HIDE DEF d
  <2> QED
    BY <2>3, <2>4, ExternalIn
<1>8. ASSUME NEW k \in DOMAIN Modules, Procedures(k) # {}, NEW c \in Modules[k].contribs,
             c.section \in DOMAIN Section \ {"text"}, In(v, c.va, c.size)
      PROVE  \E x \in Externals : x[2].name = n
  <2>1. PICK u \in Objects : Defs(u) = UnitDefs(u) /\ units[u].contribs = Modules[k].contribs
    BY <1>4, <1>8, ModuleWritten
  <2>2. c \in Contribs(u)
    BY <1>8, <2>1 DEF Contribs
  <2> QED
    BY <1>5, <1>8, <2>1, <2>2
<1> QED
  BY <1>2, <1>6, <1>7, <1>8 DEF Housed

\* A name that was local when a function was emitted is one the object defines.
LEMMA LocalBound ==
  ASSUME LinkNamesApart, ProceduresApart, LinkInv, NEW u \in DOMAIN units, NEW f \in Emitted(u),
         NEW n \in LocalNames(u, f)
  PROVE  \E d \in UnitDefs(u) : d.name = n
<1>1. ASSUME NEW g \in Emitted(u), NEW d \in FunctionDefs(g, {})
      PROVE  d \in UnitDefs(u)
  <2>1. d \in FunctionDefs(g, EarlierNames(u, g))
    <3>1. PICK k \in DOMAIN Modules : units[u].functions \subseteq FunctionsOf(k)
      BY DEF LinkInv, UnitsTrue
    <3>2. PICK r \in Procedures(k) : g.va = r.va /\ g.aliases = OtherNames(r.va)
      BY <3>1 DEF Emitted, Live, FunctionsOf, PeFunction
    <3>3. \A a \in DOMAIN g.aliases : a \notin EarlierNames(u, g)
      BY <3>2, OthersAreLinkNames, LinkNameFresh
    <3> QED
      BY <3>3 DEF FunctionDefs
  <2> QED
    BY <2>1 DEF UnitDefs
<1>2. CASE n \in EarlierNames(u, f)
  <2>1. PICK g \in {h \in Emitted(u) : h.va < f.va} : n \in {d.name : d \in FunctionDefs(g, {})}
    BY <1>2 DEF EarlierNames
  <2> QED
    BY <1>1, <2>1
<1>3. CASE n \in {d.name : d \in FunctionDefs(f, {})}
  BY <1>1, <1>3
<1> QED
  BY <1>2, <1>3 DEF LocalNames

\* Whatever an object refers to was looked up, and what is local is of the object.
LEMMA FunctionRefKinds ==
  ASSUME NEW u, NEW f, NEW r \in FunctionRefs(u, f)
  PROVE  /\ r.local => r.name \in LocalNames(u, f)
         /\ \E x \in image.fields : \E a \in ResolveCode(x.target) \cup ResolveData(x.target) :
              r.name = a.name
<1>1. PICK x \in {y \in image.fields : Inside(y, f.va, f.size)} :
        r \in {Ref(x, {f}, Remap(f, x.at), a, x.kind # "abs" /\ a.name \in LocalNames(u, f)) :
                 a \in Answers(f, x)}
  BY DEF FunctionRefs
<1>2. PICK a \in Answers(f, x) :
        r = Ref(x, {f}, Remap(f, x.at), a, x.kind # "abs" /\ a.name \in LocalNames(u, f))
  BY <1>1
<1>3. a \in ResolveCode(x.target) \cup ResolveData(x.target)
  <2>1. CASE x.kind = "branch"
    BY <2>1 DEF Answers
  <2>2. CASE x.kind = "entry"
    BY <2>2 DEF Answers
  <2>3. CASE x.kind # "branch" /\ x.kind # "entry"
    BY <2>3 DEF Answers
  <2> QED
    BY <2>1, <2>2, <2>3
<1>4. r.name = a.name /\ (r.local => a.name \in LocalNames(u, f))
  BY <1>2 DEF Ref
<1> QED
  BY <1>3, <1>4

LEMMA RefKinds ==
  ASSUME LinkInv, OwnersInv, phase = "done", NEW o \in Objects, NEW r \in Refs(o)
  PROVE  /\ r.local =>
              o \in DOMAIN units /\ Defs(o) = UnitDefs(o) /\ \E f \in Emitted(o) : r.name \in LocalNames(o, f)
         /\ \E x \in image.fields : \E a \in ResolveCode(x.target) \cup ResolveData(x.target) :
              r.name = a.name
<1>1. CASE o = 0
  <2>1. PICK s \in SharedSections :
          r \in UNION {{Ref(x, {}, x.at - Section[s].lo, a, FALSE) : a \in ResolveData(x.target)} :
                  x \in {y \in image.fields : y.kind = "abs"
                           /\ Inside(y, Section[s].lo, Section[s].hi - Section[s].lo)}}
    BY <1>1 DEF Refs, SharedRefs
  <2>2. PICK x \in image.fields :
          r \in {Ref(x, {}, x.at - Section[s].lo, a, FALSE) : a \in ResolveData(x.target)}
    BY <2>1
  <2>3. PICK a \in ResolveData(x.target) : r.name = a.name /\ ~r.local
    BY <2>2 DEF Ref
  <2> QED
    BY <2>3
<1>2. CASE o # 0
  <2>1. o \in DOMAIN units /\ Defs(o) = UnitDefs(o) /\ r \in UnitRefs(o)
    BY <1>2, ObjectsOfUnits
  <2>2. \/ r \in UNION {FunctionRefs(o, f) : f \in Emitted(o)}
        \/ r \in UNION {ContribRefs(c) : c \in Contribs(o)}
    BY <2>1 DEF UnitRefs
  <2>3. CASE r \in UNION {FunctionRefs(o, f) : f \in Emitted(o)}
    <3>1. PICK f \in Emitted(o) : r \in FunctionRefs(o, f)
      BY <2>3
    <3> QED
      BY <2>1, <3>1, FunctionRefKinds
  <2>4. CASE r \in UNION {ContribRefs(c) : c \in Contribs(o)}
    <3>1. PICK c \in Contribs(o) : r \in ContribRefs(c)
      BY <2>4
    <3>2. PICK x \in image.fields :
            r \in {Ref(x, {}, x.at - c.va, a, FALSE) : a \in ResolveData(x.target)}
      BY <3>1 DEF ContribRefs
    <3>3. PICK a \in ResolveData(x.target) : r.name = a.name /\ ~r.local
      BY <3>2 DEF Ref
    <3> QED
      BY <3>3
  <2> QED
    BY <2>2, <2>3, <2>4
<1> QED
  BY <1>1, <1>2

LEMMA ReferenceBound ==
  ASSUME Provided, ProceduresApart, LinkInv, OwnersInv, StaticsNear, phase = "done", AllWritten,
         NEW o \in Objects, NEW r \in Refs(o)
  PROVE  r.name \in Supplied \/ Binding(o, r) # {}
<1>1. CASE r.local
  <2>1. PICK f \in Emitted(o) : r.name \in LocalNames(o, f)
    BY <1>1, RefKinds
  <2>2. \E d \in Defs(o) : d.name = r.name
    BY <1>1, <2>1, RefKinds, LocalBound DEF Provided
  <2> QED
    BY <1>1, <2>2 DEF Binding
<1>2. CASE ~r.local
  <2>1. ~Static(r.name)
    BY <1>2 DEF StaticsNear
  <2>2. PICK x \in image.fields :
          \E a \in ResolveCode(x.target) \cup ResolveData(x.target) : r.name = a.name
    BY RefKinds
  <2>3. InSection("idata", x.target) => x.target \in DOMAIN Imports
    BY DEF LinkInv, DiskTrue, Provided, DataHoused
  <2>4. \/ NamesVariable(r.name) \/ NamesFunction(r.name) \/ r.name \in Supplied
        \/ \E s \in SharedSections : r.name = StartOf(s)
    BY <2>2, <2>3, CodeAnswers, DataAnswers
  <2>5. (\E y \in Externals : y[2].name = r.name) => Binding(o, r) # {}
    BY <1>2 DEF Binding
  <2>6. ASSUME NEW s \in SharedSections, r.name = StartOf(s)
        PROVE  \E y \in Externals : y[2].name = r.name
    <3> DEFINE d == Def(StartOf(s), TRUE, {}, Section[s].lo)
    <3>1. d \in SharedDefs
      BY DEF SharedDefs
    <3>2. d.name = r.name /\ d.external
      BY <2>6 DEF Def
    <3>3. 0 \in Objects /\ Defs(0) = SharedDefs
      BY DEF AllWritten, Objects, Defs
    <3> HIDE DEF d
    <3> QED
      BY <3>1, <3>2, <3>3, ExternalIn
  <2> QED
    BY <2>1, <2>4, <2>5, <2>6, FunctionBound, VariableBound DEF Provided
<1> QED
  BY <1>1, <1>2

\* In whatever order the records of the modules come and the workers finish, and
\* whichever of them fail, no two objects define one external name; and when none
\* failed, every name an object needs is defined by one of them or comes from a
\* library.  Provided that names and addresses are what a linker made them, that
\* external data lie where some object takes them up, and that a static is
\* referred to only where its symbol is at hand.
THEOREM ObjectsLink ==
  ASSUME LinkNamesApart, GlobalsApart, AddressesOnce, SectionsKept, DataHoused
  PROVE  Spec /\ []StaticsNear => []NamesLink
<1>1. Init => LinkInv /\ OwnersInv
  <2>1. Init => LinkInv
    BY DEF Init, IndexInit, LinkInv, KeptInv, GlobalsTrue, LinkNamesKept, NamesGiven, NamesTrue,
           UnitsTrue, PublicsFirst, DiskTrue
  <2> QED
    BY <2>1, InitOwners
<1>2. LinkInv /\ OwnersInv /\ [Next]_vars => (LinkInv /\ OwnersInv)'
  BY StepLinks, StepOwners
<1>3. ProceduresApart
  BY DEF AddressesOnce, ProceduresApart
<1>4. Provided
  BY DEF Provided
<1>5. LinkInv /\ OwnersInv /\ StaticsNear => NamesLink
  <2>1. SUFFICES ASSUME LinkInv, OwnersInv, StaticsNear, phase = "done"
                 PROVE  /\ \A e1, e2 \in Externals : e1[2].name = e2[2].name => e1 = e2
                        /\ AllWritten => \A o \in Objects : \A r \in Refs(o) :
                             r.name \in Supplied \/ Binding(o, r) # {}
    BY DEF NamesLink, AllWritten
  <2>2. \A e1, e2 \in Externals : e1[2].name = e2[2].name => e1 = e2
    BY <1>4, <2>1, ExternalsOnce
  <2>3. AllWritten => \A o \in Objects : \A r \in Refs(o) :
          r.name \in Supplied \/ Binding(o, r) # {}
    BY <1>3, <1>4, <2>1, ReferenceBound
  <2> QED
    BY <2>2, <2>3
<1> QED
  BY <1>1, <1>2, <1>5, PTL DEF Spec

-----------------------------------------------------------------------------
(* Where a byte is once the prefixes are dropped *)

\* A byte that is left is where the prefixes dropped in front of it put it.
LEMMA LeftAt ==
  ASSUME NEW f, f.va \in Nat, f.size \in Nat, F3(f) \subseteq Nat, NEW b \in Left(f)
  PROVE  /\ Remap(f, b) + 1 \in DOMAIN Stripped(f)
         /\ Stripped(f)[Remap(f, b) + 1] = b
<1> DEFINE L == Left(f)
           D == F3(f)
           Rank(a) == {c \in L : c <= a}
           Below(a) == {p \in D : p < a}
<1>1. L \subseteq f.va..(f.va + f.size - 1) /\ D \cap L = {}
  BY DEF Left
<1>2. \A p \in D : f.va <= p /\ p < f.va + f.size
  BY DEF F3, In
<1>3. \A c \in f.va..(f.va + f.size - 1) : c \in L \/ c \in D
  BY DEF Left
<1>4. IsFiniteSet(L)
  <2> DEFINE end == f.va + f.size - 1
             Bytes == f.va..end
  <2>1. IsFiniteSet(Bytes)
    <3>1. f.va \in Int /\ end \in Int
      OBVIOUS
    <3> HIDE DEF end
    <3> QED
      BY <3>1, FS_Interval
  <2>2. L \in SUBSET Bytes
    BY <1>1
  <2> HIDE DEF Bytes
  <2> QED
    BY <2>1, <2>2, FS_Subset
<1>5. Stripped(f) = [k \in 1..Cardinality(L) |-> CHOOSE a \in L : Cardinality(Rank(a)) = k]
  BY DEF Stripped
<1>6. Remap(f, b) = b - f.va - Cardinality(Below(b))
  BY DEF Remap
<1>7. b \in L
  OBVIOUS
<1> HIDE DEF L, D
<1>8. \A a : IsFiniteSet(Rank(a)) /\ Cardinality(Rank(a)) <= Cardinality(L)
  <2>1. SUFFICES ASSUME NEW a
                 PROVE  IsFiniteSet(Rank(a)) /\ Cardinality(Rank(a)) <= Cardinality(L)
    OBVIOUS
  <2>2. Rank(a) \in SUBSET L
    OBVIOUS
  <2> HIDE DEF Rank
  <2> QED
    BY <1>4, <2>2, FS_Subset
<1>9. b \in f.va..(f.va + f.size - 1) /\ b \in Int
  BY <1>1, <1>7
<1>10. IsFiniteSet(f.va..b) /\ Cardinality(f.va..b) = b - f.va + 1
  <2>1. f.va \in Int /\ b \in Int /\ ~(f.va > b)
    BY <1>9
  <2>2. /\ IsFiniteSet(f.va..b)
        /\ Cardinality(f.va..b) = IF f.va > b THEN 0 ELSE b - f.va + 1
    BY <2>1, FS_Interval
  <2> QED
    BY <2>1, <2>2
<1>11. Rank(b) \cup Below(b) = f.va..b /\ Rank(b) \cap Below(b) = {}
  <2>1. \A c \in Rank(b) : c \in f.va..b
    BY <1>1, <1>9
  <2>2. \A c \in Below(b) : c \in f.va..b
    <3>1. SUFFICES ASSUME NEW c \in Below(b) PROVE c \in f.va..b
      OBVIOUS
    <3>2. c \in D /\ c < b /\ c \in Nat
      BY DEF D
    <3> QED
      BY <1>2, <1>9, <3>2
  <2>3. \A c \in f.va..b : c \in Rank(b) \/ c \in Below(b)
    <3>1. SUFFICES ASSUME NEW c \in f.va..b PROVE c \in Rank(b) \/ c \in Below(b)
      OBVIOUS
    <3>2. c \in f.va..(f.va + f.size - 1) /\ c <= b
      BY <1>9
    <3>3. CASE c \in L
      BY <3>2, <3>3
    <3>4. CASE c \in D /\ c \notin L
      BY <1>7, <1>9, <3>2, <3>4
    <3> QED
      BY <1>3, <3>2, <3>3, <3>4
  <2>4. Rank(b) \cap Below(b) = {}
    BY <1>1
  <2> QED
    BY <2>1, <2>2, <2>3, <2>4
<1>12. IsFiniteSet(Below(b))
  BY <1>10, <1>11, FS_Subset
<1>13. Cardinality(f.va..b) = Cardinality(Rank(b)) + Cardinality(Below(b))
  <2>1. Cardinality(Rank(b) \cup Below(b))
          = Cardinality(Rank(b)) + Cardinality(Below(b)) - Cardinality(Rank(b) \cap Below(b))
    BY <1>8, <1>12, FS_Union
  <2>2. Cardinality(Rank(b)) \in Nat /\ Cardinality(Below(b)) \in Nat
    BY <1>8, <1>12, FS_CardinalityType
  <2>3. Cardinality(Rank(b) \cap Below(b)) = 0
    BY <1>11, FS_EmptySet
  <2>4. Cardinality(Rank(b) \cup Below(b)) = Cardinality(f.va..b)
    BY <1>11
  <2> HIDE DEF Rank, Below
  <2> QED
    BY <2>1, <2>2, <2>3, <2>4
<1> DEFINE K == Cardinality(Rank(b))
<1>14. K \in Nat /\ K # 0 /\ K <= Cardinality(L) /\ Cardinality(L) \in Nat
  <2>1. Rank(b) # {}
    BY <1>7, <1>9
  <2>2. IsFiniteSet(Rank(b)) /\ Cardinality(Rank(b)) <= Cardinality(L)
    BY <1>8
  <2> HIDE DEF Rank
  <2>3. Cardinality(Rank(b)) # 0
    BY <2>1, <2>2, FS_EmptySet
  <2>4. Cardinality(Rank(b)) \in Nat /\ Cardinality(L) \in Nat
    BY <1>4, <2>2, FS_CardinalityType
  <2> QED
    BY <2>2, <2>3, <2>4
<1>15. Remap(f, b) + 1 = K
  <2>1. Cardinality(Below(b)) \in Nat
    BY <1>12, FS_CardinalityType
  <2>2. b - f.va + 1 = Cardinality(Rank(b)) + Cardinality(Below(b))
    BY <1>10, <1>13
  <2>3. Cardinality(Rank(b)) \in Nat
    BY <1>14
  <2> HIDE DEF Rank, Below
  <2> QED
    BY <1>6, <1>9, <2>1, <2>2, <2>3
<1>16. ASSUME NEW a \in L, Cardinality(Rank(a)) = K
       PROVE  a = b
  <2>1. a \in Int /\ b \in Int /\ \A c \in L : c \in Int
    BY <1>1, <1>7
  <2>2. CASE a < b
    <3>1. Rank(a) \subseteq Rank(b)
      <4>1. \A c \in L : c <= a => c <= b
        BY <2>1, <2>2
      <4> QED
        BY <4>1
    <3>2. b \notin Rank(a) /\ b \in Rank(b)
      BY <1>7, <2>1, <2>2
    <3>3. Rank(a) = Rank(b)
      <4>1. IsFiniteSet(Rank(a)) /\ IsFiniteSet(Rank(b))
        BY <1>8
      <4> HIDE DEF Rank
      <4> QED
        BY <1>16, <3>1, <4>1, FS_Subset
    <3> QED
      BY <3>2, <3>3
  <2>3. CASE b < a
    <3>1. Rank(b) \subseteq Rank(a)
      <4>1. \A c \in L : c <= b => c <= a
        BY <2>1, <2>3
      <4> QED
        BY <4>1
    <3>2. a \notin Rank(b) /\ a \in Rank(a)
      BY <2>1, <2>3
    <3>3. Rank(a) = Rank(b)
      <4>1. IsFiniteSet(Rank(a)) /\ IsFiniteSet(Rank(b))
        BY <1>8
      <4> HIDE DEF Rank
      <4> QED
        BY <1>16, <3>1, <4>1, FS_Subset
    <3> QED
      BY <3>2, <3>3
  <2> QED
    BY <2>1, <2>2, <2>3
<1>17. b = CHOOSE a \in L : Cardinality(Rank(a)) = K
  BY <1>7, <1>16
<1>18. K \in 1..Cardinality(L)
  BY <1>14
<1> HIDE DEF K, Rank
<1> QED
  BY <1>5, <1>15, <1>17, <1>18

NoneDropped(f, b, c) == \A p \in F3(f) : ~(b <= p /\ p < c)

\* Without a prefix between two bytes they stay as far apart.
LEMMA RemapShift ==
  ASSUME NEW f, f.va \in Nat, F3(f) \subseteq Nat, NEW b \in Nat, NEW c \in Nat, b <= c,
         NoneDropped(f, b, c)
  PROVE  Remap(f, c) = Remap(f, b) + (c - b)
<1>1. \A p \in F3(f) : p < c <=> p < b
  BY DEF NoneDropped
<1>2. {p \in F3(f) : p < c} = {p \in F3(f) : p < b}
  BY <1>1
<1>3. Remap(f, b) = (b - f.va) - Cardinality({p \in F3(f) : p < b})
  BY DEF Remap
<1>4. Remap(f, c) = (c - f.va) - Cardinality({p \in F3(f) : p < b})
  BY <1>2 DEF Remap
<1>5. IsFiniteSet({p \in F3(f) : p < b})
  <2> DEFINE S == {p \in F3(f) : p < b}
  <2>1. S \in SUBSET Nat /\ \A p \in S : p <= b
    OBVIOUS
  <2> HIDE DEF S
  <2>2. IsFiniteSet(S)
    BY <2>1, FS_BoundedSetOfNaturals
  <2> QED
    BY <2>2 DEF S
<1>6. Cardinality({p \in F3(f) : p < b}) \in Nat
  BY <1>5, FS_CardinalityType
<1> QED
  BY <1>3, <1>4, <1>6

-----------------------------------------------------------------------------
(* What the index has at an address *)

\* The variable a record becomes.
VariableOf(r) ==
  [name |-> NameAt(r.va, DataName(r.raw)), public |-> r.kind = "data" /\ r.global,
   size |-> IF r.kind = "data" THEN TypeByteSize(r.type) ELSE 0]

\* Every entry is what a record there became, or a public symbol without one,
\* and every record that was read has an entry at its address.
CodeTrue ==
  \A a \in DOMAIN publicCode : \E p \in Publics : p.code /\ p.va = a /\ p.name = publicCode[a]

FunctionsMade ==
  \A a \in DOMAIN functions : \E k \in DOMAIN Modules : \E r \in Procedures(k) :
    r.va = a /\ functions[a] = PeFunction(r)

MadeOf(v, entry) ==
  \/ \E k \in DOMAIN Modules : \E r \in Modules[k].records :
       r.kind # "proc" /\ r.va # 0 /\ r.va = v /\ entry = VariableOf(r)
  \/ v \in DOMAIN publicData /\ entry = [name |-> publicData[v], public |-> TRUE, size |-> 0]

VariablesMade == \A v \in DOMAIN variables : MadeOf(v, variables[v])

Entered(r) ==
  /\ r.kind = "proc" /\ ~Dropped(r) => r.va \in DOMAIN functions
  /\ r.kind # "proc" /\ r.va # 0 => r.va \in DOMAIN variables

AllEntered ==
  /\ \A k \in 1..modules : \A r \in Modules[k].records : Entered(r)
  /\ \A r \in seen : Entered(r)

FoundInv == CodeTrue /\ FunctionsMade /\ VariablesMade /\ AllEntered

LEMMA PublicFound ==
  ASSUME OwnersInv, FoundInv, NEW p \in Publics, ReadPublic(p)
  PROVE  FoundInv'
<1>1. /\ functions = <<>> /\ variables = <<>> /\ modules = 0 /\ seen = {}
      /\ UNCHANGED <<functions, variables, modules, seen>>
      /\ publicCode' = IF p.code THEN Put(publicCode, p.va, p.name) ELSE publicCode
  BY DEF ReadPublic, OwnersInv, PhasesTrue
<1>2. CodeTrue'
  <2>1. SUFFICES ASSUME NEW a \in DOMAIN publicCode'
                 PROVE  \E q \in Publics : q.code /\ q.va = a /\ q.name = publicCode'[a]
    BY DEF CodeTrue
  <2>2. CASE a \in DOMAIN publicCode /\ publicCode'[a] = publicCode[a]
    BY <2>2 DEF FoundInv, CodeTrue
  <2>3. CASE ~(a \in DOMAIN publicCode /\ publicCode'[a] = publicCode[a])
    <3>1. p.code /\ a = p.va /\ publicCode'[a] = p.name
      BY <1>1, <2>1, <2>3 DEF Put
    <3> QED
      BY <3>1
  <2> QED
    BY <2>2, <2>3
<1>3. FunctionsMade' /\ VariablesMade'
  BY <1>1 DEF FunctionsMade, VariablesMade
<1>4. AllEntered'
  BY <1>1 DEF AllEntered
<1> QED
  BY <1>2, <1>3, <1>4 DEF FoundInv

\* Names, and what was made with them, stay as they are behind the public symbols.
LEMMA MadeStays ==
  ASSUME UNCHANGED <<primary, aliases, publicData>>
  PROVE  /\ \A r : PeFunction(r)' = PeFunction(r) /\ VariableOf(r)' = VariableOf(r)
         /\ \A v, entry : MadeOf(v, entry) => MadeOf(v, entry)'
<1>1. \A r : PeFunction(r)' = PeFunction(r)
  BY FunctionsStay
<1>2. \A r : VariableOf(r)' = VariableOf(r)
  BY DEF VariableOf, NameAt
<1> QED
  BY <1>1, <1>2 DEF MadeOf

LEMMA EnteredStays ==
  ASSUME DOMAIN functions \subseteq DOMAIN functions', DOMAIN variables \subseteq DOMAIN variables'
  PROVE  \A r : Entered(r) => Entered(r)'
BY DEF Entered

LEMMA ProcedureFound ==
  ASSUME FoundInv, NEW k \in DOMAIN Modules, NEW r \in Modules[k].records, ReadProcedure(r)
  PROVE  FoundInv'
<1>1. /\ r.kind = "proc" /\ seen' = seen \cup {r}
      /\ UNCHANGED <<primary, aliases, publicData, publicCode, modules, variables>>
      /\ functions' = IF Dropped(r) THEN functions ELSE PutNew(functions, r.va, PeFunction(r))
  BY DEF ReadProcedure, Read
<1>2. CodeTrue' /\ VariablesMade'
  BY <1>1, MadeStays DEF FoundInv, CodeTrue, VariablesMade
<1>3. FunctionsMade'
  <2>1. SUFFICES ASSUME NEW a \in DOMAIN functions'
                 PROVE  \E j \in DOMAIN Modules : \E q \in Procedures(j) :
                          q.va = a /\ functions'[a] = PeFunction(q)
    BY <1>1, MadeStays DEF FunctionsMade, Procedures, Dropped
  <2>2. CASE a \in DOMAIN functions /\ functions'[a] = functions[a]
    BY <2>2 DEF FoundInv, FunctionsMade
  <2>3. CASE ~(a \in DOMAIN functions /\ functions'[a] = functions[a])
    <3>1. ~Dropped(r) /\ a = r.va /\ functions'[a] = PeFunction(r)
      BY <1>1, <2>1, <2>3 DEF PutNew, Put
    <3> QED
      BY <1>1, <3>1 DEF Procedures
  <2> QED
    BY <2>2, <2>3
<1>4. AllEntered'
  <2>1. /\ DOMAIN functions \subseteq DOMAIN functions'
        /\ ~Dropped(r) => r.va \in DOMAIN functions'
    BY <1>1 DEF PutNew, Put
  <2>2. Entered(r)'
    BY <1>1, <2>1 DEF Entered, Dropped
  <2>3. \A q : Entered(q) => Entered(q)'
    BY <1>1, <2>1, EnteredStays
  <2> QED
    BY <1>1, <2>2, <2>3 DEF FoundInv, AllEntered
<1> QED
  BY <1>2, <1>3, <1>4 DEF FoundInv

LEMMA DataTyped ==
  ASSUME NEW k \in DOMAIN Modules, NEW r \in Modules[k].records, r.kind = "data"
  PROVE  r.global \in BOOLEAN /\ r.type \in [size : Nat, unique : STRING]
<1>1. Modules[k] \in [records : SUBSET Record, contribs : SUBSET Contribution]
  BY PeAssumption, ElementTyped DEF PeAssumption
<1>2. r \in Record
  BY <1>1
<1> QED
  BY <1>2 DEF Record

LEMMA VariableFound ==
  ASSUME FoundInv, NEW k \in DOMAIN Modules, NEW r \in Modules[k].records,
         ReadData(r) \/ ReadLabel(r)
  PROVE  FoundInv'
<1>1. /\ r.kind # "proc" /\ seen' = seen \cup {r}
      /\ UNCHANGED <<primary, aliases, publicData, publicCode, modules, functions>>
  BY DEF ReadData, ReadLabel, Read
<1>2. variables' = IF r.va = 0 THEN variables ELSE PutNew(variables, r.va, VariableOf(r))
  <2>1. CASE ReadData(r)
    <3>1. r.global \in BOOLEAN
      BY <2>1, DataTyped DEF ReadData
    <3>2. VariableOf(r) = [name |-> NameAt(r.va, DataName(r.raw)), public |-> r.global,
                           size |-> TypeByteSize(r.type)]
      BY <2>1, <3>1 DEF ReadData, VariableOf
    <3> QED
      BY <2>1, <3>2 DEF ReadData
  <2>2. CASE ReadLabel(r)
    BY <2>2 DEF ReadLabel, VariableOf
  <2> QED
    BY <2>1, <2>2
<1>3. CodeTrue' /\ FunctionsMade'
  BY <1>1, MadeStays DEF FoundInv, CodeTrue, FunctionsMade, Procedures, Dropped
<1>4. VariablesMade'
  <2>1. SUFFICES ASSUME NEW v \in DOMAIN variables'
                 PROVE  MadeOf(v, variables'[v])
    BY <1>1, MadeStays DEF VariablesMade
  <2>2. CASE v \in DOMAIN variables /\ variables'[v] = variables[v]
    BY <2>2 DEF FoundInv, VariablesMade
  <2>3. CASE ~(v \in DOMAIN variables /\ variables'[v] = variables[v])
    <3>1. r.va # 0 /\ v = r.va /\ variables'[v] = VariableOf(r)
      BY <1>2, <2>1, <2>3 DEF PutNew, Put
    <3> QED
      BY <1>1, <3>1 DEF MadeOf
  <2> QED
    BY <2>2, <2>3
<1>5. AllEntered'
  <2>1. /\ DOMAIN variables \subseteq DOMAIN variables'
        /\ r.va # 0 => r.va \in DOMAIN variables'
    BY <1>2 DEF PutNew, Put
  <2>2. Entered(r)'
    BY <1>1, <2>1 DEF Entered
  <2>3. \A q : Entered(q) => Entered(q)'
    BY <1>1, <2>1, EnteredStays
  <2> QED
    BY <1>1, <2>2, <2>3 DEF FoundInv, AllEntered
<1> QED
  BY <1>3, <1>4, <1>5 DEF FoundInv

LEMMA ModuleFound ==
  ASSUME OwnersInv, FoundInv, EndModule
  PROVE  FoundInv'
<1>1. /\ seen = Module.records /\ seen' = {} /\ modules' = modules + 1
      /\ UNCHANGED <<primary, aliases, publicData, publicCode, functions, variables>>
  BY DEF EndModule
<1>2. CodeTrue' /\ FunctionsMade' /\ VariablesMade'
  BY <1>1, MadeStays DEF FoundInv, CodeTrue, FunctionsMade, VariablesMade, Procedures, Dropped
<1>3. \A r : Entered(r) => Entered(r)'
  BY <1>1, EnteredStays
<1>4. modules \in Nat
  BY ModulesTyped DEF OwnersInv, FunctionsTrue
<1>5. \A j \in 1..(modules + 1) : j \in 1..modules \/ Modules[j] = Module
  BY <1>4 DEF Module
<1> QED
  BY <1>1, <1>2, <1>3, <1>5 DEF FoundInv, AllEntered

LEMMA ModulesFound ==
  ASSUME FoundInv, EndModules
  PROVE  FoundInv'
<1>1. UNCHANGED <<primary, aliases, publicData, publicCode, functions, modules, seen>>
  BY DEF EndModules
<1>2. CodeTrue' /\ FunctionsMade'
  BY <1>1, MadeStays DEF FoundInv, CodeTrue, FunctionsMade, Procedures, Dropped
<1>3. VariablesMade'
  <2>1. SUFFICES ASSUME NEW v \in DOMAIN variables'
                 PROVE  MadeOf(v, variables'[v])
    BY <1>1, MadeStays DEF VariablesMade
  <2>2. CASE v \in DOMAIN variables
    BY <2>2 DEF EndModules, FoundInv, VariablesMade
  <2>3. CASE v \notin DOMAIN variables
    BY <2>1, <2>3 DEF EndModules, MadeOf
  <2> QED
    BY <2>2, <2>3
<1>4. DOMAIN variables \subseteq DOMAIN variables'
  BY DEF EndModules
<1>5. \A r : Entered(r) => Entered(r)'
  BY <1>1, <1>4, EnteredStays
<1> QED
  BY <1>1, <1>2, <1>3, <1>5 DEF FoundInv, AllEntered

LEMMA OtherFound ==
  ASSUME FoundInv,
         ReadFrame \/ EndGlobals \/ StartWorkers \/ EmitShared
           \/ (\E u \in DOMAIN disk : EmitUnit(u) \/ EmitFails(u)) \/ UNCHANGED vars
  PROVE  FoundInv'
<1>1. UNCHANGED <<primary, aliases, publicData, publicCode, functions, variables, modules, seen>>
  BY DEF ReadFrame, EndGlobals, StartWorkers, EmitShared, EmitUnit, EmitFails, vars, indexVars
<1>2. \A r : Entered(r) => Entered(r)'
  BY <1>1, EnteredStays
<1> QED
  BY <1>1, <1>2, MadeStays DEF FoundInv, CodeTrue, FunctionsMade, VariablesMade, AllEntered,
                              Procedures, Dropped

LEMMA StepFound ==
  ASSUME OwnersInv, FoundInv, [Next]_vars
  PROVE  FoundInv'
BY PublicFound, ProcedureFound, VariableFound, ModuleFound, ModulesFound, OtherFound
   DEF Next, Index, IndexNext, Done

LEMMA InitFound == Init => FoundInv
BY DEF Init, IndexInit, FoundInv, CodeTrue, FunctionsMade, VariablesMade, AllEntered

-----------------------------------------------------------------------------
(* What an address is found by: a name, and the address s the name stands for *)

ByFunction(n, s, a) ==
  s \in DOMAIN functions /\ n = functions[s].name /\ s <= a /\ a < s + functions[s].size

Unlisted(a) == a \notin DOMAIN functions /\ Within(functions, a) = {}

ByVariable(n, s, a) ==
  /\ s \in DOMAIN variables /\ n = variables[s].name /\ s <= a
  /\ \/ a = s
     \/ a \notin DOMAIN variables /\ a < s + variables[s].size
     \/ Unlisted(a) /\ s \in Floor(DOMAIN variables, a)

ByLibrary(n, a) ==
  \/ a \in DOMAIN Imports /\ n = Imports[a]
  \/ a \in DOMAIN Literals /\ n = Literals[a]
  \/ n = <<"__ImageBase">> /\ a = ImageBase

ByPublic(n, s) == s \in DOMAIN publicCode \ DOMAIN functions /\ n = publicCode[s]

BySection(n, s) == \E t \in DOMAIN Section : n = StartOf(t) /\ s = Section[t].lo

LEMMA FunctionTyped ==
  ASSUME FoundInv, NEW a \in DOMAIN functions
  PROVE  \E k \in DOMAIN Modules : \E r \in Procedures(k) :
           /\ r.va = a /\ functions[a] = PeFunction(r) /\ functions[a].va = a
           /\ functions[a].name = NameAt(a, OwnName(r)) /\ functions[a].public = r.global
           /\ functions[a].size = r.len /\ a \in Nat \ {0} /\ r.len \in Nat \ {0}
<1>1. PICK k \in DOMAIN Modules :
        \E r \in Procedures(k) : r.va = a /\ functions[a] = PeFunction(r)
  BY DEF FoundInv, FunctionsMade
<1>2. PICK r \in Procedures(k) : r.va = a /\ functions[a] = PeFunction(r)
  BY <1>1
<1>3. r.va \in Nat \ {0} /\ r.len \in Nat \ {0} /\ r.kind = "proc"
  BY ProcedureTyped DEF Procedures, Dropped
<1> QED
  BY <1>2, <1>3 DEF PeFunction, OwnName

LEMMA VariableTyped ==
  ASSUME LinkInv, FoundInv, NEW v \in DOMAIN variables
  PROVE  v \in Nat /\ variables[v].size \in Nat
<1>1. v \in Nat
  BY DEF LinkInv, NamesTrue
<1>2. ASSUME NEW k \in DOMAIN Modules, NEW r \in Modules[k].records, variables[v] = VariableOf(r)
      PROVE  variables[v].size \in Nat
  <2>1. CASE r.kind = "data"
    <3>1. TypeByteSize(r.type) \in Nat
      BY <2>1, DataTyped, PeAssumption DEF PeAssumption, TypeByteSize
    <3> QED
      BY <1>2, <2>1, <3>1 DEF VariableOf
  <2>2. CASE r.kind # "data"
    BY <1>2, <2>2 DEF VariableOf
  <2> QED
    BY <2>1, <2>2
<1> QED
  BY <1>1, <1>2 DEF FoundInv, VariablesMade, MadeOf

\* A function that has the address.
LEMMA FunctionFound ==
  ASSUME FoundInv, NEW a \in Nat, NEW x,
         x \in Starting(functions, a) \/ x \in Within(functions, a)
  PROVE  \E s \in Nat : x.addend = a - s /\ ByFunction(x.name, s, a)
<1>1. CASE x \in Starting(functions, a)
  <2>1. a \in DOMAIN functions /\ x = [name |-> functions[a].name, addend |-> 0]
    BY <1>1 DEF Starting, Answer
  <2>2. functions[a].size \in Nat \ {0}
    BY <2>1, FunctionTyped
  <2>3. x.addend = a - a /\ ByFunction(x.name, a, a)
    BY <2>1, <2>2 DEF ByFunction
  <2> QED
    BY <2>3
<1>2. CASE x \in Within(functions, a)
  <2>1. PICK s \in Floor(DOMAIN functions, a) :
          a < s + functions[s].size /\ x = [name |-> functions[s].name, addend |-> a - s]
    BY <1>2 DEF Within, Answer
  <2>2. s \in DOMAIN functions /\ s <= a
    BY DEF Floor
  <2>3. s \in Nat
    BY <2>2, FunctionTyped
  <2> QED
    BY <2>1, <2>2, <2>3 DEF ByFunction
<1> QED
  BY <1>1, <1>2

\* Code is found by a function, by a library or by a public symbol before it.
LEMMA CodeFound ==
  ASSUME FoundInv, NEW a \in Nat, NEW x \in ResolveCode(a)
  PROVE  \E s \in Nat : x.addend = a - s
           /\ (ByFunction(x.name, s, a) \/ (s = a /\ ByLibrary(x.name, a)) \/ ByPublic(x.name, s))
<1> DEFINE answers == << Starting(functions, a), Within(functions, a), Exactly(Imports, a),
                         Exactly(CodePublics, a), WithinPublic(a) >>
<1>1. DOMAIN answers = 1..5 /\ x \in FirstAnswer(answers)
  BY DEF ResolveCode
<1>2. /\ answers[1] = Starting(functions, a) /\ answers[2] = Within(functions, a)
      /\ answers[3] = Exactly(Imports, a) /\ answers[4] = Exactly(CodePublics, a)
      /\ answers[5] = WithinPublic(a)
  OBVIOUS
<1> HIDE DEF answers
<1>3. PICK k \in 1..5 : x \in answers[k]
  BY <1>1, FirstAnswerFirst
<1>4. CASE x \in Starting(functions, a) \/ x \in Within(functions, a)
  BY <1>4, FunctionFound
<1>5. CASE x \in Exactly(Imports, a)
  <2>1. a \in DOMAIN Imports /\ x = [name |-> Imports[a], addend |-> 0]
    BY <1>5 DEF Exactly, Answer
  <2>2. x.addend = a - a /\ ByLibrary(x.name, a)
    BY <2>1 DEF ByLibrary
  <2> QED
    BY <2>2
<1>6. CASE x \in Exactly(CodePublics, a)
  <2>1. a \in DOMAIN CodePublics /\ x = [name |-> CodePublics[a], addend |-> 0]
    BY <1>6 DEF Exactly, Answer
  <2>2. x.addend = a - a /\ ByPublic(x.name, a)
    BY <2>1 DEF ByPublic, CodePublics
  <2> QED
    BY <2>2
<1>7. CASE x \in WithinPublic(a)
  <2>1. PICK s \in Floor(DOMAIN CodePublics, a) :
          x = [name |-> CodePublics[s], addend |-> a - s]
    BY <1>7 DEF WithinPublic, Answer
  <2>2. s \in DOMAIN CodePublics
    BY DEF Floor
  <2>3. ByPublic(x.name, s) /\ s \in Nat
    <3>1. s \in DOMAIN publicCode \ DOMAIN functions /\ CodePublics[s] = publicCode[s]
      BY <2>2 DEF CodePublics
    <3>2. \E p \in Publics : p.va = s
      BY <3>1 DEF FoundInv, CodeTrue
    <3> QED
      BY <2>1, <3>1, <3>2, PeAssumption DEF ByPublic, PeAssumption
  <2> QED
    BY <2>1, <2>3
<1> QED
  BY <1>2, <1>3, <1>4, <1>5, <1>6, <1>7

\* Data are found by a library, by what starts there or has the address, or by
\* the start of their section.
LEMMA DataFound ==
  ASSUME LinkInv, FoundInv, NEW a \in Nat, NEW x \in ResolveData(a)
  PROVE  \E s \in Nat : x.addend = a - s
           /\ \/ ByFunction(x.name, s, a) /\ (s = a \/ a \notin DOMAIN variables)
              \/ ByVariable(x.name, s, a)
              \/ s = a /\ ByLibrary(x.name, a)
              \/ BySection(x.name, s)
<1> DEFINE answers == << IF a = ImageBase THEN Answer(<<"__ImageBase">>, 0) ELSE {},
                         Exactly(Imports, a), Starting(variables, a), Starting(functions, a),
                         Within(variables, a), Within(functions, a), Exactly(Literals, a),
                         WithinUnsized(a), SectionRelative(a) >>
           Goal == \E s \in Nat : x.addend = a - s
                     /\ \/ ByFunction(x.name, s, a) /\ (s = a \/ a \notin DOMAIN variables)
                        \/ ByVariable(x.name, s, a)
                        \/ s = a /\ ByLibrary(x.name, a)
                        \/ BySection(x.name, s)
<1>1. DOMAIN answers = 1..9 /\ x \in FirstAnswer(answers)
  BY DEF ResolveData
<1>2. /\ answers[1] = IF a = ImageBase THEN Answer(<<"__ImageBase">>, 0) ELSE {}
      /\ answers[2] = Exactly(Imports, a) /\ answers[3] = Starting(variables, a)
      /\ answers[4] = Starting(functions, a) /\ answers[5] = Within(variables, a)
      /\ answers[6] = Within(functions, a) /\ answers[7] = Exactly(Literals, a)
      /\ answers[8] = WithinUnsized(a) /\ answers[9] = SectionRelative(a)
  OBVIOUS
<1> HIDE DEF answers
<1>3. PICK k \in 1..9 : x \in answers[k] /\ \A j \in 1..9 : answers[j] # {} => k <= j
  BY <1>1, FirstAnswerFirst
<1>4. k > 3 => a \notin DOMAIN variables
  <2>1. a \in DOMAIN variables => answers[3] # {}
    BY <1>2 DEF Starting, Answer
  <2> QED
    BY <1>3, <2>1
<1>5. k > 6 => Unlisted(a)
  <2>1. a \in DOMAIN functions => answers[4] # {}
    BY <1>2 DEF Starting, Answer
  <2>2. Within(functions, a) # {} => answers[6] # {}
    BY <1>2
  <2> QED
    BY <1>3, <2>1, <2>2 DEF Unlisted
<1>6. x.addend = 0 /\ ByLibrary(x.name, a) => Goal
  OBVIOUS
<1>7. ASSUME k \in {1, 2, 7} PROVE Goal
  <2>1. k = 1 => x = [name |-> <<"__ImageBase">>, addend |-> 0] /\ a = ImageBase
    BY <1>2, <1>3 DEF Answer
  <2>2. k = 2 => a \in DOMAIN Imports /\ x = [name |-> Imports[a], addend |-> 0]
    BY <1>2, <1>3 DEF Exactly, Answer
  <2>3. k = 7 => a \in DOMAIN Literals /\ x = [name |-> Literals[a], addend |-> 0]
    BY <1>2, <1>3 DEF Exactly, Answer
  <2>4. x.addend = 0 /\ ByLibrary(x.name, a)
    BY <1>7, <2>1, <2>2, <2>3 DEF ByLibrary
  <2> QED
    BY <1>6, <2>4
<1>8. ASSUME k = 3 PROVE Goal
  <2>1. a \in DOMAIN variables /\ x = [name |-> variables[a].name, addend |-> 0]
    BY <1>2, <1>3, <1>8 DEF Starting, Answer
  <2>2. x.addend = a - a /\ ByVariable(x.name, a, a)
    BY <2>1 DEF ByVariable
  <2> QED
    BY <2>2
<1>9. ASSUME k = 4 \/ k = 6 PROVE Goal
  <2>1. x \in Starting(functions, a) \/ x \in Within(functions, a)
    BY <1>2, <1>3, <1>9
  <2>2. a \notin DOMAIN variables
    BY <1>4, <1>9
  <2> QED
    BY <2>1, <2>2, FunctionFound
<1>10. ASSUME k = 5 \/ k = 8 PROVE Goal
  <2>1. PICK s \in Floor(DOMAIN variables, a) :
          /\ x = [name |-> variables[s].name, addend |-> a - s]
          /\ a < s + variables[s].size \/ k = 8
    <3>1. CASE k = 5
      BY <1>2, <1>3, <3>1 DEF Within, Answer
    <3>2. CASE k = 8
      BY <1>2, <1>3, <3>2 DEF WithinUnsized, Answer
    <3> QED
      BY <1>10, <3>1, <3>2
  <2>2. s \in DOMAIN variables /\ s <= a /\ s \in Nat
    BY VariableTyped DEF Floor
  <2>3. ByVariable(x.name, s, a)
    BY <1>4, <1>5, <1>10, <2>1, <2>2 DEF ByVariable
  <2> QED
    BY <2>1, <2>2, <2>3
<1>11. ASSUME k = 9 PROVE Goal
  <2>1. x \in SectionRelative(a)
    BY <1>2, <1>3, <1>11
  <2> DEFINE starts == [j \in DOMAIN DataSections |->
               IF InSection(DataSections[j], a)
               THEN Answer(StartOf(DataSections[j]), a - Section[DataSections[j]].lo) ELSE {}]
  <2>2. DOMAIN starts = 1..4 /\ x \in FirstAnswer(starts)
    <3>1. SectionRelative(a) = FirstAnswer(starts)
      BY DEF SectionRelative
    <3>2. DOMAIN starts = 1..4
      BY DEF DataSections
    <3> HIDE DEF starts
    <3> QED
      BY <2>1, <3>1, <3>2
  <2>3. PICK j \in 1..4 : x \in starts[j]
    <3> HIDE DEF starts
    <3> QED
      BY <2>2, FirstAnswerFirst
  <2>4. /\ InSection(DataSections[j], a)
        /\ x = [name |-> StartOf(DataSections[j]), addend |-> a - Section[DataSections[j]].lo]
    <3>1. j \in DOMAIN DataSections
      BY DEF DataSections
    <3>2. starts[j] # {} => InSection(DataSections[j], a)
      BY <3>1
    <3>3. InSection(DataSections[j], a) =>
            starts[j] = Answer(StartOf(DataSections[j]), a - Section[DataSections[j]].lo)
      BY <3>1
    <3> HIDE DEF starts
    <3> QED
      BY <2>3, <3>2, <3>3 DEF Answer
  <2> DEFINE t == DataSections[j]
  <2>5. t \in DOMAIN Section /\ Section[t].lo \in Nat
    BY <2>4, PeAssumption DEF InSection, PeAssumption
  <2>6. BySection(x.name, Section[t].lo)
    BY <2>4, <2>5 DEF BySection
  <2> HIDE DEF t
  <2>7. x.addend = a - Section[t].lo
    BY <2>4 DEF t
  <2> QED
    BY <2>5, <2>6, <2>7
<1>12. Goal
  BY <1>3, <1>7, <1>8, <1>9, <1>10, <1>11
<1> QED
  BY <1>12

-----------------------------------------------------------------------------
(* What a definition is a name of *)

Named(n, a) ==
  \/ \E p \in Publics : p.name = n /\ p.va = a
  \/ \E k \in DOMAIN Modules : \E r \in Modules[k].records :
       r.va # 0 /\ r.va = a /\ OwnName(r) = n

LEMMA SourceNamed ==
  ASSUME NEW n, NEW a, Source(n, a)
  PROVE  Named(n, a)
BY DEF Source, Named, Exported

LEMMA NameNamed ==
  ASSUME LinkInv, NEW k \in DOMAIN Modules, NEW r \in Modules[k].records, r.va # 0
  PROVE  Named(NameAt(r.va, OwnName(r)), r.va)
<1>1. CASE r.va \in DOMAIN primary
  <2>1. primary[r.va] \in NamesGiven(r.va)
    BY <1>1 DEF LinkInv, KeptInv, LinkNamesKept, NamesGiven
  <2>2. PICK i \in DOMAIN globals : globals[i].va = r.va /\ globals[i].name = primary[r.va]
    BY <2>1 DEF NamesGiven
  <2>3. globals[i] \in Publics
    BY DEF LinkInv, KeptInv, GlobalsTrue
  <2> QED
    BY <1>1, <2>2, <2>3 DEF Named, NameAt
<1>2. CASE r.va \notin DOMAIN primary
  BY <1>2 DEF Named, NameAt
<1> QED
  BY <1>1, <1>2

LEMMA VariableNamed ==
  ASSUME LinkInv, OwnersInv, FoundInv, NEW v \in DOMAIN variables
  PROVE  Named(variables[v].name, v)
<1>1. CASE v \in DOMAIN publicData /\ variables[v].name = publicData[v]
  BY <1>1 DEF OwnersInv, VariablesTrue, Named
<1>2. CASE \E k \in DOMAIN Modules : \E r \in Modules[k].records :
             r.kind # "proc" /\ r.va # 0 /\ r.va = v /\ variables[v] = VariableOf(r)
  <2>1. PICK k \in DOMAIN Modules :
          \E r \in Modules[k].records :
             r.kind # "proc" /\ r.va # 0 /\ r.va = v /\ variables[v] = VariableOf(r)
    BY <1>2
  <2>2. PICK r \in Modules[k].records :
             r.kind # "proc" /\ r.va # 0 /\ r.va = v /\ variables[v] = VariableOf(r)
    BY <2>1
  <2>3. variables[v].name = NameAt(r.va, OwnName(r))
    BY <2>2 DEF VariableOf, OwnName
  <2> QED
    BY <2>2, <2>3, NameNamed
<1> QED
  BY <1>1, <1>2 DEF FoundInv, VariablesMade, MadeOf

\* A function that is emitted is the one looked up at its address.
LEMMA EmittedFound ==
  ASSUME AddressesOnce, OwnersInv, FoundInv, NEW u \in DOMAIN units, NEW f \in Emitted(u)
  PROVE  /\ f.va \in DOMAIN functions /\ functions[f.va] = f
         /\ f.va \in Nat \ {0} /\ f.size \in Nat \ {0}
<1>1. PICK own : Owned(own)
  BY DEF OwnersInv
<1>2. own[u] \in DOMAIN Modules /\ own[u] \in 1..modules
  BY <1>1, OwnerTyped DEF Owned
<1>3. PICK r \in Procedures(own[u]) :
        f = PeFunction(r) /\ f.va = r.va /\ f.size = r.len /\ r.va \in Nat /\ r.len \in Nat \ {0}
  BY <1>1, EmittedIsProcedure
<1>4. r \in Modules[own[u]].records /\ r.kind = "proc" /\ ~Dropped(r) /\ r.va # 0
  BY DEF Procedures, Dropped
<1>5. r.va \in DOMAIN functions
  BY <1>2, <1>4 DEF FoundInv, AllEntered, Entered
<1>6. PICK k \in DOMAIN Modules :
        \E q \in Procedures(k) : q.va = r.va /\ functions[r.va] = PeFunction(q)
  BY <1>5 DEF FoundInv, FunctionsMade
<1>7. PICK q \in Procedures(k) : q.va = r.va /\ functions[r.va] = PeFunction(q)
  BY <1>6
<1>8. q = r
  BY <1>2, <1>7 DEF AddressesOnce
<1> QED
  BY <1>3, <1>4, <1>5, <1>7, <1>8

\* Every address of a function that is emitted is that of one procedure.
LEMMA EmittedProcedure ==
  ASSUME FoundInv, NEW f, f.va \in DOMAIN functions, functions[f.va] = f
  PROVE  \E k \in DOMAIN Modules : \E q \in Procedures(k) : q.va = f.va /\ q.len = f.size
<1>1. PICK k \in DOMAIN Modules : \E r \in Procedures(k) :
           r.va = f.va /\ functions[f.va].size = r.len
  BY FunctionTyped
<1> QED
  BY <1>1

LEMMA FunctionDefAt ==
  ASSUME AddressesOnce, LinkInv, OwnersInv, FoundInv, NEW u \in DOMAIN units, NEW f \in Emitted(u),
         NEW S, NEW d \in FunctionDefs(f, S)
  PROVE  /\ d.f = {f} /\ d.va \in Nat /\ f.va <= d.va /\ d.va < f.va + f.size
         /\ d.va # f.va => d.va \in DOMAIN variables
         /\ Named(d.name, d.va)
         /\ d.external => Source(d.name, d.va)
         /\ ~d.external => Static(d.name)
<1>1. PICK own : Owned(own)
  BY DEF OwnersInv
<1>2. PICK r \in Procedures(own[u]) :
        /\ f = PeFunction(r)
        /\ f.va = r.va /\ f.size = r.len /\ f.name = NameAt(r.va, OwnName(r))
        /\ f.aliases = OtherNames(r.va) /\ r \in Modules[own[u]].records
  BY <1>1, EmittedIsProcedure
<1>3. /\ f.va \in DOMAIN functions /\ functions[f.va] = f
      /\ f.va \in Nat \ {0} /\ f.size \in Nat \ {0}
  BY EmittedFound
<1>4. d.external => Source(d.name, d.va)
  BY <1>1, FunctionExternals
<1>5. own[u] \in DOMAIN Modules
  BY <1>1, OwnerTyped
<1>6. \/ d = Def(f.name, f.public, {f}, f.va)
      \/ \E a \in DOMAIN f.aliases : d = Def(a, TRUE, {f}, f.va)
      \/ \E v \in LabelVas(f) : d = Def(variables[v].name, variables[v].public, {f}, v)
  BY DEF FunctionDefs
<1>7. CASE d = Def(f.name, f.public, {f}, f.va)
  <2>1. d.name = f.name /\ d.external = f.public /\ d.f = {f} /\ d.va = f.va
    BY <1>7 DEF Def
  <2>2. Named(d.name, d.va)
    BY <1>2, <1>3, <1>5, <2>1, NameNamed
  <2>3. ~d.external => Static(d.name)
    BY <1>3, <2>1 DEF Static
  <2> QED
    BY <1>3, <1>4, <2>1, <2>2, <2>3
<1>8. CASE \E a \in DOMAIN f.aliases : d = Def(a, TRUE, {f}, f.va)
  <2>1. d.external /\ d.f = {f} /\ d.va = f.va
    BY <1>8 DEF Def
  <2> QED
    BY <1>3, <1>4, <2>1, SourceNamed
<1>9. CASE \E v \in LabelVas(f) : d = Def(variables[v].name, variables[v].public, {f}, v)
  <2>1. PICK v \in LabelVas(f) : d = Def(variables[v].name, variables[v].public, {f}, v)
    BY <1>9
  <2>2. d.name = variables[v].name /\ d.external = variables[v].public /\ d.f = {f} /\ d.va = v
    BY <2>1 DEF Def
  <2>3. v \in DOMAIN variables /\ In(v, f.va + 1, f.size - 1)
    BY DEF LabelVas
  <2>4. v \in Nat
    BY <2>3, VariableTyped
  <2>5. f.va <= v /\ v < f.va + f.size
    BY <1>3, <2>3, <2>4 DEF In
  <2>6. ~d.external => Static(d.name)
    BY <2>2, <2>3 DEF Static
  <2>7. Named(d.name, d.va)
    BY <2>2, <2>3, VariableNamed
  <2> QED
    BY <1>4, <2>2, <2>3, <2>4, <2>5, <2>6, <2>7
<1> QED
  BY <1>6, <1>7, <1>8, <1>9

\* The three kinds of definitions of an object.
LEMMA DefKinds ==
  ASSUME LinkInv, OwnersInv, phase = "done", NEW o \in Objects, NEW d \in Defs(o)
  PROVE  \/ \E s \in DOMAIN Section : d = Def(StartOf(s), TRUE, {}, Section[s].lo)
         \/ \E v \in DOMAIN variables : d = DatumDef(v)
         \/ \E u \in DOMAIN units : \E f \in Emitted(u) :
              d \in FunctionDefs(f, EarlierNames(u, f))
<1>1. CASE o = 0
  <2>1. d \in SharedDefs
    BY <1>1 DEF Defs
  <2> QED
    BY <2>1, SharedDefKinds, SharedSectionTyped
<1>2. CASE o # 0
  <2>1. o \in DOMAIN units /\ d \in UnitDefs(o)
    BY <1>2, ObjectsOfUnits
  <2> QED
    BY <2>1, UnitDefKinds
<1> QED
  BY <1>1, <1>2

-----------------------------------------------------------------------------
(* What a reference says *)

LEMMA ImageTyped ==
  ASSUME LinkInv, phase = "done"
  PROVE  /\ image \in Images /\ image.prefixes \subseteq Nat
         /\ \A x \in image.fields :
              /\ x.at \in Nat /\ x.target \in Nat
              /\ x.kind \in {"branch", "entry", "rip", "abs"}
<1>1. image \in Images
  BY DEF LinkInv, DiskTrue
<1>2. image \in Image
  BY <1>1, SplitAssumption DEF SplitAssumption
<1>3. image.fields \subseteq Field /\ image.prefixes \subseteq Nat
  BY <1>2 DEF Image
<1> QED
  BY <1>1, <1>3 DEF Field

LEMMA PrefixTyped ==
  ASSUME LinkInv, phase = "done", NEW f
  PROVE  /\ F3(f) \subseteq Nat
         /\ \A p \in F3(f) : image.replaceRepRet /\ p \in RepRets(image)
                             /\ In(p, f.va, f.size)
BY ImageTyped DEF F3, RepRets

Looked(x) == IF AsCode(x) THEN ResolveCode(x.target) ELSE ResolveData(x.target)

\* What a reference in a function says, and what one in data says.
FunctionRef(r, x) ==
  \E u \in DOMAIN units : \E f \in Emitted(u) :
    /\ r.f = {f} /\ r.place = Remap(f, x.at) /\ Inside(x, f.va, f.size)
    /\ x.kind = "branch" => ~In(x.target, f.va, f.size)

LEMMA FunctionRefSays ==
  ASSUME LinkInv, phase = "done", NEW u \in DOMAIN units, NEW f \in Emitted(u),
         NEW r \in FunctionRefs(u, f)
  PROVE  \E x \in image.fields : \E a \in Looked(x) :
           r.field = x /\ r.name = a.name /\ r.addend = a.addend /\ FunctionRef(r, x)
<1>1. PICK x \in {y \in image.fields : Inside(y, f.va, f.size)} :
        r \in {Ref(x, {f}, Remap(f, x.at), a, x.kind # "abs" /\ a.name \in LocalNames(u, f)) :
                 a \in Answers(f, x)}
  BY DEF FunctionRefs
<1>2. PICK a \in Answers(f, x) :
        r = Ref(x, {f}, Remap(f, x.at), a, x.kind # "abs" /\ a.name \in LocalNames(u, f))
  BY <1>1
<1>3. x \in image.fields /\ Inside(x, f.va, f.size)
  BY <1>1
<1>4. x.kind \in {"branch", "entry", "rip", "abs"}
  BY <1>3, ImageTyped
<1>5. a \in Looked(x) /\ (x.kind = "branch" => ~In(x.target, f.va, f.size))
  <2>1. CASE x.kind = "branch"
    BY <2>1 DEF Answers, Looked, AsCode
  <2>2. CASE x.kind = "entry"
    BY <2>2 DEF Answers, Looked, AsCode
  <2>3. CASE x.kind \in {"rip", "abs"}
    BY <2>3 DEF Answers, Looked, AsCode
  <2> QED
    BY <1>4, <2>1, <2>2, <2>3
<1>6. /\ r.field = x /\ r.name = a.name /\ r.addend = a.addend
      /\ r.f = {f} /\ r.place = Remap(f, x.at)
  BY <1>2 DEF Ref
<1> QED
  BY <1>3, <1>5, <1>6 DEF FunctionRef

LEMMA RefSays ==
  ASSUME LinkInv, OwnersInv, phase = "done", NEW o \in Objects, NEW r \in Refs(o)
  PROVE  \E x \in image.fields : \E a \in Looked(x) :
           /\ r.field = x /\ r.name = a.name /\ r.addend = a.addend
           /\ FunctionRef(r, x) \/ (r.f = {} /\ x.kind = "abs")
<1>1. ASSUME NEW x \in image.fields, x.kind = "abs", NEW a \in ResolveData(x.target),
             NEW place, r = Ref(x, {}, place, a, FALSE)
      PROVE  /\ a \in Looked(x) /\ r.f = {}
             /\ r.field = x /\ r.name = a.name /\ r.addend = a.addend
  BY <1>1 DEF Ref, Looked, AsCode
<1>2. CASE o = 0
  <2>1. r \in SharedRefs
    BY <1>2 DEF Refs
  <2>2. PICK s \in SharedSections :
          r \in UNION {{Ref(x, {}, x.at - Section[s].lo, a, FALSE) : a \in ResolveData(x.target)} :
                  x \in {y \in image.fields : y.kind = "abs"
                           /\ Inside(y, Section[s].lo, Section[s].hi - Section[s].lo)}}
    BY <2>1 DEF SharedRefs
  <2>3. PICK x \in {y \in image.fields : y.kind = "abs"
                      /\ Inside(y, Section[s].lo, Section[s].hi - Section[s].lo)} :
          r \in {Ref(x, {}, x.at - Section[s].lo, a, FALSE) : a \in ResolveData(x.target)}
    BY <2>2
  <2>4. PICK a \in ResolveData(x.target) : r = Ref(x, {}, x.at - Section[s].lo, a, FALSE)
    BY <2>3
  <2> QED
    BY <1>1, <2>3, <2>4
<1>3. CASE o # 0
  <2>1. o \in DOMAIN units /\ r \in UnitRefs(o)
    BY <1>3, ObjectsOfUnits
  <2>2. \/ r \in UNION {FunctionRefs(o, f) : f \in Emitted(o)}
        \/ r \in UNION {ContribRefs(c) : c \in Contribs(o)}
    BY <2>1 DEF UnitRefs
  <2>3. CASE r \in UNION {FunctionRefs(o, f) : f \in Emitted(o)}
    <3>1. PICK f \in Emitted(o) : r \in FunctionRefs(o, f)
      BY <2>3
    <3> QED
      BY <2>1, <3>1, FunctionRefSays
  <2>4. CASE r \in UNION {ContribRefs(c) : c \in Contribs(o)}
    <3>1. PICK c \in Contribs(o) : r \in ContribRefs(c)
      BY <2>4
    <3>2. PICK x \in {y \in image.fields :
                        ~c.uninit /\ y.kind = "abs" /\ Inside(y, c.va, c.size)} :
            r \in {Ref(x, {}, x.at - c.va, a, FALSE) : a \in ResolveData(x.target)}
      BY <3>1 DEF ContribRefs
    <3>3. PICK a \in ResolveData(x.target) : r = Ref(x, {}, x.at - c.va, a, FALSE)
      BY <3>2
    <3> QED
      BY <1>1, <3>2, <3>3
  <2> QED
    BY <2>2, <2>3, <2>4
<1> QED
  BY <1>2, <1>3

\* The address s whose name a reference bears.
Bears(r, s) ==
  LET x == r.field
      n == r.name
  IN  \/ ByFunction(n, s, x.target) /\ (s = x.target \/ AsCode(x) \/ x.target \notin DOMAIN variables)
      \/ ~AsCode(x) /\ ByVariable(n, s, x.target)
      \/ s = x.target /\ ByLibrary(n, x.target)
      \/ ByPublic(n, s)
      \/ BySection(n, s)

LEMMA RefBears ==
  ASSUME LinkInv, OwnersInv, FoundInv, phase = "done", NEW o \in Objects, NEW r \in Refs(o)
  PROVE  /\ r.field \in image.fields
         /\ FunctionRef(r, r.field) \/ (r.f = {} /\ r.field.kind = "abs")
         /\ \E s \in Nat : r.addend = r.field.target - s /\ Bears(r, s)
<1>1. PICK x \in image.fields : \E a \in Looked(x) :
           /\ r.field = x /\ r.name = a.name /\ r.addend = a.addend
           /\ FunctionRef(r, x) \/ (r.f = {} /\ x.kind = "abs")
  BY RefSays
<1>2. PICK a \in Looked(x) :
           /\ r.field = x /\ r.name = a.name /\ r.addend = a.addend
           /\ FunctionRef(r, x) \/ (r.f = {} /\ x.kind = "abs")
  BY <1>1
<1>3. x.target \in Nat
  BY ImageTyped
<1>4. CASE AsCode(x)
  <2>1. PICK s \in Nat : a.addend = x.target - s
           /\ \/ ByFunction(a.name, s, x.target)
              \/ s = x.target /\ ByLibrary(a.name, x.target)
              \/ ByPublic(a.name, s)
    BY <1>3, <1>4, CodeFound DEF Looked
  <2>2. Bears(r, s)
    BY <1>2, <1>4, <2>1 DEF Bears
  <2> QED
    BY <1>2, <2>1, <2>2
<1>5. CASE ~AsCode(x)
  <2>1. PICK s \in Nat : a.addend = x.target - s
           /\ \/ ByFunction(a.name, s, x.target) /\ (s = x.target \/ x.target \notin DOMAIN variables)
              \/ ByVariable(a.name, s, x.target)
              \/ s = x.target /\ ByLibrary(a.name, x.target)
              \/ BySection(a.name, s)
    BY <1>3, <1>5, DataFound DEF Looked
  <2>2. Bears(r, s)
    BY <1>2, <1>5, <2>1 DEF Bears
  <2> QED
    BY <1>2, <2>1, <2>2
<1> QED
  BY <1>2, <1>4, <1>5

-----------------------------------------------------------------------------
(* Where a reference leads *)

Told == /\ LinkNamesApart /\ GlobalsApart /\ AddressesOnce /\ LibrariesApart
        /\ ProceduresWhole /\ DataDescribed /\ PrefixesClear

Found == LinkInv /\ OwnersInv /\ FoundInv /\ phase = "done"

LEMMA DefinitionTyped ==
  ASSUME Told, Found, NEW o \in Objects, NEW d \in Defs(o)
  PROVE  /\ d.va \in Nat
         /\ ~d.external => Static(d.name)
         /\ \/ d.f = {} /\ \E s \in DOMAIN Section :
                 d.name = StartOf(s) /\ d.va = Section[s].lo
            \/ /\ Named(d.name, d.va)
               /\ d.external => Source(d.name, d.va)
               /\ d.f = {} \/ \E u \in DOMAIN units : \E f \in Emitted(u) :
                                d \in FunctionDefs(f, EarlierNames(u, f))
<1>1. CASE \E s \in DOMAIN Section : d = Def(StartOf(s), TRUE, {}, Section[s].lo)
  <2>1. PICK s \in DOMAIN Section : d = Def(StartOf(s), TRUE, {}, Section[s].lo)
    BY <1>1
  <2>2. Section[s].lo \in Nat
    BY PeAssumption DEF PeAssumption
  <2>3. d.name = StartOf(s) /\ d.va = Section[s].lo /\ d.external /\ d.f = {}
    BY <2>1 DEF Def
  <2> QED
    BY <2>2, <2>3
<1>2. CASE \E v \in DOMAIN variables : d = DatumDef(v)
  <2>1. PICK v \in DOMAIN variables : d = DatumDef(v)
    BY <1>2
  <2>2. d.name = variables[v].name /\ d.va = v /\ d.external = variables[v].public /\ d.f = {}
    BY <2>1 DEF DatumDef, Def
  <2>3. v \in Nat /\ Named(d.name, d.va)
    BY <2>2, VariableTyped, VariableNamed DEF Found
  <2>4. d.external => Source(d.name, d.va)
    BY <2>2 DEF Found, OwnersInv, VariablesTrue
  <2>5. ~d.external => Static(d.name)
    BY <2>2 DEF Static
  <2> QED
    BY <2>2, <2>3, <2>4, <2>5
<1>3. CASE \E u \in DOMAIN units : \E f \in Emitted(u) :
             d \in FunctionDefs(f, EarlierNames(u, f))
  BY <1>3, FunctionDefAt DEF Told, Found
<1> QED
  BY <1>1, <1>2, <1>3, DefKinds DEF Found

\* What has the name of a reference is where the name was found.
LEMMA BoundThere ==
  ASSUME Told, Found, StaticsNear, StaticsTold, NEW o \in Objects, NEW r \in Refs(o),
         NEW d \in Binding(o, r), NEW s \in Nat, r.addend = r.field.target - s, Bears(r, s)
  PROVE  d.va = s
<1>1. PICK p \in Objects : d \in Defs(p) /\ d.name = r.name /\ (r.local => p = o)
                           /\ (~r.local => d.external)
  <2>1. CASE r.local
    BY <2>1 DEF Binding
  <2>2. CASE ~r.local
    <3>1. PICK e \in Externals : e[2].name = r.name /\ d = e[2]
      BY <2>2 DEF Binding
    <3>2. PICK p \in Objects : e \in {<<p, c>> : c \in {b \in Defs(p) : b.external}}
      BY DEF Externals
    <3> QED
      BY <2>2, <3>1, <3>2
  <2> QED
    BY <2>1, <2>2
<1>2. d.va \in Nat /\ r.field.target \in Nat
  BY <1>1, DefinitionTyped, RefBears, ImageTyped DEF Found
<1>3. CASE Static(r.name)
  <2>1. p = o
    BY <1>1, <1>3 DEF StaticsNear
  <2>2. d.va + r.addend = r.field.target
    BY <1>1, <1>3, <2>1 DEF StaticsTold
  <2> QED
    BY <1>2, <2>2
<1>4. CASE ~Static(r.name)
  <2>1. d.external
    BY <1>1, <1>4, DefinitionTyped
  <2>2. \/ Source(r.name, d.va)
        \/ \E t \in DOMAIN Section : r.name = StartOf(t) /\ d.va = Section[t].lo
    BY <1>1, <2>1, DefinitionTyped
  <2>3. ASSUME Source(r.name, s)
        PROVE  d.va = s
    BY <2>2, <2>3, OneAddress, NotAStart DEF Told
  <2>4. CASE s \in DOMAIN functions /\ r.name = functions[s].name
    <3>1. functions[s].public
      BY <1>4, <2>4 DEF Static
    <3>2. PICK k \in DOMAIN Modules : \E q \in Procedures(k) :
             q.va = s /\ functions[s].name = NameAt(s, OwnName(q)) /\ functions[s].public = q.global
      BY <2>4, FunctionTyped DEF Found
    <3>3. PICK q \in Procedures(k) :
             q.va = s /\ functions[s].name = NameAt(s, OwnName(q)) /\ functions[s].public = q.global
      BY <3>2
    <3>4. q \in Modules[k].records /\ Exported(q)
      BY <3>1, <3>3, ProcedureTyped DEF Exported
    <3>5. Source(NameAt(q.va, OwnName(q)), q.va)
      BY <3>4, NameSource DEF Found
    <3> QED
      BY <2>3, <2>4, <3>3, <3>5
  <2>5. CASE s \in DOMAIN variables /\ r.name = variables[s].name
    <3>1. variables[s].public
      BY <1>4, <2>5 DEF Static
    <3>2. Source(r.name, s)
      BY <2>5, <3>1 DEF Found, OwnersInv, VariablesTrue
    <3> QED
      BY <2>3, <3>2
  <2>6. CASE ByPublic(r.name, s)
    <3>1. Source(r.name, s)
      BY <2>6 DEF ByPublic, Found, FoundInv, CodeTrue, Source
    <3> QED
      BY <2>3, <3>1
  <2>7. CASE s = r.field.target /\ ByLibrary(r.name, s)
    <3>1. <<r.name, s>> \in {<<Imports[a], a>> : a \in DOMAIN Imports}
                \cup {<<Literals[a], a>> : a \in DOMAIN Literals}
                \cup {<<<<"__ImageBase">>, ImageBase>>}
      BY <2>7 DEF ByLibrary
    <3> DEFINE l == <<r.name, s>>
    <3>2. l[1] = r.name /\ l[2] = s
      OBVIOUS
    <3>3. /\ \A b \in Publics : b.name = l[1] => b.va = l[2]
          /\ \A k \in DOMAIN Modules : \A q \in Modules[k].records :
               q.va # 0 /\ OwnName(q) = l[1] => q.va = l[2]
          /\ \A t \in DOMAIN Section : l[1] # StartOf(t)
      BY <3>1 DEF Told, LibrariesApart
    <3> HIDE DEF l
    <3>4. Source(r.name, d.va)
      BY <2>2, <3>2, <3>3
    <3> QED
      BY <3>2, <3>3, <3>4, SourceNamed DEF Named
  <2>8. CASE BySection(r.name, s)
    <3>1. PICK t \in DOMAIN Section : r.name = StartOf(t) /\ s = Section[t].lo
      BY <2>8 DEF BySection
    <3>2. ~Source(r.name, d.va)
      BY <3>1, NotAStart DEF Told
    <3>3. PICK b \in DOMAIN Section : r.name = StartOf(b) /\ d.va = Section[b].lo
      BY <2>2, <3>2
    <3>4. StartOf(b)[2] = b /\ StartOf(t)[2] = t
      BY DEF StartOf
    <3> QED
      BY <3>1, <3>3, <3>4
  <2> QED
    BY <2>4, <2>5, <2>6, <2>7, <2>8 DEF Bears, ByFunction, ByVariable
<1> QED
  BY <1>3, <1>4

\* An address is in one function at most.
LEMMA OneFunction ==
  ASSUME AddressesOnce, FoundInv, NEW b \in DOMAIN functions, NEW c \in DOMAIN functions,
         NEW y \in Nat, In(y, b, functions[b].size), In(y, c, functions[c].size)
  PROVE  b = c
<1>1. PICK k \in DOMAIN Modules : \E r \in Procedures(k) :
        r.va = b /\ functions[b].size = r.len /\ b \in Nat /\ r.len \in Nat
  BY FunctionTyped
<1>2. PICK r \in Procedures(k) : r.va = b /\ functions[b].size = r.len /\ b \in Nat /\ r.len \in Nat
  BY <1>1
<1>3. PICK j \in DOMAIN Modules : \E q \in Procedures(j) :
        q.va = c /\ functions[c].size = q.len /\ c \in Nat /\ q.len \in Nat
  BY FunctionTyped
<1>4. PICK q \in Procedures(j) : q.va = c /\ functions[c].size = q.len /\ c \in Nat /\ q.len \in Nat
  BY <1>3
<1>5. (r.va < q.va => r.va + r.len <= q.va) /\ (q.va < r.va => q.va + q.len <= r.va)
  BY DEF AddressesOnce
<1> QED
  BY <1>2, <1>4, <1>5 DEF In

\* Everything that was described is found.
LEMMA AllFound ==
  ASSUME Found, NEW k \in DOMAIN Modules, NEW r \in Modules[k].records
  PROVE  Entered(r)
<1>1. modules = Len(Modules)
  BY DEF Found, OwnersInv, PhasesTrue
<1>2. k \in 1..modules
  BY <1>1, ModulesTyped
<1> QED
  BY <1>2 DEF Found, FoundInv, AllEntered

\* What is no function and in none is in no procedure.
LEMMA UnlistedOutside ==
  ASSUME Told, Found, NEW a \in Nat, Unlisted(a), NEW k \in DOMAIN Modules, NEW q \in Procedures(k)
  PROVE  ~In(a, q.va, q.len)
<1>1. SUFFICES ASSUME In(a, q.va, q.len) PROVE FALSE
  OBVIOUS
<1>2. q \in Modules[k].records /\ q.kind = "proc" /\ ~Dropped(q) /\ q.va \in Nat /\ q.len \in Nat
  BY ProcedureTyped DEF Procedures
<1>3. q.va \in DOMAIN functions
  BY <1>2, AllFound DEF Entered
<1>4. PICK j \in DOMAIN Modules : \E r \in Procedures(j) :
        r.va = q.va /\ functions[q.va].size = r.len
  BY <1>3, FunctionTyped DEF Found
<1>5. PICK r \in Procedures(j) : r.va = q.va /\ functions[q.va].size = r.len
  BY <1>4
<1>6. functions[q.va].size = q.len
  BY <1>5 DEF Told, AddressesOnce
<1>7. \A t \in DOMAIN functions : t <= a => t <= q.va
  <2>1. SUFFICES ASSUME NEW t \in DOMAIN functions, t <= a, ~(t <= q.va) PROVE FALSE
    OBVIOUS
  <2>2. PICK i \in DOMAIN Modules : \E c \in Procedures(i) : c.va = t /\ t \in Nat
    BY FunctionTyped DEF Found
  <2>3. PICK c \in Procedures(i) : c.va = t /\ t \in Nat
    BY <2>2
  <2>4. q.va < c.va => q.va + q.len <= c.va
    BY DEF Told, AddressesOnce
  <2> QED
    BY <1>1, <1>2, <2>1, <2>3, <2>4 DEF In
<1>8. q.va \in Floor(DOMAIN functions, a)
  BY <1>1, <1>3, <1>7 DEF Floor, In
<1>9. a < q.va + functions[q.va].size
  BY <1>1, <1>6 DEF In
<1>10. [name |-> functions[q.va].name, addend |-> a - q.va] \in Within(functions, a)
  BY <1>8, <1>9 DEF Within, Answer
<1> QED
  BY <1>10 DEF Unlisted

\* A function that is referred to by a name in it has the byte referred to.
LEMMA TargetInside ==
  ASSUME Told, Found, NEW r, r.field \in image.fields, NEW s \in Nat, Bears(r, s),
         Named(r.name, s), NEW b \in DOMAIN functions, In(s, b, functions[b].size)
  PROVE  s <= r.field.target /\ In(r.field.target, b, functions[b].size)
<1> DEFINE a == r.field.target
           n == r.name
<1>1. a \in Nat
  BY ImageTyped DEF Found
<1>2. PICK k \in DOMAIN Modules : \E q \in Procedures(k) :
        q.va = b /\ functions[b].size = q.len /\ b \in Nat /\ q.len \in Nat
  BY FunctionTyped DEF Found
<1>3. PICK q \in Procedures(k) :
        q.va = b /\ functions[b].size = q.len /\ b \in Nat /\ q.len \in Nat
  BY <1>2
<1> SUFFICES s <= a /\ In(a, b, functions[b].size)
  OBVIOUS
<1> HIDE DEF a, n
<1>4. CASE s = a
  BY <1>1, <1>4
<1>5. CASE ByFunction(n, s, a)
  <2>1. s \in DOMAIN functions /\ s <= a /\ a < s + functions[s].size
    BY <1>5 DEF ByFunction
  <2>2. functions[s].size \in Nat \ {0}
    BY <2>1, FunctionTyped DEF Found
  <2>3. In(s, s, functions[s].size)
    BY <2>2 DEF In
  <2>4. s = b
    BY <2>1, <2>3, OneFunction DEF Told, Found
  <2> QED
    BY <2>1, <2>4 DEF In
<1>6. CASE s \in DOMAIN variables /\ s <= a /\ a < s + variables[s].size
  <2>1. variables[s].size \in Nat
    BY <1>6, VariableTyped DEF Found
  <2>2. variables[s].size # 0
    BY <1>1, <1>6, <2>1
  <2>3. PICK j \in DOMAIN Modules : \E c \in Modules[j].records :
          c.kind # "proc" /\ c.va = s /\ variables[s] = VariableOf(c)
    <3>1. MadeOf(s, variables[s])
      BY <1>6 DEF Found, FoundInv, VariablesMade
    <3> QED
      BY <2>2, <3>1 DEF MadeOf
  <2>4. PICK c \in Modules[j].records :
          c.kind # "proc" /\ c.va = s /\ variables[s] = VariableOf(c)
    BY <2>3
  <2>5. c.kind = "data" /\ variables[s].size = TypeByteSize(c.type)
    BY <2>2, <2>4 DEF VariableOf
  <2>6. s + variables[s].size <= b + functions[b].size
    BY <1>3, <2>4, <2>5 DEF Told, ProceduresWhole
  <2> QED
    BY <1>1, <1>3, <1>6, <2>1, <2>6 DEF In
<1>7. CASE ~AsCode(r.field) /\ Unlisted(a) /\ s \in Floor(DOMAIN variables, a)
  <2>1. s \in DOMAIN variables /\ s <= a /\ \A t \in DOMAIN variables : t <= a => t <= s
    BY <1>7 DEF Floor
  <2>2. Described(s)
    <3>1. CASE s \in DOMAIN publicData
      <4>1. PICK p \in Publics : ~p.code /\ p.va = s
        BY <3>1 DEF Found, OwnersInv, VariablesTrue
      <4> QED
        BY <1>3, <4>1 DEF Told, ProceduresWhole
    <3>2. CASE s \notin DOMAIN publicData
      <4>1. MadeOf(s, variables[s])
        BY <2>1 DEF Found, FoundInv, VariablesMade
      <4> QED
        BY <3>2, <4>1 DEF MadeOf, Described
    <3> QED
      BY <3>1, <3>2
  <2>3. s \in q.va..(q.va + q.len - 1)
    BY <1>3 DEF In
  <2>4. ~(\E j \in DOMAIN Modules : \E p \in Procedures(j) : In(a, p.va, p.len))
    BY <1>1, <1>7, UnlistedOutside
  <2>5. PICK w \in (s + 1)..a : Described(w)
    <3>1. image \in Images
      BY ImageTyped DEF Found
    <3>2. \/ a < s
          \/ \E j \in DOMAIN Modules : \E p \in Procedures(j) : In(a, p.va, p.len)
          \/ \E w \in (s + 1)..a :
               Described(w) /\ \A j \in DOMAIN Modules : \A p \in Procedures(j) : ~In(w, p.va, p.len)
      BY <1>7, <2>2, <2>3, <3>1 DEF Told, DataDescribed, a
    <3> QED
      BY <1>1, <2>1, <2>4, <3>2
  <2>6. w \in DOMAIN variables
    <3>1. PICK j \in DOMAIN Modules : \E c \in Modules[j].records :
            c.kind # "proc" /\ c.va # 0 /\ c.va = w
      BY <2>5 DEF Described
    <3>2. PICK c \in Modules[j].records : c.kind # "proc" /\ c.va # 0 /\ c.va = w
      BY <3>1
    <3> QED
      BY <3>2, AllFound DEF Entered
  <2> QED
    BY <1>1, <2>1, <2>5, <2>6
<1>8. CASE ByPublic(n, s)
  <2>1. s \in DOMAIN publicCode /\ s \notin DOMAIN functions
    BY <1>8 DEF ByPublic
  <2>2. PICK p \in Publics : p.va = s
    BY <2>1 DEF Found, FoundInv, CodeTrue
  <2>3. s = b
    BY <1>3, <2>2 DEF Told, ProceduresWhole
  <2> QED
    BY <2>1, <2>3
<1>9. CASE BySection(n, s)
  <2>1. PICK t \in DOMAIN Section : n = StartOf(t)
    BY <1>9 DEF BySection
  <2> QED
    BY <2>1 DEF Told, GlobalsApart, Named, n
<1>10. \/ ByFunction(n, s, a) \/ s = a \/ ByPublic(n, s) \/ BySection(n, s)
       \/ s \in DOMAIN variables /\ s <= a /\ a < s + variables[s].size
       \/ ~AsCode(r.field) /\ Unlisted(a) /\ s \in Floor(DOMAIN variables, a)
  BY DEF Bears, ByVariable, a, n
<1> QED
  BY <1>4, <1>5, <1>6, <1>7, <1>8, <1>9, <1>10

\* No prefix is dropped between the name and the byte referred to.
LEMMA NoneBetween ==
  ASSUME Told, Found, NEW r, r.field \in image.fields, NEW s \in Nat, Bears(r, s),
         Named(r.name, s), FunctionRef(r, r.field) \/ r.field.kind = "abs",
         NEW b \in DOMAIN functions, functions[b].va = b,
         In(r.field.target, b, functions[b].size), In(s, b, functions[b].size)
  PROVE  \A p \in F3(functions[b]) : ~(s <= p /\ p <= r.field.target)
<1> DEFINE x == r.field
           a == r.field.target
           f == functions[b]
<1>1. SUFFICES ASSUME NEW p \in F3(f), s <= p, p <= a PROVE FALSE
  OBVIOUS
<1>2. a \in Nat /\ x.at \in Nat /\ image \in Images
  BY ImageTyped DEF Found
<1>3. p \in Nat /\ image.replaceRepRet /\ p \in RepRets(image) /\ In(p, b, f.size)
  BY PrefixTyped DEF Found
<1>4. PICK k \in DOMAIN Modules : \E q \in Procedures(k) : q.va = b /\ f.size = q.len
  BY FunctionTyped DEF Found
<1>5. PICK q \in Procedures(k) : q.va = b /\ f.size = q.len
  BY <1>4
<1>6. \/ a < p
      \/ x.kind = "branch" /\ In(x.at, b, f.size)
      \/ ~AsCode(x) /\ a # p /\ Described(a)
  BY <1>2, <1>3, <1>5 DEF Told, PrefixesClear
<1>7. ~(a < p)
  BY <1>1, <1>2, <1>3
<1>8. CASE x.kind = "branch" /\ In(x.at, b, f.size)
  <2>1. PICK u \in DOMAIN units : \E g \in Emitted(u) :
          Inside(x, g.va, g.size) /\ ~In(a, g.va, g.size)
    BY <1>8 DEF FunctionRef
  <2>2. PICK g \in Emitted(u) : Inside(x, g.va, g.size) /\ ~In(a, g.va, g.size)
    BY <2>1
  <2>3. g.va \in DOMAIN functions /\ functions[g.va] = g /\ g.va \in Nat /\ g.size \in Nat
    BY EmittedFound DEF Told, Found
  <2>4. In(x.at, g.va, g.size)
    BY <1>2, <2>2, <2>3, SplitAssumption DEF Inside, In, SplitAssumption
  <2>5. g.va = b
    BY <1>2, <1>8, <2>3, <2>4, OneFunction DEF Told, Found
  <2> QED
    BY <2>2, <2>3, <2>5
<1>9. CASE ~AsCode(x) /\ a # p /\ Described(a)
  <2>1. a \in DOMAIN variables
    <3>1. PICK j \in DOMAIN Modules : \E c \in Modules[j].records :
            c.kind # "proc" /\ c.va # 0 /\ c.va = a
      BY <1>9 DEF Described
    <3>2. PICK c \in Modules[j].records : c.kind # "proc" /\ c.va # 0 /\ c.va = a
      BY <3>1
    <3> QED
      BY <3>2, AllFound DEF Entered
  <2>2. s # a
    BY <1>1, <1>2, <1>3, <1>9
  <2>3. ~Unlisted(a)
    BY <1>2, <1>5, UnlistedOutside
  <2>4. CASE ByPublic(r.name, s)
    <3>1. s \in DOMAIN publicCode /\ s \notin DOMAIN functions
      BY <2>4 DEF ByPublic
    <3>2. PICK v \in Publics : v.va = s
      BY <3>1 DEF Found, FoundInv, CodeTrue
    <3>3. s = b
      BY <1>5, <3>2 DEF Told, ProceduresWhole
    <3> QED
      BY <3>1, <3>3
  <2>5. ~BySection(r.name, s)
    BY DEF BySection, Told, GlobalsApart, Named
  <2> QED
    BY <1>9, <2>1, <2>2, <2>3, <2>4, <2>5 DEF Bears, ByVariable
<1> QED
  BY <1>6, <1>7, <1>8, <1>9

LEMMA ReferenceLands ==
  ASSUME Told, Found, StaticsNear, StaticsTold, NEW o \in Objects, NEW r \in Refs(o),
         NEW d \in Binding(o, r)
  PROVE  Reached(d, r.addend) = {r.field.target}
<1> DEFINE a == r.field.target
<1>1. r.field \in image.fields /\ a \in Nat
  BY RefBears, ImageTyped DEF Found
<1>2. PICK s \in Nat : r.addend = a - s /\ Bears(r, s)
  BY RefBears DEF Found
<1>3. d.va = s
  BY <1>2, BoundThere
<1>4. PICK p \in Objects : d \in Defs(p) /\ d.name = r.name
  <2>1. CASE r.local
    BY <2>1 DEF Binding
  <2>2. CASE ~r.local
    <3>1. PICK e \in Externals : e[2].name = r.name /\ d = e[2]
      BY <2>2 DEF Binding
    <3>2. PICK p \in Objects : e \in {<<p, c>> : c \in {b \in Defs(p) : b.external}}
      BY DEF Externals
    <3> QED
      BY <3>1, <3>2
  <2> QED
    BY <2>1, <2>2
<1>5. CASE d.f = {}
  <2>1. Reached(d, r.addend) = {d.va + r.addend}
    BY <1>5 DEF Reached
  <2> QED
    BY <1>1, <1>2, <1>3, <2>1
<1>6. CASE d.f # {}
  <2>1. /\ Named(r.name, s)
        /\ \E u \in DOMAIN units : \E f \in Emitted(u) : d \in FunctionDefs(f, EarlierNames(u, f))
    BY <1>3, <1>4, <1>6, DefinitionTyped
  <2>2. PICK u \in DOMAIN units : \E f \in Emitted(u) : d \in FunctionDefs(f, EarlierNames(u, f))
    BY <2>1
  <2>3. PICK f \in Emitted(u) : d \in FunctionDefs(f, EarlierNames(u, f))
    BY <2>2
  <2>4. /\ f.va \in DOMAIN functions /\ functions[f.va] = f
        /\ f.va \in Nat /\ f.size \in Nat
    BY EmittedFound DEF Told, Found
  <2>5. d.f = {f} /\ In(s, f.va, f.size)
    BY <1>3, <2>3, FunctionDefAt DEF Told, Found, In
  <2>6. s <= a /\ In(a, f.va, f.size)
    BY <1>1, <1>2, <2>1, <2>4, <2>5, TargetInside
  <2>7. \A q \in F3(f) : ~(s <= q /\ q <= a)
    <3>1. FunctionRef(r, r.field) \/ r.field.kind = "abs"
      BY RefBears DEF Found
    <3> QED
      BY <1>1, <1>2, <2>1, <2>4, <2>5, <2>6, <3>1, NoneBetween
  <2>8. F3(f) \subseteq Nat
    BY PrefixTyped DEF Found
  <2>9. a \in Left(f)
    BY <1>1, <2>4, <2>6, <2>7 DEF Left, In
  <2>10. \A q \in F3(f) : ~(s <= q /\ q < a)
    BY <1>1, <2>7, <2>8
  <2>11. Reached(d, r.addend) = {a}
    <3>1. d.va \in Nat /\ d.va <= a /\ d.f = {f}
      BY <1>3, <2>5, <2>6
    <3>2. NoneDropped(f, d.va, a)
      BY <1>3, <2>10 DEF NoneDropped
    <3>3. a \in Nat /\ r.addend = a - d.va
      BY <1>1, <1>2, <1>3
    <3>4. f.va \in Nat /\ f.size \in Nat
      BY <2>4
    <3> HIDE DEF a
    <3>5. Remap(f, a) = Remap(f, d.va) + (a - d.va)
      BY <2>8, <3>1, <3>2, <3>3, <3>4, RemapShift
    <3>6. /\ Remap(f, a) + 1 \in DOMAIN Stripped(f)
          /\ Stripped(f)[Remap(f, a) + 1] = a
      BY <2>8, <2>9, <3>4, LeftAt
    <3>7. (CHOOSE g \in d.f : TRUE) = f /\ d.f # {}
      BY <3>1
    <3> QED
      BY <3>3, <3>5, <3>6, <3>7 DEF Reached
  <2> QED
    BY <2>11
<1> QED
  BY <1>5, <1>6

\* A relocation is on its field.
LEMMA ReferenceSits ==
  ASSUME Told, Found, NEW o \in Objects, NEW r \in Refs(o), NEW f \in r.f, NEW k \in 1..Width
  PROVE  Stripped(f)[r.place + k] = r.field.at + k - 1
<1> DEFINE x == r.field
           b == x.at + k - 1
<1>1. x \in image.fields /\ x.at \in Nat /\ image \in Images /\ FunctionRef(r, x)
  BY RefBears, ImageTyped DEF Found
<1>2. PICK u \in DOMAIN units : \E g \in Emitted(u) :
        r.f = {g} /\ r.place = Remap(g, x.at) /\ Inside(x, g.va, g.size)
  BY <1>1 DEF FunctionRef
<1>3. f \in Emitted(u) /\ r.place = Remap(f, x.at) /\ Inside(x, f.va, f.size)
  BY <1>2
<1>4. f.va \in Nat /\ f.size \in Nat
  BY <1>3, EmittedFound DEF Told, Found
<1>5. F3(f) \subseteq Nat
  BY PrefixTyped DEF Found
<1>6. \A p \in F3(f) : ~In(p, x.at, Width)
  BY <1>1, PrefixTyped DEF Told, Found, PrefixesClear
<1>7. b \in Nat /\ x.at <= b /\ b < x.at + Width
  BY <1>1, SplitAssumption DEF SplitAssumption
<1> HIDE DEF b
<1>8. b \in Left(f)
  <2>1. b \notin F3(f)
    BY <1>1, <1>6, <1>7 DEF In
  <2>2. f.va <= b /\ b < f.va + f.size
    BY <1>1, <1>3, <1>4, <1>7, SplitAssumption DEF Inside, SplitAssumption
  <2> QED
    BY <1>4, <1>7, <2>1, <2>2 DEF Left
<1>9. NoneDropped(f, x.at, b)
  BY <1>1, <1>5, <1>6, <1>7, SplitAssumption DEF NoneDropped, In, SplitAssumption
<1>10. Remap(f, b) = Remap(f, x.at) + (b - x.at)
  BY <1>1, <1>4, <1>5, <1>7, <1>9, RemapShift
<1>11. Stripped(f)[Remap(f, b) + 1] = b
  BY <1>4, <1>5, <1>8, LeftAt
<1>12. Remap(f, x.at) \in Int
  <2>1. IsFiniteSet({p \in F3(f) : p < x.at})
    <3> DEFINE S == {p \in F3(f) : p < x.at}
    <3>1. S \in SUBSET Nat /\ \A p \in S : p <= x.at
      BY <1>1, <1>5
    <3> HIDE DEF S
    <3>2. IsFiniteSet(S)
      BY <1>1, <3>1, FS_BoundedSetOfNaturals
    <3> QED
      BY <3>2 DEF S
  <2>2. Cardinality({p \in F3(f) : p < x.at}) \in Nat
    BY <2>1, FS_CardinalityType
  <2> QED
    BY <1>1, <1>4, <2>2 DEF Remap
<1>13. Remap(f, b) + 1 = r.place + k
  BY <1>1, <1>3, <1>10, <1>12 DEF b
<1> QED
  BY <1>11, <1>13 DEF b

\* In whatever order the records of the modules come and the workers finish, and
\* whichever of them fail, every relocation is on its field and leads to the byte
\* the field referred to, across dropped prefixes and by whatever name the address
\* was found (resolve_code, resolve_data, remap_after_strip).
THEOREM ReferencesArrive ==
  ASSUME LinkNamesApart, GlobalsApart, AddressesOnce, DataHoused,
         LibrariesApart, ProceduresWhole, DataDescribed, PrefixesClear
  PROVE  Spec /\ []StaticsNear /\ []StaticsTold => []ReferencesReach
<1>1. Init => LinkInv /\ OwnersInv /\ FoundInv
  <2>1. Init => LinkInv
    BY DEF Init, IndexInit, LinkInv, KeptInv, GlobalsTrue, LinkNamesKept, NamesGiven, NamesTrue,
           UnitsTrue, PublicsFirst, DiskTrue
  <2> QED
    BY <2>1, InitOwners, InitFound
<1>2. LinkInv /\ OwnersInv /\ FoundInv /\ [Next]_vars => (LinkInv /\ OwnersInv /\ FoundInv)'
  BY StepLinks, StepOwners, StepFound
<1>3. Told
  BY DEF Told
<1>4. LinkInv /\ OwnersInv /\ FoundInv /\ StaticsNear /\ StaticsTold => ReferencesReach
  <2>1. SUFFICES ASSUME Found, StaticsNear, StaticsTold, NEW o \in Objects, NEW r \in Refs(o)
                 PROVE  /\ \A f \in r.f : \A k \in 1..Width :
                             Stripped(f)[r.place + k] = r.field.at + k - 1
                        /\ \A d \in Binding(o, r) : Reached(d, r.addend) = {r.field.target}
    BY DEF ReferencesReach, Found
  <2> QED
    BY <1>3, <2>1, ReferenceLands, ReferenceSits
<1> QED
  BY <1>1, <1>2, <1>4, PTL DEF Spec
=============================================================================
