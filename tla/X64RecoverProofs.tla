-------------------------- MODULE X64RecoverProofs --------------------------
(***************************************************************************)
(* What clearing the marks of written registers is enough for: in code     *)
(* that reads a register as a pointer only where the lines above agree     *)
(* with what it holds, the scan never relocates bytes that designate no    *)
(* address, however long the function is, whatever its instructions, its   *)
(* tables and what they happen to decode as (RelocationsReal).  And what   *)
(* the scan finds is enough to link the function anywhere: with tables     *)
(* read once each, every field designates what it did (FieldsArrive).      *)
(***************************************************************************)
EXTENDS X64Recover, TLAPS

\* A field a relocation of thread-local storage may lie on.
LooksThreadLocal(f) ==
  f.kind = "secrel" \/ (f.kind = "const" /\ f.to \in Secrel)

\* A register the scan believes in was last written by a load of the base.
TrackerIsTrue == imgbase \subseteq written /\ imgbase \subseteq BaseRegisters

RelocsOnFields ==
  \A r \in relocs : \E f \in fields :
    /\ f.at = r.at
    /\ r.kind = "secrel" => tlsContext /\ LooksThreadLocal(f)
    /\ r.kind # "secrel" => f.kind = r.kind

CandidatesOnFields ==
  \A r \in candidates : r.kind = "secrel" /\ \E f \in fields : f.at = r.at /\ LooksThreadLocal(f)

TypeInv == tail \in Seq(Nat) /\ tlsContext \in BOOLEAN

IInv == TypeInv /\ TrackerIsTrue /\ RelocsOnFields /\ CandidatesOnFields

-----------------------------------------------------------------------------

\* The entries the scan finds in a table are entries of it: a word that points
\* into the function is not the zero that ends a table.
LEMMA EntriesAreFields ==
  ASSUME tail \in Seq(Nat), NEW table \in Int, NEW k \in Entries(table)
  PROVE  \E f \in TableFields(table) : f.kind = "rva" /\ f.at = At(k)
<1>1. k \in 1..Len(tail) /\ At(k) >= table
  BY DEF Entries
<1>2. \A j \in 1..k : At(j) >= table => tail[j] # 0
  <2>1. SUFFICES ASSUME NEW j \in 1..k, At(j) >= table PROVE tail[j] # 0
    OBVIOUS
  <2>2. tail[j] >= Own
    BY <2>1 DEF Entries
  <2>3. tail[j] \in Nat
    BY <1>1
  <2> QED
    BY <2>2, <2>3, RecoverAssumption
<1>3. Field("rva", At(k), tail[k], 0) \in TableFields(table)
  BY <1>1, <1>2 DEF TableFields
<1> QED
  BY <1>3 DEF Field

\* Every relocation of an operand that goes through the image base lies on
\* that operand's displacement or on an entry of the table it reads.
LEMMA BaseRelocsOnFields ==
  ASSUME tail \in Seq(Nat), NEW insn \in Insn, NEW r \in BaseRelocs(insn)
  PROVE  r.kind = "rva" /\ \E f \in BaseFields(insn) : f.kind = "rva" /\ f.at = r.at
<1> DEFINE a == Base + insn.target
<1>1. Field("rva", offset + insn.at, a, 0) \in BaseFields(insn)
  BY DEF BaseFields
<1>2. CASE ~Intra(a)
  <2>1. r.kind = "rva" /\ r.at = offset + insn.at
    BY <1>2 DEF BaseRelocs, Relocs
  <2> QED
    BY <1>1, <2>1 DEF Field
<1>3. CASE Intra(a)
  <2>1. r \in TableRelocs(insn, a - Own)
    BY <1>3 DEF BaseRelocs
  <2>2. a - Own \in Int
    BY RecoverAssumption DEF Insn
  <2>3. CASE r \in Relocs("rva", offset + insn.at, {[sym |-> Own, addend |-> a - Own]}, 0)
    <3>1. r.kind = "rva" /\ r.at = offset + insn.at
      BY <2>3 DEF Relocs
    <3> QED
      BY <1>1, <3>1 DEF Field
  <2>4. CASE \E k \in Entries(a - Own) : r \in Relocs("rva", At(k), ResolveCode(tail[k]), 0)
    <3>1. PICK k \in Entries(a - Own) : r \in Relocs("rva", At(k), ResolveCode(tail[k]), 0)
      BY <2>4
    <3>2. r.kind = "rva" /\ r.at = At(k)
      BY <3>1 DEF Relocs
    <3>3. \E f \in TableFields(a - Own) : f.kind = "rva" /\ f.at = At(k)
      BY <2>2, EntriesAreFields
    <3>4. TableFields(a - Own) \subseteq BaseFields(insn)
      BY <1>3 DEF BaseFields
    <3> QED
      BY <3>2, <3>3, <3>4
  <2> QED
    BY <2>1, <2>3, <2>4 DEF TableRelocs
<1> QED
  BY <1>2, <1>3

-----------------------------------------------------------------------------

LEMMA InitIInv == Init => IInv
<1> SUFFICES ASSUME Init PROVE IInv
  OBVIOUS
<1>1. tail \in Seq(Nat)
  BY RecoverAssumption DEF Init
<1> QED
  BY <1>1 DEF Init, IInv, TypeInv, TrackerIsTrue, RelocsOnFields, CandidatesOnFields

\* An instruction of the code: the mark of a register it writes is gone, and
\* what it relocates is what it designates.
LEMMA VisitIInv ==
  ASSUME IInv, NEW insn \in Insns, Visit(insn), "reuse" \notin Admitted
  PROVE  IInv'
<1> USE DEF IInv
<1>1. insn \in Insn /\ (insn.m = "movimm" => insn.mem = "none")
  BY RecoverAssumption
<1>2. insn.m # "invalid" /\ WellFormed(insn) /\ Scan(insn)
  BY DEF Visit, WellFormed
<1>3. /\ tlsContext' = (tlsContext \/ insn.gs)
      /\ candidates' = candidates \cup ThreadLocal(insn)
      /\ relocs' = relocs \cup (IF IsBranch(insn) THEN BranchRelocs(insn) ELSE MemoryRelocs(insn))
      /\ imgbase' = Cleared(insn) \cup (IF Loads(insn) THEN {insn.dst} ELSE {})
  BY <1>2 DEF Scan
<1>4. fields' = fields \cup FieldsOf(insn) /\ tail' = tail
      /\ written' = (written \ insn.writes) \cup (IF Loads(insn) THEN {insn.dst} ELSE {})
  BY DEF Visit
<1>5. TypeInv'
  BY <1>1, <1>3, <1>4 DEF TypeInv, Insn
<1>6. TrackerIsTrue'
  <2>1. Cleared(insn) \subseteq written \ insn.writes
    BY ReportAssumption DEF Cleared, TrackerIsTrue
  <2>2. Loads(insn) => insn.dst \in BaseRegisters
    BY DEF BaseRegisters
  <2>3. Cleared(insn) \subseteq BaseRegisters
    BY DEF Cleared, TrackerIsTrue
  <2> QED
    BY <1>3, <1>4, <2>1, <2>2, <2>3 DEF TrackerIsTrue
<1>7. \A r \in (IF IsBranch(insn) THEN BranchRelocs(insn) ELSE MemoryRelocs(insn)) :
        r.kind # "secrel" /\ \E f \in FieldsOf(insn) : f.at = r.at /\ f.kind = r.kind
  <2> SUFFICES ASSUME NEW r \in (IF IsBranch(insn) THEN BranchRelocs(insn) ELSE MemoryRelocs(insn))
               PROVE  r.kind # "secrel" /\ \E f \in FieldsOf(insn) : f.at = r.at /\ f.kind = r.kind
    OBVIOUS
  <2>1. CASE IsBranch(insn)
    <3>1. insn.len >= 5 /\ r.kind = "rel" /\ r.at = offset + insn.len - 4
      BY <2>1 DEF BranchRelocs, Relocs
    <3>2. Field("rel", offset + insn.len - 4, insn.target, 0) \in FieldsOf(insn)
      BY <2>1, <3>1 DEF FieldsOf
    <3> QED
      BY <3>1, <3>2 DEF Field
  <2>2. CASE ~IsBranch(insn) /\ insn.mem = "rip"
    <3>1. r.kind = "rel" /\ r.at = offset + insn.at
      BY <2>2 DEF MemoryRelocs, RipRelocs, Relocs
    <3>2. Field("rel", offset + insn.at, insn.target, insn.imm) \in FieldsOf(insn)
      BY <2>2 DEF FieldsOf
    <3> QED
      BY <3>1, <3>2 DEF Field
  <2>3. CASE ~IsBranch(insn) /\ insn.mem # "rip"
    <3>1. insn.mem = "reg" /\ insn.base \in Cleared(insn) /\ r \in BaseRelocs(insn)
      BY <2>3 DEF MemoryRelocs
    <3>2. insn.base \in written
      BY <3>1 DEF Cleared, TrackerIsTrue
    <3>3. holds[insn.base] = {TRUE}
      BY <1>2, <3>1, <3>2 DEF WellFormed
    <3>4. FieldsOf(insn) = BaseFields(insn)
      BY <2>3, <3>1, <3>3 DEF FieldsOf
    <3> QED
      BY <1>1, <3>1, <3>4, BaseRelocsOnFields DEF TypeInv
  <2> QED
    BY <2>1, <2>2, <2>3
<1>8. RelocsOnFields'
  BY <1>3, <1>4, <1>7 DEF RelocsOnFields, LooksThreadLocal
<1>9. \A r \in ThreadLocal(insn) :
        r.kind = "secrel" /\ \E f \in FieldsOf(insn) : f.at = r.at /\ LooksThreadLocal(f)
  <2> SUFFICES ASSUME NEW r \in ThreadLocal(insn)
               PROVE  r.kind = "secrel" /\ \E f \in FieldsOf(insn) : f.at = r.at /\ LooksThreadLocal(f)
    OBVIOUS
  <2>1. insn.m = "movimm" /\ insn.target \in Secrel /\ r.kind = "secrel"
        /\ r.at = offset + insn.at
    BY DEF ThreadLocal, Relocs
  <2>2. ~IsBranch(insn) /\ insn.mem # "rip" /\ insn.mem # "reg"
    BY <1>1, <2>1 DEF IsBranch
  <2>3. Field(IF insn.tls THEN "secrel" ELSE "const", offset + insn.at, insn.target, 0)
          \in FieldsOf(insn)
    BY <2>1, <2>2 DEF FieldsOf
  <2> QED
    BY <2>1, <2>3 DEF Field, LooksThreadLocal
<1>10. CandidatesOnFields'
  BY <1>3, <1>4, <1>9 DEF CandidatesOnFields, LooksThreadLocal
<1> QED
  BY <1>5, <1>6, <1>8, <1>10

\* What the tables decode as relocates nothing: no register it goes through
\* was ever loaded with the base.
LEMMA JunkIInv ==
  ASSUME IInv, NEW insn \in Junk, VisitJunk(insn)
  PROVE  IInv'
<1> USE DEF IInv
<1>1. CASE insn.m = "invalid"
  BY <1>1 DEF VisitJunk, Scan, TypeInv, TrackerIsTrue, RelocsOnFields, CandidatesOnFields,
              LooksThreadLocal
<1>2. CASE insn.m # "invalid"
  <2>1. ~IsBranch(insn) /\ insn.m # "movimm" /\ insn.mem # "rip" /\ ~insn.gs
        /\ (insn.mem = "reg" => insn.base \notin BaseRegisters)
    BY JunkAssumption
  <2>2. insn \in Insn
    BY RecoverAssumption
  <2>3. MemoryRelocs(insn) = {} /\ ThreadLocal(insn) = {} /\ ~Loads(insn)
    BY <2>1 DEF MemoryRelocs, ThreadLocal, Loads, Cleared, TrackerIsTrue
  <2>4. /\ tlsContext' = tlsContext /\ candidates' = candidates /\ relocs' = relocs
        /\ imgbase' = Cleared(insn)
    <3>1. /\ tlsContext' = (tlsContext \/ insn.gs)
          /\ candidates' = candidates \cup ThreadLocal(insn)
          /\ relocs' = relocs \cup (IF IsBranch(insn) THEN BranchRelocs(insn)
                                    ELSE MemoryRelocs(insn))
          /\ imgbase' = Cleared(insn) \cup (IF Loads(insn) THEN {insn.dst} ELSE {})
      BY <1>2 DEF VisitJunk, Scan
    <3>2. tlsContext' = tlsContext
      BY <2>1, <3>1 DEF TypeInv
    <3>3. candidates' = candidates
      BY <2>3, <3>1, Zenon
    <3>4. relocs' = relocs
      BY <2>1, <2>3, <3>1
    <3>5. imgbase' = Cleared(insn)
      BY <2>3, <3>1
    <3> QED
      BY <3>2, <3>3, <3>4, <3>5
  <2> QED
    BY <2>4 DEF VisitJunk, Cleared, TypeInv, TrackerIsTrue, RelocsOnFields,
                CandidatesOnFields, LooksThreadLocal
<1> QED
  BY <1>1, <1>2

\* Offsets are committed only after the access to thread-local storage.
LEMMA ReturnIInv ==
  ASSUME IInv, Return
  PROVE  IInv'
<1> USE DEF IInv
<1>1. relocs' \subseteq relocs \cup (IF tlsContext THEN candidates ELSE {})
  BY DEF Return, Committed
<1>2. candidates' = {}
  BY DEF Return
<1>3. fields' = fields /\ tail' = tail /\ tlsContext' = tlsContext /\ imgbase' = imgbase
      /\ written' = written
  BY DEF Return
<1>4. RelocsOnFields'
  BY <1>1, <1>3 DEF RelocsOnFields, CandidatesOnFields, LooksThreadLocal
<1> QED
  BY <1>2, <1>3, <1>4 DEF TypeInv, TrackerIsTrue, CandidatesOnFields

LEMMA StepIInv ==
  ASSUME IInv, [Next]_vars, "reuse" \notin Admitted
  PROVE  IInv'
<1>1. CASE \E insn \in Insns : Visit(insn)
  BY <1>1, VisitIInv
<1>2. CASE \E insn \in Junk : VisitJunk(insn)
  BY <1>2, JunkIInv
<1>3. CASE Return
  BY <1>3, ReturnIInv
<1>4. CASE Label \/ Pad \/ Finished \/ UNCHANGED vars
  BY <1>4 DEF Label, Pad, Finished, vars, IInv, TypeInv, TrackerIsTrue, RelocsOnFields,
              CandidatesOnFields, LooksThreadLocal
<1> QED
  BY <1>1, <1>2, <1>3, <1>4 DEF Next

\* Every relocation the scan recovers lies on a field of its kind, for every
\* function of any length over any instructions whose writes are reported.
THEOREM RelocationsReal ==
  ASSUME "reuse" \notin Admitted
  PROVE  Spec => []FieldsReal
<1>1. Init => IInv
  BY InitIInv
<1>2. IInv /\ [Next]_vars => IInv'
  BY StepIInv
<1>3. IInv => FieldsReal
  BY DEF IInv, TypeInv, RelocsOnFields, LooksThreadLocal, FieldsReal, Compiled
<1> QED
  BY <1>1, <1>2, <1>3, PTL DEF Spec

-----------------------------------------------------------------------------
(* Linking again *)

\* What a relocation of an address means to the linker is what the field meant.
Right(r, f) ==
  /\ r.kind = f.kind /\ r.trailing = f.imm
  /\ Placed[r.sym] \in Int /\ r.addend \in Int
  /\ Placed[r.sym] + r.addend = Moved(f.to)

\* A field of an address has the one relocation it needs among some, or moves
\* with the function by itself.
Relocated(f, R) ==
  /\ \A r \in R : r.at = f.at => Right(r, f)
  /\ \A r, q \in R : r.at = f.at /\ q.at = f.at => r = q
  /\ (\E r \in R : r.at = f.at) \/ (f.kind = "rel" /\ Intra(f.to))

\* A constant has one if it may be the offset of a thread-local variable.
OffsetOf(f, R) ==
  /\ \A r \in R : r.at = f.at =>
       r.kind = "secrel" /\ r.sym = f.to /\ r.addend = 0 /\ f.to \in Secrel
  /\ \A r, q \in R : r.at = f.at /\ q.at = f.at => r = q
  /\ f.to \in Secrel => \E r \in R : r.at = f.at

Free(f, R) == \A r \in R : r.at # f.at

AddressesKept == \A f \in fields : f.kind \in {"rel", "rva"} => Relocated(f, relocs)

ConstantsKept ==
  \A f \in fields : f.kind \in {"secrel", "const"} =>
    /\ ~done => Free(f, relocs) /\ OffsetOf(f, candidates)
    /\ done => IF tlsContext THEN OffsetOf(f, relocs) ELSE Free(f, relocs)

Shape(f) ==
  /\ f.kind \in {"rel", "rva", "secrel", "const"}
  /\ f.at \in Nat /\ f.to \in Nat /\ f.imm \in Nat
  /\ f.kind = "secrel" => f.to \in Secrel

\* Fields lie apart: those of the code in the instructions read so far.
FieldsApart ==
  /\ \A f \in fields : Shape(f) /\ (f.at < offset \/ f.at >= CodeSize)
  /\ \A f, g \in fields : f.at = g.at => f = g

\* Those behind the code in a table that was read and follows no entry.
Begins(k) == k > 1 => tail[k - 1] = 0

InTable(f, g) ==
  g.kind = "rva" /\ \E k \in 1..Len(tail) : /\ g.to = Own + At(k) /\ Begins(k)
                                            /\ f \in TableFields(At(k))

TablesRead == \A f \in fields : f.at >= CodeSize => \E g \in fields : InTable(f, g)

\* As long as code is read, a mark is gone only when the register was written.
TrackerComplete == tail \in Tails /\ offset \in Nat /\ (offset <= CodeSize => written \subseteq imgbase)

ReachInv ==
  IInv /\ TrackerComplete /\ FieldsApart /\ TablesRead /\ AddressesKept /\ ConstantsKept

-----------------------------------------------------------------------------
(* What addresses resolve to *)

\* At most one name covers an address, and none the base.
LEMMA Covers ==
  ASSUME SymbolsApart, NEW a \in Nat, NEW names \in SUBSET DOMAIN Symbols, Covering(a, names) # {}
  PROVE  LET s == CHOOSE t \in DOMAIN Symbols : t <= a /\ a < t + Symbols[t]
         IN  /\ Covering(a, names) = {[sym |-> s, addend |-> a - s]}
             /\ s \in DOMAIN Symbols /\ s \in Nat /\ a # Base
<1> DEFINE C(t) == t <= a /\ a < t + Symbols[t]
           s == CHOOSE t \in DOMAIN Symbols : C(t)
<1>1. PICK t \in names : C(t)
  BY DEF Covering
<1>2. s \in DOMAIN Symbols /\ C(s)
  BY <1>1
<1>3. \A u \in DOMAIN Symbols : C(u) => u = s
  <2> SUFFICES ASSUME NEW u \in DOMAIN Symbols, C(u) PROVE u = s
    OBVIOUS
  <2> HIDE DEF s
  <2>1. u \in Nat /\ s \in Nat /\ Symbols[u] \in Nat /\ Symbols[s] \in Nat
    BY <1>2 DEF SymbolsApart
  <2>2. ~(u < s) /\ ~(s < u)
    BY <1>2, <2>1 DEF SymbolsApart
  <2> QED
    BY <2>1, <2>2
<1> HIDE DEF s
<1>4. {u \in names : C(u)} = {s}
  BY <1>1, <1>3
<1>5. Covering(a, names) = {[sym |-> s, addend |-> a - s]}
  BY <1>4 DEF Covering
<1>6. a # Base
  <2>1. ASSUME a = Base PROVE FALSE
    <3>1. [sym |-> t, addend |-> a - t] \in Covering(a, DOMAIN Symbols)
      BY <1>1 DEF Covering
    <3> QED
      BY <2>1, <3>1 DEF SymbolsApart
  <2> QED
    BY <2>1
<1> QED
  BY <1>2, <1>5, <1>6 DEF s, SymbolsApart

\* What a name or the function resolves to is one symbol, and the linker moves
\* the address with it.
Resolved(a, to) ==
  \E x : /\ to = {x} /\ Placed[x.sym] \in Int /\ x.addend \in Int
         /\ Placed[x.sym] + x.addend = Moved(a)

LEMMA Places ==
  ASSUME SymbolsApart
  PROVE  /\ Placed[Own] \in Int /\ Placed[Base] \in Int
         /\ \A s \in DOMAIN Symbols : Placed[s] \in Int
BY DEF SymbolsApart

LEMMA IntraResolves ==
  ASSUME SymbolsApart, NEW a \in Nat, Intra(a)
  PROVE  Resolved(a, {[sym |-> Own, addend |-> a - Own]})
<1> DEFINE x == [sym |-> Own, addend |-> a - Own]
<1>1. Moved(a) = Placed[Own] + (a - Own)
  BY DEF Moved
<1>2. x.sym = Own /\ x.addend = a - Own /\ a - Own \in Int
  BY RecoverAssumption
<1> HIDE DEF x
<1>3. Resolved(a, {x})
  BY <1>1, <1>2, Places DEF Resolved
<1> QED
  BY <1>3 DEF x

LEMMA NameResolves ==
  ASSUME SymbolsApart, NEW a \in Nat, ~Intra(a), NEW names \in SUBSET DOMAIN Symbols,
         Covering(a, names) # {}
  PROVE  Resolved(a, Covering(a, names)) /\ a # Base
<1> DEFINE s == CHOOSE t \in DOMAIN Symbols : t <= a /\ a < t + Symbols[t]
           x == [sym |-> s, addend |-> a - s]
<1>1. Covering(a, names) = {x} /\ s \in DOMAIN Symbols /\ s \in Nat /\ a # Base
  BY Covers
<1>2. Moved(a) = Placed[s] + (a - s)
  BY <1>1 DEF Moved
<1> HIDE DEF s
<1>3. x.sym = s /\ x.addend = a - s /\ a - s \in Int
  BY <1>1
<1> HIDE DEF x
<1> QED
  BY <1>1, <1>2, <1>3, Places DEF Resolved

LEMMA CodeResolves ==
  ASSUME SymbolsApart, NEW a \in Nat, Intra(a) \/ Covering(a, Code) # {}
  PROVE  Resolved(a, ResolveCode(a))
<1>1. CASE Intra(a)
  BY <1>1, IntraResolves DEF ResolveCode
<1>2. CASE ~Intra(a)
  BY <1>2, NameResolves DEF ResolveCode, SymbolsApart
<1> QED
  BY <1>1, <1>2

LEMMA DataResolves ==
  ASSUME SymbolsApart, NEW a \in Nat,
         Intra(a) \/ a = Base \/ Covering(a, DOMAIN Symbols) # {}
  PROVE  Resolved(a, ResolveData(a))
<1>1. CASE a = Base
  <2> DEFINE x == [sym |-> Base, addend |-> 0]
  <2>1. ~Intra(a)
    BY <1>1, RecoverAssumption DEF Intra, SymbolsApart
  <2>2. Moved(a) = Placed[Base] /\ ResolveData(a) = {x}
    BY <1>1, <2>1 DEF Moved, ResolveData
  <2>3. x.sym = Base /\ x.addend = 0
    OBVIOUS
  <2> HIDE DEF x
  <2> QED
    BY <2>2, <2>3, Places DEF Resolved
<1>2. CASE a # Base /\ Intra(a)
  BY <1>2, IntraResolves DEF ResolveData
<1>3. CASE a # Base /\ ~Intra(a)
  BY <1>3, NameResolves DEF ResolveData
<1> QED
  BY <1>1, <1>2, <1>3

\* A field that resolves gets one relocation, the right one.
LEMMA OneRelocation ==
  ASSUME NEW kind, NEW at, NEW to, NEW imm, NEW xs, Resolved(to, xs)
  PROVE  Relocated(Field(kind, at, to, imm), Relocs(kind, at, xs, imm))
<1> DEFINE f == Field(kind, at, to, imm)
           rec(x) == [kind |-> kind, at |-> at, sym |-> x.sym, addend |-> x.addend,
                      trailing |-> imm, by |-> offset]
<1>1. PICK x : /\ xs = {x} /\ Placed[x.sym] \in Int /\ x.addend \in Int
               /\ Placed[x.sym] + x.addend = Moved(to)
  BY DEF Resolved
<1>2. Relocs(kind, at, xs, imm) = {rec(x)}
  BY <1>1 DEF Relocs
<1>3. /\ rec(x).kind = kind /\ rec(x).at = at /\ rec(x).sym = x.sym
      /\ rec(x).addend = x.addend /\ rec(x).trailing = imm
  OBVIOUS
<1>4. f.kind = kind /\ f.at = at /\ f.to = to /\ f.imm = imm
  BY DEF Field
<1> HIDE DEF rec, f
<1>5. Right(rec(x), f)
  BY <1>1, <1>3, <1>4 DEF Right
<1>6. Relocated(f, {rec(x)})
  BY <1>3, <1>4, <1>5 DEF Relocated
<1> QED
  BY <1>2, <1>6 DEF f

-----------------------------------------------------------------------------
(* The fields of an instruction *)

Added(insn) == IF IsBranch(insn) THEN BranchRelocs(insn) ELSE MemoryRelocs(insn)

\* What one instruction has to add to what was there.
Adds(insn) ==
  /\ \A f \in FieldsOf(insn) :
       /\ Shape(f) /\ \A g \in fields : g.at # f.at
       /\ \/ f.at < offset + insn.len
          \/ f.at >= CodeSize /\ \E g \in FieldsOf(insn) : InTable(f, g)
       /\ f.kind \in {"rel", "rva"} => Relocated(f, Added(insn))
       /\ f.kind \in {"secrel", "const"} => Free(f, Added(insn)) /\ OffsetOf(f, ThreadLocal(insn))
  /\ \A f, g \in FieldsOf(insn) : f.at = g.at => f = g
  /\ \A r \in Added(insn) \cup ThreadLocal(insn) : \E f \in FieldsOf(insn) : f.at = r.at

Provided == SymbolsApart /\ TargetsNamed /\ Encoded /\ TablesApart

LEMMA InsnNumbers ==
  ASSUME NEW insn \in Insn
  PROVE  /\ insn.at \in Nat /\ insn.len \in Nat /\ insn.len >= 1
         /\ insn.target \in Nat /\ insn.imm \in Nat
BY DEF Insn

LEMMA InsnTypes ==
  ASSUME ReachInv, NEW insn \in Insns, Visit(insn)
  PROVE  /\ insn \in Insn /\ (insn.m = "movimm" => insn.mem = "none")
         /\ offset \in Nat /\ insn.at \in Nat /\ insn.len \in Nat /\ insn.len >= 1
         /\ insn.target \in Nat /\ insn.imm \in Nat
         /\ offset + insn.len <= CodeSize /\ CodeSize \in Nat /\ Own \in Nat /\ Base \in Nat
         /\ Len(tail) \in Nat /\ tail \in Seq(Nat)
<1>1. insn \in Insn /\ (insn.m = "movimm" => insn.mem = "none")
  BY RecoverAssumption
<1>2. tail \in Seq(Nat) /\ offset \in Nat
  BY DEF ReachInv, IInv, TypeInv, TrackerComplete
<1>3. offset + insn.len <= CodeSize
  BY DEF Visit
<1>4. CodeSize \in Nat /\ Own \in Nat /\ Base \in Nat
  BY RecoverAssumption
<1>5. Len(tail) \in Nat
  BY <1>2
<1> QED
  BY <1>1, <1>2, <1>3, <1>4, <1>5, InsnNumbers

\* An address inside the code is one of the function.
LEMMA Inside ==
  ASSUME tail \in Seq(Nat), NEW a, Own <= a, a < Own + CodeSize, a \in Nat
  PROVE  Intra(a)
BY RecoverAssumption DEF Intra, FnSize

\* The fields of the code so far lie in front of the instruction.
LEMMA Fresh ==
  ASSUME ReachInv, NEW insn \in Insns, Visit(insn), NEW at \in Nat, offset <= at, at < CodeSize,
         NEW g \in fields
  PROVE  g.at # at
<1>1. Shape(g) /\ (g.at < offset \/ g.at >= CodeSize)
  BY DEF ReachInv, FieldsApart
<1> QED
  BY <1>1, InsnTypes DEF Shape

\* An instruction with one field of an address, for which it asks.
LEMMA AddsOne ==
  ASSUME ReachInv, NEW insn \in Insns, Visit(insn),
         NEW f, FieldsOf(insn) = {f}, f.kind \in {"rel", "rva"}, Shape(f),
         offset <= f.at, f.at < offset + insn.len,
         Relocated(f, Added(insn)), \A r \in Added(insn) : r.at = f.at, ThreadLocal(insn) = {}
  PROVE  Adds(insn)
<1>1. f.at \in Nat /\ f.at < CodeSize
  BY InsnTypes DEF Shape
<1>2. \A g \in fields : g.at # f.at
  BY <1>1, Fresh
<1> QED
  BY <1>2 DEF Adds

LEMMA BranchAdds ==
  ASSUME ReachInv, Provided, NEW insn \in Insns, Visit(insn), IsBranch(insn)
  PROVE  Adds(insn)
<1>1. ThreadLocal(insn) = {} /\ Added(insn) = BranchRelocs(insn)
  BY DEF ThreadLocal, IsBranch, Added
<1>2. CASE insn.len < 5
  <2>1. FieldsOf(insn) = {} /\ BranchRelocs(insn) = {}
    BY <1>2, InsnTypes DEF FieldsOf, BranchRelocs
  <2> QED
    BY <1>1, <2>1 DEF Adds
<1>3. CASE insn.len >= 5
  <2> DEFINE at == offset + insn.len - 4
             f == Field("rel", at, insn.target, 0)
  <2>1. FieldsOf(insn) = {f}
    BY <1>3 DEF FieldsOf
  <2>2. f.kind = "rel" /\ f.at = at /\ f.to = insn.target /\ f.imm = 0
    BY DEF Field
  <2>0. insn.len \in Nat /\ offset \in Nat /\ insn.target \in Nat
    BY InsnTypes
  <2>3. at \in Nat /\ offset <= at /\ at < offset + insn.len
    BY <1>3, <2>0
  <2>4. \A r \in BranchRelocs(insn) : r.at = at
    BY DEF BranchRelocs, Relocs
  <2>5. Relocated(f, BranchRelocs(insn))
    <3>1. CASE Intra(insn.target)
      <4>1. BranchRelocs(insn) = {}
        BY <3>1 DEF BranchRelocs
      <4> QED
        BY <2>2, <3>1, <4>1 DEF Relocated
    <3>2. CASE ~Intra(insn.target)
      <4>1. Covering(insn.target, Code) # {}
        <5>1. ~(Own <= insn.target /\ insn.target < Own + CodeSize)
          BY <3>2, Inside, InsnTypes
        <5> QED
          BY <1>3, <5>1 DEF Provided, TargetsNamed
      <4>2. Resolved(insn.target, ResolveCode(insn.target))
        BY <4>1, CodeResolves, InsnTypes DEF Provided
      <4>3. BranchRelocs(insn) = Relocs("rel", at, ResolveCode(insn.target), 0)
        BY <1>3, <3>2 DEF BranchRelocs
      <4> QED
        BY <4>2, <4>3, OneRelocation
    <3> QED
      BY <3>1, <3>2
  <2> HIDE DEF f
  <2>6. Shape(f)
    BY <2>0, <2>2, <2>3 DEF Shape
  <2> QED
    BY <1>1, <2>1, <2>2, <2>3, <2>4, <2>5, <2>6, AddsOne
<1> QED
  BY <1>2, <1>3, InsnTypes

LEMMA RipAdds ==
  ASSUME ReachInv, Provided, NEW insn \in Insns, Visit(insn), ~IsBranch(insn), insn.mem = "rip"
  PROVE  Adds(insn)
<1> DEFINE at == offset + insn.at
           f == Field("rel", at, insn.target, insn.imm)
<1>1. FieldsOf(insn) = {f} /\ Added(insn) = RipRelocs(insn)
  BY DEF FieldsOf, Added, MemoryRelocs
<1>2. ThreadLocal(insn) = {}
  BY InsnTypes DEF ThreadLocal
<1>3. f.kind = "rel" /\ f.at = at /\ f.to = insn.target /\ f.imm = insn.imm
  BY DEF Field
<1>4. insn.at < insn.len
  BY DEF Provided, Encoded
<1>5. at \in Nat /\ offset <= at /\ at < offset + insn.len
  BY <1>4, InsnTypes
<1>6. Resolved(insn.target, ResolveData(insn.target))
  <2>1. Intra(insn.target) \/ insn.target = Base \/ Covering(insn.target, DOMAIN Symbols) # {}
    BY Inside, InsnTypes DEF Provided, TargetsNamed
  <2> QED
    BY <2>1, DataResolves, InsnTypes DEF Provided
<1>7. Relocated(f, RipRelocs(insn)) /\ \A r \in RipRelocs(insn) : r.at = at
  BY <1>6, OneRelocation DEF RipRelocs, Relocs
<1>8. Shape(f)
  BY <1>3, <1>5, InsnTypes DEF Shape
<1> HIDE DEF f
<1> QED
  BY <1>1, <1>2, <1>3, <1>5, <1>7, <1>8, AddsOne

LEMMA ConstantAdds ==
  ASSUME ReachInv, Provided, NEW insn \in Insns, Visit(insn), insn.m = "movimm"
  PROVE  Adds(insn)
<1> DEFINE at == offset + insn.at
           f == Field(IF insn.tls THEN "secrel" ELSE "const", at, insn.target, 0)
           rec == [kind |-> "secrel", at |-> at, sym |-> insn.target, addend |-> 0,
                   trailing |-> 0, by |-> offset]
<1>1. FieldsOf(insn) = {f} /\ Added(insn) = {}
  BY InsnTypes DEF FieldsOf, Added, MemoryRelocs, IsBranch
<1>2. f.kind = (IF insn.tls THEN "secrel" ELSE "const") /\ f.at = at /\ f.to = insn.target /\ f.imm = 0
  BY DEF Field
<1>3. insn.at < insn.len
  BY DEF Provided, Encoded
<1>4. at \in Nat /\ offset <= at /\ at < offset + insn.len /\ at < CodeSize
  BY <1>3, InsnTypes
<1>5. ThreadLocal(insn) = IF insn.target \in Secrel THEN {rec} ELSE {}
  BY DEF ThreadLocal, Relocs
<1>6. rec.kind = "secrel" /\ rec.at = at /\ rec.sym = insn.target /\ rec.addend = 0
  OBVIOUS
<1>7. Shape(f)
  <2>1. insn.target \in Nat /\ (insn.tls => insn.target \in Secrel)
    BY InsnTypes DEF Provided, TargetsNamed
  <2> QED
    BY <1>2, <1>4, <2>1 DEF Shape
<1>8. \A g \in fields : g.at # at
  BY <1>4, Fresh
<1> HIDE DEF rec, f
<1>9. OffsetOf(f, ThreadLocal(insn)) /\ \A r \in ThreadLocal(insn) : r.at = f.at
  BY <1>2, <1>5, <1>6 DEF OffsetOf
<1> QED
  BY <1>1, <1>2, <1>4, <1>7, <1>8, <1>9 DEF Adds, Free

-----------------------------------------------------------------------------
(* Tables *)

Strict == Admitted \cap {"reuse", "overwrite", "index", "reread"} = {}

\* The words of a table from its beginning on.
Words(k) == {n \in 1..Len(tail) : At(n) >= At(k) /\ \A j \in 1..n : At(j) >= At(k) => tail[j] # 0}

LEMMA WordPlaces ==
  ASSUME NEW m \in Nat, NEW n \in Nat, n >= 1
  PROVE  /\ At(m) >= At(n) <=> m >= n
         /\ At(m) = At(n) => m = n
         /\ At(n) >= CodeSize /\ At(n) \in Nat
BY RecoverAssumption DEF At

\* Two tables that follow no entry of another share no word.
LEMMA WordsApart ==
  ASSUME tail \in Seq(Nat), NEW k \in 1..Len(tail), NEW l \in 1..Len(tail), k < l, Begins(l),
         NEW n \in Words(k), n \in Words(l)
  PROVE  FALSE
<1>1. Len(tail) \in Nat
  OBVIOUS
<1>2. k \in Nat /\ l \in Nat /\ n \in Nat /\ k >= 1 /\ l >= 1 /\ n >= 1 /\ l - 1 \in Nat /\ l - 1 >= k
  BY <1>1 DEF Words
<1>3. n >= l
  BY <1>2, WordPlaces DEF Words
<1>4. l - 1 \in 1..n /\ At(l - 1) >= At(k)
  BY <1>2, <1>3, WordPlaces
<1>5. tail[l - 1] # 0
  BY <1>4 DEF Words
<1> QED
  BY <1>2, <1>5 DEF Begins

\* The words the scan takes for entries are those of the table.
LEMMA EntriesAreWords ==
  ASSUME tail \in Tails, TablesApart, NEW k \in 1..Len(tail)
  PROVE  Entries(At(k)) = Words(k) /\ TableFields(At(k)) = {Field("rva", At(n), tail[n], 0) : n \in Words(k)}
<1>1. tail \in Seq(Nat) /\ Len(tail) \in Nat
  BY RecoverAssumption
<1>2. \A j \in 1..Len(tail) : tail[j] \in Nat /\ (tail[j] # 0 => Own <= tail[j] /\ tail[j] < Own + CodeSize)
  BY <1>1 DEF TablesApart
<1>3. Own \in Nat \ {0} /\ CodeSize \in Nat /\ At(k) \in Nat /\ At(k) >= CodeSize
  BY <1>1, WordPlaces, RecoverAssumption
<1>4. \A j \in 1..Len(tail) : (tail[j] >= Own /\ tail[j] < Own + At(k)) <=> tail[j] # 0
  BY <1>2, <1>3
<1>5. \A n \in 1..Len(tail) : \A j \in 1..n : j \in 1..Len(tail)
  BY <1>1
<1>6. Entries(At(k)) = Words(k)
  BY <1>4, <1>5 DEF Entries, Words
<1>7. TableFields(At(k)) = {Field("rva", At(n), tail[n], 0) : n \in Words(k)}
  BY DEF TableFields, Words
<1> QED
  BY <1>6, <1>7

\* What is read through the base: the mark is there, and a table is read for
\* the first time.
LEMMA BaseRead ==
  ASSUME ReachInv, Strict, NEW insn \in Insns, Visit(insn), ~IsBranch(insn), insn.mem = "reg",
         holds[insn.base] = {TRUE}
  PROVE  LET a == Base + insn.target
         IN  /\ FieldsOf(insn) = BaseFields(insn) /\ Added(insn) = BaseRelocs(insn)
             /\ ~Intra(a) => Covering(a, DOMAIN Symbols) # {}
             /\ Intra(a) => /\ \E k \in 1..Len(tail) : a = Own + At(k) /\ tail[k] # 0
                            /\ \A f \in fields : f.kind = "rva" => f.to # a
<1>1. WellFormed(insn) /\ "reuse" \notin Admitted /\ "overwrite" \notin Admitted
      /\ "index" \notin Admitted /\ "reread" \notin Admitted
  BY DEF Visit, Strict
<1>2. FieldsOf(insn) = BaseFields(insn)
  BY DEF FieldsOf
<1>3. holds[insn.base] = {insn.base \in written} /\ insn.base \notin insn.sets \cup insn.updates
  BY <1>1 DEF WellFormed
<1>4. insn.base \in written
  BY <1>3
<1>5. written \subseteq imgbase
  BY InsnTypes DEF ReachInv, TrackerComplete
<1>6. Added(insn) = BaseRelocs(insn)
  BY <1>3, <1>4, <1>5 DEF Added, MemoryRelocs, Cleared
<1> QED
  BY <1>1, <1>2, <1>6 DEF WellFormed

LEMMA ObjectAdds ==
  ASSUME ReachInv, Provided, Strict, NEW insn \in Insns, Visit(insn), ~IsBranch(insn),
         insn.mem = "reg", holds[insn.base] = {TRUE}, ~Intra(Base + insn.target)
  PROVE  Adds(insn)
<1> DEFINE at == offset + insn.at
           a == Base + insn.target
           f == Field("rva", at, a, 0)
<1>1. Covering(a, DOMAIN Symbols) # {} /\ FieldsOf(insn) = {f}
      /\ Added(insn) = Relocs("rva", at, ResolveData(a), 0)
  BY BaseRead DEF BaseFields, BaseRelocs
<1>2. ThreadLocal(insn) = {}
  BY InsnTypes DEF ThreadLocal
<1>3. f.kind = "rva" /\ f.at = at /\ f.to = a /\ f.imm = 0
  BY DEF Field
<1>4. insn.at < insn.len
  BY DEF Provided, Encoded
<1>5. a \in Nat /\ at \in Nat /\ offset <= at /\ at < offset + insn.len
  <2>1. /\ insn.at \in Nat /\ insn.len \in Nat /\ insn.target \in Nat
        /\ offset \in Nat /\ Base \in Nat
    BY InsnTypes
  <2> QED
    BY <1>4, <2>1
<1>6. Resolved(a, ResolveData(a))
  BY <1>1, <1>5, DataResolves DEF Provided
<1>7. Relocated(f, Added(insn)) /\ \A r \in Added(insn) : r.at = at
  BY <1>1, <1>6, OneRelocation DEF Relocs
<1>8. Shape(f)
  BY <1>3, <1>5 DEF Shape
<1> HIDE DEF f, a
<1> QED
  BY <1>1, <1>2, <1>3, <1>5, <1>7, <1>8, AddsOne

\* A table: the displacement and the words are apart, have not been seen
\* before, and each has its one relocation.
LEMMA TableAdds ==
  ASSUME ReachInv, Provided, Strict, NEW insn \in Insns, Visit(insn), ~IsBranch(insn),
         insn.mem = "reg", holds[insn.base] = {TRUE}, Intra(Base + insn.target)
  PROVE  Adds(insn)
<1> DEFINE at == offset + insn.at
           a == Base + insn.target
           f == Field("rva", at, a, 0)
           word(n) == Field("rva", At(n), tail[n], 0)
           own == {[sym |-> Own, addend |-> a - Own]}
           R == Added(insn)
<1>1. PICK k \in 1..Len(tail) : a = Own + At(k) /\ tail[k] # 0
  BY BaseRead
<1>2. /\ tail \in Tails /\ tail \in Seq(Nat) /\ Len(tail) \in Nat
      /\ a \in Nat /\ a - Own = At(k) /\ TablesApart
  <2>1. /\ tail \in Seq(Nat) /\ Len(tail) \in Nat
        /\ Own \in Nat /\ Base \in Nat /\ insn.target \in Nat
    BY InsnTypes
  <2>2. At(k) \in Nat
    BY <2>1, WordPlaces
  <2>3. tail \in Tails /\ TablesApart
    BY DEF ReachInv, TrackerComplete, Provided
  <2> QED
    BY <1>1, <2>1, <2>2, <2>3
<1>3. /\ FieldsOf(insn) = {f} \cup {word(n) : n \in Words(k)}
      /\ R = (UNION {Relocs("rva", At(n), ResolveCode(tail[n]), 0) : n \in Words(k)})
             \cup Relocs("rva", at, own, 0)
  <2>1. Entries(At(k)) = Words(k) /\ TableFields(At(k)) = {word(n) : n \in Words(k)}
    BY <1>2, EntriesAreWords
  <2>2. FieldsOf(insn) = {f} \cup {word(n) : n \in Words(k)}
    BY <1>2, <2>1, BaseRead DEF BaseFields
  <2>3. k \in Words(k)
    <3>1. k \in Nat /\ k >= 1 /\ \A j \in 1..k : j \in Nat /\ j >= 1 /\ (j >= k => j = k)
      BY <1>2
    <3>2. \A j \in 1..k : At(j) >= At(k) => j = k
      BY <3>1, WordPlaces
    <3>3. At(k) >= At(k)
      BY <3>1, WordPlaces
    <3> QED
      BY <1>1, <3>2, <3>3 DEF Words
  <2>4. R = TableRelocs(insn, At(k))
    BY <1>2, BaseRead DEF BaseRelocs
  <2> QED
    BY <1>2, <2>1, <2>2, <2>3, <2>4 DEF TableRelocs
<1>4. ThreadLocal(insn) = {}
  BY InsnTypes DEF ThreadLocal
<1>5. f.kind = "rva" /\ f.at = at /\ f.to = a /\ f.imm = 0
  BY DEF Field
<1>6. \A n \in Words(k) : word(n).kind = "rva" /\ word(n).at = At(n) /\ word(n).to = tail[n] /\ word(n).imm = 0
  BY DEF Field
<1>7. at \in Nat /\ offset <= at /\ at < offset + insn.len /\ at < CodeSize
  <2>1. insn.at < insn.len
    BY DEF Provided, Encoded
  <2>2. /\ insn.at \in Nat /\ insn.len \in Nat /\ offset \in Nat /\ CodeSize \in Nat
        /\ offset + insn.len <= CodeSize
    BY InsnTypes
  <2> QED
    BY <2>1, <2>2
<1>8. \A n \in Words(k) : /\ n \in 1..Len(tail) /\ n \in Nat /\ n >= 1 /\ At(n) \in Nat /\ At(n) >= CodeSize
                          /\ At(n) # at /\ tail[n] \in Nat /\ Intra(tail[n])
  <2> SUFFICES ASSUME NEW n \in Words(k)
               PROVE  /\ n \in 1..Len(tail) /\ n \in Nat /\ n >= 1 /\ At(n) \in Nat /\ At(n) >= CodeSize
                      /\ At(n) # at /\ tail[n] \in Nat /\ Intra(tail[n])
    OBVIOUS
  <2>1. n \in 1..Len(tail) /\ n \in Nat /\ n >= 1 /\ tail[n] \in Nat
    BY <1>2 DEF Words
  <2>2. At(n) \in Nat /\ At(n) >= CodeSize
    BY <2>1, WordPlaces
  <2>3. tail[n] # 0
    <3>1. n \in 1..n /\ At(n) >= At(k)
      BY <2>1 DEF Words
    <3> QED
      BY <3>1 DEF Words
  <2>4. Own <= tail[n] /\ tail[n] < Own + CodeSize
    BY <1>2, <2>1, <2>3 DEF TablesApart
  <2>5. At(n) # at
    <3>1. CodeSize \in Nat
      BY RecoverAssumption
    <3> QED
      BY <1>7, <2>2, <3>1
  <2>6. Intra(tail[n])
    BY <1>2, <2>1, <2>4, Inside
  <2> QED
    BY <2>1, <2>2, <2>5, <2>6
<1>9. \A m, n \in Words(k) : At(m) = At(n) => m = n
  BY <1>8, WordPlaces
<1>10. Begins(k)
  <2>1. CASE k > 1
    <3>1. k \in 2..Len(tail)
      BY <1>2, <2>1
    <3> QED
      BY <1>1, <1>2, <3>1 DEF TablesApart, Begins
  <2> QED
    BY <2>1 DEF Begins
<1> HIDE DEF f, word, own, R, a, at
<1>11. \A r \in R : \/ r.at = at /\ r \in Relocs("rva", at, own, 0)
                    \/ \E n \in Words(k) : r.at = At(n) /\ r \in Relocs("rva", At(n), ResolveCode(tail[n]), 0)
  <2> TAKE r \in R
  <2>1. CASE r \in Relocs("rva", at, own, 0)
    BY <2>1 DEF Relocs
  <2>2. CASE r \in UNION {Relocs("rva", At(n), ResolveCode(tail[n]), 0) : n \in Words(k)}
    <3>1. PICK n \in Words(k) : r \in Relocs("rva", At(n), ResolveCode(tail[n]), 0)
      BY <2>2
    <3>2. r.at = At(n)
      BY <3>1 DEF Relocs
    <3> QED
      BY <3>1, <3>2
  <2> QED
    BY <1>3, <2>1, <2>2
<1>12. Relocated(f, R)
  <2>1. Resolved(a, own)
    BY <1>2, IntraResolves DEF own, a, Provided
  <2>2. Relocated(f, Relocs("rva", at, own, 0))
    BY <2>1, OneRelocation DEF f
  <2>3. \A r \in R : r.at = f.at => r \in Relocs("rva", at, own, 0)
    BY <1>5, <1>8, <1>11
  <2>4. Relocs("rva", at, own, 0) \subseteq R
    BY <1>3
  <2> QED
    BY <2>2, <2>3, <2>4 DEF Relocated
<1>13. \A n \in Words(k) : Relocated(word(n), R)
  <2> TAKE n \in Words(k)
  <2> DEFINE Q == Relocs("rva", At(n), ResolveCode(tail[n]), 0)
  <2>1. Resolved(tail[n], ResolveCode(tail[n]))
    BY <1>8, CodeResolves DEF Provided
  <2>2. Relocated(word(n), Q)
    BY <2>1, OneRelocation DEF word
  <2>3. \A r \in R : r.at = word(n).at => r \in Q
    BY <1>6, <1>8, <1>9, <1>11
  <2>4. Q \subseteq R
    BY <1>3
  <2> HIDE DEF Q
  <2> QED
    BY <2>2, <2>3, <2>4 DEF Relocated
<1>14. \A n \in Words(k), g \in fields : g.at # At(n)
  <2> SUFFICES ASSUME NEW n \in Words(k), NEW g \in fields, g.at = At(n) PROVE FALSE
    OBVIOUS
  <2>1. g.at >= CodeSize
    BY <1>8
  <2>2. PICK h \in fields : InTable(g, h)
    BY <2>1 DEF ReachInv, TablesRead
  <2>3. PICK l \in 1..Len(tail) : h.to = Own + At(l) /\ Begins(l) /\ g \in TableFields(At(l))
    BY <2>2 DEF InTable
  <2>4. h.kind = "rva" /\ h.to # a
    BY <2>2, BaseRead DEF InTable, a
  <2>5. l # k
    BY <1>1, <2>3, <2>4 DEF a
  <2>6. PICK m \in Words(l) : g = Field("rva", At(m), tail[m], 0)
    BY <1>2, <2>3, EntriesAreWords
  <2>7. m \in Nat /\ m >= 1 /\ At(m) = At(n)
    <3>1. g.at = At(m)
      BY <2>6 DEF Field
    <3>2. m \in 1..Len(tail)
      BY DEF Words
    <3> QED
      BY <1>2, <3>1, <3>2
  <2>8. m = n
    BY <1>8, <2>7, WordPlaces
  <2>9. k \in Nat /\ l \in Nat
    BY <1>2
  <2> QED
    BY <1>2, <1>10, <2>3, <2>5, <2>8, <2>9, WordsApart
<1>15. \A g \in fields : g.at # at
  BY <1>7, Fresh
<1>16. Shape(f) /\ \A n \in Words(k) : Shape(word(n))
  BY <1>2, <1>5, <1>6, <1>7, <1>8 DEF Shape
<1>17. \A n \in Words(k) : InTable(word(n), f)
  <2>1. \A n \in Words(k) : word(n) \in TableFields(At(k))
    BY <1>2, EntriesAreWords DEF word
  <2> QED
    BY <1>1, <1>5, <1>10, <2>1 DEF InTable, a
<1>18. /\ \A x \in FieldsOf(insn) : x = f \/ \E n \in Words(k) : x = word(n)
       /\ f \in FieldsOf(insn) /\ \A n \in Words(k) : word(n) \in FieldsOf(insn)
  BY <1>3
<1>19. \A x \in FieldsOf(insn) :
         /\ Shape(x) /\ \A g \in fields : g.at # x.at
         /\ \/ x.at < offset + insn.len
            \/ x.at >= CodeSize /\ \E g \in FieldsOf(insn) : InTable(x, g)
         /\ x.kind = "rva" /\ Relocated(x, R)
  <2> TAKE x \in FieldsOf(insn)
  <2>1. CASE x = f
    BY <1>5, <1>7, <1>12, <1>15, <1>16, <2>1
  <2>2. CASE \E n \in Words(k) : x = word(n)
    <3>1. PICK n \in Words(k) : x = word(n)
      BY <2>2
    <3> QED
      BY <1>6, <1>8, <1>13, <1>14, <1>16, <1>17, <1>18, <3>1
  <2> QED
    BY <1>18, <2>1, <2>2
<1>20. \A x, y \in FieldsOf(insn) : x.at = y.at => x = y
  BY <1>5, <1>6, <1>8, <1>9, <1>18
<1>21. \A r \in R : \E x \in FieldsOf(insn) : x.at = r.at
  BY <1>5, <1>6, <1>11, <1>18
<1> QED
  BY <1>4, <1>19, <1>20, <1>21 DEF Adds, R

\* Nothing designates an address, and the scan believes in none.
LEMMA NothingAdds ==
  ASSUME ReachInv, Strict, NEW insn \in Insns, Visit(insn), ~IsBranch(insn), insn.mem # "rip",
         insn.m # "movimm", insn.mem = "reg" => holds[insn.base] # {TRUE}
  PROVE  Adds(insn)
<1>1. FieldsOf(insn) = {} /\ ThreadLocal(insn) = {}
  BY DEF FieldsOf, ThreadLocal
<1>2. insn.mem = "reg" => insn.base \notin Cleared(insn)
  <2>1. insn.mem = "reg" => holds[insn.base] = {insn.base \in written}
    BY DEF Visit, WellFormed, Strict
  <2>2. Cleared(insn) \subseteq written
    BY DEF Cleared, ReachInv, IInv, TrackerIsTrue
  <2> QED
    BY <2>1, <2>2
<1>3. Added(insn) = {}
  BY <1>2 DEF Added, MemoryRelocs
<1> QED
  BY <1>1, <1>3 DEF Adds

LEMMA EachAdds ==
  ASSUME ReachInv, Provided, Strict, NEW insn \in Insns, Visit(insn)
  PROVE  Adds(insn)
<1>1. CASE IsBranch(insn)
  BY <1>1, BranchAdds
<1>2. CASE ~IsBranch(insn) /\ insn.mem = "rip"
  BY <1>2, RipAdds
<1>3. CASE insn.m = "movimm"
  BY <1>3, ConstantAdds
<1>4. CASE ~IsBranch(insn) /\ insn.mem = "reg" /\ holds[insn.base] = {TRUE}
  BY <1>4, ObjectAdds, TableAdds
<1>5. CASE /\ ~IsBranch(insn) /\ insn.mem # "rip" /\ insn.m # "movimm"
           /\ insn.mem = "reg" => holds[insn.base] # {TRUE}
  BY <1>5, NothingAdds
<1> QED
  BY <1>1, <1>2, <1>3, <1>4, <1>5

-----------------------------------------------------------------------------
(* The steps *)

\* What the function and the names are does not change.
LEMMA Constant ==
  ASSUME tail' = tail
  PROVE  /\ \A a : Moved(a)' = Moved(a) /\ Intra(a)' = Intra(a)
         /\ \A f, g : InTable(f, g)' <=> InTable(f, g)
         /\ \A f, R : Relocated(f, R)' <=> Relocated(f, R)
<1>1. \A a : Intra(a)' = Intra(a)
  BY DEF Intra, FnSize
<1>2. \A a : Moved(a)' = Moved(a)
  BY <1>1 DEF Moved
<1>3. \A t : TableFields(t)' = TableFields(t)
  BY DEF TableFields
<1>4. \A f, g : InTable(f, g)' <=> InTable(f, g)
  BY <1>3 DEF InTable, Begins
<1>5. \A f, r : Right(r, f)' <=> Right(r, f)
  BY <1>2 DEF Right
<1>6. \A f, R : Relocated(f, R)' <=> Relocated(f, R)
  BY <1>1, <1>5 DEF Relocated
<1> QED
  BY <1>1, <1>2, <1>4, <1>6

\* Relocations at other places change nothing for a field.
LEMMA Elsewhere ==
  ASSUME NEW f, NEW R, NEW Q, \A r : r.at = f.at => (r \in Q <=> r \in R)
  PROVE  /\ Relocated(f, R) => Relocated(f, Q)
         /\ OffsetOf(f, R) => OffsetOf(f, Q)
         /\ Free(f, R) => Free(f, Q)
BY DEF Relocated, OffsetOf, Free

\* Every relocation lies on a field seen so far.
LEMMA OnFields ==
  ASSUME ReachInv, NEW r \in relocs \cup candidates
  PROVE  \E f \in fields : f.at = r.at
BY DEF ReachInv, IInv, RelocsOnFields, CandidatesOnFields

LEMMA VisitReach ==
  ASSUME ReachInv, Provided, Strict, NEW insn \in Insns, Visit(insn)
  PROVE  ReachInv'
<1> DEFINE G == FieldsOf(insn)
           N == Added(insn)
           C == ThreadLocal(insn)
<1>1. IInv'
  BY VisitIInv DEF ReachInv, Strict
<1>2. /\ tail' = tail /\ offset' = offset + insn.len /\ done = FALSE /\ done' = FALSE
      /\ fields' = fields \cup G /\ relocs' = relocs \cup N /\ candidates' = candidates \cup C
      /\ imgbase' = Cleared(insn) \cup (IF Loads(insn) THEN {insn.dst} ELSE {})
      /\ written' = (written \ insn.writes) \cup (IF Loads(insn) THEN {insn.dst} ELSE {})
  <2>1. insn.m # "invalid" /\ Scan(insn)
    BY DEF Visit, WellFormed
  <2>2. ~done /\ tail' = tail /\ done' = done /\ fields' = fields \cup G
        /\ written' = (written \ insn.writes) \cup (IF Loads(insn) THEN {insn.dst} ELSE {})
    BY DEF Visit
  <2> QED
    BY <2>1, <2>2 DEF Scan, Added
<1>3. Adds(insn)
  BY EachAdds
<1>4. TrackerComplete'
  <2>1. insn.sets \cup insn.updates \subseteq insn.writes
    BY DEF Provided, Encoded
  <2>2. written \subseteq imgbase
    BY InsnTypes DEF ReachInv, TrackerComplete
  <2>3. written' \subseteq imgbase'
    BY <1>2, <2>1, <2>2 DEF Cleared
  <2>4. offset' \in Nat /\ tail' \in Tails
    BY <1>2, InsnTypes DEF ReachInv, TrackerComplete
  <2> QED
    BY <2>3, <2>4 DEF TrackerComplete
<1>5. /\ \A f \in G, g \in fields : g.at # f.at
      /\ \A f, g \in G : f.at = g.at => f = g
      /\ \A r \in N \cup C : \E f \in G : f.at = r.at
      /\ \A f \in G : Shape(f) /\ (f.at < offset + insn.len \/ f.at >= CodeSize)
  BY <1>3 DEF Adds
<1>6. FieldsApart'
  <2>1. \A f \in fields : Shape(f) /\ (f.at < offset' \/ f.at >= CodeSize)
    <3> TAKE f \in fields
    <3>1. Shape(f) /\ (f.at < offset \/ f.at >= CodeSize)
      BY DEF ReachInv, FieldsApart
    <3>2. f.at < offset => f.at < offset'
      BY <1>2, <3>1, InsnTypes DEF Shape
    <3> QED
      BY <3>1, <3>2
  <2>2. \A f \in fields' : Shape(f) /\ (f.at < offset' \/ f.at >= CodeSize)
    BY <1>2, <1>5, <2>1
  <2>3. \A f, g \in fields : f.at = g.at => f = g
    BY DEF ReachInv, FieldsApart
  <2>4. \A f, g \in fields' : f.at = g.at => f = g
    BY <1>2, <1>5, <2>3
  <2> QED
    BY <2>2, <2>4 DEF FieldsApart, Shape
<1>7. TablesRead'
  <2> SUFFICES ASSUME NEW f \in fields', f.at >= CodeSize
               PROVE  \E g \in fields' : InTable(f, g)
    BY <1>2, Constant DEF TablesRead
  <2>1. CASE f \in fields
    BY <1>2, <2>1 DEF ReachInv, TablesRead
  <2>2. CASE f \in G
    <3>1. ~(f.at < offset + insn.len)
      BY <1>5, <2>2, InsnTypes DEF Shape
    <3>2. \E g \in G : InTable(f, g)
      BY <1>3, <2>2, <3>1 DEF Adds
    <3> QED
      BY <1>2, <3>2
  <2> QED
    BY <1>2, <2>1, <2>2
<1>8. \A f \in fields : /\ \A r : r.at = f.at => (r \in relocs' <=> r \in relocs)
                        /\ \A r : r.at = f.at => (r \in candidates' <=> r \in candidates)
  BY <1>2, <1>5
<1>9. \A f \in G : /\ \A r : r.at = f.at => (r \in relocs' <=> r \in N)
                   /\ \A r : r.at = f.at => (r \in candidates' <=> r \in C)
  BY <1>2, <1>5, OnFields
<1>10. AddressesKept'
  <2> SUFFICES ASSUME NEW f \in fields', f.kind \in {"rel", "rva"} PROVE Relocated(f, relocs')
    BY <1>2, Constant DEF AddressesKept
  <2>1. CASE f \in fields
    BY <1>8, <2>1, Elsewhere DEF ReachInv, AddressesKept
  <2>2. CASE f \in G
    BY <1>3, <1>9, <2>2, Elsewhere DEF Adds
  <2> QED
    BY <1>2, <2>1, <2>2
<1>11. ConstantsKept'
  <2> SUFFICES ASSUME NEW f \in fields', f.kind \in {"secrel", "const"}
               PROVE  Free(f, relocs') /\ OffsetOf(f, candidates')
    BY <1>2 DEF ConstantsKept, Free, OffsetOf
  <2>1. CASE f \in fields
    <3>1. Free(f, relocs) /\ OffsetOf(f, candidates)
      BY <1>2, <2>1 DEF ReachInv, ConstantsKept
    <3> QED
      BY <1>8, <2>1, <3>1, Elsewhere
  <2>2. CASE f \in G
    <3>1. Free(f, N) /\ OffsetOf(f, C)
      BY <1>3, <2>2 DEF Adds
    <3> QED
      BY <1>9, <2>2, <3>1, Elsewhere
  <2> QED
    BY <1>2, <2>1, <2>2
<1> QED
  BY <1>1, <1>4, <1>6, <1>7, <1>10, <1>11 DEF ReachInv

\* What the tables decode as leaves everything but the marks alone.
LEMMA JunkIdle ==
  ASSUME IInv, NEW insn \in Junk, VisitJunk(insn)
  PROVE  /\ tlsContext' = tlsContext /\ candidates' = candidates /\ relocs' = relocs
         /\ tail' = tail /\ fields' = fields /\ done' = done /\ written' = written
         /\ offset' = offset + insn.len /\ CodeSize <= offset
<1>1. /\ tail' = tail /\ fields' = fields /\ done' = done /\ written' = written
      /\ offset' = offset + insn.len /\ CodeSize <= offset /\ Scan(insn)
  BY DEF VisitJunk, Scan
<1>2. CASE insn.m = "invalid"
  BY <1>1, <1>2 DEF Scan
<1>3. CASE insn.m # "invalid"
  <2>1. ~IsBranch(insn) /\ insn.m # "movimm" /\ insn.mem # "rip" /\ ~insn.gs
        /\ (insn.mem = "reg" => insn.base \notin BaseRegisters)
    BY JunkAssumption
  <2>2. MemoryRelocs(insn) = {} /\ ThreadLocal(insn) = {}
    BY <2>1 DEF MemoryRelocs, ThreadLocal, Cleared, IInv, TrackerIsTrue
  <2>3. /\ tlsContext' = (tlsContext \/ insn.gs)
        /\ candidates' = candidates \cup ThreadLocal(insn)
        /\ relocs' = relocs \cup (IF IsBranch(insn) THEN BranchRelocs(insn) ELSE MemoryRelocs(insn))
    BY <1>1, <1>3 DEF Scan
  <2>4. tlsContext' = tlsContext
    BY <2>1, <2>3 DEF IInv, TypeInv
  <2>5. candidates' = candidates
    BY <2>2, <2>3, Zenon
  <2>6. relocs' = relocs
    BY <2>1, <2>2, <2>3
  <2> QED
    BY <1>1, <2>4, <2>5, <2>6
<1> QED
  BY <1>2, <1>3

\* A step that only moves on keeps the fields and their relocations.
LEMMA MoveReach ==
  ASSUME ReachInv, IInv', TrackerComplete', offset' \in Nat, offset <= offset',
         tail' = tail, fields' = fields, relocs' = relocs, candidates' = candidates,
         done' = done, tlsContext' = tlsContext
  PROVE  ReachInv'
<1>1. FieldsApart'
  <2>1. \A f \in fields : Shape(f) /\ (f.at < offset' \/ f.at >= CodeSize)
    <3> TAKE f \in fields
    <3>1. Shape(f) /\ (f.at < offset \/ f.at >= CodeSize) /\ offset \in Nat
      BY DEF ReachInv, FieldsApart, TrackerComplete
    <3>2. f.at < offset => f.at < offset'
      BY <3>1 DEF Shape
    <3> QED
      BY <3>1, <3>2
  <2> QED
    BY <2>1 DEF FieldsApart, ReachInv
<1>2. TablesRead'
  BY Constant DEF TablesRead, ReachInv
<1>3. AddressesKept'
  BY Constant DEF AddressesKept, ReachInv
<1>4. ConstantsKept'
  BY DEF ConstantsKept, ReachInv, Free, OffsetOf
<1> QED
  BY <1>1, <1>2, <1>3, <1>4 DEF ReachInv

LEMMA JunkReach ==
  ASSUME ReachInv, NEW insn \in Junk, VisitJunk(insn)
  PROVE  ReachInv'
<1>1. IInv /\ IInv' /\ offset \in Nat /\ insn.len \in Nat /\ insn.len >= 1 /\ CodeSize \in Nat
  <2>1. insn \in Insn /\ CodeSize \in Nat
    BY RecoverAssumption
  <2>2. IInv /\ offset \in Nat
    BY DEF ReachInv, TrackerComplete
  <2>3. IInv'
    BY <2>2, JunkIInv
  <2> QED
    BY <2>1, <2>2, <2>3, InsnNumbers
<1>2. /\ tlsContext' = tlsContext /\ candidates' = candidates /\ relocs' = relocs
      /\ tail' = tail /\ fields' = fields /\ done' = done
      /\ offset' = offset + insn.len /\ CodeSize <= offset
  BY <1>1, JunkIdle
<1>3. offset' \in Nat /\ offset <= offset' /\ ~(offset' <= CodeSize)
  BY <1>1, <1>2
<1>4. TrackerComplete'
  BY <1>2, <1>3 DEF ReachInv, TrackerComplete
<1> QED
  BY <1>1, <1>2, <1>3, <1>4, MoveReach

\* Returning commits the candidates if the function accesses thread-local
\* storage; none of them lies on a field of an address.
LEMMA ReturnReach ==
  ASSUME ReachInv, Return
  PROVE  ReachInv'
<1>1. IInv'
  BY ReturnIInv DEF ReachInv
<1>2. /\ ~done /\ done' = TRUE /\ relocs' = IF tlsContext THEN relocs \cup candidates ELSE relocs
      /\ tail' = tail /\ fields' = fields /\ offset' = offset /\ tlsContext' = tlsContext
      /\ written' = written /\ imgbase' = imgbase
  BY DEF Return, Committed
<1>3. TrackerComplete' /\ FieldsApart'
  BY <1>2 DEF ReachInv, TrackerComplete, FieldsApart
<1>4. TablesRead'
  BY <1>2, Constant DEF ReachInv, TablesRead
<1>5. \A f \in fields, c \in candidates : f.at = c.at => f.kind \in {"secrel", "const"}
  BY DEF ReachInv, IInv, CandidatesOnFields, LooksThreadLocal, FieldsApart
<1>6. AddressesKept'
  <2> SUFFICES ASSUME NEW f \in fields, f.kind \in {"rel", "rva"} PROVE Relocated(f, relocs')
    BY <1>2, Constant DEF AddressesKept
  <2>1. \A r : r.at = f.at => (r \in relocs' <=> r \in relocs)
    BY <1>2, <1>5
  <2> QED
    BY <2>1, Elsewhere DEF ReachInv, AddressesKept
<1>7. ConstantsKept'
  <2> SUFFICES ASSUME NEW f \in fields, f.kind \in {"secrel", "const"}
               PROVE  IF tlsContext THEN OffsetOf(f, relocs') ELSE Free(f, relocs')
    BY <1>2 DEF ConstantsKept, OffsetOf, Free
  <2>1. Free(f, relocs) /\ OffsetOf(f, candidates)
    BY <1>2 DEF ReachInv, ConstantsKept
  <2>2. CASE tlsContext
    <3>1. \A r : r.at = f.at => (r \in relocs' <=> r \in candidates)
      BY <1>2, <2>1, <2>2 DEF Free
    <3> QED
      BY <2>1, <2>2, <3>1, Elsewhere
  <2>3. CASE ~tlsContext
    BY <1>2, <2>1, <2>3
  <2> QED
    BY <2>2, <2>3
<1> QED
  BY <1>1, <1>3, <1>4, <1>6, <1>7 DEF ReachInv

LEMMA ReachStep ==
  ASSUME ReachInv, [Next]_vars, Provided, Strict
  PROVE  ReachInv'
<1>1. CASE \E insn \in Insns : Visit(insn)
  BY <1>1, VisitReach
<1>2. CASE \E insn \in Junk : VisitJunk(insn)
  BY <1>2, JunkReach
<1>3. CASE Return
  BY <1>3, ReturnReach
<1>4. CASE Label \/ Pad \/ Finished \/ UNCHANGED vars
  <2>1. /\ tlsContext' = tlsContext /\ candidates' = candidates /\ relocs' = relocs
        /\ tail' = tail /\ fields' = fields /\ done' = done
        /\ written' = written /\ imgbase' = imgbase
        /\ offset' = offset \/ (offset < CodeSize /\ offset' = CodeSize)
    BY <1>4 DEF Label, Pad, Finished, vars
  <2>2. offset \in Nat /\ CodeSize \in Nat
    BY RecoverAssumption DEF ReachInv, TrackerComplete
  <2>3. offset' \in Nat /\ offset <= offset' /\ (offset' <= CodeSize => offset <= CodeSize)
    BY <2>1, <2>2
  <2>4. TrackerComplete'
    BY <2>1, <2>3 DEF ReachInv, TrackerComplete
  <2>5. IInv'
    BY StepIInv DEF ReachInv, Strict
  <2> QED
    BY <2>1, <2>3, <2>4, <2>5, MoveReach
<1> QED
  BY <1>1, <1>2, <1>3, <1>4 DEF Next

-----------------------------------------------------------------------------
(* What the linker makes of it *)

\* The contributions of one relocation.
LEMMA SumOfOne ==
  ASSUME NEW f, NEW r, Contribution(r, f) \in Int
  PROVE  MapThenSumSet(LAMBDA x : Contribution(x, f), {r}) = Contribution(r, f)
<1> DEFINE c == Contribution(r, f)
           It(g) == [s \in SUBSET {r} |->
                       IF s = {} THEN 0
                       ELSE Contribution(CHOOSE x \in s : TRUE, f) + g[s \ {CHOOSE x \in s : TRUE}]]
           iter == CHOOSE g : g = It(g)
<1>1. MapThenSumSet(LAMBDA x : Contribution(x, f), {r}) = iter[{r}]
  BY DEF MapThenSumSet, MapThenFoldSet
<1>2. \E g : g = It(g)
  <2> DEFINE w == [s \in SUBSET {r} |-> IF s = {} THEN 0 ELSE c]
  <2>1. w[{}] = 0
    OBVIOUS
  <2>2. \A s \in SUBSET {r} : s # {} => (CHOOSE x \in s : TRUE) = r /\ s \ {r} = {}
    OBVIOUS
  <2>3. \A s \in SUBSET {r} : s # {} =>
          Contribution(CHOOSE x \in s : TRUE, f) + w[s \ {CHOOSE x \in s : TRUE}] = c
    BY <2>1, <2>2
  <2>4. w = It(w)
    BY <2>3
  <2> QED
    BY <2>4
<1>3. iter = It(iter)
  BY <1>2
<1> HIDE DEF iter
<1>4. iter[{}] = 0
  BY <1>3
<1>5. (CHOOSE x \in {r} : TRUE) = r /\ {r} \ {r} = {}
  OBVIOUS
<1>6. iter[{r}] = c + iter[{}]
  BY <1>3, <1>5
<1> QED
  BY <1>1, <1>4, <1>6

\* A field with one relocation means what that contributes.
LEMMA OneDesignates ==
  ASSUME NEW f, NEW r \in relocs, r.at = f.at, \A q \in relocs : q.at = f.at => q = r,
         Contribution(r, f) \in Int
  PROVE  Designates(f) = Contribution(r, f) + (IF f.kind = "rva" THEN Placed[Base] ELSE 0)
<1>1. {q \in relocs : q.at = f.at} = {r}
  OBVIOUS
<1>2. Designates(f) = MapThenSumSet(LAMBDA x : Contribution(x, f), {r})
                      + (IF f.kind = "rva" THEN Placed[Base] ELSE 0)
  BY <1>1 DEF Designates
<1> QED
  BY <1>2, SumOfOne

LEMMA ReachesByInv ==
  ASSUME ReachInv, Provided
  PROVE  FieldsReach
<1> SUFFICES ASSUME done, Compiled, NEW f \in fields PROVE Designates(f) = Means(f)
  BY DEF FieldsReach
<1>1. Shape(f)
  BY DEF ReachInv, FieldsApart
<1>2. CASE f.kind \in {"rel", "rva"}
  <2>1. Relocated(f, relocs) /\ Means(f) = Moved(f.to)
    BY <1>2 DEF ReachInv, AddressesKept, Means
  <2>2. CASE \E r \in relocs : r.at = f.at
    <3>1. PICK r \in relocs : r.at = f.at
      BY <2>2
    <3>2. Right(r, f) /\ \A q \in relocs : q.at = f.at => q = r
      BY <2>1, <3>1 DEF Relocated
    <3>3. CASE f.kind = "rel"
      <4>1. Contribution(r, f) = Placed[r.sym] + r.addend + (f.imm - r.trailing)
        BY <3>2, <3>3 DEF Contribution, Right
      <4>2. Contribution(r, f) = Moved(f.to) /\ Contribution(r, f) \in Int
        BY <1>1, <3>2, <4>1 DEF Right, Shape
      <4>3. Designates(f) = Contribution(r, f) + 0
        BY <3>1, <3>2, <3>3, <4>2, OneDesignates
      <4> QED
        BY <2>1, <4>2, <4>3
    <3>4. CASE f.kind = "rva"
      <4>1. Contribution(r, f) = Placed[r.sym] + r.addend - Placed[Base]
        BY <3>2, <3>4 DEF Contribution, Right
      <4>2. Placed[Base] \in Int /\ Moved(f.to) \in Int
            /\ Contribution(r, f) = Moved(f.to) - Placed[Base]
        BY <3>2, <4>1, Places DEF Right, Provided
      <4>3. Designates(f) = Contribution(r, f) + Placed[Base]
        BY <3>1, <3>2, <3>4, <4>2, OneDesignates
      <4> QED
        BY <2>1, <4>2, <4>3
    <3> QED
      BY <1>2, <3>3, <3>4
  <2>3. CASE ~\E r \in relocs : r.at = f.at
    <3>1. f.kind = "rel" /\ Intra(f.to)
      BY <2>1, <2>3 DEF Relocated
    <3>2. Designates(f) = f.to - Own + Placed[Own]
      BY <2>3, <3>1 DEF Designates, Left
    <3>3. Moved(f.to) = Placed[Own] + (f.to - Own)
      BY <3>1 DEF Moved
    <3> QED
      BY <1>1, <2>1, <3>2, <3>3, Places, RecoverAssumption DEF Shape, Provided
  <2> QED
    BY <2>2, <2>3
<1>3. CASE f.kind = "secrel"
  <2>1. tlsContext /\ f.to \in Secrel
    BY <1>1, <1>3 DEF Compiled, Shape
  <2>2. OffsetOf(f, relocs)
    BY <1>3, <2>1 DEF ReachInv, ConstantsKept
  <2>3. PICK r \in relocs : r.at = f.at
    BY <2>1, <2>2 DEF OffsetOf
  <2>4. /\ r.kind = "secrel" /\ r.sym = f.to /\ r.addend = 0
        /\ \A q \in relocs : q.at = f.at => q = r
    BY <2>2, <2>3 DEF OffsetOf
  <2>5. Contribution(r, f) = PlacedTls[f.to] + 0
    BY <2>4 DEF Contribution
  <2>6. PlacedTls[f.to] \in Int
    BY <2>1 DEF Provided, SymbolsApart
  <2>7. Designates(f) = Contribution(r, f) + 0
    BY <1>3, <2>3, <2>4, <2>5, <2>6, OneDesignates
  <2>8. Means(f) = PlacedTls[f.to]
    BY <1>3 DEF Means
  <2> QED
    BY <2>5, <2>6, <2>7, <2>8
<1>4. CASE f.kind = "const"
  <2>1. Free(f, relocs)
    <3>1. CASE tlsContext
      BY <1>4, <3>1 DEF ReachInv, ConstantsKept, Compiled, OffsetOf, Free
    <3>2. CASE ~tlsContext
      BY <1>4, <3>2 DEF ReachInv, ConstantsKept
    <3> QED
      BY <3>1, <3>2
  <2>2. Designates(f) = Left(f)
    BY <2>1 DEF Designates, Free
  <2> QED
    BY <1>4, <2>2 DEF Left, Means
<1> QED
  BY <1>1, <1>2, <1>3, <1>4 DEF Shape

\* However long the function, whatever its instructions, its tables and the
\* places the linker chooses: in code of the shapes compilers give it, every
\* branch, operand, entry and thread-local offset designates what it did.
THEOREM FieldsArrive ==
  ASSUME Strict, SymbolsApart, TargetsNamed, Encoded, TablesApart
  PROVE  Spec => []FieldsReach
<1> USE DEF Provided
<1>1. Init => ReachInv
  <2> SUFFICES ASSUME Init PROVE ReachInv
    OBVIOUS
  <2>1. IInv
    BY InitIInv
  <2>2. TrackerComplete /\ FieldsApart /\ TablesRead /\ AddressesKept /\ ConstantsKept
    BY DEF Init, TrackerComplete, FieldsApart, TablesRead, AddressesKept, ConstantsKept
  <2> QED
    BY <2>1, <2>2 DEF ReachInv
<1>2. ReachInv /\ [Next]_vars => ReachInv'
  BY ReachStep
<1>3. ReachInv => FieldsReach
  BY ReachesByInv
<1> QED
  BY <1>1, <1>2, <1>3, PTL DEF Spec
=============================================================================
