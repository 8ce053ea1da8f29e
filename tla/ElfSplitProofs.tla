--------------------------- MODULE ElfSplitProofs ---------------------------
(***************************************************************************)
(* What `delink split' leaves on disk, for every image, every number of    *)
(* runs and every order in which the workers write: the summary is true,   *)
(* every function is in one place of one object, references, calls and     *)
(* dynamic relocations reach what they reached before the split, and a run *)
(* by the objects.json another one wrote repeats it.  The user's edits of  *)
(* objects.json keep the output paths apart and lose no name.              *)
(***************************************************************************)
EXTENDS ElfSplit, SequenceTheorems, FunctionTheorems, FiniteSetTheorems, TLAPS

-----------------------------------------------------------------------------
(* What the resolver promises, whatever the image defines *)

\* The maps hold one definition for each address.
OnePerAddress(defs) == \A d, e \in defs : d.addr = e.addr => d = e

\* A suffix keeps the name and the address it was made of apart.
LEMMA SuffixInjective ==
  ASSUME NEW m \in Name, NEW n \in Name, NEW a \in Nat, NEW b \in Nat,
         Suffixed(m, a) = Suffixed(n, b)
  PROVE  m = n /\ a = b
<1>1. Append(m.dots, a) = Append(n.dots, b)
  BY DEF Suffixed, Name
<1>2. m.dots \in Seq(Nat) /\ n.dots \in Seq(Nat)
  BY DEF Name
<1>3. Len(m.dots) + 1 = Len(n.dots) + 1
  <2>1. /\ Len(Append(m.dots, a)) = Len(m.dots) + 1
        /\ Len(Append(n.dots, b)) = Len(n.dots) + 1
    BY <1>2
  <2> QED
    BY <1>1, <2>1
<1>4. Len(m.dots) = Len(n.dots) /\ Len(m.dots) \in Nat
  <2>1. Len(m.dots) \in Nat /\ Len(n.dots) \in Nat
    BY <1>2
  <2> QED
    BY <1>3, <2>1
<1>5. a = b
  BY <1>1, <1>2, <1>4
<1>6. \A i \in 1..Len(m.dots) : m.dots[i] = n.dots[i]
  <2> TAKE i \in 1..Len(m.dots)
  <2>1. Append(m.dots, a)[i] = m.dots[i] /\ Append(n.dots, b)[i] = n.dots[i]
    BY <1>2, <1>4
  <2> QED
    BY <2>1, <1>1
<1>7. m.dots = n.dots
  BY <1>2, <1>4, <1>6, SeqEqual
<1>8. m.stem = n.stem
  BY DEF Suffixed, Name
<1> QED
  BY <1>5, <1>7, <1>8 DEF Name

\* A suffixed name is no identifier.
LEMMA SuffixedHasDots ==
  ASSUME NEW name \in Name, NEW a \in Nat
  PROVE  ~IsIdentifier(Suffixed(name, a))
<1> SUFFICES ASSUME Suffixed(name, a).dots = <<>>
             PROVE  FALSE
  BY DEF IsIdentifier
<1>1. Suffixed(name, a).dots = Append(name.dots, a) /\ name.dots \in Seq(Nat)
  BY DEF Suffixed, Name
<1>2. Len(Append(name.dots, a)) = Len(name.dots) + 1 /\ Len(name.dots) \in Nat
  BY <1>1
<1>3. Len(<<>>) = 0
  OBVIOUS
<1> QED
  BY <1>1, <1>2, <1>3

\* Names without dots never meet a suffixed one.
LEMMA IdentifiersHaveNoTwin ==
  ASSUME NEW defs \in SUBSET Definition,
         \A d \in defs : IsIdentifier(d.name)
  PROVE  NoDottedTwin(defs)
<1> SUFFICES ASSUME NEW d \in defs, NEW e \in defs
             PROVE  e.name # Suffixed(d.name, d.addr)
  BY DEF NoDottedTwin
<1>1. d.name \in Name /\ d.addr \in Nat
  BY DEF Definition
<1> QED
  BY <1>1, SuffixedHasDots

\* After disambiguation a name stands for one address, as long as no name of the
\* image is already of the form the renaming makes.
LEMMA OneAddressForAName ==
  ASSUME NEW defs \in SUBSET Definition, NoDottedTwin(defs),
         NEW d \in defs, NEW e \in defs, ExportName(defs, d) = ExportName(defs, e)
  PROVE  d.addr = e.addr
<1>1. d.name \in Name /\ e.name \in Name /\ d.addr \in Nat /\ e.addr \in Nat
  BY DEF Definition
<1>2. CASE d.name \in Colliding(defs) /\ e.name \in Colliding(defs)
  <2>1. Suffixed(d.name, d.addr) = Suffixed(e.name, e.addr)
    BY <1>2 DEF ExportName
  <2> QED
    BY <1>1, <2>1, SuffixInjective
<1>3. CASE d.name \in Colliding(defs) /\ e.name \notin Colliding(defs)
  BY <1>3 DEF ExportName, NoDottedTwin
<1>4. CASE d.name \notin Colliding(defs) /\ e.name \in Colliding(defs)
  BY <1>4 DEF ExportName, NoDottedTwin
<1>5. CASE d.name \notin Colliding(defs) /\ e.name \notin Colliding(defs)
  BY <1>5 DEF ExportName, Colliding
<1> QED
  BY <1>2, <1>3, <1>4, <1>5

\* Where the maps hold one definition for each address, it stands for one of
\* them.
THEOREM ExportNamesDistinct ==
  ASSUME NEW defs \in SUBSET Definition, OnePerAddress(defs), NoDottedTwin(defs)
  PROVE  \A d, e \in defs : ExportName(defs, d) = ExportName(defs, e) => d = e
BY OneAddressForAName DEF OnePerAddress

\* The comment of disambiguate_names holds of C identifiers: then the suffix
\* never collides with a source-level name.
COROLLARY IdentifiersDistinct ==
  ASSUME NEW defs \in SUBSET Definition, OnePerAddress(defs),
         \A d \in defs : IsIdentifier(d.name)
  PROVE  \A d, e \in defs : ExportName(defs, d) = ExportName(defs, e) => d = e
BY IdentifiersHaveNoTwin, ExportNamesDistinct

\* Whatever resolve_data returns for an address denotes that address: the
\* definition or the section it names lies at the address less the addend.
THEOREM ResolveDataSound ==
  ASSUME NEW defs \in SUBSET Definition,
         NEW sections \in SUBSET [base : Nat, limit : Nat, start : Stems],
         NEW a \in Nat, NEW ref \in ResolveData(defs, sections, a)
  PROVE  /\ ref.addend \in Nat
         /\ \/ \E d \in defs : /\ ref.symbol = ExportName(defs, d)
                               /\ d.addr + ref.addend = a
            \/ \E s \in sections : /\ ref.symbol = Plain(s.start)
                                   /\ s.base + ref.addend = a
<1> DEFINE Sound(r) == \E d \in defs : /\ r.symbol = ExportName(defs, d)
                                       /\ d.addr + r.addend = a
                                       /\ r.addend \in Nat
<1>1. ASSUME NEW found \in SUBSET defs, \A d \in found : d.addr <= a,
             NEW r \in Refer(defs, found, a)
      PROVE  Sound(r)
  <2>1. PICK d \in found : r = [symbol |-> ExportName(defs, d), addend |-> a - d.addr]
    BY <1>1 DEF Refer
  <2>2. d \in defs /\ d.addr \in Nat /\ d.addr <= a
    BY <1>1 DEF Definition
  <2>3. r.addend = a - d.addr /\ r.symbol = ExportName(defs, d)
    BY <2>1
  <2>4. d.addr + r.addend = a /\ r.addend \in Nat
    BY <2>2, <2>3
  <2> QED
    BY <2>2, <2>3, <2>4
<1>2. CASE At(defs, FALSE, a) # {}
  <2>1. At(defs, FALSE, a) \in SUBSET defs /\ \A d \in At(defs, FALSE, a) : d.addr <= a
    BY DEF At
  <2>2. ref \in Refer(defs, At(defs, FALSE, a), a)
    BY <1>2 DEF ResolveData
  <2> HIDE DEF Sound
  <2>3. Sound(ref)
    BY <2>1, <2>2, <1>1
  <2> QED
    BY <2>3 DEF Sound
<1>3. CASE At(defs, FALSE, a) = {} /\ ResolveInto(defs, a) # {}
  <2>1. ResolveInto(defs, a) \in SUBSET defs /\ \A d \in ResolveInto(defs, a) : d.addr <= a
    BY DEF ResolveInto
  <2>2. ref \in Refer(defs, ResolveInto(defs, a), a)
    BY <1>3 DEF ResolveData
  <2> HIDE DEF Sound
  <2>3. Sound(ref)
    BY <2>1, <2>2, <1>1
  <2> QED
    BY <2>3 DEF Sound
<1>4. CASE At(defs, FALSE, a) = {} /\ ResolveInto(defs, a) = {}
  <2>1. ref \in SectionRelative(sections, a)
    BY <1>4 DEF ResolveData
  <2>2. PICK s \in sections : /\ s.base <= a
                              /\ ref = [symbol |-> Plain(s.start), addend |-> a - s.base]
    BY <2>1 DEF SectionRelative
  <2>3. s.base \in Nat /\ ref.addend = a - s.base /\ ref.symbol = Plain(s.start)
    BY <2>2
  <2> QED
    BY <2>2, <2>3
<1> QED
  BY <1>2, <1>3, <1>4

\* An address inside a known function always resolves, by name.
THEOREM CodeResolves ==
  ASSUME NEW defs \in SUBSET Definition,
         NEW sections \in SUBSET [base : Nat, limit : Nat, start : Stems],
         NEW f \in defs, f.code, NEW a \in Nat, f.addr <= a, a < f.addr + f.size,
         \A g \in defs : g.code /\ g.addr <= a => g.addr <= f.addr
  PROVE  ResolveData(defs, sections, a) # {}
<1>1. f \in ResolveInto(defs, a)
  BY DEF ResolveInto
<1>2. ASSUME NEW found \in SUBSET defs, found # {}
      PROVE  Refer(defs, found, a) # {}
  BY <1>2 DEF Refer
<1>3. ResolveInto(defs, a) \in SUBSET defs /\ At(defs, FALSE, a) \in SUBSET defs
  BY DEF ResolveInto, At
<1> QED
  BY <1>1, <1>2, <1>3 DEF ResolveData

-----------------------------------------------------------------------------
(* The invariant of a run *)

\* What is known of the units while the driver is in one of its phases.
Written ==
  \A file \in DOMAIN units : phase[file] = "ok" =>
    /\ OutputOf(file) \in DOMAIN disk
    /\ disk[OutputOf(file)] = ObjectOf(image, source, units[file])

Joined ==
  pc \in {"report", "done"} =>
    \A file \in DOMAIN units : phase[file] \in {"ok", "err"}

Counted ==
  pc = "done" =>
    failures = Cardinality({file \in DOMAIN phase : phase[file] = "err"})

IInv ==
  /\ image \in Images
  /\ PathsApart(grouping) /\ PathsApart(units)
  /\ DOMAIN phase = DOMAIN units
  /\ pc \in {"idle", "index"} => DOMAIN units = {}
  /\ Written /\ Joined /\ Counted

-----------------------------------------------------------------------------
(* Paths *)

LEMMA EmptyApart == PathsApart(<<>>)
<1>1. DOMAIN <<>> = {}
  OBVIOUS
<1> QED
  BY <1>1, FS_EmptySet DEF PathsApart

\* Files that stay under their names stay apart.
LEMMA SubApart ==
  ASSUME NEW f, NEW g, PathsApart(f), DOMAIN g \subseteq DOMAIN f
  PROVE  PathsApart(g)
<1>1. IsFiniteSet(DOMAIN g)
  BY FS_Subset DEF PathsApart
<1> QED
  BY <1>1 DEF PathsApart

\* The files a source's own units are written to.
LEMMA DefaultApart ==
  ASSUME NEW index, IsFiniteSet(index)
  PROVE  PathsApart(DefaultUnits(index)) /\ PathsApart(ObjectsJson(index))
<1> DEFINE files == {CuFile(f.unit) : f \in Functions(index)}
           fileOf == [f \in Functions(index) |-> CuFile(f.unit)]
<1>1. IsFiniteSet(Functions(index))
  BY FS_Subset DEF Functions
<1>2. fileOf \in Surjection(Functions(index), files)
  BY DEF Surjection
<1>3. IsFiniteSet(files)
  <2> HIDE DEF files, fileOf
  <2> QED
    BY <1>1, <1>2, FS_Surjection
<1>4. DOMAIN DefaultUnits(index) \subseteq files
  BY DEF DefaultUnits
<1>5. \A file \in files : OutputOf(file) = file /\ file # SharedFile
  BY DEF OutputOf, CuFile, SharedFile
<1>6. DOMAIN ObjectsJson(index) = DOMAIN DefaultUnits(index)
  BY DEF ObjectsJson
<1>7. IsFiniteSet(DOMAIN DefaultUnits(index))
  <2> HIDE DEF files
  <2> QED
    BY <1>3, <1>4, FS_Subset
<1> HIDE DEF files
<1> QED
  BY <1>4, <1>5, <1>6, <1>7 DEF PathsApart

LEMMA RegroupedApart ==
  ASSUME NEW index, NEW objects, PathsApart(objects)
  PROVE  PathsApart(Regrouped(index, objects))
<1>1. DOMAIN Regrouped(index, objects) \subseteq DOMAIN objects
  BY DEF Regrouped
<1> QED
  BY <1>1, SubApart

\* Writing one path leaves the others alone.
LEMMA WriteOne ==
  ASSUME NEW path, NEW object, WriteFile(path, object)
  PROVE  /\ path \in DOMAIN disk' /\ disk'[path] = object
         /\ \A other \in DOMAIN disk : other # path =>
              other \in DOMAIN disk' /\ disk'[other] = disk[other]
BY DEF WriteFile

-----------------------------------------------------------------------------
(* Listings *)

\* A finite set can be listed, each member once.
LEMMA Listed ==
  ASSUME NEW S, IsFiniteSet(S)
  PROVE  /\ SetToSeq(S) \in [1..Cardinality(S) -> S]
         /\ \A x \in S : \E i \in 1..Cardinality(S) : SetToSeq(S)[i] = x
<1> DEFINE n == Cardinality(S)
           Listing(s) == s \in [1..n -> S] /\ IsInjective(s)
<1>1. n \in Nat /\ ExistsBijection(1..n, S)
  BY FS_CardinalityType
<1>2. \E s : Listing(s)
  BY <1>1 DEF ExistsBijection, Bijection, Injection
<1>3. Listing(SetToSeq(S))
  BY <1>2 DEF SetToSeq
<1>4. SetToSeq(S) \in Injection(1..n, S)
  BY <1>3 DEF Injection
<1>5. Cardinality(1..n) = n
  BY <1>1, FS_Interval
<1>6. SetToSeq(S) \in Surjection(1..n, S)
  <2> HIDE DEF n
  <2> QED
    BY <1>4, <1>5, FS_Injection DEF n
<1> QED
  BY <1>3, <1>6 DEF Surjection

\* Definitions can be listed in the order of their addresses: a definition goes
\* where the number of those not after it says.
LEMMA SortedListing ==
  ASSUME NEW defs, IsFiniteSet(defs), \A d \in defs : d.addr \in Nat
  PROVE  \E s \in [1..Cardinality(defs) -> defs] :
           /\ IsInjective(s)
           /\ \A i, j \in DOMAIN s : i < j => s[i].addr <= s[j].addr
<1> DEFINE n == Cardinality(defs)
<1>1. n \in Nat /\ ExistsBijection(defs, 1..n)
  BY FS_CardinalityType, Fun_ExistsBijSymmetric
<1>2. PICK place : place \in [defs -> 1..n] /\ \A d, e \in defs : place[d] = place[e] => d = e
  BY <1>1 DEF ExistsBijection, Bijection, Injection, IsInjective
<1> DEFINE Before(d, e) == d.addr < e.addr \/ (d.addr = e.addr /\ place[d] <= place[e])
           UpTo(e) == {d \in defs : Before(d, e)}
           rank == [d \in defs |-> Cardinality(UpTo(d))]
<1>3. \A d \in defs : d.addr \in Nat /\ place[d] \in Nat
  BY <1>1, <1>2
<1>4. \A d, e \in defs : d = e \/ ~Before(d, e) \/ ~Before(e, d)
  BY <1>2, <1>3
<1>5. \A d, e \in defs : Before(d, e) \/ Before(e, d)
  BY <1>3
<1>6. \A c, d, e \in defs : Before(c, d) /\ Before(d, e) => Before(c, e)
  BY <1>3
<1>7. \A d, e \in defs : Before(d, e) => d.addr <= e.addr
  BY <1>3
<1> HIDE DEF Before
<1>8. \A e \in defs : IsFiniteSet(UpTo(e)) /\ Cardinality(UpTo(e)) \in 1..n
  <2> SUFFICES ASSUME NEW e \in defs
               PROVE  IsFiniteSet(UpTo(e)) /\ Cardinality(UpTo(e)) \in 1..n
    OBVIOUS
  <2>1. UpTo(e) \subseteq defs /\ e \in UpTo(e)
    BY <1>5
  <2> HIDE DEF UpTo
  <2>2. IsFiniteSet(UpTo(e)) /\ Cardinality(UpTo(e)) \in Nat /\ Cardinality(UpTo(e)) <= n
    BY <2>1, FS_Subset, FS_CardinalityType
  <2>3. Cardinality(UpTo(e)) # 0
    BY <2>1, <2>2, FS_EmptySet
  <2> QED
    BY <1>1, <2>2, <2>3
<1>9. \A d, e \in defs : Before(d, e) /\ d # e => Cardinality(UpTo(d)) < Cardinality(UpTo(e))
  <2> SUFFICES ASSUME NEW d \in defs, NEW e \in defs, Before(d, e), d # e
               PROVE  Cardinality(UpTo(d)) < Cardinality(UpTo(e))
    OBVIOUS
  <2>1. UpTo(d) \subseteq UpTo(e)
    BY <1>6
  <2>2. e \in UpTo(e) /\ e \notin UpTo(d)
    BY <1>4, <1>5
  <2>3. IsFiniteSet(UpTo(e)) /\ Cardinality(UpTo(e)) \in Nat /\ Cardinality(UpTo(d)) \in Nat
    BY <1>8
  <2> HIDE DEF UpTo
  <2>4. /\ Cardinality(UpTo(d)) <= Cardinality(UpTo(e))
        /\ Cardinality(UpTo(d)) = Cardinality(UpTo(e)) => UpTo(d) = UpTo(e)
    BY <2>1, <2>3, FS_Subset
  <2> QED
    BY <2>2, <2>3, <2>4
<1>10. rank \in Injection(defs, 1..n)
  <2>1. rank \in [defs -> 1..n]
    BY <1>8
  <2>2. ASSUME NEW d \in defs, NEW e \in defs, rank[d] = rank[e]
        PROVE  d = e
    <3>1. Cardinality(UpTo(d)) = Cardinality(UpTo(e)) /\ Cardinality(UpTo(d)) \in Nat
      BY <1>8, <2>2
    <3> HIDE DEF UpTo
    <3> QED
      BY <1>5, <1>9, <3>1
  <2> HIDE DEF rank
  <2> QED
    BY <2>1, <2>2 DEF Injection, IsInjective
<1>11. rank \in Surjection(defs, 1..n)
  <2>1. Cardinality(1..n) = n /\ IsFiniteSet(1..n)
    BY <1>1, FS_Interval
  <2> HIDE DEF rank
  <2> QED
    BY <1>10, <2>1, FS_Injection
<1>12. \A i \in 1..n : \E d \in defs : rank[d] = i
  BY <1>11 DEF Surjection
<1> DEFINE s == [i \in 1..n |-> CHOOSE d \in defs : rank[d] = i]
<1>13. \A i \in 1..n : s[i] \in defs /\ rank[s[i]] = i
  <2> HIDE DEF rank
  <2> QED
    BY <1>12
<1>14. s \in [1..n -> defs]
  BY <1>13
<1>15. DOMAIN s = 1..n
  OBVIOUS
<1> HIDE DEF s
<1>16. IsInjective(s)
  <2>1. \A i, j \in 1..n : s[i] = s[j] => i = j
    <3> HIDE DEF rank
    <3> QED
      BY <1>13
  <2> QED
    BY <2>1, <1>15 DEF IsInjective
<1>17. ASSUME NEW i \in 1..n, NEW j \in 1..n, i < j
       PROVE  s[i].addr <= s[j].addr
  <2>1. /\ s[i] \in defs /\ s[j] \in defs
        /\ Cardinality(UpTo(s[i])) = i /\ Cardinality(UpTo(s[j])) = j
    BY <1>13
  <2>2. CASE Before(s[i], s[j])
    BY <1>7, <2>1, <2>2
  <2>3. CASE ~Before(s[i], s[j])
    <3>1. Before(s[j], s[i]) /\ s[i] # s[j]
      BY <1>5, <2>1, <2>3
    <3>2. Cardinality(UpTo(s[j])) < Cardinality(UpTo(s[i]))
      <4> HIDE DEF UpTo
      <4> QED
        BY <1>9, <2>1, <3>1
    <3> QED
      BY <1>1, <1>17, <2>1, <3>2
  <2> QED
    BY <2>2, <2>3
<1> QED
  BY <1>14, <1>15, <1>16, <1>17

LEMMA ByAddressLists ==
  ASSUME NEW defs, IsFiniteSet(defs), \A d \in defs : d.addr \in Nat
  PROVE  /\ \A i \in DOMAIN ByAddress(defs) : ByAddress(defs)[i] \in defs
         /\ \A i, j \in DOMAIN ByAddress(defs) : ByAddress(defs)[i] = ByAddress(defs)[j] => i = j
         /\ \A d \in defs : \E i \in DOMAIN ByAddress(defs) : ByAddress(defs)[i] = d
<1> DEFINE n == Cardinality(defs)
<1>1. /\ ByAddress(defs) \in [1..n -> defs]
      /\ IsInjective(ByAddress(defs))
  BY SortedListing DEF ByAddress
<1>2. n \in Nat /\ Cardinality(1..n) = n
  BY FS_CardinalityType, FS_Interval
<1>3. ByAddress(defs) \in Surjection(1..n, defs)
  <2>1. ByAddress(defs) \in Injection(1..n, defs)
    BY <1>1 DEF Injection
  <2> HIDE DEF n
  <2> QED
    BY <1>2, <2>1, FS_Injection DEF n
<1> QED
  BY <1>1, <1>3 DEF Surjection, IsInjective

-----------------------------------------------------------------------------
(* The units of a run *)

\* Units that list every function of the index that has bytes, and list it once.
Lists(us, index) ==
  /\ \A file \in DOMAIN us : \A i \in DOMAIN us[file] : us[file][i] \in Functions(index)
  /\ \A f \in Functions(index) : f.size > 0 =>
       \E file \in DOMAIN us : \E i \in DOMAIN us[file] : us[file][i] = f
  /\ \A file, other \in DOMAIN us :
       \A i \in DOMAIN us[file], j \in DOMAIN us[other] :
         us[file][i] = us[other][j] /\ us[file][i].size > 0 => file = other /\ i = j

LEMMA DefaultLists ==
  ASSUME NEW index \in SUBSET Definition, IsFiniteSet(index)
  PROVE  Lists(DefaultUnits(index), index)
<1> DEFINE of(unit) == {f \in Functions(index) : f.unit = unit /\ f.size > 0}
           ids == {f.unit : f \in Functions(index)}
           files == {CuFile(u) : u \in {i \in ids : of(i) # {}}}
           us == DefaultUnits(index)
<1>1. DOMAIN us = files /\ \A file \in files : us[file] = ByAddress(of(file.id))
  BY DEF DefaultUnits
<1>2. \A unit : IsFiniteSet(of(unit)) /\ \A d \in of(unit) : d.addr \in Nat
  <2> SUFFICES ASSUME NEW unit
               PROVE  IsFiniteSet(of(unit)) /\ \A d \in of(unit) : d.addr \in Nat
    OBVIOUS
  <2>1. of(unit) \subseteq index
    BY DEF Functions
  <2> HIDE DEF of
  <2> QED
    BY <2>1, FS_Subset DEF Definition
<1>3. \A file \in files : file = CuFile(file.id)
  BY DEF CuFile
<1>4. ASSUME NEW file \in files
      PROVE  /\ \A i \in DOMAIN us[file] : us[file][i] \in of(file.id)
             /\ \A i, j \in DOMAIN us[file] : us[file][i] = us[file][j] => i = j
             /\ \A d \in of(file.id) : \E i \in DOMAIN us[file] : us[file][i] = d
  <2> HIDE DEF of, us, files
  <2> QED
    BY <1>1, <1>2, ByAddressLists
<1>5. ASSUME NEW f \in Functions(index), f.size > 0
      PROVE  \E file \in DOMAIN us : \E i \in DOMAIN us[file] : us[file][i] = f
  <2>1. f \in of(f.unit) /\ CuFile(f.unit) \in files /\ CuFile(f.unit).id = f.unit
    BY <1>5 DEF CuFile
  <2> HIDE DEF of, us, files
  <2> QED
    BY <1>1, <1>4, <2>1
<1>6. ASSUME NEW file \in files, NEW other \in files,
             NEW i \in DOMAIN us[file], NEW j \in DOMAIN us[other], us[file][i] = us[other][j]
      PROVE  file = other /\ i = j
  <2>1. us[file][i] \in of(file.id) /\ us[other][j] \in of(other.id)
    <3> HIDE DEF of, us, files
    <3> QED
      BY <1>4
  <2>2. file.id = other.id
    BY <1>6, <2>1
  <2>3. file = other
    <3> HIDE DEF of, us, files
    <3> QED
      BY <1>3, <2>2
  <2> HIDE DEF of, us, files
  <2> QED
    BY <1>4, <1>6, <2>3
<1> HIDE DEF us
<1>7. \A file \in DOMAIN us : \A i \in DOMAIN us[file] : us[file][i] \in Functions(index)
  BY <1>1, <1>4
<1>8. \A file, other \in DOMAIN us : \A i \in DOMAIN us[file], j \in DOMAIN us[other] :
        us[file][i] = us[other][j] /\ us[file][i].size > 0 => file = other /\ i = j
  <2> HIDE DEF files
  <2> QED
    BY <1>1, <1>6
<1> HIDE DEF files
<1> QED
  BY <1>5, <1>7, <1>8 DEF Lists, us

\* objects.json, as a run writes it, lists the functions in one place each, when
\* their names tell them apart.
LEMMA JsonLists ==
  ASSUME NEW index \in SUBSET Definition, IsFiniteSet(index), FunctionsNamed(index),
         NEW f \in Functions(index), f.size > 0
  PROVE  ListedOnce(ObjectsJson(index), f.name)
<1> DEFINE us == DefaultUnits(index)
           objects == ObjectsJson(index)
<1>1. /\ DOMAIN objects = DOMAIN us
      /\ \A file \in DOMAIN us : /\ DOMAIN objects[file] = DOMAIN us[file]
                                 /\ \A i \in DOMAIN us[file] : objects[file][i] = us[file][i].name
  BY DEF ObjectsJson
<1>2. Lists(us, index)
  BY DefaultLists
<1> HIDE DEF us, objects
<1>3. PICK file \in DOMAIN us : \E i \in DOMAIN us[file] : us[file][i] = f
  BY <1>2 DEF Lists
<1>4. PICK i \in DOMAIN us[file] : us[file][i] = f
  BY <1>3
<1>5. ASSUME NEW other \in DOMAIN us, NEW j \in DOMAIN us[other], us[other][j].name = f.name
      PROVE  other = file /\ j = i
  <2>1. us[other][j] \in Functions(index)
    BY <1>2 DEF Lists
  <2>2. us[other][j] = f
    BY <1>5, <2>1 DEF FunctionsNamed
  <2> QED
    BY <1>2, <1>4, <2>2 DEF Lists
<1>6. ListedOnce(objects, f.name)
  BY <1>1, <1>4, <1>5 DEF ListedOnce
<1> QED
  BY <1>6 DEF objects

\* A grouping that lists the functions in one place each puts each in one unit.
LEMMA RegroupedLists ==
  ASSUME NEW index, FunctionsNamed(index), NEW objects,
         \A f \in Functions(index) : f.size > 0 => ListedOnce(objects, f.name)
  PROVE  Lists(Regrouped(index, objects), index)
<1> DEFINE known(file) == {i \in DOMAIN objects[file] : Named(index, objects[file][i]) # {}}
           us == Regrouped(index, objects)
<1>1. /\ DOMAIN us = {k \in DOMAIN objects : known(k) # {}}
      /\ \A file \in DOMAIN us :
           us[file] = [i \in known(file) |-> CHOOSE f \in Named(index, objects[file][i]) : TRUE]
  BY DEF Regrouped
<1>2. \A name : \A f \in Named(index, name) : f \in Functions(index) /\ f.name = name
  BY DEF Named
<1>3. \A f \in Functions(index) : f \in Named(index, f.name)
  BY DEF Named, FunctionsNamed
<1>4. ASSUME NEW file \in DOMAIN us, NEW i \in DOMAIN us[file]
      PROVE  /\ i \in DOMAIN objects[file]
             /\ us[file][i] \in Functions(index) /\ us[file][i].name = objects[file][i]
  <2>1. i \in known(file) /\ us[file][i] = CHOOSE f \in Named(index, objects[file][i]) : TRUE
    <3> HIDE DEF us, known
    <3> QED
      BY <1>1, <1>4
  <2>2. i \in DOMAIN objects[file] /\ Named(index, objects[file][i]) # {}
    BY <2>1
  <2> HIDE DEF us, known
  <2> QED
    BY <1>2, <2>1, <2>2
<1>5. ASSUME NEW f \in Functions(index), f.size > 0
      PROVE  \E file \in DOMAIN us : \E i \in DOMAIN us[file] : us[file][i] = f
  <2>1. PICK file \in DOMAIN objects : \E i \in DOMAIN objects[file] : objects[file][i] = f.name
    BY <1>5 DEF ListedOnce
  <2>2. PICK i \in DOMAIN objects[file] : objects[file][i] = f.name
    BY <2>1
  <2>3. i \in known(file)
    BY <1>3, <2>2
  <2>4. file \in DOMAIN us /\ i \in DOMAIN us[file]
    <3> HIDE DEF us, known
    <3> QED
      BY <1>1, <2>3
  <2>5. us[file][i] \in Functions(index) /\ us[file][i].name = f.name
    BY <1>4, <2>2, <2>4
  <2> HIDE DEF us
  <2> QED
    BY <2>4, <2>5 DEF FunctionsNamed
<1>6. ASSUME NEW file \in DOMAIN us, NEW other \in DOMAIN us,
             NEW i \in DOMAIN us[file], NEW j \in DOMAIN us[other],
             us[file][i] = us[other][j], us[file][i].size > 0
      PROVE  file = other /\ i = j
  <2>1. /\ i \in DOMAIN objects[file] /\ j \in DOMAIN objects[other]
        /\ us[file][i] \in Functions(index)
        /\ objects[file][i] = us[file][i].name /\ objects[other][j] = us[file][i].name
    BY <1>4, <1>6
  <2>2. file \in DOMAIN objects /\ other \in DOMAIN objects
    BY <1>1
  <2>3. ListedOnce(objects, us[file][i].name)
    BY <1>6, <2>1
  <2> HIDE DEF us
  <2> QED
    BY <2>1, <2>2, <2>3 DEF ListedOnce
<1> HIDE DEF us
<1> QED
  BY <1>4, <1>5, <1>6 DEF Lists, us

-----------------------------------------------------------------------------
(* The inductive invariant *)

LEMMA InitInv == Init => IInv
<1> SUFFICES ASSUME Init PROVE IInv
  OBVIOUS
<1>1. DOMAIN <<>> = {}
  OBVIOUS
<1> QED
  BY <1>1, EmptyApart DEF Init, IInv, Written, Joined, Counted

\* A step of the driver that writes the units down anew.
LEMMA StartsAnew ==
  ASSUME IInv, NEW newUnits, PathsApart(newUnits), StartUnits(newUnits),
         PathsApart(grouping'), image' = image
  PROVE  IInv'
<1>1. /\ units' = newUnits /\ pc' = "emit"
      /\ phase' = [file \in DOMAIN newUnits |-> "todo"]
  BY DEF StartUnits
<1>2. Written'
  BY <1>1 DEF Written
<1>3. Joined' /\ Counted'
  BY <1>1 DEF Joined, Counted
<1>4. PathsApart(units)'
  BY <1>1 DEF PathsApart
<1> QED
  BY <1>1, <1>2, <1>3, <1>4 DEF IInv, PathsApart

LEMMA StepInv ==
  ASSUME IInv, [Next]_vars, [PathsKeptApart]_vars
  PROVE  IInv'
<1>1. \A src : IsFiniteSet(IndexOf(image, src))
  BY SplitAssumption DEF IInv, IndexOf
<1>2. CASE Start
  BY <1>2 DEF Start, IInv, Written, Joined, Counted, PathsApart
<1>3. CASE NothingToSplit
  BY <1>3 DEF NothingToSplit, IInv, Written, Joined, Counted, PathsApart
<1>4. CASE Save
  <2>1. /\ StartUnits(DefaultUnits(IndexOf(image, source'))) /\ image' = image
        /\ grouping' = ObjectsJson(IndexOf(image, source'))
    BY <1>4 DEF Save
  <2>2. PathsApart(DefaultUnits(IndexOf(image, source')))
        /\ PathsApart(ObjectsJson(IndexOf(image, source')))
    BY <1>1, DefaultApart
  <2> QED
    BY <2>1, <2>2, StartsAnew
<1>5. CASE SaveFails
  <2>1. /\ DOMAIN units = {} /\ pc' = "failed" /\ grouping' = <<>>
        /\ UNCHANGED <<image, units, phase, disk, failures>>
    BY <1>5 DEF SaveFails, IInv
  <2>2. PathsApart(grouping')
    BY <2>1, EmptyApart
  <2>3. PathsApart(units)'
    BY <2>1 DEF IInv, PathsApart
  <2> QED
    BY <2>1, <2>2, <2>3 DEF IInv, Written, Joined, Counted, PathsApart
<1>6. CASE Regroup
  <2>1. /\ StartUnits(Regrouped(IndexOf(image, source'), grouping)) /\ image' = image
        /\ grouping' = grouping
    BY <1>6 DEF Regroup
  <2>2. PathsApart(Regrouped(IndexOf(image, source'), grouping)) /\ PathsApart(grouping')
    BY <2>1, RegroupedApart DEF IInv
  <2> QED
    BY <2>1, <2>2, StartsAnew
<1>7. ASSUME NEW file \in DOMAIN units, Prepare(file)
      PROVE  IInv'
  <2>1. /\ pc = "emit" /\ pc' = "emit"
        /\ UNCHANGED <<image, source, units, grouping, disk, failures>>
        /\ DOMAIN phase' = DOMAIN phase
        /\ \A other \in DOMAIN phase : phase'[other] = "ok" => phase[other] = "ok"
    BY <1>7 DEF Prepare, IInv
  <2>2. Written'
    BY <2>1 DEF Written, IInv
  <2> QED
    BY <2>1, <2>2 DEF IInv, Joined, Counted, PathsApart
<1>8. ASSUME NEW file \in DOMAIN units, Write(file)
      PROVE  IInv'
  <2>1. /\ pc = "emit" /\ pc' = "emit"
        /\ UNCHANGED <<image, source, units, grouping, failures>>
        /\ phase' = [phase EXCEPT ![file] = "ok"]
        /\ WriteFile(OutputOf(file), ObjectOf(image, source, units[file]))
    BY <1>8 DEF Write
  <2>2. DOMAIN phase' = DOMAIN units
    BY <2>1 DEF IInv
  <2>3. ASSUME NEW other \in DOMAIN units, phase'[other] = "ok"
        PROVE  /\ OutputOf(other) \in DOMAIN disk'
               /\ disk'[OutputOf(other)] = ObjectOf(image, source, units[other])
    <3>1. CASE other = file
      BY <3>1, <2>1, WriteOne
    <3>2. CASE other # file
      <4>1. OutputOf(other) # OutputOf(file)
        BY <3>2, <1>8 DEF IInv, PathsApart
      <4>2. phase[other] = "ok"
        BY <2>1, <2>3, <3>2 DEF IInv
      <4>3. OutputOf(other) \in DOMAIN disk
            /\ disk[OutputOf(other)] = ObjectOf(image, source, units[other])
        BY <4>2 DEF IInv, Written
      <4> QED
        BY <4>1, <4>3, <2>1, WriteOne
    <3> QED
      BY <3>1, <3>2
  <2>4. Written'
    BY <2>1, <2>3 DEF Written
  <2> QED
    BY <2>1, <2>2, <2>4 DEF IInv, Joined, Counted, PathsApart
<1>9. ASSUME NEW file \in DOMAIN units, WriteFails(file)
      PROVE  IInv'
  <2>1. /\ pc = "emit" /\ pc' = "emit"
        /\ UNCHANGED <<image, source, units, grouping, failures>>
        /\ phase' = [phase EXCEPT ![file] = "err"]
        /\ WriteFile(OutputOf(file), <<>>)
    BY <1>9 DEF WriteFails
  <2>2. DOMAIN phase' = DOMAIN units
    BY <2>1 DEF IInv
  <2>3. ASSUME NEW other \in DOMAIN units, phase'[other] = "ok"
        PROVE  /\ OutputOf(other) \in DOMAIN disk'
               /\ disk'[OutputOf(other)] = ObjectOf(image, source, units[other])
    <3>1. other # file /\ phase[other] = "ok"
      BY <2>1, <2>3 DEF IInv
    <3>2. OutputOf(other) # OutputOf(file)
      BY <3>1, <1>9 DEF IInv, PathsApart
    <3>3. OutputOf(other) \in DOMAIN disk
          /\ disk[OutputOf(other)] = ObjectOf(image, source, units[other])
      BY <3>1 DEF IInv, Written
    <3> QED
      BY <3>2, <3>3, <2>1, WriteOne
  <2>4. Written'
    BY <2>1, <2>3 DEF Written
  <2> QED
    BY <2>1, <2>2, <2>4 DEF IInv, Joined, Counted, PathsApart
<1>10. ASSUME NEW object, WriteFile(SharedFile, object)
       PROVE  \A file \in DOMAIN units : phase[file] = "ok" =>
                /\ OutputOf(file) \in DOMAIN disk'
                /\ disk'[OutputOf(file)] = ObjectOf(image, source, units[file])
  <2> SUFFICES ASSUME NEW file \in DOMAIN units, phase[file] = "ok"
               PROVE  /\ OutputOf(file) \in DOMAIN disk'
                      /\ disk'[OutputOf(file)] = ObjectOf(image, source, units[file])
    OBVIOUS
  <2>1. OutputOf(file) # SharedFile
    BY DEF IInv, PathsApart
  <2>2. OutputOf(file) \in DOMAIN disk
        /\ disk[OutputOf(file)] = ObjectOf(image, source, units[file])
    BY DEF IInv, Written
  <2> QED
    BY <1>10, <2>1, <2>2, WriteOne
<1>11. CASE EmitShared
  <2>1. /\ pc' = "report" /\ WriteFile(SharedFile, SharedObject(image, source))
        /\ \A file \in DOMAIN phase : phase[file] \in {"ok", "err"}
        /\ UNCHANGED <<image, source, units, phase, grouping, failures>>
    BY <1>11 DEF EmitShared
  <2>2. Written'
    BY <2>1, <1>10 DEF Written
  <2> QED
    BY <2>1, <2>2 DEF IInv, Joined, Counted, PathsApart
<1>12. CASE SharedFails
  <2>1. /\ pc' = "failed" /\ WriteFile(SharedFile, <<>>)
        /\ UNCHANGED <<image, source, units, phase, grouping, failures>>
    BY <1>12 DEF SharedFails
  <2>2. Written'
    BY <2>1, <1>10 DEF Written
  <2> QED
    BY <2>1, <2>2 DEF IInv, Joined, Counted, PathsApart
<1>13. CASE Report
  BY <1>13 DEF Report, IInv, Written, Joined, Counted, PathsApart
<1>14. CASE Edit
  <2>1. units' = <<>> /\ phase' = <<>> /\ pc' = "idle" /\ image' = image
    BY <1>14 DEF Edit
  <2>2. PathsApart(grouping') /\ PathsApart(units')
    BY <1>14, <2>1, EmptyApart DEF IInv, PathsKeptApart, vars
  <2>3. DOMAIN <<>> = {}
    OBVIOUS
  <2> QED
    BY <2>1, <2>2, <2>3 DEF IInv, Written, Joined, Counted, PathsApart
<1>15. CASE UNCHANGED vars
  BY <1>15 DEF vars, IInv, Written, Joined, Counted, PathsApart
<1> QED
  BY <1>2, <1>3, <1>4, <1>5, <1>6, <1>7, <1>8, <1>9, <1>11, <1>12, <1>13, <1>14, <1>15
  DEF Next, Run, Worker, Finished

-----------------------------------------------------------------------------

LEMMA AllOk ==
  ASSUME IInv, Clean, NEW file \in DOMAIN units
  PROVE  phase[file] = "ok"
<1> DEFINE failed == {f \in DOMAIN phase : phase[f] = "err"}
<1>1. IsFiniteSet(DOMAIN units) /\ DOMAIN phase = DOMAIN units
  BY DEF IInv, PathsApart
<1>2. IsFiniteSet(failed) /\ Cardinality(failed) = 0
  BY <1>1, FS_Subset DEF IInv, Counted, Clean
<1>3. failed = {}
  <2> HIDE DEF failed
  <2> QED
    BY <1>2, FS_EmptySet
<1> QED
  BY <1>1, <1>3 DEF IInv, Joined, Clean

LEMMA AllWritten ==
  ASSUME IInv, Clean, NEW file \in DOMAIN units
  PROVE  /\ OutputOf(file) \in DOMAIN disk
         /\ disk[OutputOf(file)] = ObjectOf(image, source, units[file])
BY AllOk DEF IInv, Written

LEMMA NoneFailed == IInv => SummaryIsTrue
BY AllWritten DEF SummaryIsTrue

\* A run that reports no failure has left every unit's object on disk: no
\* worker overwrote another's, and the count of failures misses none.
THEOREM SummaryHolds == Spec /\ [][PathsKeptApart]_vars => []SummaryIsTrue
<1>1. IInv /\ [Next]_vars /\ [PathsKeptApart]_vars => IInv'
  BY StepInv
<1> QED
  BY <1>1, NoneFailed, InitInv, PTL DEF Spec

-----------------------------------------------------------------------------
(* What a run goes by *)

\* The units are those of the source or of objects.json, the shared data object
\* is on disk when the run reports, and objects.json lists the functions of the
\* source it was written from.
UnitsFollow ==
  pc \in {"emit", "report", "done"} =>
    units = IF regroup THEN Regrouped(Index, grouping) ELSE DefaultUnits(Index)

SharedWritten ==
  pc \in {"report", "done"} =>
    SharedFile \in DOMAIN disk /\ disk[SharedFile] = SharedObject(image, source)

GroupingLists ==
  origin \in {"symtab", "dwarf"} /\ FunctionsNamed(IndexOf(image, origin)) =>
    \A f \in Functions(IndexOf(image, origin)) : f.size > 0 => ListedOnce(grouping, f.name)

RunInv ==
  /\ image \in Images
  /\ by \in {"auto", "dwarf", "symtab"} /\ source \in {"symtab", "dwarf"}
  /\ UnitsFollow /\ SharedWritten /\ GroupingLists

LEMMA SourceForType ==
  ASSUME NEW img, NEW group \in {"auto", "dwarf", "symtab"}
  PROVE  SourceFor(img, group) \in {"symtab", "dwarf"}
<1>1. CASE group = "auto"
  BY <1>1 DEF SourceFor
<1>2. CASE group = "dwarf"
  BY <1>2 DEF SourceFor
<1>3. CASE group = "symtab"
  BY <1>3 DEF SourceFor
<1> QED
  BY <1>1, <1>2, <1>3

\* A run without --objects writes every name of its source once.
LEMMA SaveLists ==
  ASSUME NEW img \in Images, NEW src, FunctionsNamed(IndexOf(img, src)),
         NEW f \in Functions(IndexOf(img, src)), f.size > 0
  PROVE  ListedOnce(ObjectsJson(IndexOf(img, src)), f.name)
<1>1. IndexOf(img, src) \in SUBSET Definition /\ IsFiniteSet(IndexOf(img, src))
  BY SplitAssumption DEF IndexOf, Image
<1> QED
  BY <1>1, JsonLists

LEMMA RunInit == Init => RunInv
BY DEF Init, RunInv, UnitsFollow, SharedWritten, GroupingLists

LEMMA RunStep ==
  ASSUME RunInv, [Next]_vars, [CarefulEdit]_vars
  PROVE  RunInv'
<1>1. ASSUME image' = image, by' \in {"auto", "dwarf", "symtab"}, source' = source,
             origin' = origin, grouping' = grouping, pc' \notin {"emit", "report", "done"}
      PROVE  RunInv'
  BY <1>1 DEF RunInv, UnitsFollow, SharedWritten, GroupingLists
<1>2. CASE Start \/ NothingToSplit \/ SharedFails
  BY <1>1, <1>2 DEF Start, NothingToSplit, SharedFails, RunInv
<1>3. SourceFor(image, by) \in {"symtab", "dwarf"}
  BY SourceForType DEF RunInv
<1>4. CASE Save
  <2>1. /\ image' = image /\ by' = by /\ regroup' = FALSE /\ pc' = "emit"
        /\ source' = SourceFor(image, by) /\ origin' = source'
        /\ units' = DefaultUnits(IndexOf(image, source'))
        /\ grouping' = ObjectsJson(IndexOf(image, source'))
    BY <1>4 DEF Save, StartUnits
  <2>2. UnitsFollow' /\ SharedWritten'
    BY <2>1 DEF UnitsFollow, SharedWritten, Index
  <2>3. GroupingLists'
    BY <2>1, SaveLists DEF GroupingLists, RunInv
  <2> QED
    BY <1>3, <2>1, <2>2, <2>3 DEF RunInv
<1>5. CASE SaveFails
  BY <1>3, <1>5 DEF SaveFails, RunInv, UnitsFollow, SharedWritten, GroupingLists
<1>6. CASE Regroup
  <2>1. /\ pc' = "emit" /\ regroup' = TRUE /\ source' = SourceFor(image, by)
        /\ units' = Regrouped(IndexOf(image, source'), grouping)
        /\ UNCHANGED <<image, by, grouping, origin>>
    BY <1>6 DEF Regroup, StartUnits, RunInv
  <2>2. UnitsFollow' /\ SharedWritten'
    BY <2>1 DEF UnitsFollow, SharedWritten, Index
  <2>3. GroupingLists'
    BY <2>1 DEF GroupingLists, RunInv
  <2> QED
    BY <1>3, <2>1, <2>2, <2>3 DEF RunInv
<1>7. ASSUME UNCHANGED <<image, by, regroup, source, units, grouping, origin>>,
             pc \in {"emit", "report", "done"}, SharedWritten'
      PROVE  RunInv'
  <2>1. UnitsFollow'
    BY <1>7 DEF UnitsFollow, Index, RunInv
  <2>2. GroupingLists'
    BY <1>7 DEF GroupingLists, RunInv
  <2> QED
    BY <1>7, <2>1, <2>2 DEF RunInv
<1>8. CASE Worker
  <2>1. /\ pc = "emit" /\ pc' = "emit"
        /\ UNCHANGED <<image, by, regroup, source, units, grouping, origin>>
    BY <1>8 DEF Worker, Prepare, Write, WriteFails
  <2> QED
    BY <1>7, <2>1 DEF SharedWritten
<1>9. CASE EmitShared
  <2>1. /\ pc = "emit"
        /\ UNCHANGED <<image, by, regroup, source, units, grouping, origin>>
        /\ WriteFile(SharedFile, SharedObject(image, source))
    BY <1>9 DEF EmitShared
  <2>2. SharedWritten'
    BY <2>1, WriteOne DEF SharedWritten
  <2> QED
    BY <1>7, <2>1, <2>2
<1>10. CASE Report
  <2>1. /\ pc = "report"
        /\ UNCHANGED <<image, by, regroup, source, units, grouping, origin, disk>>
    BY <1>10 DEF Report
  <2> QED
    BY <1>7, <2>1 DEF SharedWritten, RunInv
<1>11. CASE Edit
  <2>1. pc' = "idle" /\ UNCHANGED <<image, by, source, origin>>
    BY <1>11 DEF Edit
  <2>2. UnitsFollow' /\ SharedWritten'
    BY <2>1 DEF UnitsFollow, SharedWritten
  <2>3. \A name : ListedOnce(grouping, name) => ListedOnce(grouping', name)
    <3>1. NamesKept(grouping, grouping') \/ grouping' = grouping
      BY <1>11 DEF CarefulEdit, vars
    <3> QED
      BY <3>1 DEF NamesKept, ListedOnce
  <2>4. GroupingLists'
    BY <2>1, <2>3 DEF GroupingLists, RunInv
  <2> QED
    BY <2>1, <2>2, <2>4 DEF RunInv
<1>12. CASE UNCHANGED vars
  BY <1>12 DEF vars, RunInv, UnitsFollow, SharedWritten, GroupingLists, Index
<1> QED
  BY <1>2, <1>4, <1>5, <1>6, <1>8, <1>9, <1>10, <1>11, <1>12 DEF Next, Run, Finished

-----------------------------------------------------------------------------
(* The objects of a run *)

FunctionEntry(f) ==
  [name |-> SymbolOf(Known, f), addr |-> f.addr, visible |-> Visible(source, f)]

StartEntries ==
  {[name |-> Plain(s.start), addr |-> s.base, visible |-> TRUE] : s \in image.sections}

SharedEntries == SharedVariables(image, Known) \cup StartEntries

Entries == {FunctionEntry(f) : f \in LiveFunctions(image, Index)} \cup SharedEntries

\* A run without failures whose grouping, if it was given one, told the functions
\* apart.
WholeRun ==
  IInv /\ RunInv /\ Clean /\ WholeIndex /\ (regroup => FunctionsNamed(Index))

LEMMA WholeRunLists ==
  ASSUME WholeRun
  PROVE  /\ Index \in SUBSET Definition /\ IsFiniteSet(Index)
         /\ image \in Image /\ IsFiniteSet(image.sections)
         /\ Lists(units, Index)
<1>1. image \in Images /\ image \in Image
  BY SplitAssumption DEF WholeRun, RunInv
<1>2. Index \in SUBSET Definition /\ IsFiniteSet(Index) /\ IsFiniteSet(image.sections)
  BY <1>1, SplitAssumption DEF Index, IndexOf, Image
<1>3. units = IF regroup THEN Regrouped(Index, grouping) ELSE DefaultUnits(Index)
  BY DEF WholeRun, RunInv, UnitsFollow, Clean
<1>4. CASE ~regroup
  <2>1. units = DefaultUnits(Index)
    BY <1>3, <1>4
  <2>2. Lists(DefaultUnits(Index), Index)
    BY <1>2, DefaultLists
  <2> QED
    BY <1>1, <1>2, <2>1, <2>2
<1>5. CASE regroup
  <2>1. FunctionsNamed(Index) /\ Index = IndexOf(image, origin) /\ origin \in {"symtab", "dwarf"}
    BY <1>5 DEF WholeRun, RunInv, WholeIndex, Index
  <2>2. \A f \in Functions(Index) : f.size > 0 => ListedOnce(grouping, f.name)
    BY <2>1 DEF WholeRun, RunInv, GroupingLists
  <2>3. units = Regrouped(Index, grouping)
    BY <1>3, <1>5
  <2>4. Lists(Regrouped(Index, grouping), Index)
    BY <2>1, <2>2, RegroupedLists
  <2> QED
    BY <1>1, <1>2, <2>3, <2>4
<1> QED
  BY <1>4, <1>5

LEMMA SharedRange ==
  ASSUME WholeRun
  PROVE  Range(disk[SharedFile]) = SharedEntries
<1> DEFINE vs == {d \in Known : ~d.code /\ \E s \in image.sections :
                                   s.base <= d.addr /\ d.addr < s.limit}
           varEntry == [v \in vs |-> [name |-> ExportName(Known, v), addr |-> v.addr,
                                      visible |-> TRUE]]
           startEntry == [s \in image.sections |->
                            [name |-> Plain(s.start), addr |-> s.base, visible |-> TRUE]]
<1>1. IsFiniteSet(Index) /\ IsFiniteSet(image.sections)
  BY WholeRunLists
<1>2. vs \subseteq Index
  BY DEF Known, Mapped
<1>3. IsFiniteSet(vs)
  <2> HIDE DEF vs
  <2> QED
    BY <1>1, <1>2, FS_Subset
<1>4. varEntry \in Surjection(vs, SharedVariables(image, Known))
  BY DEF Surjection, SharedVariables
<1>5. startEntry \in Surjection(image.sections, StartEntries)
  BY DEF Surjection, StartEntries
<1>6. IsFiniteSet(SharedVariables(image, Known)) /\ IsFiniteSet(StartEntries)
  <2> HIDE DEF vs, varEntry, startEntry
  <2> QED
    BY <1>1, <1>3, <1>4, <1>5, FS_Surjection
<1>7. IsFiniteSet(SharedEntries)
  BY <1>6, FS_Union DEF SharedEntries
<1>8. disk[SharedFile] = SetToSeq(SharedEntries)
  BY DEF WholeRun, RunInv, SharedWritten, Clean, SharedObject, SharedEntries, StartEntries,
         Known, Index
<1> DEFINE n == Cardinality(SharedEntries)
           listing == SetToSeq(SharedEntries)
<1>9. /\ listing \in [1..n -> SharedEntries]
      /\ \A x \in SharedEntries : \E i \in 1..n : listing[i] = x
  BY <1>7, Listed
<1>10. Range(listing) = SharedEntries
  <2> HIDE DEF listing, n
  <2> QED
    BY <1>9 DEF Range
<1> QED
  BY <1>8, <1>10

LEMMA UnitObject ==
  ASSUME WholeRun, NEW file \in DOMAIN units
  PROVE  /\ DOMAIN disk[OutputOf(file)] = Live(image, units[file])
         /\ \A i \in Live(image, units[file]) :
              /\ units[file][i] \in LiveFunctions(image, Index)
              /\ disk[OutputOf(file)][i] = FunctionEntry(units[file][i])
<1>1. disk[OutputOf(file)] = ObjectOf(image, source, units[file])
  BY NoneFailed DEF WholeRun, SummaryIsTrue
<1>2. \A i \in DOMAIN units[file] : units[file][i] \in Functions(Index)
  BY WholeRunLists DEF Lists
<1>3. \A i \in Live(image, units[file]) : units[file][i] \in LiveFunctions(image, Index)
  BY <1>2 DEF Live, LiveFunctions
<1> QED
  BY <1>1, <1>3 DEF ObjectOf, FunctionEntry, Known, Index

\* The outputs hold exactly the entries.
LEMMA OutputsHold ==
  ASSUME WholeRun
  PROVE  /\ \A path \in Outputs : Range(disk[path]) \subseteq Entries
         /\ \A e \in Entries : \E path \in Outputs : e \in Range(disk[path])
<1>1. ASSUME NEW path \in Outputs
      PROVE  Range(disk[path]) \subseteq Entries
  <2>1. CASE path = SharedFile
    BY <2>1, SharedRange DEF Entries
  <2>2. CASE path # SharedFile
    <3>1. PICK file \in DOMAIN units : path = OutputOf(file)
      BY <2>2 DEF Outputs
    <3> QED
      BY <3>1, UnitObject DEF Range, Entries
  <2> QED
    BY <2>1, <2>2
<1>2. ASSUME NEW f \in LiveFunctions(image, Index)
      PROVE  \E path \in Outputs : FunctionEntry(f) \in Range(disk[path])
  <2>1. f \in Functions(Index) /\ f.size > 0 /\ InText(image, f)
    BY DEF LiveFunctions
  <2>2. PICK file \in DOMAIN units : \E i \in DOMAIN units[file] : units[file][i] = f
    BY <2>1, WholeRunLists DEF Lists
  <2>3. PICK i \in DOMAIN units[file] : units[file][i] = f
    BY <2>2
  <2>4. i \in Live(image, units[file])
    BY <2>1, <2>3 DEF Live
  <2>5. FunctionEntry(f) \in Range(disk[OutputOf(file)])
    BY <2>3, <2>4, UnitObject DEF Range
  <2> QED
    BY <2>5 DEF Outputs
<1>3. ASSUME NEW e \in SharedEntries
      PROVE  \E path \in Outputs : e \in Range(disk[path])
  BY SharedRange DEF Outputs
<1> QED
  BY <1>1, <1>2, <1>3 DEF Entries

\* Functions are not where the data is.
LEMMA TextHoldsFunctions ==
  ASSUME WholeRun, DataApart(image), NEW f \in LiveFunctions(image, Index),
         NEW e \in SharedEntries
  PROVE  e.addr # f.addr
<1>1. /\ f \in Definition /\ image \in Image
      /\ f.size > 0 /\ InText(image, f)
  BY WholeRunLists DEF LiveFunctions, Functions
<1>2. /\ image.text.base \in Nat /\ image.text.limit \in Nat /\ f.addr \in Nat /\ f.size \in Nat
      /\ \A s \in image.sections : s.base \in Nat /\ s.limit \in Nat
  BY <1>1 DEF Image, Definition
<1>3. image.text.base <= f.addr /\ f.addr < image.text.limit
  BY <1>1, <1>2 DEF InText
<1>4. PICK s \in image.sections : s.base <= e.addr /\ e.addr < s.limit /\ e.addr \in Nat
  <2>1. CASE e \in SharedVariables(image, Known)
    <3>1. PICK v \in Known : /\ e.addr = v.addr
                             /\ \E s \in image.sections : s.base <= v.addr /\ v.addr < s.limit
      BY <2>1 DEF SharedVariables
    <3>2. v.addr \in Nat
      BY WholeRunLists DEF Known, Mapped, Definition
    <3> QED
      BY <3>1, <3>2
  <2>2. CASE e \in StartEntries
    BY <1>2, <2>2 DEF StartEntries, DataApart
  <2> QED
    BY <2>1, <2>2 DEF SharedEntries
<1> QED
  BY <1>2, <1>3, <1>4 DEF DataApart

\* A function is in one place of one output.
LEMMA WholeRunEmitsOnce ==
  ASSUME WholeRun, Placed(image, Index), DataApart(image),
         NEW f \in LiveFunctions(image, Index)
  PROVE  Cardinality(EmittedAt(f.addr)) = 1
<1>1. f \in Functions(Index) /\ f.size > 0 /\ InText(image, f)
  BY DEF LiveFunctions
<1>2. PICK file \in DOMAIN units : \E i \in DOMAIN units[file] : units[file][i] = f
  BY <1>1, WholeRunLists DEF Lists
<1>3. PICK i \in DOMAIN units[file] : units[file][i] = f
  BY <1>2
<1>4. i \in DOMAIN disk[OutputOf(file)] /\ disk[OutputOf(file)][i].addr = f.addr
  <2>1. i \in Live(image, units[file])
    BY <1>1, <1>3 DEF Live
  <2>2. i \in DOMAIN disk[OutputOf(file)] /\ disk[OutputOf(file)][i] = FunctionEntry(f)
    BY <1>3, <2>1, UnitObject
  <2> QED
    BY <2>2 DEF FunctionEntry
<1>5. ASSUME NEW path \in Outputs, NEW j \in DOMAIN disk[path], disk[path][j].addr = f.addr
      PROVE  path = OutputOf(file) /\ j = i
  <2>1. path # SharedFile
    BY <1>5, SharedRange, TextHoldsFunctions DEF Range
  <2>2. PICK other \in DOMAIN units : path = OutputOf(other)
    BY <2>1 DEF Outputs
  <2>3. /\ j \in Live(image, units[other])
        /\ units[other][j] \in LiveFunctions(image, Index)
        /\ units[other][j].addr = f.addr
    <3>1. /\ j \in Live(image, units[other])
          /\ units[other][j] \in LiveFunctions(image, Index)
          /\ disk[path][j] = FunctionEntry(units[other][j])
      BY <2>2, UnitObject
    <3> QED
      BY <1>5, <3>1 DEF FunctionEntry
  <2>4. units[other][j] = f
    BY <2>3 DEF Placed, LiveFunctions, Functions
  <2>5. j \in DOMAIN units[other]
    BY <2>3 DEF Live
  <2>6. other = file /\ j = i
    BY <1>1, <1>3, <2>4, <2>5, WholeRunLists DEF Lists
  <2> QED
    BY <2>2, <2>6
<1>6. EmittedAt(f.addr) = {<<OutputOf(file), i>>}
  <2>1. OutputOf(file) \in Outputs
    BY DEF Outputs
  <2>2. \A at : at \in EmittedAt(f.addr) <=>
          \E path \in Outputs : \E j \in DOMAIN disk[path] :
            disk[path][j].addr = f.addr /\ at = <<path, j>>
    BY DEF EmittedAt
  <2> QED
    BY <1>4, <1>5, <2>1, <2>2
<1> QED
  BY <1>6, FS_Singleton

\* Every function of .text is emitted once, in every run that reports no failure
\* and goes by its own source: the units of the source and every edit of
\* objects.json that lists a name where it was listed before put a function in
\* one object, and no other object has anything at its address.
THEOREM EachFunctionOnce ==
  Spec /\ [][CarefulEdit]_vars =>
    [](/\ Placed(image, Index) /\ DataApart(image)
       /\ (regroup => FunctionsNamed(Index))
       => EmittedOnce)
<1>1. IInv /\ [Next]_vars /\ [CarefulEdit]_vars => IInv'
  BY StepInv DEF CarefulEdit
<1>2. RunInv /\ [Next]_vars /\ [CarefulEdit]_vars => RunInv'
  BY RunStep
<1>3. ASSUME IInv, RunInv, Placed(image, Index), DataApart(image),
             regroup => FunctionsNamed(Index)
      PROVE  EmittedOnce
  BY <1>3, WholeRunEmitsOnce DEF EmittedOnce, WholeRun, LiveFunctions
<1> QED
  BY <1>1, <1>2, <1>3, InitInv, RunInit, PTL DEF Spec

-----------------------------------------------------------------------------
(* The names of the entries *)

\* A function of .text is defined under the name the resolver hands out.
LEMMA LiveSymbol ==
  ASSUME Placed(image, Index), NamesApart(image, Index), NEW f \in LiveFunctions(image, Index)
  PROVE  f \in Known /\ FunctionEntry(f).name = ExportName(Known, f)
<1>1. f \in Known /\ f.code = TRUE /\ f \in Functions(Known)
  BY DEF Placed, Known, LiveFunctions, Functions
<1>2. \A g \in At(Known, TRUE, f.addr) : g = f
  BY <1>1 DEF At, Placed, Known, Functions
<1>3. At(Known, TRUE, f.addr) = {f}
  BY <1>1, <1>2 DEF At
<1>4. (CHOOSE d \in At(Known, TRUE, f.addr) : TRUE) = f
  BY <1>3
<1>5. ExportName(Known, f) # Plain(Anonymous)
  BY <1>1 DEF NamesApart, Known
<1>6. SymbolOf(Known, f) = ExportName(Known, f)
  BY <1>3, <1>4, <1>5 DEF SymbolOf
<1> QED
  BY <1>1, <1>6 DEF FunctionEntry

LEMMA EntryNames ==
  ASSUME WholeRun, Placed(image, Index), NamesApart(image, Index), NEW e \in Entries
  PROVE  \/ \E d \in Known : e.name = ExportName(Known, d) /\ e.addr = d.addr
         \/ \E s \in image.sections : e.name = Plain(s.start) /\ e.addr = s.base
<1>1. CASE e \in {FunctionEntry(f) : f \in LiveFunctions(image, Index)}
  <2>1. PICK f \in LiveFunctions(image, Index) : e = FunctionEntry(f)
    BY <1>1
  <2>2. e.addr = f.addr
    BY <2>1 DEF FunctionEntry
  <2> QED
    BY <2>1, <2>2, LiveSymbol
<1>2. CASE e \in SharedVariables(image, Known)
  BY <1>2 DEF SharedVariables
<1>3. CASE e \in StartEntries
  BY <1>3 DEF StartEntries
<1> QED
  BY <1>1, <1>2, <1>3 DEF Entries, SharedEntries

LEMMA NoStartIsExported ==
  ASSUME WholeRun, NamesApart(image, Index), NEW d \in Known, NEW s \in image.sections
  PROVE  ExportName(Known, d) # Plain(s.start)
<1>1. d.name \in Name /\ d.addr \in Nat
  BY WholeRunLists DEF Known, Mapped, Definition
<1>2. ~IsIdentifier(Suffixed(d.name, d.addr)) /\ IsIdentifier(Plain(s.start))
  BY <1>1, SuffixedHasDots DEF IsIdentifier, Plain
<1>3. d.name # Plain(s.start)
  BY DEF NamesApart, Known
<1> QED
  BY <1>2, <1>3 DEF ExportName

\* Whichever objects they are in, two entries of one name have one address.
LEMMA NamesAgree ==
  ASSUME WholeRun, Placed(image, Index), NamesApart(image, Index),
         NEW e \in Entries, NEW other \in Entries, e.name = other.name
  PROVE  e.addr = other.addr
<1>1. Known \in SUBSET Definition /\ NoDottedTwin(Known)
  BY WholeRunLists DEF Known, Mapped, NamesApart
<1>2. \A d, g \in Known : ExportName(Known, d) = ExportName(Known, g) => d.addr = g.addr
  BY <1>1, OneAddressForAName
<1>3. \A s, t \in image.sections : Plain(s.start) = Plain(t.start) => s = t
  BY DEF Plain, NamesApart
<1> QED
  BY <1>2, <1>3, EntryNames, NoStartIsExported

\* A reference by the name of an entry, from an object that can see it, lands
\* where the entry is.
LEMMA EntryBinds ==
  ASSUME WholeRun, Placed(image, Index), NamesApart(image, Index),
         NEW path \in Outputs, NEW e \in Entries, e.visible \/ e \in Range(disk[path]),
         NEW ref, ref.symbol = e.name
  PROVE  BindsTo(path, ref, e.addr + ref.addend)
<1> DEFINE own == {i \in DOMAIN disk[path] : disk[path][i].name = ref.symbol}
<1>1. \A p \in Outputs : Range(disk[p]) \subseteq Entries
  BY OutputsHold
<1>2. \A s \in Bound(path, ref.symbol) : s \in Entries /\ s.name = e.name
  BY <1>1 DEF Bound, Range
<1>3. Bound(path, ref.symbol) # {}
  <2>1. CASE own # {}
    BY <2>1 DEF Bound
  <2>2. CASE own = {}
    <3>1. e \notin Range(disk[path])
      BY <2>2 DEF Range
    <3>2. e.visible /\ \E p \in Outputs : e \in Range(disk[p])
      BY <3>1, OutputsHold
    <3> QED
      BY <2>2, <3>2 DEF Bound
  <2> QED
    BY <2>1, <2>2
<1>4. \A s \in Bound(path, ref.symbol) : s.addr = e.addr
  BY <1>2, NamesAgree
<1> QED
  BY <1>3, <1>4 DEF BindsTo

\* What the resolver knows in .text or in a data section has an entry.
LEMMA KnownHasEntry ==
  ASSUME WholeRun, Placed(image, Index), NamesApart(image, Index), NEW d \in Known,
         IF d.code THEN InText(image, d) ELSE InData(image, d.addr)
  PROVE  \E e \in Entries :
           /\ e.name = ExportName(Known, d) /\ e.addr = d.addr
           /\ ~d.code \/ d.global \/ source = "symtab" => e.visible
           /\ d.code => e = FunctionEntry(d)
<1>1. d \in Index /\ d.code \in BOOLEAN /\ d.global \in BOOLEAN /\ (d.code => d.size > 0)
  BY WholeRunLists DEF Known, Mapped, Definition
<1>2. CASE d.code
  <2>1. d \in LiveFunctions(image, Index)
    BY <1>1, <1>2 DEF LiveFunctions, Functions
  <2>2. FunctionEntry(d) \in Entries /\ FunctionEntry(d).name = ExportName(Known, d)
    BY <2>1, LiveSymbol DEF Entries
  <2>3. /\ FunctionEntry(d).addr = d.addr
        /\ FunctionEntry(d).visible = Visible(source, d)
    BY DEF FunctionEntry
  <2>4. d.global \/ source = "symtab" => Visible(source, d)
    BY DEF Visible
  <2> QED
    BY <1>2, <2>2, <2>3, <2>4
<1>3. CASE ~d.code
  <2> DEFINE e == [name |-> ExportName(Known, d), addr |-> d.addr, visible |-> TRUE]
  <2>1. e \in SharedVariables(image, Known)
    BY <1>3 DEF SharedVariables, InData
  <2>2. e \in Entries
    <3> HIDE DEF e
    <3> QED
      BY <2>1 DEF Entries, SharedEntries
  <2>3. e.name = ExportName(Known, d) /\ e.addr = d.addr /\ e.visible
    OBVIOUS
  <2> HIDE DEF e
  <2> QED
    BY <1>3, <2>2, <2>3
<1> QED
  BY <1>2, <1>3

\* References to code or data of the image, from any object, end up at the
\* address they had before the split: what resolve_data answers is a name that
\* exactly one address has among the objects, and an offset from it.
LEMMA WholeRunReferences ==
  ASSUME WholeRun, Placed(image, Index), NamesApart(image, Index), Contained(image, Index),
         source = "symtab", NEW path \in Outputs, NEW a \in Nat,
         NEW ref \in ResolveData(Known, image.sections, a)
  PROVE  BindsTo(path, ref, a)
<1>1. Known \in SUBSET Definition
      /\ image.sections \in SUBSET [base : Nat, limit : Nat, start : Stems]
  BY WholeRunLists DEF Known, Mapped, Image
<1>2. /\ ref.addend \in Nat
      /\ \/ \E d \in Known : ref.symbol = ExportName(Known, d) /\ d.addr + ref.addend = a
         \/ \E s \in image.sections : ref.symbol = Plain(s.start) /\ s.base + ref.addend = a
  BY <1>1, ResolveDataSound
<1>3. ASSUME NEW d \in Known, ref.symbol = ExportName(Known, d), d.addr + ref.addend = a
      PROVE  BindsTo(path, ref, a)
  <2>1. IF d.code THEN InText(image, d) ELSE InData(image, d.addr)
    BY DEF Contained, Known
  <2>2. PICK e \in Entries : e.name = ExportName(Known, d) /\ e.addr = d.addr /\ e.visible
    BY <2>1, KnownHasEntry
  <2>3. BindsTo(path, ref, e.addr + ref.addend)
    BY <1>3, <2>2, EntryBinds
  <2> QED
    BY <1>3, <2>2, <2>3
<1>4. ASSUME NEW s \in image.sections, ref.symbol = Plain(s.start), s.base + ref.addend = a
      PROVE  BindsTo(path, ref, a)
  <2> DEFINE e == [name |-> Plain(s.start), addr |-> s.base, visible |-> TRUE]
  <2>1. e \in Entries
    BY DEF Entries, SharedEntries, StartEntries
  <2>2. e.name = Plain(s.start) /\ e.addr = s.base /\ e.visible
    OBVIOUS
  <2> HIDE DEF e
  <2>3. BindsTo(path, ref, e.addr + ref.addend)
    BY <1>4, <2>1, <2>2, EntryBinds
  <2> QED
    BY <1>4, <2>2, <2>3
<1> QED
  BY <1>2, <1>3, <1>4

\* With the units of DWARF, a function is found by its name from its own object,
\* and from every object when it is global.
LEMMA WholeRunCalls ==
  ASSUME WholeRun, Placed(image, Index), DataApart(image), NamesApart(image, Index),
         NEW path \in Outputs, NEW f \in Functions(Known), InText(image, f),
         f.global \/ \E i \in DOMAIN disk[path] : disk[path][i].addr = f.addr,
         NEW ref \in Resolve(Known, f.addr)
  PROVE  BindsTo(path, ref, f.addr)
<1>1. /\ f \in Known /\ f \in Index /\ f.code = TRUE /\ f.size > 0
      /\ f.addr \in Nat /\ f.code \in BOOLEAN
  BY WholeRunLists DEF Known, Functions, Mapped, Definition
<1>2. f \in LiveFunctions(image, Index)
  BY <1>1 DEF LiveFunctions, Functions
<1>3. ref.symbol = ExportName(Known, f) /\ ref.addend = 0
  <2>1. PICK g \in At(Known, TRUE, f.addr) :
          ref = [symbol |-> ExportName(Known, g), addend |-> f.addr - g.addr]
    BY DEF Resolve, Refer
  <2>2. g = f
    BY <1>1, <2>1 DEF At, Placed, Known, Functions
  <2>3. ref.symbol = ExportName(Known, f) /\ ref.addend = f.addr - f.addr
    BY <2>1, <2>2
  <2> QED
    BY <1>1, <2>3
<1>4. PICK e \in Entries : /\ e.name = ExportName(Known, f) /\ e.addr = f.addr
                           /\ f.global => e.visible
                           /\ e = FunctionEntry(f)
  BY <1>1, KnownHasEntry
<1>5. e.visible \/ e \in Range(disk[path])
  <2>1. CASE f.global
    BY <1>4, <2>1
  <2>2. CASE ~f.global
    <3>1. PICK i \in DOMAIN disk[path] : disk[path][i].addr = f.addr
      BY <2>2
    <3>2. disk[path][i] \in Range(disk[path])
      BY DEF Range
    <3>3. disk[path][i] \in Entries
      BY <3>2, OutputsHold
    <3>4. disk[path][i] \notin SharedEntries
      BY <1>2, <3>1, TextHoldsFunctions
    <3>5. PICK g \in LiveFunctions(image, Index) : disk[path][i] = FunctionEntry(g)
      BY <3>3, <3>4 DEF Entries
    <3>6. g.addr = f.addr
      BY <3>1, <3>5 DEF FunctionEntry
    <3>7. g = f
      BY <1>2, <3>6 DEF Placed, LiveFunctions, Functions
    <3> QED
      BY <1>4, <3>2, <3>5, <3>7
  <2> QED
    BY <2>1, <2>2
<1>6. BindsTo(path, ref, e.addr + ref.addend)
  BY <1>3, <1>4, <1>5, EntryBinds
<1> QED
  BY <1>1, <1>3, <1>4, <1>6

\* An import finds nothing among the objects, an export finds itself.
LEMMA WholeRunImports ==
  ASSUME WholeRun, Placed(image, Index), NamesApart(image, Index),
         ImportsApart(image, Index), NEW path \in Outputs, NEW n \in image.imports
  PROVE  Bound(path, n) = {}
<1> SUFFICES ASSUME NEW e \in Bound(path, n)
             PROVE  FALSE
  OBVIOUS
<1>1. e \in Entries /\ e.name = n
  BY OutputsHold DEF Bound, Range
<1>2. ASSUME NEW d \in Known, e.name = ExportName(Known, d)
      PROVE  FALSE
  <2>1. d.name \in Name /\ d.addr \in Nat
    BY WholeRunLists DEF Known, Mapped, Definition
  <2>2. ~IsIdentifier(Suffixed(d.name, d.addr)) /\ IsIdentifier(n) /\ d.name # n
    BY <2>1, SuffixedHasDots DEF ImportsApart, Known
  <2> QED
    BY <1>1, <1>2, <2>2 DEF ExportName
<1>3. ASSUME NEW s \in image.sections, e.name = Plain(s.start)
      PROVE  FALSE
  BY <1>1, <1>3 DEF ImportsApart
<1> QED
  BY <1>1, <1>2, <1>3, EntryNames

LEMMA WholeRunExports ==
  ASSUME WholeRun, Placed(image, Index), NamesApart(image, Index),
         ExportsUnshared(image, Index), NEW path \in Outputs, NEW d \in Index,
         d.global, d.code => InText(image, d)
  PROVE  BindsTo(path, [symbol |-> d.name, addend |-> 0], d.addr)
<1> DEFINE ref == [symbol |-> d.name, addend |-> 0]
<1>1. d.addr \in Nat /\ d.code \in BOOLEAN
  BY WholeRunLists DEF Definition
<1>2. /\ d \in Known /\ d.name \notin Colliding(Known)
      /\ d.code \/ InData(image, d.addr)
  BY DEF ExportsUnshared, Known
<1>3. ExportName(Known, d) = d.name
  BY <1>2 DEF ExportName
<1>4. IF d.code THEN InText(image, d) ELSE InData(image, d.addr)
  BY <1>1, <1>2
<1>5. PICK e \in Entries : e.name = d.name /\ e.addr = d.addr /\ e.visible
  BY <1>2, <1>3, <1>4, KnownHasEntry
<1>6. ref.symbol = e.name /\ ref.addend = 0
  BY <1>5
<1> HIDE DEF ref
<1>7. BindsTo(path, ref, e.addr + ref.addend)
  BY <1>5, <1>6, EntryBinds
<1>8. e.addr + ref.addend = d.addr
  BY <1>1, <1>5, <1>6
<1>9. BindsTo(path, ref, d.addr)
  BY <1>7, <1>8
<1> QED
  BY <1>9 DEF ref

-----------------------------------------------------------------------------

\* After a symbol-table split, references from every object to code and data of
\* the image end up where they were, whatever the workers' order and however the
\* functions were moved between files: as long as .text and the data sections
\* hold what the resolver knows, and no name of the image is one that the
\* renaming or a section start makes.
THEOREM ReferencesFollow ==
  Spec /\ [][CarefulEdit]_vars =>
    [](/\ Placed(image, Index) /\ NamesApart(image, Index)
       /\ Contained(image, Index) /\ (regroup => FunctionsNamed(Index))
       => ReferencesBind)
<1>1. IInv /\ [Next]_vars /\ [CarefulEdit]_vars => IInv'
  BY StepInv DEF CarefulEdit
<1>2. RunInv /\ [Next]_vars /\ [CarefulEdit]_vars => RunInv'
  BY RunStep
<1>3. ASSUME IInv, RunInv, Placed(image, Index), NamesApart(image, Index),
             Contained(image, Index), regroup => FunctionsNamed(Index)
      PROVE  ReferencesBind
  <2> SUFFICES ASSUME Clean, WholeIndex, source = "symtab", NEW path \in Outputs,
                      NEW d \in Index, NEW a \in d.addr..(d.addr + d.size),
                      NEW ref \in ResolveData(Known, image.sections, a)
               PROVE  BindsTo(path, ref, a)
    BY DEF ReferencesBind
  <2>1. WholeRun
    BY <1>3 DEF WholeRun
  <2>2. a \in Nat
    BY <2>1, WholeRunLists DEF Definition
  <2> QED
    BY <1>3, <2>1, <2>2, WholeRunReferences
<1> QED
  BY <1>1, <1>2, <1>3, InitInv, RunInit, PTL DEF Spec

\* After a split by DWARF, a call of a global function, or of a static one from
\* its own object, ends up at the function.
THEOREM DwarfCallsFollow ==
  Spec /\ [][CarefulEdit]_vars =>
    [](/\ Placed(image, Index) /\ DataApart(image) /\ NamesApart(image, Index)
       /\ (regroup => FunctionsNamed(Index))
       => DwarfReferencesBind)
<1>1. IInv /\ [Next]_vars /\ [CarefulEdit]_vars => IInv'
  BY StepInv DEF CarefulEdit
<1>2. RunInv /\ [Next]_vars /\ [CarefulEdit]_vars => RunInv'
  BY RunStep
<1>3. ASSUME IInv, RunInv, Placed(image, Index), DataApart(image), NamesApart(image, Index),
             regroup => FunctionsNamed(Index)
      PROVE  DwarfReferencesBind
  BY <1>3, WholeRunCalls DEF DwarfReferencesBind, WholeRun
<1> QED
  BY <1>1, <1>2, <1>3, InitInv, RunInit, PTL DEF Spec

\* Dynamic relocations keep their meaning: the imports stay open for the loader
\* and the exports are found under their own names, when the image shares
\* neither with a static.
THEOREM DynamicNamesFollow ==
  Spec /\ [][CarefulEdit]_vars =>
    [](/\ Placed(image, Index) /\ NamesApart(image, Index)
       /\ ImportsApart(image, Index) /\ ExportsUnshared(image, Index)
       /\ (regroup => FunctionsNamed(Index))
       => DynamicNamesBind)
<1>1. IInv /\ [Next]_vars /\ [CarefulEdit]_vars => IInv'
  BY StepInv DEF CarefulEdit
<1>2. RunInv /\ [Next]_vars /\ [CarefulEdit]_vars => RunInv'
  BY RunStep
<1>3. ASSUME IInv, RunInv, Placed(image, Index), NamesApart(image, Index),
             ImportsApart(image, Index), ExportsUnshared(image, Index),
             regroup => FunctionsNamed(Index)
      PROVE  DynamicNamesBind
  <2>1. ASSUME Clean, WholeIndex
        PROVE  WholeRun
    BY <1>3, <2>1 DEF WholeRun
  <2> QED
    BY <1>3, <2>1, WholeRunImports, WholeRunExports DEF DynamicNamesBind
<1> QED
  BY <1>1, <1>2, <1>3, InitInv, RunInit, PTL DEF Spec

-----------------------------------------------------------------------------
(* Running again *)

\* The units of a source are listed as sequences of its functions.
LEMMA DefaultShape ==
  ASSUME NEW index \in SUBSET Definition, IsFiniteSet(index), NEW file \in DOMAIN DefaultUnits(index)
  PROVE  /\ DefaultUnits(index)[file] =
              [i \in DOMAIN DefaultUnits(index)[file] |-> DefaultUnits(index)[file][i]]
         /\ DOMAIN DefaultUnits(index)[file] # {}
<1> DEFINE of(unit) == {f \in Functions(index) : f.unit = unit /\ f.size > 0}
           ids == {f.unit : f \in Functions(index)}
           files == {CuFile(u) : u \in {i \in ids : of(i) # {}}}
           us == DefaultUnits(index)
<1>1. DOMAIN us = files /\ \A k \in files : us[k] = ByAddress(of(k.id))
  BY DEF DefaultUnits
<1>2. of(file.id) # {}
  BY <1>1 DEF CuFile
<1>3. of(file.id) \subseteq index
  BY DEF Functions
<1> HIDE DEF of, files, us
<1>4. IsFiniteSet(of(file.id)) /\ \A d \in of(file.id) : d.addr \in Nat
  BY <1>3, FS_Subset DEF Definition
<1>5. us[file] = ByAddress(of(file.id))
  BY <1>1 DEF us
<1>6. us[file] \in [1..Cardinality(of(file.id)) -> of(file.id)]
  BY <1>4, <1>5, SortedListing DEF ByAddress
<1>7. us[file] = [i \in DOMAIN us[file] |-> us[file][i]]
  BY <1>6
<1>8. DOMAIN us[file] # {}
  BY <1>2, <1>4, <1>5, ByAddressLists
<1> QED
  BY <1>7, <1>8 DEF us

\* Regrouping by what a run wrote gives the units of that run.
LEMMA RegroupedAlike ==
  ASSUME NEW index \in SUBSET Definition, IsFiniteSet(index), FunctionsNamed(index)
  PROVE  Regrouped(index, ObjectsJson(index)) = DefaultUnits(index)
<1> DEFINE us == DefaultUnits(index)
           objects == ObjectsJson(index)
           known(file) == {i \in DOMAIN objects[file] : Named(index, objects[file][i]) # {}}
<1>1. /\ DOMAIN objects = DOMAIN us
      /\ \A file \in DOMAIN us : /\ DOMAIN objects[file] = DOMAIN us[file]
                                 /\ \A i \in DOMAIN us[file] : objects[file][i] = us[file][i].name
  BY DEF ObjectsJson
<1>2. \A f \in Functions(index) : Named(index, f.name) = {f}
  BY DEF Named, FunctionsNamed
<1>3. \A file \in DOMAIN us : \A i \in DOMAIN us[file] : us[file][i] \in Functions(index)
  BY DefaultLists DEF Lists
<1>4. \A file \in DOMAIN us :
        /\ us[file] = [i \in DOMAIN us[file] |-> us[file][i]]
        /\ DOMAIN us[file] # {}
  BY DefaultShape
<1>5. us = [file \in DOMAIN us |-> us[file]]
  BY DEF DefaultUnits
<1>6. Regrouped(index, objects) =
        [file \in {k \in DOMAIN objects : known(k) # {}} |->
           [i \in known(file) |-> CHOOSE f \in Named(index, objects[file][i]) : TRUE]]
  BY DEF Regrouped
<1> HIDE DEF us, objects
<1>7. \A file \in DOMAIN us : known(file) = DOMAIN us[file]
  <2> SUFFICES ASSUME NEW file \in DOMAIN us PROVE known(file) = DOMAIN us[file]
    OBVIOUS
  <2>1. DOMAIN objects[file] = DOMAIN us[file]
    BY <1>1
  <2>2. ASSUME NEW i \in DOMAIN us[file] PROVE Named(index, objects[file][i]) # {}
    <3>1. objects[file][i] = us[file][i].name /\ us[file][i] \in Functions(index)
      BY <1>1, <1>3
    <3>2. Named(index, us[file][i].name) = {us[file][i]}
      BY <1>2, <3>1
    <3> QED
      BY <3>1, <3>2
  <2> QED
    BY <2>1, <2>2
<1>8. \A file \in DOMAIN us : \A i \in DOMAIN us[file] :
        (CHOOSE f \in Named(index, objects[file][i]) : TRUE) = us[file][i]
  <2> SUFFICES ASSUME NEW file \in DOMAIN us, NEW i \in DOMAIN us[file]
               PROVE  (CHOOSE f \in Named(index, objects[file][i]) : TRUE) = us[file][i]
    OBVIOUS
  <2>1. Named(index, objects[file][i]) = {us[file][i]}
    BY <1>1, <1>2, <1>3
  <2> QED
    BY <2>1
<1>9. {k \in DOMAIN objects : known(k) # {}} = DOMAIN us
  <2>1. \A k \in DOMAIN us : known(k) # {}
    BY <1>4, <1>7
  <2> HIDE DEF known
  <2> QED
    BY <1>1, <2>1
<1> HIDE DEF known
<1>10. \A file \in DOMAIN us :
         [i \in known(file) |-> CHOOSE f \in Named(index, objects[file][i]) : TRUE] = us[file]
  <2> SUFFICES ASSUME NEW file \in DOMAIN us
               PROVE  [i \in known(file) |-> CHOOSE f \in Named(index, objects[file][i]) : TRUE]
                        = us[file]
    OBVIOUS
  <2>1. [i \in known(file) |-> CHOOSE f \in Named(index, objects[file][i]) : TRUE]
          = [i \in DOMAIN us[file] |-> us[file][i]]
    BY <1>7, <1>8
  <2> QED
    BY <1>4, <2>1
<1>11. Regrouped(index, objects) = [file \in DOMAIN us |-> us[file]]
  BY <1>6, <1>9, <1>10
<1> QED
  BY <1>5, <1>11 DEF us, objects

\* The objects of a run that split src by its own units are in the directory d.
DefaultOnDisk(src, d) ==
  /\ \A file \in DOMAIN DefaultUnits(IndexOf(image, src)) :
       /\ OutputOf(file) \in DOMAIN d
       /\ d[OutputOf(file)] = ObjectOf(image, src, DefaultUnits(IndexOf(image, src))[file])
  /\ SharedFile \in DOMAIN d /\ d[SharedFile] = SharedObject(image, src)

GroupingSaved ==
  ~edited /\ origin \in {"symtab", "dwarf"} => grouping = ObjectsJson(IndexOf(image, origin))

\* The run before ended well, and objects.json is as it was written for its source.
RunsAlike ==
  /\ previous.source = origin /\ origin \in {"symtab", "dwarf"} /\ ~edited
  /\ FunctionsNamed(IndexOf(image, origin))

\* Such a run finds the objects of the run before, and changes none of them
\* except by failing to write it.
Repeated ==
  RunsAlike =>
    /\ pc \in {"idle", "index"} => disk = previous.disk /\ DefaultOnDisk(origin, disk)
    /\ pc \in {"emit", "report", "done"} /\ regroup /\ source = origin =>
         /\ DefaultOnDisk(origin, previous.disk)
         /\ DOMAIN disk = DOMAIN previous.disk
         /\ \A path \in DOMAIN disk :
              \/ disk[path] = previous.disk[path]
              \/ \E file \in DOMAIN units : phase[file] = "err" /\ OutputOf(file) = path

AreFunctions ==
  /\ disk = [path \in DOMAIN disk |-> disk[path]]
  /\ previous.disk = [path \in DOMAIN previous.disk |-> previous.disk[path]]

AgainInv == GroupingSaved /\ Repeated /\ AreFunctions

LEMMA AgainInit == Init => AgainInv
<1> SUFFICES ASSUME Init PROVE AgainInv
  OBVIOUS
<1>1. <<>> = [path \in DOMAIN <<>> |-> <<>>[path]]
  OBVIOUS
<1>2. disk = <<>> /\ previous.disk = <<>> /\ origin = "none"
  BY DEF Init
<1>3. AreFunctions
  BY <1>1, <1>2 DEF AreFunctions
<1> QED
  BY <1>2, <1>3 DEF AgainInv, GroupingSaved, Repeated, RunsAlike

\* The units of a run that repeats the one before.
LEMMA SameUnits ==
  ASSUME RunInv, GroupingSaved, RunsAlike, pc \in {"emit", "report", "done"}, source = origin
  PROVE  units = DefaultUnits(Index)
<1>1. Index \in SUBSET Definition /\ IsFiniteSet(Index) /\ Index = IndexOf(image, origin)
  BY SplitAssumption DEF RunInv, Index, IndexOf, Image
<1>2. grouping = ObjectsJson(Index) /\ FunctionsNamed(Index)
  BY <1>1 DEF GroupingSaved, RunsAlike
<1>3. Regrouped(Index, ObjectsJson(Index)) = DefaultUnits(Index)
  BY <1>1, <1>2, RegroupedAlike
<1> QED
  BY <1>2, <1>3 DEF RunInv, UnitsFollow

\* A step that writes one path of the directory, or none.
LEMMA StaysFunctions ==
  ASSUME AreFunctions, previous' = previous,
         disk' = disk \/ \E path, object : WriteFile(path, object)
  PROVE  AreFunctions'
<1>1. CASE disk' = disk
  BY <1>1 DEF AreFunctions
<1>2. ASSUME NEW path, NEW object, WriteFile(path, object)
      PROVE  disk' = [p \in DOMAIN disk' |-> disk'[p]]
  <2> DEFINE new == [p \in DOMAIN disk \cup {path} |-> IF p = path THEN object ELSE disk[p]]
  <2>1. new = [p \in DOMAIN new |-> new[p]]
    OBVIOUS
  <2>2. disk' = new
    BY <1>2 DEF WriteFile
  <2> HIDE DEF new
  <2> QED
    BY <2>1, <2>2
<1> QED
  BY <1>1, <1>2 DEF AreFunctions

LEMMA AgainStep ==
  ASSUME IInv, RunInv, AgainInv, [Next]_vars
  PROVE  AgainInv'
<1> USE DEF AgainInv
<1>1. ASSUME UNCHANGED <<image, grouping, disk, edited, origin, previous>>,
             pc = pc' \/ (pc = "idle" /\ pc' = "index") \/ pc' = "failed",
             pc \in {"emit", "report", "done"} => pc' = "failed"
      PROVE  AgainInv'
  BY <1>1 DEF GroupingSaved, Repeated, RunsAlike, AreFunctions, DefaultOnDisk
<1>2. CASE Start \/ NothingToSplit
  BY <1>1, <1>2 DEF Start, NothingToSplit
<1>3. CASE Save
  <2>1. /\ UNCHANGED <<image, regroup, disk, previous>> /\ regroup = FALSE
        /\ pc' = "emit" /\ origin' = source'
        /\ grouping' = ObjectsJson(IndexOf(image, source'))
    BY <1>3 DEF Save, StartUnits
  <2> QED
    BY <2>1 DEF GroupingSaved, Repeated, AreFunctions
<1>4. CASE SaveFails
  BY <1>4 DEF SaveFails, GroupingSaved, Repeated, RunsAlike, AreFunctions
<1>5. CASE Regroup
  <2>1. /\ pc = "index" /\ pc' = "emit"
        /\ UNCHANGED <<image, grouping, disk, edited, origin, previous>>
    BY <1>5 DEF Regroup, StartUnits
  <2>2. Repeated'
    BY <2>1 DEF Repeated, RunsAlike, DefaultOnDisk
  <2> QED
    BY <2>1, <2>2 DEF GroupingSaved, AreFunctions
\* While the units are emitted: which path a step may write, and what.
<1>6. ASSUME pc = "emit", pc' \in {"emit", "report"},
             UNCHANGED <<image, regroup, source, units, grouping, edited, origin, previous>>,
             NEW path, NEW object, WriteFile(path, object),
             \A file \in DOMAIN units : phase[file] = "err" => phase'[file] = "err",
             RunsAlike /\ regroup /\ source = origin =>
               /\ path \in DOMAIN previous.disk
               /\ \/ object = previous.disk[path]
                  \/ \E file \in DOMAIN units : phase'[file] = "err" /\ OutputOf(file) = path
      PROVE  AgainInv'
  <2>1. GroupingSaved' /\ AreFunctions'
    BY <1>6, StaysFunctions DEF GroupingSaved
  <2>2. /\ DOMAIN disk' = DOMAIN disk \cup {path} /\ disk'[path] = object
        /\ \A other \in DOMAIN disk : other # path => disk'[other] = disk[other]
    BY <1>6 DEF WriteFile
  <2>3. Repeated'
    BY <1>6, <2>2 DEF Repeated, RunsAlike, DefaultOnDisk
  <2> QED
    BY <2>1, <2>3
<1>7. ASSUME pc = "emit", RunsAlike, regroup, source = origin
      PROVE  /\ \A file \in DOMAIN units :
                  /\ OutputOf(file) \in DOMAIN previous.disk
                  /\ previous.disk[OutputOf(file)] = ObjectOf(image, source, units[file])
             /\ SharedFile \in DOMAIN previous.disk
             /\ previous.disk[SharedFile] = SharedObject(image, source)
  <2>1. units = DefaultUnits(Index) /\ Index = IndexOf(image, origin)
    BY <1>7, SameUnits DEF Index
  <2> QED
    BY <1>7, <2>1 DEF Repeated, DefaultOnDisk
<1>8. ASSUME NEW file \in DOMAIN units, Prepare(file)
      PROVE  AgainInv'
  <2>1. /\ pc = "emit" /\ pc' = "emit"
        /\ UNCHANGED <<image, regroup, source, units, grouping, disk, edited, origin, previous>>
        /\ \A other \in DOMAIN units : phase[other] = "err" => phase'[other] = "err"
    BY <1>8 DEF Prepare, IInv
  <2>2. Repeated'
    BY <2>1 DEF Repeated, RunsAlike, DefaultOnDisk
  <2> QED
    BY <2>1, <2>2 DEF GroupingSaved, AreFunctions
<1>9. ASSUME NEW file \in DOMAIN units, Write(file)
      PROVE  AgainInv'
  <2>1. /\ pc = "emit" /\ pc' = "emit"
        /\ UNCHANGED <<image, regroup, source, units, grouping, edited, origin, previous>>
        /\ WriteFile(OutputOf(file), ObjectOf(image, source, units[file]))
        /\ \A other \in DOMAIN units : phase[other] = "err" => phase'[other] = "err"
    BY <1>9 DEF Write, IInv
  <2> QED
    BY <1>6, <1>7, <2>1
<1>10. ASSUME NEW file \in DOMAIN units, WriteFails(file)
       PROVE  AgainInv'
  <2>1. /\ pc = "emit" /\ pc' = "emit"
        /\ UNCHANGED <<image, regroup, source, units, grouping, edited, origin, previous>>
        /\ WriteFile(OutputOf(file), <<>>)
        /\ \A other \in DOMAIN units : phase[other] = "err" => phase'[other] = "err"
        /\ phase'[file] = "err"
    BY <1>10 DEF WriteFails, IInv
  <2> QED
    BY <1>6, <1>7, <1>10, <2>1
<1>11. CASE EmitShared
  <2>1. /\ pc = "emit" /\ pc' = "report"
        /\ UNCHANGED <<image, regroup, source, units, phase, grouping, edited, origin, previous>>
        /\ WriteFile(SharedFile, SharedObject(image, source))
    BY <1>11 DEF EmitShared
  <2> QED
    BY <1>6, <1>7, <2>1
<1>12. CASE SharedFails
  <2>1. /\ pc' = "failed" /\ UNCHANGED <<image, grouping, edited, origin, previous>>
        /\ WriteFile(SharedFile, <<>>)
    BY <1>12 DEF SharedFails
  <2>2. AreFunctions'
    BY <2>1, StaysFunctions
  <2> QED
    BY <2>1, <2>2 DEF GroupingSaved, Repeated
<1>13. CASE Report
  <2>1. /\ pc = "report" /\ pc' = "done"
        /\ UNCHANGED <<image, regroup, source, units, phase, grouping, disk, edited, origin,
                       previous>>
    BY <1>13 DEF Report
  <2> QED
    BY <2>1 DEF GroupingSaved, Repeated, RunsAlike, AreFunctions, DefaultOnDisk
<1>14. CASE Edit
  <2>1. /\ pc' = "idle" /\ UNCHANGED <<image, source, disk, origin>>
        /\ edited' = TRUE \/ UNCHANGED <<grouping, edited>>
        /\ previous' = IF Clean THEN [source |-> source, disk |-> disk]
                       ELSE [source |-> "none", disk |-> <<>>]
    BY <1>14 DEF Edit, Clean
  <2>2. GroupingSaved'
    BY <2>1 DEF GroupingSaved
  <2>3. AreFunctions'
    <3>1. <<>> = [path \in DOMAIN <<>> |-> <<>>[path]]
      OBVIOUS
    <3> QED
      BY <2>1, <3>1 DEF AreFunctions
  <2>4. CASE ~RunsAlike'
    BY <2>2, <2>3, <2>4 DEF Repeated
  <2>5. CASE RunsAlike'
    <3>1. /\ Clean /\ previous'.source = source /\ previous'.disk = disk /\ source = origin
          /\ UNCHANGED <<grouping, edited>> /\ ~edited /\ origin \in {"symtab", "dwarf"}
          /\ FunctionsNamed(Index) /\ Index = IndexOf(image, origin)
      BY <2>1, <2>5 DEF RunsAlike, Index
    <3>2. units = DefaultUnits(Index)
      <4>1. Index \in SUBSET Definition /\ IsFiniteSet(Index)
        BY SplitAssumption DEF RunInv, Index, IndexOf, Image
      <4>2. grouping = ObjectsJson(Index)
        BY <3>1 DEF GroupingSaved
      <4>3. Regrouped(Index, ObjectsJson(Index)) = DefaultUnits(Index)
        BY <3>1, <4>1, RegroupedAlike
      <4> QED
        BY <3>1, <4>2, <4>3 DEF RunInv, UnitsFollow, Clean
    <3>3. DefaultOnDisk(origin, disk)
      BY <3>1, <3>2, AllWritten DEF DefaultOnDisk, RunInv, SharedWritten, Clean
    <3>4. DefaultOnDisk(origin, disk)'
      BY <2>1, <3>3 DEF DefaultOnDisk
    <3>5. Repeated'
      BY <2>1, <3>1, <3>4 DEF Repeated
    <3> QED
      BY <2>2, <2>3, <3>5
  <2> QED
    BY <2>4, <2>5
<1>15. CASE UNCHANGED vars
  BY <1>15 DEF vars, GroupingSaved, Repeated, RunsAlike, AreFunctions, DefaultOnDisk
<1> QED
  BY <1>2, <1>3, <1>4, <1>5, <1>8, <1>9, <1>10, <1>11, <1>12, <1>13, <1>14, <1>15
  DEF Next, Run, Worker, Finished

\* Running again with the objects.json a run wrote, unedited, reproduces the
\* objects of the run before, with none missing and none left over, whatever
\* happened in earlier runs: when names tell the functions apart.
THEOREM RunsRepeat ==
  Spec /\ [][CarefulEdit]_vars => [](FunctionsNamed(Index) => RoundTrip)
<1>1. IInv /\ [Next]_vars /\ [CarefulEdit]_vars => IInv'
  BY StepInv DEF CarefulEdit
<1>2. RunInv /\ [Next]_vars /\ [CarefulEdit]_vars => RunInv'
  BY RunStep
<1>3. IInv /\ RunInv /\ AgainInv /\ [Next]_vars => AgainInv'
  BY AgainStep
<1>4. ASSUME IInv, RunInv, AgainInv, FunctionsNamed(Index)
      PROVE  RoundTrip
  <2> SUFFICES ASSUME Clean, WholeIndex, regroup, ~edited, previous.source = source
               PROVE  disk = previous.disk
    BY DEF RoundTrip
  <2>1. RunsAlike /\ source = origin
    BY <1>4 DEF RunsAlike, RunInv, WholeIndex, Index
  <2>2. \A file \in DOMAIN units : phase[file] # "err"
    BY <1>4, AllOk
  <2>3. DOMAIN disk = DOMAIN previous.disk
        /\ \A path \in DOMAIN disk : disk[path] = previous.disk[path]
    BY <1>4, <2>1, <2>2 DEF AgainInv, Repeated, Clean
  <2> QED
    BY <1>4, <2>3 DEF AgainInv, AreFunctions
<1> QED
  BY <1>1, <1>2, <1>3, <1>4, InitInv, RunInit, AgainInit, PTL DEF Spec
=============================================================================
