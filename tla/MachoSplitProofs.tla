-------------------------- MODULE MachoSplitProofs --------------------------
(***************************************************************************)
(* What the record machine of the STABS table makes of any stream of       *)
(* records, and where the functions of the index end up.                   *)
(***************************************************************************)
EXTENDS MachoSplit, SequenceTheorems, FunctionTheorems, FiniteSetTheorems, WellFoundedInduction,
        TLAPS

FunctionSet == [name : STRING, addr : Nat, size : Nat, external : BOOLEAN]
VariableSet == [name : STRING, addr : Nat, external : BOOLEAN]
RecordSet == [type : STRING, name : STRING, value : Nat]
UnitSet == [name : STRING, functions : SUBSET FunctionSet, variables : SUBSET VariableSet]

\* The record of the source file being read.
Current == SourceOf(image.stabs, pos + 1)

\* A function of the program, under its source file, whole if it has an extent.
Own(img, file, f) ==
  f.size > 0 => \E c \in img.code : /\ c.name = f.name /\ c.addr = f.addr
                                    /\ c.unit = file /\ Whole(img, c, f.size)

Found == (UNION {index[k].functions : k \in DOMAIN index}) \cup (UNION {u.functions : u \in unit})

Types ==
  /\ image \in Images /\ pos \in 0..Len(image.stabs)
  /\ index \in Seq(UnitSet) /\ unit \subseteq UnitSet
  /\ open \subseteq [name : STRING, addr : Nat]
  /\ \A u, v \in unit : u = v
  /\ \A o, p \in open : o = p

\* The unit being read is that of the last source record, if that has a name.
UnitFollows ==
  /\ \A u \in unit : \E j \in Current : image.stabs[j].name = u.name
  /\ \A j \in Current : image.stabs[j].name # "" => unit # {}

\* The open function is that of the last record of a function, in this unit.
OpenFollows ==
  /\ \A o \in open : \E i \in 1..pos :
       /\ Opening(image.stabs[i])
       /\ image.stabs[i].name = o.name /\ image.stabs[i].value = o.addr
       /\ \A j \in (i + 1)..pos : image.stabs[j].type \notin {"so", "fun"}
  /\ pos > 0 /\ unit # {} /\ Opening(image.stabs[pos]) => 
       [name |-> image.stabs[pos].name, addr |-> image.stabs[pos].value] \in open

UnitsTrue ==
  /\ \A k \in DOMAIN index : \A f \in index[k].functions : Own(image, index[k].name, f)
  /\ \A u \in unit : \A f \in u.functions : Own(image, u.name, f)

PairsKept ==
  \A i \in 1..(pos - 1) :
    Opening(image.stabs[i]) /\ Ending(image.stabs[i + 1]) =>
      \E f \in Found : f.addr = image.stabs[i].value /\ f.size = image.stabs[i + 1].value

ScanInv == Types /\ UnitFollows /\ OpenFollows /\ UnitsTrue /\ PairsKept

IInv ==
  /\ source = "none" /\ RecordsTrue(image) => ScanInv
  /\ RecordsTrue(image) => UnitsOwnFunctions
  /\ image \in Images

-----------------------------------------------------------------------------
(* Ending a unit *)

\* A sequence of at most one element.
LEMMA FewInSequence ==
  ASSUME NEW S, \A x, y \in S : x = y
  PROVE  /\ SetToSeq(S) \in Seq(S)
         /\ \A x \in S : \E k \in DOMAIN SetToSeq(S) : SetToSeq(S)[k] = x
         /\ \A k, l \in DOMAIN SetToSeq(S) : k = l
<1>1. CASE S = {}
  <2>1. Cardinality(S) = 0
    BY <1>1, FS_EmptySet
  <2>2. \A f \in [1..0 -> S] : IsInjective(f)
    BY DEF IsInjective
  <2>3. [i \in 1..0 |-> i] \in [1..0 -> S]
    OBVIOUS
  <2>4. SetToSeq(S) \in [1..0 -> S]
    BY <2>1, <2>2, <2>3 DEF SetToSeq
  <2> QED
    BY <1>1, <2>4, SeqDef
<1>2. CASE S # {}
  <2>1. PICK x \in S : TRUE
    BY <1>2
  <2>2. S = {x} /\ Cardinality(S) = 1
    <3>1. S = {x}
      OBVIOUS
    <3>2. Cardinality({x}) = 1
      BY FS_Singleton
    <3> QED
      BY <3>1, <3>2
  <2>3. [i \in 1..1 |-> x] \in [1..1 -> S] /\ IsInjective([i \in 1..1 |-> x])
    BY <2>2 DEF IsInjective
  <2>4. SetToSeq(S) \in [1..1 -> S]
    BY <2>2, <2>3 DEF SetToSeq
  <2>5. SetToSeq(S)[1] = x /\ 1 \in DOMAIN SetToSeq(S)
    BY <2>2, <2>4
  <2>6. SetToSeq(S) \in Seq(S)
    BY <2>4, SeqDef
  <2>7. \A k, l \in DOMAIN SetToSeq(S) : k = l
    <3>1. DOMAIN SetToSeq(S) = 1..1
      BY <2>4
    <3> QED
      BY <3>1
  <2> QED
    BY <2>2, <2>5, <2>6, <2>7
<1> QED
  BY <1>1, <1>2

LEMMA ClosedTyped ==
  ASSUME open \subseteq [name : STRING, addr : Nat], NEW size \in Nat
  PROVE  Closed(size) \subseteq FunctionSet
<1> SUFFICES ASSUME NEW o \in open PROVE Function(o.name, o.addr, size, TRUE) \in FunctionSet
  BY DEF Closed
<1>1. o.name \in STRING /\ o.addr \in Nat
  OBVIOUS
<1> QED
  BY <1>1 DEF Function, FunctionSet

LEMMA MoreFunctions ==
  ASSUME NEW u \in UnitSet, NEW F, F \subseteq FunctionSet
  PROVE  /\ [u EXCEPT !.functions = @ \cup F] \in UnitSet
         /\ [u EXCEPT !.functions = @ \cup F].functions = u.functions \cup F
         /\ [u EXCEPT !.functions = @ \cup F].name = u.name
<1>1. u.functions \cup F \in SUBSET FunctionSet
  BY DEF UnitSet
<1> DEFINE more == u.functions \cup F
           v == [u EXCEPT !.functions = more]
<1>2. v \in UnitSet /\ v.functions = more /\ v.name = u.name
  <2> HIDE DEF more
  <2> QED
    BY <1>1 DEF UnitSet, more
<1> QED
  BY <1>2

Ended(u) == [u EXCEPT !.functions = @ \cup {f \in Closed(0) : f.addr # 0}]

\* The units read so far stay in their places, the one that ends comes behind
\* them if it has a function or a variable.
LEMMA UnitsEnd ==
  ASSUME Types
  PROVE  /\ Units \in Seq(UnitSet)
         /\ \A k \in DOMAIN index : k \in DOMAIN Units /\ Units[k] = index[k]
         /\ \A k \in DOMAIN Units \ DOMAIN index : \E u \in unit : Units[k] = Ended(u)
         /\ \A k, l \in DOMAIN Units \ DOMAIN index : k = l
         /\ \A u \in unit : u.functions # {} => \E k \in DOMAIN Units : Units[k] = Ended(u)
<1> DEFINE done == {[u EXCEPT !.functions = @ \cup {f \in Closed(0) : f.addr # 0}] : u \in unit}
           last == {u \in done : u.functions # {} \/ u.variables # {}}
<1>1. \A u \in unit : Ended(u) \in UnitSet
  <2> TAKE u \in unit
  <2>1. {f \in Closed(0) : f.addr # 0} \subseteq FunctionSet
    BY ClosedTyped DEF Types
  <2> QED
    BY <2>1, MoreFunctions DEF Types, Ended
<1>2. done = {Ended(u) : u \in unit}
  BY DEF Ended
<1>3. last \subseteq UnitSet /\ \A x, y \in last : x = y
  BY <1>1, <1>2 DEF Types
<1>4. /\ SetToSeq(last) \in Seq(last)
      /\ \A x \in last : \E k \in DOMAIN SetToSeq(last) : SetToSeq(last)[k] = x
      /\ \A k, l \in DOMAIN SetToSeq(last) : k = l
  BY <1>3, FewInSequence
<1>5. Units = index \o SetToSeq(last)
  BY DEF Units
<1> HIDE DEF last
<1>6. SetToSeq(last) \in Seq(UnitSet) /\ index \in Seq(UnitSet)
  BY <1>3, <1>4 DEF Types
<1> DEFINE new == SetToSeq(last)
<1>7. new \in Seq(UnitSet) /\ new \in Seq(last)
  BY <1>4, <1>6
<1> HIDE DEF new
<1>8. Units = index \o new /\ Len(new) \in Nat /\ Len(index) \in Nat
  BY <1>5, <1>6, <1>7 DEF new
<1>9. /\ Units \in Seq(UnitSet) /\ Len(Units) = Len(index) + Len(new)
      /\ \A k \in 1..Len(index) : Units[k] = index[k]
      /\ \A k \in (Len(index) + 1)..Len(Units) : Units[k] = new[k - Len(index)]
  BY <1>6, <1>7, <1>8
<1>10. \A k \in DOMAIN Units \ DOMAIN index :
         k - Len(index) \in 1..Len(new) /\ Units[k] = new[k - Len(index)]
  BY <1>6, <1>8, <1>9
<1>11. \A k \in 1..Len(new) : new[k] \in last
  BY <1>7
<1>12. \A k \in DOMAIN Units \ DOMAIN index : \E u \in unit : Units[k] = Ended(u)
  <2> TAKE k \in DOMAIN Units \ DOMAIN index
  <2>1. Units[k] \in last
    BY <1>10, <1>11
  <2> QED
    BY <1>2, <2>1 DEF last
<1>13. \A u \in unit : u.functions # {} => \E k \in DOMAIN Units : Units[k] = Ended(u)
  <2> TAKE u \in unit
  <2> HAVE u.functions # {}
  <2>1. u \in UnitSet
    BY DEF Types
  <2>2. Ended(u).functions # {}
    BY <2>1 DEF Ended, UnitSet
  <2>3. Ended(u) \in last
    BY <1>2, <2>2 DEF last
  <2>4. PICK k \in DOMAIN new : new[k] = Ended(u)
    BY <1>4, <2>3 DEF new
  <2>5. k \in 1..Len(new)
    BY <1>7, <2>4
  <2>6. Len(index) + k \in (Len(index) + 1)..Len(Units) /\ Units[Len(index) + k] = new[k]
    BY <1>8, <1>9, <2>5
  <2>7. Len(index) + k \in DOMAIN Units
    BY <1>8, <1>9, <2>6
  <2> QED
    BY <2>4, <2>6, <2>7
<1>14. \A k \in DOMAIN index : k \in DOMAIN Units /\ Units[k] = index[k]
  BY <1>6, <1>8, <1>9
<1>15. \A k, l \in DOMAIN Units \ DOMAIN index : k = l
  <2> TAKE k, l \in DOMAIN Units \ DOMAIN index
  <2>1. k - Len(index) \in DOMAIN new /\ l - Len(index) \in DOMAIN new
    BY <1>7, <1>10
  <2>2. k - Len(index) = l - Len(index)
    BY <1>4, <2>1 DEF new
  <2>3. k \in Int /\ l \in Int
    BY <1>9
  <2> QED
    BY <1>8, <2>2, <2>3
<1> QED
  BY <1>9, <1>12, <1>13, <1>14, <1>15

\* What the index is told by the units it takes over.
LEMMA EndedOwn ==
  ASSUME Types, UnitsTrue
  PROVE  \A u \in unit : /\ \A f \in Ended(u).functions : Own(image, Ended(u).name, f)
                         /\ u.functions \subseteq Ended(u).functions
<1> TAKE u \in unit
<1> DEFINE rest == {f \in Closed(0) : f.addr # 0}
<1>1. rest \subseteq FunctionSet
  BY ClosedTyped DEF Types
<1>2. Ended(u).name = u.name /\ Ended(u).functions = u.functions \cup rest
  BY <1>1, MoreFunctions DEF Types, Ended
<1>3. \A f \in rest : f.size = 0
  BY DEF Closed, Function
<1>4. \A f \in u.functions : Own(image, u.name, f)
  BY DEF UnitsTrue
<1> QED
  BY <1>2, <1>3, <1>4 DEF Own

\* Ending a unit loses no function and mixes up none.
LEMMA UnitsOwn ==
  ASSUME Types, UnitsTrue
  PROVE  /\ \A k \in DOMAIN Units : \A f \in Units[k].functions : Own(image, Units[k].name, f)
         /\ \A f \in Found : \E k \in DOMAIN Units : f \in Units[k].functions
<1>1. \A k \in DOMAIN Units : \A f \in Units[k].functions : Own(image, Units[k].name, f)
  <2> TAKE k \in DOMAIN Units
  <2>1. CASE k \in DOMAIN index
    BY <2>1, UnitsEnd DEF UnitsTrue
  <2>2. CASE k \notin DOMAIN index
    <3>1. PICK u \in unit : Units[k] = Ended(u)
      BY <2>2, UnitsEnd
    <3> QED
      BY <3>1, EndedOwn
  <2> QED
    BY <2>1, <2>2
<1>2. \A f \in Found : \E k \in DOMAIN Units : f \in Units[k].functions
  <2> TAKE f \in Found
  <2>1. CASE \E k \in DOMAIN index : f \in index[k].functions
    BY <2>1, UnitsEnd
  <2>2. CASE \E u \in unit : f \in u.functions
    <3>1. PICK u \in unit : f \in u.functions
      BY <2>2
    <3>2. PICK k \in DOMAIN Units : Units[k] = Ended(u)
      BY <3>1, UnitsEnd
    <3> QED
      BY <3>1, <3>2, EndedOwn
  <2> QED
    BY <2>1, <2>2 DEF Found
<1> QED
  BY <1>1, <1>2

-----------------------------------------------------------------------------
(* Reading a record *)

LEMMA StabsTyped ==
  ASSUME image \in Images
  PROVE  /\ image.stabs \in Seq(RecordSet) /\ Len(image.stabs) \in Nat
         /\ DOMAIN image.stabs = 1..Len(image.stabs)
         /\ \A i \in 1..Len(image.stabs) : image.stabs[i] \in RecordSet
<1> DEFINE s == image.stabs
<1>1. s \in Seq(RecordSet)
  BY MachoAssumption DEF RecordSet
<1> HIDE DEF s
<1>2. Len(s) \in Nat /\ DOMAIN s = 1..Len(s) /\ \A i \in 1..Len(s) : s[i] \in RecordSet
  BY <1>1
<1> QED
  BY <1>1, <1>2 DEF s

LEMMA SourceIs ==
  ASSUME NEW s, NEW i \in Nat, NEW j
  PROVE  /\ j \in SourceOf(s, i) <=>
              j \in 1..(i - 1) /\ s[j].type = "so" /\ \A k \in (j + 1)..(i - 1) : s[k].type # "so"
         /\ j \in SourceOf(s, i + 1) <=>
              j \in 1..i /\ s[j].type = "so" /\ \A k \in (j + 1)..i : s[k].type # "so"
BY DEF SourceOf

\* Where no source begins, it stays the same.
LEMMA SourceOn ==
  ASSUME NEW s, NEW i \in Nat, s[i].type # "so"
  PROVE  SourceOf(s, i + 1) = SourceOf(s, i)
<1> DEFINE T(k) == s[k].type = "so"
<1>1. SourceOf(s, i + 1) = {j \in 1..i : T(j) /\ \A k \in (j + 1)..i : ~T(k)}
  BY DEF SourceOf
<1>2. SourceOf(s, i) = {j \in 1..(i - 1) : T(j) /\ \A k \in (j + 1)..(i - 1) : ~T(k)}
  BY DEF SourceOf
<1>3. ~T(i)
  OBVIOUS
<1> HIDE DEF T
<1> QED
  BY <1>1, <1>2, <1>3

\* And where one begins, it is the source.
LEMMA SourceNew ==
  ASSUME NEW s, NEW i \in Nat \ {0}, s[i].type = "so"
  PROVE  SourceOf(s, i + 1) = {i}
<1> DEFINE T(k) == s[k].type = "so"
<1>1. SourceOf(s, i + 1) = {j \in 1..i : T(j) /\ \A k \in (j + 1)..i : ~T(k)}
  BY DEF SourceOf
<1>2. T(i)
  OBVIOUS
<1> HIDE DEF T
<1> QED
  BY <1>1, <1>2

LEMMA NextIs ==
  ASSUME NEW s, NEW i \in Nat, NEW n \in Nat, n + 1 \in (i + 1)..Len(s), s[n + 1].type = "fun",
         \A j \in (i + 1)..n : s[j].type \notin {"so", "fun"}
  PROVE  n + 1 \in NextOf(s, i)
BY DEF NextOf

\* The place of the next record, and of the source it belongs to.
LEMMA NextPlace ==
  ASSUME Types, NEW type, NextRecord(type)
  PROVE  /\ pos' = pos + 1 /\ pos' \in 1..Len(image.stabs) /\ image' = image /\ source' = source
         /\ Record \in RecordSet
         /\ Record = image.stabs[pos'] /\ Record.type = type
         /\ Current = SourceOf(image.stabs, pos') /\ Current = SourceOf(image.stabs, pos + 1)
         /\ pos \in Nat /\ image \in Images
         /\ Len(image.stabs) \in Nat /\ DOMAIN image.stabs = 1..Len(image.stabs)
<1>1. pos \in 0..Len(image.stabs) /\ image \in Images
  BY DEF Types
<1>2. pos < Len(image.stabs) /\ image.stabs[pos + 1].type = type
      /\ pos' = pos + 1 /\ image' = image /\ source' = source
  BY DEF NextRecord
<1>3. pos \in Nat /\ pos + 1 \in 1..Len(image.stabs)
  BY <1>1, <1>2, StabsTyped
<1>4. image.stabs[pos + 1] \in RecordSet
  BY <1>1, <1>3, StabsTyped
<1> QED
  BY <1>1, <1>2, <1>3, <1>4, StabsTyped DEF Record, Current

\* Where the source stays, the unit is that of the source.
LEMMA SourceStays ==
  ASSUME Types, NEW type, NextRecord(type), type # "so"
  PROVE  Current' = Current
<1>1. pos' = pos + 1 /\ image' = image /\ image.stabs[pos'].type # "so" /\ pos \in Nat
      /\ pos' \in Nat /\ Current = SourceOf(image.stabs, pos')
  BY NextPlace DEF Types
<1>2. SourceOf(image.stabs, pos' + 1) = SourceOf(image.stabs, pos')
  BY <1>1, SourceOn
<1> QED
  BY <1>1, <1>2 DEF Current

\* An open function is one of the program, and the next record of a function in
\* its unit tells an extent that is whole.
LEMMA OpenRecord ==
  ASSUME RecordsTrue(image), ScanInv, NextRecord("fun"), NEW o \in open, NEW u \in unit
  PROVE  \E i \in 1..pos, c \in image.code :
           /\ image.stabs[i].value = o.addr
           /\ c.name = o.name /\ c.addr = o.addr /\ c.unit = u.name
           /\ Extent(image.stabs, i, pos + 1) > 0
                => Whole(image, c, Extent(image.stabs, i, pos + 1))
<1>0. Types /\ UnitFollows /\ OpenFollows
  BY DEF ScanInv
<1> DEFINE s == image.stabs
           T(n) == s[n].type
<1>1. pos \in Nat /\ pos + 1 \in 1..Len(s) /\ Len(s) \in Nat /\ DOMAIN s = 1..Len(s)
  <2>1. image \in Images /\ pos \in 0..Len(s)
    BY <1>0 DEF Types
  <2>2. pos' = pos + 1 /\ pos' \in 1..Len(s)
    BY <1>0, NextPlace
  <2>3. Len(s) \in Nat /\ DOMAIN s = 1..Len(s)
    BY <2>1, StabsTyped
  <2> QED
    BY <2>1, <2>2, <2>3
<1>2. Record = s[pos + 1] /\ Record.type = "fun"
  BY <1>0, NextPlace
<1>3. PICK i \in 1..pos : /\ Opening(s[i]) /\ s[i].name = o.name /\ s[i].value = o.addr
                          /\ \A j \in (i + 1)..pos : s[j].type \notin {"so", "fun"}
  BY <1>0 DEF OpenFollows
<1>4. i \in DOMAIN s /\ i \in Nat
  BY <1>1
<1>5. PICK j \in SourceOf(s, i), c \in image.code :
         /\ s[j].name # "" /\ c.unit = s[j].name /\ c.name = s[i].name /\ c.addr = s[i].value
         /\ \A k \in NextOf(s, i) : Extent(s, i, k) > 0 => Whole(image, c, Extent(s, i, k))
  BY <1>3, <1>4 DEF RecordsTrue
<1>6. PICK m \in Current : s[m].name = u.name
  BY <1>0 DEF UnitFollows
<1>7. T(i) # "so" /\ \A n \in (i + 1)..pos : T(n) \notin {"so", "fun"}
  BY <1>3 DEF Opening
<1>8. j \in 1..(i - 1) /\ T(j) = "so" /\ \A n \in (j + 1)..(i - 1) : T(n) # "so"
  <2>1. j \in SourceOf(s, i)
    OBVIOUS
  <2> QED
    BY <2>1 DEF SourceOf
<1>9. m \in 1..pos /\ T(m) = "so" /\ \A n \in (m + 1)..pos : T(n) # "so"
  <2>1. m \in SourceOf(s, pos + 1) /\ (pos + 1) - 1 = pos
    BY <1>1 DEF Current
  <2>2. SourceOf(s, pos + 1)
        = {q \in 1..((pos + 1) - 1) :
             s[q].type = "so" /\ \A n \in (q + 1)..((pos + 1) - 1) : s[n].type # "so"}
    BY Zenon DEF SourceOf
  <2> QED
    BY <2>1, <2>2
<1>10. pos + 1 \in NextOf(s, i)
  <2>1. pos + 1 \in (i + 1)..Len(s) /\ s[pos + 1].type = "fun"
    BY <1>1, <1>2, <1>4
  <2> QED
    BY <1>1, <1>3, <1>4, <2>1, NextIs
<1>11. m = j
  <2> HIDE DEF T
  <2>1. j \in Nat /\ m \in Nat /\ i \in Nat /\ i <= pos /\ j < i /\ m <= pos
    BY <1>1, <1>3, <1>8, <1>9
  <2>2. ~(m < j)
    BY <1>1, <1>8, <1>9, <2>1
  <2>3. ~(j < m)
    <3> SUFFICES ASSUME j < m PROVE FALSE
      OBVIOUS
    <3>1. m \in (j + 1)..(i - 1) \/ m = i \/ m \in (i + 1)..pos
      BY <1>1, <2>1
    <3> QED
      BY <1>7, <1>8, <1>9, <3>1
  <2> QED
    BY <2>1, <2>2, <2>3
<1> QED
  BY <1>3, <1>5, <1>6, <1>10, <1>11

LEMMA OpenOwn ==
  ASSUME RecordsTrue(image), ScanInv, NextRecord("fun"), NEW o \in open, NEW u \in unit
  PROVE  /\ Record.name = "" => Own(image, u.name, Function(o.name, o.addr, Record.value, TRUE))
         /\ Record.name # "" =>
              Own(image, u.name, Function(o.name, o.addr, Minus(Record.value, o.addr), TRUE))
<1>1. PICK i \in 1..pos, c \in image.code :
        /\ image.stabs[i].value = o.addr
        /\ c.name = o.name /\ c.addr = o.addr /\ c.unit = u.name
        /\ Extent(image.stabs, i, pos + 1) > 0
             => Whole(image, c, Extent(image.stabs, i, pos + 1))
  BY OpenRecord
<1>2. Extent(image.stabs, i, pos + 1)
        = IF Record.name = "" THEN Record.value ELSE Minus(Record.value, o.addr)
  BY <1>1 DEF Extent, Record
<1>3. ASSUME NEW size, Extent(image.stabs, i, pos + 1) = size
      PROVE  Own(image, u.name, Function(o.name, o.addr, size, TRUE))
  BY <1>1, <1>3 DEF Own, Function
<1> QED
  BY <1>2, <1>3

\* A unit that gets functions is the unit it was.
LEMMA UnitAdds ==
  ASSUME Types, NEW F, F \subseteq FunctionSet, Add(F)
  PROVE  /\ unit' \subseteq UnitSet /\ \A u, v \in unit' : u = v
         /\ unit = {} <=> unit' = {}
         /\ \A v \in unit' : \E u \in unit : v.name = u.name /\ v.functions = u.functions \cup F
         /\ \A u \in unit : \E v \in unit' : v.name = u.name /\ v.functions = u.functions \cup F
<1> DEFINE more(u) == [u EXCEPT !.functions = @ \cup F]
<1>1. \A u \in unit : /\ more(u) \in UnitSet /\ more(u).functions = u.functions \cup F
                      /\ more(u).name = u.name
  BY MoreFunctions DEF Types
<1>2. unit' = {more(u) : u \in unit}
  BY DEF Add
<1> HIDE DEF more
<1>3. \A u, v \in unit : u = v
  BY DEF Types
<1> QED
  BY <1>1, <1>2, <1>3

\* Functions that are the program's, and one for a pair of records.
AllOwn(F) == \A u \in unit : \A f \in F : Own(image, u.name, f)
PairAdded(F) ==
  pos > 0 /\ Opening(image.stabs[pos]) /\ Record.name = "" =>
    unit # {} /\ \E f \in F : f.addr = image.stabs[pos].value /\ f.size = Record.value

\* What a step on the records leaves of the invariant if it adds functions to the
\* unit: they are the program's, and a pair of records has its function.
LEMMA FunctionsAdded ==
  ASSUME ScanInv, NextRecord("fun"), UNCHANGED index, NEW F, F \subseteq FunctionSet, Add(F),
         AllOwn(F), PairAdded(F)
  PROVE  UnitFollows' /\ UnitsTrue' /\ PairsKept'
<1>0. Types /\ UnitFollows /\ UnitsTrue /\ PairsKept
  BY DEF ScanInv
<1>1. /\ unit = {} <=> unit' = {}
      /\ \A v \in unit' : \E u \in unit : v.name = u.name /\ v.functions = u.functions \cup F
      /\ \A u \in unit : \E v \in unit' : v.name = u.name /\ v.functions = u.functions \cup F
  BY <1>0, UnitAdds
<1>2. image' = image /\ index' = index /\ Record = image.stabs[pos + 1]
  BY <1>0, NextPlace DEF Record
<1>3. pos' = pos + 1 /\ pos \in Nat
  BY <1>0, NextPlace
<1>4. Current' = Current
  BY <1>0, SourceStays
<1>5. UnitFollows'
  <2>1. \A v \in unit' : \E j \in Current : image.stabs[j].name = v.name
    <3> TAKE v \in unit'
    <3>1. PICK u \in unit : v.name = u.name
      BY <1>1
    <3> QED
      BY <1>0, <3>1 DEF UnitFollows
  <2>2. \A j \in Current : image.stabs[j].name # "" => unit' # {}
    BY <1>0, <1>1 DEF UnitFollows
  <2> QED
    BY <1>2, <1>4, <2>1, <2>2 DEF UnitFollows
<1>6. UnitsTrue'
  <2>1. \A k \in DOMAIN index : \A f \in index[k].functions : Own(image, index[k].name, f)
    BY <1>0 DEF UnitsTrue
  <2>2. ASSUME NEW v \in unit', NEW f \in v.functions PROVE Own(image, v.name, f)
    <3>1. PICK u \in unit : v.name = u.name /\ v.functions = u.functions \cup F
      BY <1>1
    <3>2. f \in u.functions => Own(image, u.name, f)
      BY <1>0 DEF UnitsTrue
    <3>3. f \in F => Own(image, u.name, f)
      BY DEF AllOwn
    <3> QED
      BY <3>1, <3>2, <3>3
  <2> QED
    BY <1>2, <2>1, <2>2 DEF UnitsTrue
<1>7. Found \subseteq Found' /\ (unit # {} => F \subseteq Found')
  BY <1>1, <1>2 DEF Found
<1>8. PairsKept'
  <2> SUFFICES ASSUME NEW i \in 1..(pos' - 1), Opening(image.stabs[i]), Ending(image.stabs[i + 1])
               PROVE  \E f \in Found' :
                        f.addr = image.stabs[i].value /\ f.size = image.stabs[i + 1].value
    BY <1>2 DEF PairsKept
  <2>1. CASE i = pos
    <3>1. pos > 0
      BY <1>3, <2>1
    <3>2. Opening(image.stabs[pos]) /\ Record.name = ""
      BY <1>2, <2>1 DEF Ending
    <3> QED
      BY <1>2, <1>7, <2>1, <3>1, <3>2 DEF PairAdded
  <2>2. CASE i # pos
    <3>1. i \in 1..(pos - 1)
      BY <1>3, <2>2
    <3> QED
      BY <1>0, <1>7, <3>1 DEF PairsKept
  <2> QED
    BY <2>1, <2>2
<1> QED
  BY <1>5, <1>6, <1>8

LEMMA ClosedOwn ==
  ASSUME RecordsTrue(image), ScanInv, NextRecord("fun"), Record.name = "",
         NEW u \in unit, NEW f \in Closed(Record.value)
  PROVE  Own(image, u.name, f)
<1>1. PICK o \in open : f = Function(o.name, o.addr, Record.value, TRUE)
  BY DEF Closed
<1> QED
  BY <1>1, OpenOwn

\* An opening record is in a unit.
LEMMA OpensInUnit ==
  ASSUME RecordsTrue(image), ScanInv, NEW i \in DOMAIN image.stabs, Opening(image.stabs[i]),
         Current = SourceOf(image.stabs, i)
  PROVE  unit # {}
BY DEF RecordsTrue, ScanInv, UnitFollows

\* If the last record opened a function, it still is open.
LEMMA LastOpens ==
  ASSUME RecordsTrue(image), ScanInv, NEW type, NextRecord(type), pos > 0,
         Opening(image.stabs[pos])
  PROVE  unit # {} /\ [name |-> image.stabs[pos].name, addr |-> image.stabs[pos].value] \in open
<1>0. Types /\ OpenFollows
  BY DEF ScanInv
<1>1. /\ pos \in Nat /\ pos + 1 \in 1..Len(image.stabs) /\ Current = SourceOf(image.stabs, pos + 1)
      /\ DOMAIN image.stabs = 1..Len(image.stabs) /\ Len(image.stabs) \in Nat
  BY <1>0, NextPlace
<1>2. pos \in DOMAIN image.stabs
  BY <1>1
<1>3. image.stabs[pos].type # "so"
  BY DEF Opening
<1>4. Current = SourceOf(image.stabs, pos)
  BY <1>1, <1>3, SourceOn
<1>5. unit # {}
  BY <1>2, <1>4, OpensInUnit
<1> QED
  BY <1>0, <1>5 DEF OpenFollows

LEMMA ReadClosingInv ==
  ASSUME RecordsTrue(image), ScanInv, ReadClosing
  PROVE  ScanInv'
<1> DEFINE F == Closed(Record.value)
<1>1. Types /\ NextRecord("fun") /\ Record.name = "" /\ open' = {} /\ index' = index /\ Add(F)
  BY DEF ScanInv, ReadClosing
<1>2. /\ Record \in RecordSet /\ pos' \in 1..Len(image.stabs) /\ image' = image
      /\ Record = image.stabs[pos'] /\ Len(image.stabs) \in Nat /\ image \in Images
  BY <1>1, NextPlace
<1>3. F \subseteq FunctionSet
  BY <1>1, <1>2, ClosedTyped DEF Types, RecordSet
<1>4. AllOwn(F)
  BY <1>1, ClosedOwn DEF AllOwn
<1>5. PairAdded(F)
  <2> SUFFICES ASSUME pos > 0, Opening(image.stabs[pos])
               PROVE  /\ unit # {}
                      /\ \E f \in F : f.addr = image.stabs[pos].value /\ f.size = Record.value
    BY DEF PairAdded
  <2>1. unit # {}
    BY <1>1, LastOpens
  <2>2. PICK o \in open : o = [name |-> image.stabs[pos].name, addr |-> image.stabs[pos].value]
    BY <1>1, LastOpens
  <2>3. Function(o.name, o.addr, Record.value, TRUE) \in F
    BY DEF Closed
  <2> QED
    BY <2>1, <2>2, <2>3 DEF Function
<1> HIDE DEF F
<1>6. UnitFollows' /\ UnitsTrue' /\ PairsKept'
  BY <1>1, <1>3, <1>4, <1>5, FunctionsAdded
<1>7. unit' \subseteq UnitSet /\ \A u, v \in unit' : u = v
  BY <1>1, <1>3, UnitAdds
<1>8. Types'
  <2>1. pos' \in 0..Len(image.stabs)
    BY <1>2
  <2> QED
    BY <1>1, <1>2, <1>7, <2>1 DEF Types
<1>9. OpenFollows'
  BY <1>1, <1>2 DEF OpenFollows, Opening
<1> QED
  BY <1>6, <1>8, <1>9 DEF ScanInv

LEMMA ReadOpeningInv ==
  ASSUME RecordsTrue(image), ScanInv, ReadOpening
  PROVE  ScanInv'
<1> DEFINE F == UNION {Closed(Minus(Record.value, o.addr)) : o \in open}
           new == [name |-> Record.name, addr |-> Record.value]
<1>1. /\ Types /\ NextRecord("fun") /\ Record.name # "" /\ index' = index /\ Add(F)
      /\ open' = IF unit = {} THEN {} ELSE {new}
  BY DEF ScanInv, ReadOpening
<1>2. /\ Record \in RecordSet /\ pos' \in 1..Len(image.stabs) /\ image' = image
      /\ Record = image.stabs[pos'] /\ Len(image.stabs) \in Nat /\ image \in Images
      /\ Record.type = "fun"
  BY <1>1, NextPlace
<1>3. \A o \in open : Minus(Record.value, o.addr) \in Nat
  <2> TAKE o \in open
  <2>1. o \in [name : STRING, addr : Nat]
    BY <1>1 DEF Types
  <2>2. o.addr \in Nat /\ Record.value \in Nat
    BY <1>2, <2>1 DEF RecordSet
  <2> QED
    BY <2>2 DEF Minus
<1>4. F \subseteq FunctionSet
  BY <1>1, <1>3, ClosedTyped DEF Types
<1>5. AllOwn(F)
  <2> SUFFICES ASSUME NEW u \in unit, NEW f \in F PROVE Own(image, u.name, f)
    BY DEF AllOwn
  <2>1. PICK o \in open : f \in Closed(Minus(Record.value, o.addr))
    OBVIOUS
  <2>2. f = Function(o.name, o.addr, Minus(Record.value, o.addr), TRUE)
    BY <1>1, <2>1 DEF Types, Closed
  <2> QED
    BY <1>1, <2>2, OpenOwn
<1>6. PairAdded(F)
  BY <1>1 DEF PairAdded
<1> HIDE DEF F
<1>7. UnitFollows' /\ UnitsTrue' /\ PairsKept'
  BY <1>1, <1>4, <1>5, <1>6, FunctionsAdded
<1>8. unit' \subseteq UnitSet /\ (\A u, v \in unit' : u = v) /\ (unit = {} <=> unit' = {})
  BY <1>1, <1>4, UnitAdds
<1>9. Types'
  <2>1. pos' \in 0..Len(image.stabs)
    BY <1>2
  <2>2. open' \subseteq [name : STRING, addr : Nat] /\ \A o, p \in open' : o = p
    <3>1. new \in [name : STRING, addr : Nat]
      BY <1>2 DEF RecordSet
    <3>2. open' \subseteq {new}
      BY <1>1
    <3> HIDE DEF new
    <3> QED
      BY <3>1, <3>2
  <2> QED
    BY <1>1, <1>2, <1>8, <2>1, <2>2 DEF Types
<1>10. OpenFollows'
  <2>1. Opening(image.stabs[pos'])
    BY <1>1, <1>2 DEF Opening
  <2>2. \A o \in open' : \E i \in 1..pos' :
          /\ Opening(image.stabs[i])
          /\ image.stabs[i].name = o.name /\ image.stabs[i].value = o.addr
          /\ \A j \in (i + 1)..pos' : image.stabs[j].type \notin {"so", "fun"}
    <3> TAKE o \in open'
    <3>1. o = new
      BY <1>1
    <3>2. pos' \in 1..pos' /\ (pos' + 1)..pos' = {}
      BY <1>2
    <3> QED
      BY <1>2, <2>1, <3>1, <3>2
  <2>3. unit' # {} => new \in open'
    BY <1>1, <1>8
  <2> QED
    BY <1>2, <2>2, <2>3 DEF OpenFollows
<1> QED
  BY <1>7, <1>9, <1>10 DEF ScanInv

\* Records of data are neither the start of a source nor of a function.
LEMMA ReadStaticInv ==
  ASSUME RecordsTrue(image), ScanInv, ReadStatic
  PROVE  ScanInv'
<1> DEFINE V == IF Record.value # 0 /\ Record.name # ""
                THEN {[name |-> Record.name, addr |-> Record.value, external |-> FALSE]} ELSE {}
           more(u) == [u EXCEPT !.variables = @ \cup V]
<1>1. /\ Types /\ UnitFollows /\ OpenFollows /\ UnitsTrue /\ PairsKept /\ NextRecord("static")
      /\ index' = index /\ open' = open /\ unit' = {more(u) : u \in unit}
  BY DEF ScanInv, ReadStatic
<1>2. /\ Record \in RecordSet /\ pos' \in 1..Len(image.stabs) /\ image' = image
      /\ Record = image.stabs[pos'] /\ Len(image.stabs) \in Nat /\ image \in Images
      /\ Record.type = "static" /\ pos' = pos + 1 /\ pos \in Nat
  BY <1>1, NextPlace
<1>3. Current' = Current
  BY <1>1, SourceStays
<1>4. V \subseteq VariableSet
  <2>1. [name |-> Record.name, addr |-> Record.value, external |-> FALSE] \in VariableSet
    BY <1>2 DEF RecordSet, VariableSet
  <2> QED
    BY <2>1
<1> HIDE DEF V
<1>5. ASSUME NEW u \in unit
      PROVE  more(u) \in UnitSet /\ more(u).name = u.name /\ more(u).functions = u.functions
  <2> DEFINE W == u.variables \cup V
  <2>1. u \in UnitSet /\ W \in SUBSET VariableSet
    BY <1>1, <1>4 DEF Types, UnitSet
  <2> HIDE DEF W
  <2>2. LET v == [u EXCEPT !.variables = W]
        IN  v \in UnitSet /\ v.name = u.name /\ v.functions = u.functions
    BY <2>1 DEF UnitSet
  <2> QED
    BY <2>2 DEF W
<1> HIDE DEF more
<1>6. /\ \A v \in unit' : \E u \in unit : v.name = u.name /\ v.functions = u.functions
      /\ \A u \in unit : \E v \in unit' : v.functions = u.functions
  BY <1>1, <1>5
<1>7. Types'
  <2>1. unit' \subseteq UnitSet /\ \A u, v \in unit' : u = v
    BY <1>1, <1>5 DEF Types
  <2>2. pos' \in 0..Len(image.stabs)
    BY <1>2
  <2> QED
    BY <1>1, <1>2, <2>1, <2>2 DEF Types
<1>8. UnitFollows'
  <2>1. \A v \in unit' : \E j \in Current : image.stabs[j].name = v.name
    <3> TAKE v \in unit'
    <3>1. PICK u \in unit : v.name = u.name
      BY <1>6
    <3> QED
      BY <1>1, <3>1 DEF UnitFollows
  <2>2. \A j \in Current : image.stabs[j].name # "" => unit' # {}
    BY <1>1, <1>6 DEF UnitFollows
  <2> QED
    BY <1>2, <1>3, <2>1, <2>2 DEF UnitFollows
<1>9. UnitsTrue'
  <2>1. \A v \in unit' : \A f \in v.functions : Own(image, v.name, f)
    BY <1>1, <1>6 DEF UnitsTrue
  <2> QED
    BY <1>1, <1>2, <2>1 DEF UnitsTrue
<1>10. PairsKept'
  <2>1. Found' = Found
    BY <1>1, <1>6 DEF Found
  <2> SUFFICES ASSUME NEW i \in 1..(pos' - 1), Opening(image.stabs[i]), Ending(image.stabs[i + 1])
               PROVE  \E f \in Found :
                        f.addr = image.stabs[i].value /\ f.size = image.stabs[i + 1].value
    BY <1>2, <2>1 DEF PairsKept
  <2>2. i # pos
    BY <1>2 DEF Ending
  <2>3. i \in 1..(pos - 1)
    BY <1>2, <2>2
  <2> QED
    BY <1>1, <2>3 DEF PairsKept
<1>11. OpenFollows'
  <2>1. \A o \in open : \E i \in 1..pos' :
          /\ Opening(image.stabs[i])
          /\ image.stabs[i].name = o.name /\ image.stabs[i].value = o.addr
          /\ \A j \in (i + 1)..pos' : image.stabs[j].type \notin {"so", "fun"}
    <3> TAKE o \in open
    <3>1. PICK i \in 1..pos :
            /\ Opening(image.stabs[i])
            /\ image.stabs[i].name = o.name /\ image.stabs[i].value = o.addr
            /\ \A j \in (i + 1)..pos : image.stabs[j].type \notin {"so", "fun"}
      BY <1>1 DEF OpenFollows
    <3>2. i \in 1..pos' /\ (i + 1)..pos' = (i + 1)..pos \cup {pos'}
      BY <1>2, <3>1
    <3>3. image.stabs[pos'].type \notin {"so", "fun"}
      BY <1>2
    <3> QED
      BY <3>1, <3>2, <3>3
  <2>2. ~Opening(image.stabs[pos'])
    BY <1>2 DEF Opening
  <2> QED
    BY <1>1, <1>2, <2>1, <2>2 DEF OpenFollows
<1> QED
  BY <1>7, <1>8, <1>9, <1>10, <1>11 DEF ScanInv

\* A source record puts the unit into the index and begins another.
LEMMA ReadSourceInv ==
  ASSUME RecordsTrue(image), ScanInv, ReadSource
  PROVE  ScanInv'
<1> DEFINE new == [name |-> Record.name, functions |-> {}, variables |-> {}]
<1>1. /\ Types /\ UnitsTrue /\ PairsKept /\ NextRecord("so")
      /\ index' = Units /\ open' = {} /\ unit' = IF Record.name = "" THEN {} ELSE {new}
  BY DEF ScanInv, ReadSource
<1>2. /\ Record \in RecordSet /\ pos' \in 1..Len(image.stabs) /\ image' = image
      /\ Record = image.stabs[pos'] /\ Len(image.stabs) \in Nat /\ image \in Images
      /\ Record.type = "so" /\ pos' = pos + 1 /\ pos \in Nat
  BY <1>1, NextPlace
<1>3. Current' = {pos'}
  <2>1. pos' \in Nat \ {0}
    BY <1>2
  <2> QED
    BY <1>2, <2>1, SourceNew DEF Current
<1>4. new \in UnitSet /\ new.name = Record.name /\ new.functions = {}
  BY <1>2 DEF RecordSet, UnitSet
<1> HIDE DEF new
<1>5. Types'
  <2>1. pos' \in 0..Len(image.stabs)
    BY <1>2
  <2>2. Units \in Seq(UnitSet)
    BY <1>1, UnitsEnd
  <2>3. unit' \subseteq UnitSet /\ \A u, v \in unit' : u = v
    BY <1>1, <1>4
  <2> QED
    BY <1>1, <1>2, <2>1, <2>2, <2>3 DEF Types
<1>6. UnitFollows'
  <2>1. \A u \in unit' : u.name = Record.name
    BY <1>1, <1>4
  <2>2. Record.name # "" => unit' # {}
    BY <1>1
  <2> QED
    BY <1>2, <1>3, <2>1, <2>2 DEF UnitFollows
<1>7. UnitsTrue'
  <2>1. \A u \in unit' : u.functions = {}
    BY <1>1, <1>4
  <2>2. \A k \in DOMAIN Units : \A f \in Units[k].functions : Own(image, Units[k].name, f)
    BY <1>1, UnitsOwn
  <2>3. index' = Units /\ image' = image
    BY <1>1, <1>2
  <2>4. \A k \in DOMAIN index' : \A f \in index'[k].functions : Own(image', index'[k].name, f)
    BY <2>2, <2>3
  <2>5. \A u \in unit' : \A f \in u.functions : Own(image', u.name, f)
    BY <2>1
  <2> QED
    BY <2>4, <2>5 DEF UnitsTrue
<1>8. PairsKept'
  <2>1. Found \subseteq Found'
    <3>1. \A f \in Found : \E k \in DOMAIN Units : f \in Units[k].functions
      BY <1>1, UnitsOwn
    <3>2. index' = Units
      BY <1>1
    <3>3. \A f \in Found : \E k \in DOMAIN index' : f \in index'[k].functions
      BY <3>1, <3>2, Zenon
    <3>4. \A k \in DOMAIN index' : index'[k].functions \subseteq Found'
      BY DEF Found
    <3> QED
      BY <3>3, <3>4, Zenon
  <2> SUFFICES ASSUME NEW i \in 1..(pos' - 1), Opening(image.stabs[i]), Ending(image.stabs[i + 1])
               PROVE  \E f \in Found' :
                        f.addr = image.stabs[i].value /\ f.size = image.stabs[i + 1].value
    BY <1>2 DEF PairsKept
  <2>2. i # pos
    BY <1>2 DEF Ending
  <2>3. i \in 1..(pos - 1)
    BY <1>2, <2>2
  <2> QED
    BY <1>1, <2>1, <2>3 DEF PairsKept
<1>9. OpenFollows'
  <2>1. ~Opening(image.stabs[pos'])
    BY <1>2 DEF Opening
  <2> QED
    BY <1>1, <1>2, <2>1 DEF OpenFollows
<1> QED
  BY <1>5, <1>6, <1>7, <1>8, <1>9 DEF ScanInv

-----------------------------------------------------------------------------
(* The index *)

\* What the record machine has made of the records once it has read them all.
LEMMA AllRead ==
  ASSUME ScanInv, EndOfStabs
  PROVE  UnitsOwnFunctions'
<1>1. Types /\ UnitsTrue /\ PairsKept /\ image' = image /\ pos = Len(image.stabs)
  BY DEF ScanInv, EndOfStabs
<1> SUFFICES ASSUME source' = "stabs" PROVE UnitsOwnFunctions'
  BY DEF UnitsOwnFunctions
<1>2. index' = Units
  BY DEF EndOfStabs
<1>3. ASSUME NEW k \in DOMAIN Units, NEW f \in Sized(Units[k].functions)
      PROVE  \E c \in image.code : /\ c.name = f.name /\ c.addr = f.addr
                                    /\ c.unit = Units[k].name /\ Whole(image, c, f.size)
  <2>1. f \in Units[k].functions /\ f.size > 0
    BY DEF Sized
  <2> QED
    BY <1>1, <2>1, UnitsOwn DEF Own
<1>4. ASSUME NEW i \in 1..(Len(image.stabs) - 1),
             Opening(image.stabs[i]), Ending(image.stabs[i + 1])
      PROVE  \E k \in DOMAIN Units : \E f \in Units[k].functions :
               f.addr = image.stabs[i].value /\ f.size = image.stabs[i + 1].value
  <2>1. PICK f \in Found : f.addr = image.stabs[i].value /\ f.size = image.stabs[i + 1].value
    BY <1>1, <1>4 DEF PairsKept
  <2> QED
    BY <1>1, <2>1, UnitsOwn
<1> QED
  BY <1>1, <1>2, <1>3, <1>4 DEF UnitsOwnFunctions

LEMMA InitInv == Init => IInv
<1> SUFFICES ASSUME Init PROVE IInv
  OBVIOUS
<1>1. /\ image \in Images /\ pos = 0 /\ unit = {} /\ open = {} /\ index = <<>> /\ source = "none"
  BY DEF Init
<1>2. Types
  <2>1. 0 \in 0..Len(image.stabs)
    BY <1>1, StabsTyped
  <2> QED
    BY <1>1, <2>1 DEF Types
<1>3. UnitFollows
  <2>1. Current = {}
    BY <1>1 DEF Current, SourceOf
  <2> QED
    BY <1>1, <2>1 DEF UnitFollows
<1>4. OpenFollows /\ PairsKept
  BY <1>1 DEF OpenFollows, PairsKept
<1>5. UnitsTrue
  BY <1>1 DEF UnitsTrue
<1> QED
  BY <1>1, <1>2, <1>3, <1>4, <1>5 DEF IInv, ScanInv, UnitsOwnFunctions

LEMMA ScanStays ==
  ASSUME image' = image, pos' = pos, unit' = unit, open' = open, index' = index
  PROVE  ScanInv => ScanInv'
<1>1. (Types => Types') /\ (UnitsTrue => UnitsTrue')
  BY DEF Types, UnitsTrue
<1>2. UnitFollows => UnitFollows'
  BY DEF UnitFollows, Current
<1>3. OpenFollows => OpenFollows'
  BY DEF OpenFollows
<1>4. PairsKept => PairsKept'
  BY DEF PairsKept, Found
<1> QED
  BY <1>1, <1>2, <1>3, <1>4 DEF ScanInv

LEMMA LoadingOrNot ==
  ASSUME [Next]_vars
  PROVE  \/ LoadDwarf \/ ReadSource \/ ReadOpening \/ ReadClosing \/ ReadStatic \/ EndOfStabs
         \/ UNCHANGED <<image, loadVars>>
BY DEF Next, Split, SplitAgain, Emit, EmitMachoCu, EmitElfCu, EmitFails, EmitShared,
       EmitMachoShared, EmitElfShared, SharedFails, Done, vars

LEMMA StepInv == IInv /\ [Next]_vars => IInv'
<1> SUFFICES ASSUME IInv, [Next]_vars PROVE IInv'
  OBVIOUS
<1>1. CASE LoadDwarf
  BY <1>1 DEF LoadDwarf, IInv, UnitsOwnFunctions
<1>2. ASSUME ReadSource \/ ReadOpening \/ ReadClosing \/ ReadStatic
      PROVE  IInv'
  <2>1. image' = image /\ source = "none" /\ source' = source
    BY <1>2 DEF ReadSource, ReadOpening, ReadClosing, ReadStatic, NextRecord
  <2>2. RecordsTrue(image) => ScanInv'
    BY <1>2, <2>1, ReadSourceInv, ReadOpeningInv, ReadClosingInv, ReadStaticInv DEF IInv
  <2> QED
    BY <2>1, <2>2 DEF IInv, UnitsOwnFunctions
<1>3. CASE EndOfStabs
  <2>1. image' = image /\ source = "none" /\ source' # "none"
    BY <1>3 DEF EndOfStabs
  <2>2. RecordsTrue(image) => UnitsOwnFunctions'
    BY <1>3, <2>1, AllRead DEF IInv
  <2> QED
    BY <2>1, <2>2 DEF IInv
<1>4. CASE UNCHANGED <<image, loadVars>>
  <2>1. /\ image' = image /\ pos' = pos /\ unit' = unit /\ open' = open /\ index' = index
        /\ source' = source
    BY <1>4 DEF loadVars, scanVars
  <2>2. ScanInv => ScanInv'
    BY <2>1, ScanStays
  <2>3. UnitsOwnFunctions => UnitsOwnFunctions'
    BY <2>1 DEF UnitsOwnFunctions
  <2> QED
    BY <2>1, <2>2, <2>3 DEF IInv
<1>5. \/ LoadDwarf \/ ReadSource \/ ReadOpening \/ ReadClosing \/ ReadStatic \/ EndOfStabs
      \/ UNCHANGED <<image, loadVars>>
  BY LoadingOrNot
<1> QED
  BY <1>1, <1>2, <1>3, <1>4, <1>5

\* Whatever records of the ends of functions and units are missing or too many,
\* a unit of the STABS index has functions of its own source file only, whole,
\* and each function whose end is recorded has its extent.
THEOREM RecordsAttributed == Spec => [](RecordsTrue(image) => UnitsOwnFunctions)
<1>1. IInv => (RecordsTrue(image) => UnitsOwnFunctions)
  BY DEF IInv
<1> QED
  BY <1>1, InitInv, StepInv, PTL DEF Spec
-----------------------------------------------------------------------------
(* Each function has one record *)

\* The addresses of the functions that records have begun.
Begun == {image.stabs[i].value : i \in {j \in 1..pos : Opening(image.stabs[j])}}

OneEach(units) ==
  /\ \A k \in DOMAIN units : IsFiniteSet(units[k].functions)
  /\ \A k, l \in DOMAIN units : \A f \in units[k].functions, g \in units[l].functions :
       f.addr = g.addr => k = l /\ f = g

\* The unit being read has each function once, and none that another has.
UnitApart ==
  \A u \in unit :
    /\ IsFiniteSet(u.functions)
    /\ \A f, g \in u.functions : f.addr = g.addr => f = g
    /\ \A k \in DOMAIN index : \A f \in index[k].functions, g \in u.functions : f.addr # g.addr

OpenApart ==
  /\ \A f \in Found : f.addr \in Begun
  /\ \A o \in open : o.addr \in Begun /\ \A f \in Found : f.addr # o.addr

OnceInv == OneEach(index) /\ UnitApart /\ OpenApart

LEMMA ClosedFew ==
  ASSUME Types, NEW size
  PROVE  /\ IsFiniteSet(Closed(size))
         /\ \A f, g \in Closed(size) : f = g
         /\ \A f \in Closed(size) : \E o \in open : f.addr = o.addr
<1>1. \A o, p \in open : o = p
  BY DEF Types
<1>2. \A f, g \in Closed(size) : f = g
  BY <1>1 DEF Closed
<1>3. IsFiniteSet(Closed(size))
  <2>1. CASE Closed(size) = {}
    BY <2>1, FS_EmptySet
  <2>2. CASE Closed(size) # {}
    <3>1. PICK f \in Closed(size) : TRUE
      BY <2>2
    <3>2. Closed(size) = {f}
      BY <1>2, <3>1
    <3> QED
      BY <3>2, FS_Singleton
  <2> QED
    BY <2>1, <2>2
<1>4. \A f \in Closed(size) : \E o \in open : f.addr = o.addr
  BY DEF Closed, Function
<1> QED
  BY <1>2, <1>3, <1>4

\* Ending a unit gives no function a second place.
LEMMA UnitsOnce ==
  ASSUME Types, OnceInv
  PROVE  /\ OneEach(Units)
         /\ \A k \in DOMAIN Units : \A f \in Units[k].functions : f.addr \in Begun
<1> DEFINE rest == {f \in Closed(0) : f.addr # 0}
<1>0. OneEach(index) /\ UnitApart /\ OpenApart
  BY DEF OnceInv
<1>1. /\ rest \subseteq FunctionSet /\ IsFiniteSet(rest) /\ \A f, g \in rest : f = g
      /\ \A f \in rest : \E o \in open : f.addr = o.addr
  <2>1. rest \subseteq Closed(0)
    OBVIOUS
  <2> HIDE DEF rest
  <2>2. IsFiniteSet(rest)
    BY <2>1, ClosedFew, FS_Subset
  <2> QED
    BY <2>1, <2>2, ClosedFew, ClosedTyped DEF Types
<1>2. \A u \in unit : Ended(u).functions = u.functions \cup rest
  BY <1>1, MoreFunctions DEF Types, Ended
<1> HIDE DEF rest
<1>3. ASSUME NEW u \in unit
      PROVE  /\ IsFiniteSet(Ended(u).functions)
             /\ \A f, g \in Ended(u).functions : f.addr = g.addr => f = g
             /\ \A k \in DOMAIN index : \A f \in index[k].functions, g \in Ended(u).functions :
                  f.addr # g.addr
             /\ \A f \in Ended(u).functions : f.addr \in Begun
  <2>1. u.functions \subseteq Found
    BY DEF Found
  <2>2. \A f \in rest : f.addr \in Begun /\ \A g \in Found : g.addr # f.addr
    BY <1>0, <1>1 DEF OpenApart
  <2>3. IsFiniteSet(Ended(u).functions)
    <3>1. IsFiniteSet(u.functions)
      BY <1>0 DEF UnitApart
    <3>2. IsFiniteSet(u.functions \cup rest)
      BY <1>1, <3>1, FS_Union
    <3> QED
      BY <1>2, <3>2
  <2>4. \A f, g \in Ended(u).functions : f.addr = g.addr => f = g
    BY <1>0, <1>1, <1>2, <2>1, <2>2 DEF UnitApart
  <2>5. \A k \in DOMAIN index : index[k].functions \subseteq Found
    BY DEF Found
  <2>6. \A k \in DOMAIN index : \A f \in index[k].functions, g \in Ended(u).functions :
          f.addr # g.addr
    BY <1>0, <1>2, <2>2, <2>5 DEF UnitApart
  <2>7. \A f \in Ended(u).functions : f.addr \in Begun
    BY <1>0, <1>2, <2>1, <2>2 DEF OpenApart
  <2> QED
    BY <2>3, <2>4, <2>6, <2>7
<1>4. \A k \in DOMAIN index : k \in DOMAIN Units /\ Units[k] = index[k]
  BY UnitsEnd
<1>5. \A k \in DOMAIN Units \ DOMAIN index : \E u \in unit : Units[k] = Ended(u)
  BY UnitsEnd
<1>6. \A k, l \in DOMAIN Units \ DOMAIN index : k = l
  BY UnitsEnd
<1>7. \A k \in DOMAIN Units : IsFiniteSet(Units[k].functions)
  BY <1>0, <1>3, <1>4, <1>5 DEF OneEach
<1>8. ASSUME NEW k \in DOMAIN Units, NEW l \in DOMAIN Units,
             NEW f \in Units[k].functions, NEW g \in Units[l].functions, f.addr = g.addr
      PROVE  k = l /\ f = g
  <2>1. CASE k \in DOMAIN index /\ l \in DOMAIN index
    BY <1>0, <1>4, <1>8, <2>1 DEF OneEach
  <2>2. CASE k \in DOMAIN index /\ l \notin DOMAIN index
    BY <1>3, <1>4, <1>5, <1>8, <2>2
  <2>3. CASE k \notin DOMAIN index /\ l \in DOMAIN index
    BY <1>3, <1>4, <1>5, <1>8, <2>3
  <2>4. CASE k \notin DOMAIN index /\ l \notin DOMAIN index
    <3>1. k = l
      BY <1>6, <2>4
    <3> QED
      BY <1>3, <1>5, <1>8, <2>4, <3>1
  <2> QED
    BY <2>1, <2>2, <2>3, <2>4
<1>9. \A k \in DOMAIN Units : \A f \in Units[k].functions : f.addr \in Begun
  <2> TAKE k \in DOMAIN Units
  <2>1. CASE k \in DOMAIN index
    BY <1>0, <1>4, <2>1 DEF OpenApart, Found
  <2>2. CASE k \notin DOMAIN index
    BY <1>3, <1>5, <2>2
  <2> QED
    BY <2>1, <2>2
<1> QED
  BY <1>7, <1>8, <1>9 DEF OneEach

\* A record begins a function no record has begun yet.
LEMMA BegunGrows ==
  ASSUME Types, NEW type, NextRecord(type)
  PROVE  /\ Begun \subseteq Begun'
         /\ Opening(Record) => Record.value \in Begun'
         /\ RecordsOnce(image) /\ Opening(Record) => Record.value \notin Begun
<1>1. /\ pos' = pos + 1 /\ pos' \in 1..Len(image.stabs) /\ image' = image
      /\ Record = image.stabs[pos'] /\ pos \in Nat
      /\ Len(image.stabs) \in Nat /\ DOMAIN image.stabs = 1..Len(image.stabs)
  BY NextPlace
<1>2. 1..pos \subseteq 1..pos' /\ pos' \in 1..pos' /\ pos' \notin 1..pos
      /\ 1..pos \subseteq DOMAIN image.stabs /\ pos' \in DOMAIN image.stabs
  BY <1>1
<1>3. Begun \subseteq Begun'
  BY <1>1, <1>2 DEF Begun
<1>4. Opening(Record) => Record.value \in Begun'
  BY <1>1, <1>2 DEF Begun
<1>5. ASSUME RecordsOnce(image), Opening(Record), Record.value \in Begun PROVE FALSE
  <2>1. PICK i \in 1..pos : Opening(image.stabs[i]) /\ image.stabs[i].value = Record.value
    BY <1>5 DEF Begun
  <2>2. i = pos'
    BY <1>1, <1>2, <1>5, <2>1 DEF RecordsOnce
  <2> QED
    BY <1>2, <2>1, <2>2
<1> QED
  BY <1>3, <1>4, <1>5

\* The unit gets functions that were open.
LEMMA AddOnce ==
  ASSUME Types, OnceInv, UNCHANGED index, NEW F, F \subseteq FunctionSet, Add(F),
         IsFiniteSet(F), \A f, g \in F : f.addr = g.addr => f = g,
         \A f \in F : \E o \in open : f.addr = o.addr
  PROVE  OneEach(index)' /\ UnitApart' /\ Found' \subseteq Found \cup F
<1>0. OneEach(index) /\ UnitApart /\ OpenApart
  BY DEF OnceInv
<1>1. \A v \in unit' : \E u \in unit : v.functions = u.functions \cup F
  BY UnitAdds
<1>2. \A f \in F : \A g \in Found : g.addr # f.addr
  BY <1>0 DEF OpenApart
<1>3. /\ \A k \in DOMAIN index : index[k].functions \subseteq Found
      /\ \A u \in unit : u.functions \subseteq Found
  BY DEF Found
<1>4. ASSUME NEW v \in unit'
      PROVE  /\ IsFiniteSet(v.functions)
             /\ \A f, g \in v.functions : f.addr = g.addr => f = g
             /\ \A k \in DOMAIN index : \A f \in index[k].functions, g \in v.functions :
                  f.addr # g.addr
  <2>1. PICK u \in unit : v.functions = u.functions \cup F
    BY <1>1
  <2>2. IsFiniteSet(v.functions)
    <3>1. IsFiniteSet(u.functions)
      BY <1>0 DEF UnitApart
    <3>2. IsFiniteSet(u.functions \cup F)
      BY <3>1, FS_Union
    <3> QED
      BY <2>1, <3>2
  <2>3. \A f, g \in v.functions : f.addr = g.addr => f = g
    BY <1>0, <1>2, <1>3, <2>1 DEF UnitApart
  <2>4. \A k \in DOMAIN index : \A f \in index[k].functions, g \in v.functions :
          f.addr # g.addr
    BY <1>0, <1>2, <1>3, <2>1 DEF UnitApart
  <2> QED
    BY <2>2, <2>3, <2>4
<1>5. Found' \subseteq Found \cup F
  BY <1>1 DEF Found
<1> QED
  BY <1>0, <1>4, <1>5 DEF OneEach, UnitApart

LEMMA ReadClosingOnce ==
  ASSUME Types, OnceInv, ReadClosing
  PROVE  OnceInv'
<1> DEFINE F == Closed(Record.value)
<1>1. NextRecord("fun") /\ open' = {} /\ index' = index /\ Add(F)
  BY DEF ReadClosing
<1>2. Record \in RecordSet /\ image' = image
  BY <1>1, NextPlace
<1>3. F \subseteq FunctionSet
  BY <1>2, ClosedTyped DEF Types, RecordSet
<1>4. IsFiniteSet(F) /\ (\A f, g \in F : f = g) /\ \A f \in F : \E o \in open : f.addr = o.addr
  BY ClosedFew
<1> HIDE DEF F
<1>5. OneEach(index)' /\ UnitApart' /\ Found' \subseteq Found \cup F
  BY <1>1, <1>3, <1>4, AddOnce
<1>6. \A f \in Found' : f.addr \in Begun'
  BY <1>1, <1>4, <1>5, BegunGrows DEF OnceInv, OpenApart
<1> QED
  BY <1>1, <1>5, <1>6 DEF OnceInv, OpenApart

LEMMA ReadOpeningOnce ==
  ASSUME Types, OnceInv, RecordsOnce(image), ReadOpening
  PROVE  OnceInv'
<1> DEFINE F == UNION {Closed(Minus(Record.value, o.addr)) : o \in open}
           new == [name |-> Record.name, addr |-> Record.value]
<1>1. /\ NextRecord("fun") /\ Record.name # "" /\ index' = index /\ Add(F)
      /\ open' = IF unit = {} THEN {} ELSE {new}
  BY DEF ReadOpening
<1>2. Record \in RecordSet /\ image' = image /\ Record.type = "fun"
  BY <1>1, NextPlace
<1>3. \A o \in open : Minus(Record.value, o.addr) \in Nat
  <2> TAKE o \in open
  <2>1. o \in [name : STRING, addr : Nat]
    BY DEF Types
  <2>2. o.addr \in Nat /\ Record.value \in Nat
    BY <1>2, <2>1 DEF RecordSet
  <2> QED
    BY <2>2 DEF Minus
<1>4. F \subseteq FunctionSet
  BY <1>3, ClosedTyped DEF Types
<1>5. IsFiniteSet(F) /\ (\A f, g \in F : f = g) /\ \A f \in F : \E o \in open : f.addr = o.addr
  <2>1. CASE open = {}
    <3>1. F = {}
      BY <2>1
    <3> QED
      BY <3>1, FS_EmptySet
  <2>2. CASE open # {}
    <3>1. PICK o \in open : TRUE
      BY <2>2
    <3>2. open = {o}
      BY <3>1 DEF Types
    <3>3. F = Closed(Minus(Record.value, o.addr))
      BY <3>2
    <3> HIDE DEF F
    <3>4. /\ IsFiniteSet(Closed(Minus(Record.value, o.addr)))
          /\ \A f, g \in Closed(Minus(Record.value, o.addr)) : f = g
          /\ \A f \in Closed(Minus(Record.value, o.addr)) : \E p \in open : f.addr = p.addr
      BY ClosedFew
    <3> QED
      BY <3>3, <3>4
  <2> QED
    BY <2>1, <2>2
<1> HIDE DEF F
<1>6. OneEach(index)' /\ UnitApart' /\ Found' \subseteq Found \cup F
  BY <1>1, <1>4, <1>5, AddOnce
<1>7. \A f \in Found \cup F : f.addr \in Begun
  BY <1>5 DEF OnceInv, OpenApart
<1>8. /\ Begun \subseteq Begun' /\ Record.value \in Begun' /\ Record.value \notin Begun
  BY <1>1, <1>2, BegunGrows DEF Opening
<1>9. \A o \in open' : o.addr = Record.value
  <2>1. open' \subseteq {new}
    BY <1>1
  <2>2. new.addr = Record.value
    OBVIOUS
  <2> HIDE DEF new
  <2> QED
    BY <2>1, <2>2
<1> QED
  BY <1>6, <1>7, <1>8, <1>9 DEF OnceInv, OpenApart

LEMMA ReadSourceOnce ==
  ASSUME Types, OnceInv, ReadSource
  PROVE  OnceInv'
<1> DEFINE new == [name |-> Record.name, functions |-> {}, variables |-> {}]
<1>1. /\ NextRecord("so") /\ index' = Units /\ open' = {}
      /\ \A v \in unit' : v.functions = {}
  <2>1. NextRecord("so") /\ index' = Units /\ open' = {} /\ unit' \subseteq {new}
    BY DEF ReadSource
  <2>2. new.functions = {}
    OBVIOUS
  <2> HIDE DEF new
  <2> QED
    BY <2>1, <2>2
<1>2. OneEach(Units) /\ \A k \in DOMAIN Units : \A f \in Units[k].functions : f.addr \in Begun
  BY UnitsOnce
<1>3. UnitApart'
  BY <1>1, FS_EmptySet DEF UnitApart
<1>4. \A f \in Found' : f.addr \in Begun'
  BY <1>1, <1>2, BegunGrows DEF Found
<1> QED
  BY <1>1, <1>2, <1>3, <1>4 DEF OnceInv, OneEach, OpenApart

LEMMA ReadStaticOnce ==
  ASSUME Types, OnceInv, ReadStatic
  PROVE  OnceInv'
<1>1. NextRecord("static") /\ index' = index /\ open' = open
  BY DEF ReadStatic
<1> DEFINE X == IF Record.value # 0 /\ Record.name # ""
                THEN {[name |-> Record.name, addr |-> Record.value, external |-> FALSE]} ELSE {}
<1>2. unit' = {[u EXCEPT !.variables = @ \cup X] : u \in unit}
  BY DEF ReadStatic
<1> HIDE DEF X
<1>3. \A v \in unit' : \E u \in unit : v.functions = u.functions
  <2> TAKE v \in unit'
  <2>1. PICK u \in unit : v = [u EXCEPT !.variables = @ \cup X]
    BY <1>2
  <2>2. u \in UnitSet
    BY DEF Types
  <2> QED
    BY <2>1, <2>2 DEF UnitSet
<1>4. Found' \subseteq Found
  BY <1>1, <1>3 DEF Found
<1>5. UnitApart'
  BY <1>1, <1>3 DEF OnceInv, UnitApart
<1> QED
  BY <1>1, <1>4, <1>5, BegunGrows DEF OnceInv, OneEach, OpenApart

\* Units of whole functions that records have begun are as Describes says.
LEMMA StabsDescribe ==
  ASSUME ScanInv, OnceInv, \A c, d \in image.code : c.addr = d.addr => c = d
  PROVE  Describes(image, Units)
<1>1. Types /\ UnitsTrue
  BY DEF ScanInv
<1>2. OneEach(Units)
  BY <1>1, UnitsOnce
<1>3. Units \in Seq(UnitSet)
  BY <1>1, UnitsEnd
<1>4. ASSUME NEW k \in DOMAIN Units
      PROVE  /\ k \in Nat /\ IsFiniteSet(Units[k].functions)
             /\ Units[k].functions \subseteq FunctionSet
             /\ \A f \in Sized(Units[k].functions) :
                  \A c \in image.code : c.addr = f.addr => Whole(image, c, f.size)
  <2>1. k \in Nat /\ Units[k] \in UnitSet
    BY <1>3
  <2>2. Units[k].functions \subseteq FunctionSet
    BY <2>1 DEF UnitSet
  <2>3. ASSUME NEW f \in Sized(Units[k].functions)
        PROVE  \A c \in image.code : c.addr = f.addr => Whole(image, c, f.size)
    <3>1. f \in Units[k].functions /\ f.size > 0
      BY DEF Sized
    <3> QED
      BY <1>1, <3>1, UnitsOwn DEF Own
  <2> QED
    BY <1>2, <2>1, <2>2, <2>3 DEF OneEach
<1>5. \A k, l \in DOMAIN Units :
        \A f \in Sized(Units[k].functions), g \in Sized(Units[l].functions) :
          f.addr = g.addr => k = l /\ f = g
  BY <1>2 DEF OneEach, Sized
<1> QED
  BY <1>4, <1>5 DEF Describes, FunctionSet

-----------------------------------------------------------------------------
(* The symbol table *)

\* A nonempty set of natural numbers has a least element.
LEMMA LeastOf ==
  ASSUME NEW S, S \subseteq Nat, S # {}
  PROVE  Min(S) \in S /\ \A n \in S : Min(S) <= n
<1>1. IsWellFoundedOn(OpToRel(<, Nat), Nat)
  BY NatLessThanWellFounded
<1>2. PICK m \in S : \A n \in S : ~(<<n, m>> \in OpToRel(<, Nat))
  BY <1>1, WFMin
<1>3. \A n \in S : ~(n < m)
  BY <1>2 DEF OpToRel
<1>4. \A n \in S : m <= n
  BY <1>3
<1> QED
  BY <1>4 DEF Min

\* The distance of an address to the next is positive exactly if there is a next,
\* and none lies in between.
LEMMA DistanceIs ==
  ASSUME NEW A, A \subseteq Nat, NEW a \in A
  PROVE  /\ Distance(a, A) \in Nat
         /\ Distance(a, A) > 0 <=> \E b \in A : b > a
         /\ Distance(a, A) > 0 => a + Distance(a, A) \in A
         /\ \A b \in A : b > a => a + Distance(a, A) <= b
<1> DEFINE Above == {b \in A : b > a}
<1>1. a \in Nat /\ Above \subseteq Nat
  OBVIOUS
<1>2. CASE \E b \in A : b > a
  <2>1. Above # {}
    BY <1>2
  <2>2. Min(Above) \in Above /\ \A b \in Above : Min(Above) <= b
    <3> HIDE DEF Above
    <3> QED
      BY <1>1, <2>1, LeastOf
  <2>3. Distance(a, A) = Min(Above) - a
    BY <1>2 DEF Distance
  <2>4. Min(Above) \in A /\ Min(Above) > a
    BY <2>2
  <2> DEFINE m == Min(Above)
  <2>5. m \in Nat /\ \A b \in A : b > a => m <= b
    BY <2>2
  <2> HIDE DEF m, Above
  <2>6. Distance(a, A) = m - a /\ m \in A /\ m > a
    BY <2>3, <2>4 DEF m
  <2> QED
    BY <1>1, <1>2, <2>5, <2>6
<1>3. CASE ~\E b \in A : b > a
  BY <1>1, <1>3 DEF Distance
<1> QED
  BY <1>2, <1>3

\* The addresses of symbols of the text.
Tabled(img) == {s.addr : s \in {t \in Range(img.nlist) : InText(t.addr)}}

SymbolSet == [name : STRING, addr : Nat, external : BOOLEAN]

LEMMA TableElements ==
  ASSUME image \in Images
  PROVE  /\ image.nlist \in Seq(SymbolSet)
         /\ \A k \in DOMAIN image.nlist :
              k \in Nat /\ image.nlist[k].name \in STRING /\ image.nlist[k].addr \in Nat
<1> DEFINE n == image.nlist
<1>1. n \in Seq(SymbolSet)
  BY MachoAssumption DEF SymbolSet
<1> HIDE DEF n
<1>2. \A k \in DOMAIN n : k \in Nat /\ n[k] \in SymbolSet
  BY <1>1
<1>3. \A t \in SymbolSet : t.name \in STRING /\ t.addr \in Nat
  BY DEF SymbolSet
<1> QED
  BY <1>1, <1>2, <1>3 DEF n

LEMMA TableTyped ==
  ASSUME image \in Images
  PROVE  /\ Tabled(image) \subseteq Nat /\ IsFiniteSet(Tabled(image))
         /\ \A a \in Tabled(image) : a < Text.hi /\ a >= Text.lo
         /\ Text.hi \in Nat
<1> DEFINE n == image.nlist
           S == {t \in Range(n) : InText(t.addr)}
<1>1. n \in Seq(SymbolSet)
  BY TableElements
<1>2. \A s \in Range(n) : s.addr \in Nat
  BY TableElements DEF Range
<1>3. IsFiniteSet(Range(n))
  <2> HIDE DEF n
  <2>1. Len(n) \in Nat /\ DOMAIN n = 1..Len(n)
    BY <1>1
  <2>2. IsFiniteSet(1..Len(n))
    BY <2>1, FS_Interval
  <2>3. n \in Surjection(DOMAIN n, Range(n))
    BY <1>1 DEF Surjection, Range
  <2> QED
    BY <2>1, <2>2, <2>3, FS_Surjection
<1>4. IsFiniteSet(S) /\ \A s \in S : s.addr \in Nat /\ InText(s.addr)
  <2> HIDE DEF n
  <2> QED
    BY <1>2, <1>3, FS_Subset
<1> HIDE DEF S
<1>5. Tabled(image) = {s.addr : s \in S}
  BY DEF Tabled, S
<1>6. IsFiniteSet({s.addr : s \in S})
  <2> DEFINE g == [s \in S |-> s.addr]
             T == {s.addr : s \in S}
  <2>1. g \in Surjection(S, T)
    BY DEF Surjection
  <2> HIDE DEF g, T
  <2>2. IsFiniteSet(T)
    BY <1>4, <2>1, FS_Surjection
  <2> QED
    BY <2>2 DEF T
<1> QED
  BY <1>1, <1>4, <1>5, <1>6, MachoAssumption DEF InText

\* The symbols of the text, one at an address, reach to the next.
LEMMA TextSymbolsAre ==
  ASSUME image \in Images
  PROVE  /\ \A s \in TextSymbols :
              s.addr \in Tabled(image) /\ s.size = Distance(s.addr, Tabled(image))
         /\ \A a \in Tabled(image) : \E s \in TextSymbols : s.addr = a
         /\ \A s, t \in TextSymbols : s.addr = t.addr => s = t
         /\ IsFiniteSet(TextSymbols)
<1> DEFINE text == {s \in Range(image.nlist) : InText(s.addr)}
           least(a) == CHOOSE s \in text : /\ s.addr = a
                          /\ \A t \in text : t.addr = a => Rank(s.name) <= Rank(t.name)
           The(a) == Function(least(a).name, a, Distance(a, Tabled(image)), least(a).external)
<1>1. AddrsOf(text) = Tabled(image)
  BY DEF AddrsOf, Tabled
<1>2. TextSymbols = {The(a) : a \in Tabled(image)}
  BY <1>1 DEF TextSymbols
<1> HIDE DEF least
<1>3. \A a : The(a).addr = a /\ The(a).size = Distance(a, Tabled(image))
  BY DEF Function
<1> HIDE DEF The
<1>4. IsFiniteSet({The(a) : a \in Tabled(image)})
  <2> DEFINE g == [a \in Tabled(image) |-> The(a)]
             T == {The(a) : a \in Tabled(image)}
  <2>1. g \in Surjection(Tabled(image), T)
    BY DEF Surjection
  <2> HIDE DEF g, T
  <2>2. IsFiniteSet(T)
    BY <2>1, TableTyped, FS_Surjection
  <2> QED
    BY <2>2 DEF T
<1> QED
  BY <1>2, <1>3, <1>4

\* So do the functions of the index made from the table.
LEMMA SymtabIndexIs ==
  ASSUME image \in Images
  PROVE  /\ \A s \in SymtabIndex.functions :
              s.addr \in Tabled(image) /\ s.size = Distance(s.addr, Tabled(image))
         /\ \A a \in Tabled(image) : \E s \in SymtabIndex.functions : s.addr = a
         /\ \A s, t \in SymtabIndex.functions : s.addr = t.addr => s = t
         /\ IsFiniteSet(SymtabIndex.functions)
         /\ SymtabIndex.functions \subseteq FunctionSet
<1> DEFINE n == image.nlist
           text == {k \in DOMAIN n : InText(n[k].addr)}
           First(a) == n[Min({k \in text : n[k].addr = a})]
           The(a) == Function(First(a).name, a, Distance(a, Tabled(image)), TRUE)
           T == {The(a) : a \in Tabled(image)}
<1>1. {n[k].addr : k \in text} = Tabled(image)
  BY DEF Tabled, Range
<1>2. SymtabIndex.functions = T
  BY <1>1 DEF SymtabIndex
<1>3. \A a \in Tabled(image) : First(a).name \in STRING
  <2> TAKE a \in Tabled(image)
  <2> DEFINE at == {k \in text : n[k].addr = a}
  <2>1. \A k \in DOMAIN n : k \in Nat /\ n[k].name \in STRING
    BY TableElements
  <2>2. at \subseteq DOMAIN n /\ at # {}
    BY <1>1
  <2> HIDE DEF n, at
  <2>3. Min(at) \in DOMAIN n
    <3>1. DOMAIN n \subseteq Nat
      BY <2>1
    <3> QED
      BY <2>2, <3>1, LeastOf
  <2>4. n[Min(at)].name \in STRING
    BY <2>1, <2>3
  <2> QED
    BY <2>4 DEF n, at
<1> HIDE DEF First
<1>4. \A a : The(a).addr = a /\ The(a).size = Distance(a, Tabled(image))
  BY DEF Function
<1>5. \A a \in Tabled(image) : The(a) \in FunctionSet
  <2> TAKE a \in Tabled(image)
  <2>1. a \in Nat /\ Distance(a, Tabled(image)) \in Nat
    BY TableTyped, DistanceIs
  <2> QED
    BY <1>3, <2>1 DEF Function, FunctionSet
<1> HIDE DEF The
<1>6. IsFiniteSet(T)
  <2> DEFINE g == [a \in Tabled(image) |-> The(a)]
  <2>1. g \in Surjection(Tabled(image), T)
    BY DEF Surjection
  <2> HIDE DEF g, T
  <2> QED
    BY <2>1, TableTyped, FS_Surjection
<1> QED
  BY <1>2, <1>4, <1>5, <1>6

\* If functions are in the table and nothing within them is, what reaches to the
\* next symbol is whole.
LEMMA ToNextIsWhole ==
  ASSUME image \in Images, TableTrue(image), NEW c \in image.code, c.addr \in Tabled(image),
         Distance(c.addr, Tabled(image)) > 0
  PROVE  Whole(image, c, Distance(c.addr, Tabled(image)))
<1> DEFINE A == Tabled(image)
           size == Distance(c.addr, A)
<1>0. /\ image.code \subseteq [name : STRING, addr : Nat, size : Nat, unit : STRING]
      /\ Text.lo \in Nat /\ Text.hi \in Nat
  BY MachoAssumption
<1>1. \A d \in image.code : d.addr \in Nat /\ d.size \in Nat
  BY <1>0
<1>2. A \subseteq Nat /\ \A a \in A : a < Text.hi /\ a >= Text.lo
  BY TableTyped
<1>3. /\ size \in Nat /\ \E b \in A : b > c.addr
      /\ c.addr + size \in A
      /\ \A b \in A : b > c.addr => c.addr + size <= b
  BY <1>2, DistanceIs
<1>4. \A d \in image.code : d.addr \in A
  BY DEF TableTrue, Tabled
<1> DEFINE b == c.addr + size
<1>5. b \in A /\ b > c.addr /\ b \in Nat
  BY <1>1, <1>2, <1>3
<1>6. ~In(b, c.addr + 1, c.size - 1)
  <2>1. PICK s \in Range(image.nlist) : s.addr = b
    BY <1>5 DEF Tabled
  <2> QED
    BY <2>1 DEF TableTrue
<1> HIDE DEF A, size
<1>7. c.size <= size
  BY <1>1, <1>3, <1>5, <1>6 DEF In
<1>8. Text.lo <= c.addr /\ c.addr + size <= Text.hi
  BY <1>0, <1>1, <1>2, <1>3, <1>4
<1>9. ASSUME NEW d \in image.code PROVE ~In(d.addr, c.addr + 1, size - 1)
  <2>1. d.addr > c.addr => c.addr + size <= d.addr
    BY <1>3, <1>4
  <2> QED
    BY <1>1, <1>3, <2>1 DEF In
<1> QED
  BY <1>7, <1>8, <1>9 DEF Whole, size, A

LEMMA TableDescribes ==
  ASSUME image \in Images, TableTrue(image), NEW units, units = <<>> \/ units = <<SymtabIndex>>
  PROVE  Describes(image, units)
<1> DEFINE F == SymtabIndex.functions
<1>1. IsFiniteSet(F) /\ F \subseteq FunctionSet /\ \A f, g \in F : f.addr = g.addr => f = g
  BY SymtabIndexIs
<1>2. ASSUME NEW f \in Sized(F), NEW c \in image.code, c.addr = f.addr
      PROVE  Whole(image, c, f.size)
  <2>1. f \in F /\ f.size > 0
    BY DEF Sized
  <2>2. f.addr \in Tabled(image) /\ f.size = Distance(f.addr, Tabled(image))
    BY <2>1, SymtabIndexIs
  <2> QED
    BY <1>2, <2>1, <2>2, ToNextIsWhole
<1>3. \A k \in DOMAIN units : units[k].functions = F /\ k = 1
  OBVIOUS
<1> HIDE DEF F
<1>4. \A f \in Sized(F) : f \in F
  BY DEF Sized
<1> QED
  BY <1>1, <1>2, <1>3, <1>4 DEF Describes, FunctionSet

-----------------------------------------------------------------------------
(* The index describes the program *)

IndexInv ==
  /\ image \in Images /\ source \in {"none", "dwarf", "stabs", "symtab"}
  /\ source = "none" /\ Truthful(image) => ScanInv /\ OnceInv
  /\ source # "none" /\ Truthful(image) => Describes(image, index)
  /\ source = "symtab" => index = <<>> \/ index = <<SymtabIndex>>

LEMMA InitIndex == Init => IndexInv
<1> SUFFICES ASSUME Init PROVE IndexInv
  OBVIOUS
<1>1. /\ image \in Images /\ unit = {} /\ open = {} /\ index = <<>> /\ source = "none"
  BY DEF Init
<1>2. Truthful(image) => ScanInv
  BY <1>1, InitInv DEF IInv, Truthful
<1>3. OnceInv
  BY <1>1 DEF OnceInv, OneEach, UnitApart, OpenApart, Found
<1> QED
  BY <1>1, <1>2, <1>3 DEF IndexInv

LEMMA EndDescribes ==
  ASSUME IndexInv, EndOfStabs
  PROVE  IndexInv'
<1>1. image' = image /\ image \in Images /\ source = "none"
  BY DEF EndOfStabs, IndexInv
<1>2. SymtabIndex' = SymtabIndex
  BY <1>1 DEF SymtabIndex
<1>3. CASE Units # <<>>
  <2>1. index' = Units /\ source' = "stabs"
    BY <1>3 DEF EndOfStabs
  <2>2. Truthful(image) => Describes(image, Units)
    BY <1>1, StabsDescribe DEF IndexInv, Truthful
  <2> QED
    BY <1>1, <2>1, <2>2 DEF IndexInv
<1>4. CASE Units = <<>>
  <2>1. index' = <<>> \/ index' = <<SymtabIndex>>
    BY <1>4 DEF EndOfStabs
  <2>2. source' = "symtab"
    BY <1>4 DEF EndOfStabs
  <2>3. Truthful(image) => Describes(image, index')
    BY <1>1, <2>1, TableDescribes DEF Truthful
  <2> QED
    BY <1>1, <1>2, <2>1, <2>2, <2>3 DEF IndexInv
<1> QED
  BY <1>3, <1>4

LEMMA StepIndex == IndexInv /\ [Next]_vars => IndexInv'
<1> SUFFICES ASSUME IndexInv, [Next]_vars PROVE IndexInv'
  OBVIOUS
<1>1. CASE LoadDwarf
  BY <1>1 DEF LoadDwarf, IndexInv, Truthful
<1>2. ASSUME ReadSource \/ ReadOpening \/ ReadClosing \/ ReadStatic
      PROVE  IndexInv'
  <2>1. image' = image /\ source = "none" /\ source' = source
    BY <1>2 DEF ReadSource, ReadOpening, ReadClosing, ReadStatic, NextRecord
  <2>2. ASSUME Truthful(image) PROVE ScanInv' /\ OnceInv'
    <3>1. RecordsTrue(image) /\ RecordsOnce(image) /\ ScanInv /\ OnceInv
      BY <2>1, <2>2 DEF IndexInv, Truthful
    <3>2. ScanInv'
      BY <1>2, <3>1, ReadSourceInv, ReadOpeningInv, ReadClosingInv, ReadStaticInv
    <3>3. OnceInv'
      BY <1>2, <3>1, ReadSourceOnce, ReadOpeningOnce, ReadClosingOnce, ReadStaticOnce DEF ScanInv
    <3> QED
      BY <3>2, <3>3
  <2> QED
    BY <2>1, <2>2 DEF IndexInv
<1>3. CASE EndOfStabs
  BY <1>3, EndDescribes
<1>4. CASE UNCHANGED <<image, loadVars>>
  <2>1. /\ image' = image /\ pos' = pos /\ unit' = unit /\ open' = open /\ index' = index
        /\ source' = source
    BY <1>4 DEF loadVars, scanVars
  <2>2. SymtabIndex' = SymtabIndex
    BY <2>1 DEF SymtabIndex
  <2>3. ScanInv => ScanInv'
    BY <2>1, ScanStays
  <2>4. OnceInv => OnceInv'
    BY <2>1 DEF OnceInv, OneEach, UnitApart, OpenApart, Found, Begun
  <2> QED
    BY <2>1, <2>2, <2>3, <2>4 DEF IndexInv
<1>5. \/ LoadDwarf \/ ReadSource \/ ReadOpening \/ ReadClosing \/ ReadStatic \/ EndOfStabs
      \/ UNCHANGED <<image, loadVars>>
  BY LoadingOrNot
<1> QED
  BY <1>1, <1>2, <1>3, <1>4, <1>5

-----------------------------------------------------------------------------
(* Listings *)

\* Definitions can be listed in the order of their addresses: a definition goes
\* where the number of those not after it says.
LEMMA SortedListing ==
  ASSUME NEW defs, IsFiniteSet(defs), \A d \in defs : d.addr \in Nat
  PROVE  \E s \in [1..Cardinality(defs) -> defs] :
           /\ IsInjective(s)
           /\ \A i, j \in DOMAIN s : i < j => s[i].addr <= s[j].addr
<1> DEFINE n == Cardinality(defs)
<1>1. n \in Nat /\ ExistsBijection(defs, 1..n)
  BY FS_CardinalityType, Fun_ExistsBijSymmetric
<1>2. PICK place : place \in [defs -> 1..n] /\ \A d, e \in defs : place[d] = place[e] => d = e
  BY <1>1 DEF ExistsBijection, Bijection, Injection, IsInjective
<1> DEFINE Before(d, e) == d.addr < e.addr \/ (d.addr = e.addr /\ place[d] <= place[e])
           UpTo(e) == {d \in defs : Before(d, e)}
           rank == [d \in defs |-> Cardinality(UpTo(d))]
<1>3. \A d \in defs : d.addr \in Nat /\ place[d] \in Nat
  BY <1>1, <1>2
<1>4. \A d, e \in defs : d = e \/ ~Before(d, e) \/ ~Before(e, d)
  BY <1>2, <1>3
<1>5. \A d, e \in defs : Before(d, e) \/ Before(e, d)
  BY <1>3
<1>6. \A c, d, e \in defs : Before(c, d) /\ Before(d, e) => Before(c, e)
  BY <1>3
<1>7. \A d, e \in defs : Before(d, e) => d.addr <= e.addr
  BY <1>3
<1> HIDE DEF Before
<1>8. \A e \in defs : IsFiniteSet(UpTo(e)) /\ Cardinality(UpTo(e)) \in 1..n
  <2> SUFFICES ASSUME NEW e \in defs
               PROVE  IsFiniteSet(UpTo(e)) /\ Cardinality(UpTo(e)) \in 1..n
    OBVIOUS
  <2>1. UpTo(e) \subseteq defs /\ e \in UpTo(e)
    BY <1>5
  <2> HIDE DEF UpTo
  <2>2. IsFiniteSet(UpTo(e)) /\ Cardinality(UpTo(e)) \in Nat /\ Cardinality(UpTo(e)) <= n
    BY <2>1, FS_Subset, FS_CardinalityType
  <2>3. Cardinality(UpTo(e)) # 0
    BY <2>1, <2>2, FS_EmptySet
  <2> QED
    BY <1>1, <2>2, <2>3
<1>9. \A d, e \in defs : Before(d, e) /\ d # e => Cardinality(UpTo(d)) < Cardinality(UpTo(e))
  <2> SUFFICES ASSUME NEW d \in defs, NEW e \in defs, Before(d, e), d # e
               PROVE  Cardinality(UpTo(d)) < Cardinality(UpTo(e))
    OBVIOUS
  <2>1. UpTo(d) \subseteq UpTo(e)
    BY <1>6
  <2>2. e \in UpTo(e) /\ e \notin UpTo(d)
    BY <1>4, <1>5
  <2>3. IsFiniteSet(UpTo(e)) /\ Cardinality(UpTo(e)) \in Nat /\ Cardinality(UpTo(d)) \in Nat
    BY <1>8
  <2> HIDE DEF UpTo
  <2>4. /\ Cardinality(UpTo(d)) <= Cardinality(UpTo(e))
        /\ Cardinality(UpTo(d)) = Cardinality(UpTo(e)) => UpTo(d) = UpTo(e)
    BY <2>1, <2>3, FS_Subset
  <2> QED
    BY <2>2, <2>3, <2>4
<1>10. rank \in Injection(defs, 1..n)
  <2>1. rank \in [defs -> 1..n]
    BY <1>8
  <2>2. ASSUME NEW d \in defs, NEW e \in defs, rank[d] = rank[e]
        PROVE  d = e
    <3>1. Cardinality(UpTo(d)) = Cardinality(UpTo(e)) /\ Cardinality(UpTo(d)) \in Nat
      BY <1>8, <2>2
    <3> HIDE DEF UpTo
    <3> QED
      BY <1>5, <1>9, <3>1
  <2> HIDE DEF rank
  <2> QED
    BY <2>1, <2>2 DEF Injection, IsInjective
<1>11. rank \in Surjection(defs, 1..n)
  <2>1. Cardinality(1..n) = n /\ IsFiniteSet(1..n)
    BY <1>1, FS_Interval
  <2> HIDE DEF rank
  <2> QED
    BY <1>10, <2>1, FS_Injection
<1>12. \A i \in 1..n : \E d \in defs : rank[d] = i
  BY <1>11 DEF Surjection
<1> DEFINE s == [i \in 1..n |-> CHOOSE d \in defs : rank[d] = i]
<1>13. \A i \in 1..n : s[i] \in defs /\ rank[s[i]] = i
  <2> HIDE DEF rank
  <2> QED
    BY <1>12
<1>14. s \in [1..n -> defs]
  BY <1>13
<1>15. DOMAIN s = 1..n
  OBVIOUS
<1> HIDE DEF s
<1>16. IsInjective(s)
  <2>1. \A i, j \in 1..n : s[i] = s[j] => i = j
    <3> HIDE DEF rank
    <3> QED
      BY <1>13
  <2> QED
    BY <2>1, <1>15 DEF IsInjective
<1>17. ASSUME NEW i \in 1..n, NEW j \in 1..n, i < j
       PROVE  s[i].addr <= s[j].addr
  <2>1. /\ s[i] \in defs /\ s[j] \in defs
        /\ Cardinality(UpTo(s[i])) = i /\ Cardinality(UpTo(s[j])) = j
    BY <1>13
  <2>2. CASE Before(s[i], s[j])
    BY <1>7, <2>1, <2>2
  <2>3. CASE ~Before(s[i], s[j])
    <3>1. Before(s[j], s[i]) /\ s[i] # s[j]
      BY <1>5, <2>1, <2>3
    <3>2. Cardinality(UpTo(s[j])) < Cardinality(UpTo(s[i]))
      <4> HIDE DEF UpTo
      <4> QED
        BY <1>9, <2>1, <3>1
    <3> QED
      BY <1>1, <1>17, <2>1, <3>2
  <2> QED
    BY <2>2, <2>3
<1> QED
  BY <1>14, <1>15, <1>16, <1>17

LEMMA ByAddressLists ==
  ASSUME NEW defs, IsFiniteSet(defs), \A d \in defs : d.addr \in Nat
  PROVE  /\ \A i \in DOMAIN ByAddress(defs) : ByAddress(defs)[i] \in defs
         /\ \A i, j \in DOMAIN ByAddress(defs) : ByAddress(defs)[i] = ByAddress(defs)[j] => i = j
         /\ \A d \in defs : \E i \in DOMAIN ByAddress(defs) : ByAddress(defs)[i] = d
<1> DEFINE n == Cardinality(defs)
<1>1. /\ ByAddress(defs) \in [1..n -> defs]
      /\ IsInjective(ByAddress(defs))
  BY SortedListing DEF ByAddress
<1>2. n \in Nat /\ Cardinality(1..n) = n
  BY FS_CardinalityType, FS_Interval
<1>3. ByAddress(defs) \in Surjection(1..n, defs)
  <2>1. ByAddress(defs) \in Injection(1..n, defs)
    BY <1>1 DEF Injection
  <2> HIDE DEF n
  <2> QED
    BY <1>2, <2>1, FS_Injection DEF n
<1> QED
  BY <1>1, <1>3 DEF Surjection, IsInjective

-----------------------------------------------------------------------------
(* What symtab.json lists *)

LEMMA UnitIs ==
  ASSUME Describes(image, index), NEW k \in SplitUnits
  PROVE  UnitOf(File(k)) = k
<1>1. \A j \in SplitUnits : File(j) = File(k) => j = k
  BY DEF File
<1>2. k \in Nat
  BY DEF SplitUnits, Describes
<1> DEFINE P(l) == File(l) = File(k) /\ \A j \in SplitUnits : File(j) = File(k) => j <= l
<1>3. \A j \in SplitUnits : File(j) = File(k) => j <= k
  <2> TAKE j \in SplitUnits
  <2> HAVE File(j) = File(k)
  <2>1. j = k
    BY <1>1
  <2> QED
    BY <1>2, <2>1
<1>4. P(k) /\ \A l \in SplitUnits : P(l) => l = k
  BY <1>1, <1>3
<1>5. UnitOf(File(k)) = CHOOSE l \in SplitUnits : P(l)
  BY DEF UnitOf
<1> HIDE DEF P
<1> QED
  BY <1>4, <1>5

\* The functions with an extent, no address twice over all units.
LEMMA FunctionsAre ==
  ASSUME Describes(image, index)
  PROVE  /\ \A f \in Functions : \E k \in SplitUnits : f \in Sized(index[k].functions)
         /\ \A k \in DOMAIN index : \A f \in Sized(index[k].functions) :
              k \in SplitUnits /\ f \in Functions /\ f.addr \in Nat /\ f.size \in Nat /\ f.size > 0
         /\ \A k, l \in DOMAIN index :
              \A f \in Sized(index[k].functions), g \in Sized(index[l].functions) :
                f.addr = g.addr => k = l /\ f = g
<1>1. \A k, l \in DOMAIN index :
        \A f \in Sized(index[k].functions), g \in Sized(index[l].functions) :
          f.addr = g.addr => k = l /\ f = g
  BY DEF Describes
<1>2. \A f \in Functions : \E k \in SplitUnits : f \in Sized(index[k].functions)
  <2> TAKE f \in Functions
  <2>1. \E k \in DOMAIN index : f \in Sized(index[k].functions)
    BY DEF Functions
  <2> QED
    BY <2>1 DEF SplitUnits
<1>3. ASSUME NEW k \in DOMAIN index, NEW f \in Sized(index[k].functions)
      PROVE  k \in SplitUnits /\ f \in Functions /\ f.addr \in Nat /\ f.size \in Nat /\ f.size > 0
  <2>1. k \in Nat /\ f \in index[k].functions /\ f.size > 0
    BY DEF Sized, Describes
  <2>2. f.addr \in Nat /\ f.size \in Nat
    <3>1. f \in FunctionSet
      BY <2>1 DEF Describes, FunctionSet
    <3> QED
      BY <3>1 DEF FunctionSet
  <2>3. \A j \in DOMAIN index : j < k => f.addr \notin {g.addr : g \in Sized(index[j].functions)}
    <3> SUFFICES ASSUME NEW j \in DOMAIN index, j < k, NEW g \in Sized(index[j].functions),
                        f.addr = g.addr
                 PROVE  FALSE
      OBVIOUS
    <3>1. j = k
      BY <1>1
    <3> QED
      BY <2>1, <3>1
  <2>4. f \in Functions
    BY <2>1, <2>3 DEF Functions
  <2> QED
    BY <2>1, <2>2, <2>4 DEF SplitUnits
<1> QED
  BY <1>1, <1>2, <1>3

\* The symbol a name of the index is looked up as.
LEMMA LooksUp ==
  ASSUME image \in Images, NEW name
  PROVE  /\ \A s \in Lookup(name) : s \in TextSymbols /\ s.name = name /\ s.addr \in Nat
         /\ \A s, t \in Lookup(name) : s = t
         /\ \A s \in Lookup(name) : \A t \in TextSymbols : t.name = name => t.addr <= s.addr
<1>1. \A s \in TextSymbols : s.addr \in Nat
  BY TextSymbolsAre, TableTyped
<1>2. \A s, t \in TextSymbols : s.addr = t.addr => s = t
  BY TextSymbolsAre
<1>3. \A s \in Lookup(name) : /\ s \in TextSymbols /\ s.name = name
                               /\ \A t \in TextSymbols : t.name = name => t.addr <= s.addr
  BY DEF Lookup
<1>4. ASSUME NEW s \in Lookup(name), NEW t \in Lookup(name) PROVE s = t
  <2>1. s.addr \in Nat /\ t.addr \in Nat /\ s.addr <= t.addr /\ t.addr <= s.addr
    BY <1>1, <1>3
  <2>2. s.addr = t.addr
    BY <2>1
  <2> QED
    BY <1>2, <1>3, <2>2
<1> QED
  BY <1>1, <1>3, <1>4

\* Where the table serves, functions of one name are one.
LEMMA NamesServe ==
  ASSUME image \in Images, TableServes, NEW f \in Functions, NEW g \in Functions, f.name = g.name
  PROVE  f.addr = g.addr
BY LooksUp DEF TableServes

LEMMA SizedLists ==
  ASSUME Describes(image, index), NEW k \in SplitUnits
  PROVE  LET list == ByAddress(Sized(index[k].functions))
         IN  /\ \A i \in DOMAIN list : list[i] \in Sized(index[k].functions)
             /\ \A i, j \in DOMAIN list : list[i] = list[j] => i = j
             /\ \A f \in Sized(index[k].functions) : \E i \in DOMAIN list : list[i] = f
<1> DEFINE S == Sized(index[k].functions)
<1>1. k \in DOMAIN index
  BY DEF SplitUnits
<1>2. IsFiniteSet(S) /\ \A f \in S : f.addr \in Nat
  <2>1. S \subseteq index[k].functions
    BY DEF Sized
  <2>2. IsFiniteSet(index[k].functions)
    BY <1>1 DEF Describes
  <2>3. IsFiniteSet(S)
    BY <2>1, <2>2, FS_Subset
  <2> QED
    BY <1>1, <2>3, FunctionsAre
<1> HIDE DEF S
<1>3. /\ \A i \in DOMAIN ByAddress(S) : ByAddress(S)[i] \in S
      /\ \A i, j \in DOMAIN ByAddress(S) : ByAddress(S)[i] = ByAddress(S)[j] => i = j
      /\ \A f \in S : \E i \in DOMAIN ByAddress(S) : ByAddress(S)[i] = f
  BY <1>2, ByAddressLists
<1> QED
  BY <1>3 DEF S

\* By the units: a function of the index is in the list of its unit, once.
LEMMA UnitsList ==
  ASSUME image \in Images, Describes(image, index), TableServes, NEW f \in Functions
  PROVE  ListedOnce(GenerateFromIndex, f.name)
<1> DEFINE j == GenerateFromIndex
           list(k) == ByAddress(Sized(index[k].functions))
<1>1. PICK k \in SplitUnits : f \in Sized(index[k].functions)
  BY FunctionsAre
<1>2. /\ DOMAIN j = {File(l) : l \in SplitUnits}
      /\ \A l \in SplitUnits : j[File(l)] = Names(list(l))
  BY UnitIs DEF GenerateFromIndex
<1>3. PICK p \in DOMAIN list(k) : list(k)[p] = f
  BY <1>1, SizedLists
<1> HIDE DEF j
<1>4. File(k) \in DOMAIN j /\ p \in DOMAIN j[File(k)] /\ j[File(k)][p] = f.name
  BY <1>2, <1>3 DEF Names
<1>5. ASSUME NEW other \in DOMAIN j, NEW q \in DOMAIN j[other], j[other][q] = f.name
      PROVE  other = File(k) /\ q = p
  <2>1. PICK l \in SplitUnits : other = File(l)
    BY <1>2
  <2>2. q \in DOMAIN list(l) /\ list(l)[q].name = f.name
    BY <1>2, <1>5, <2>1 DEF Names
  <2>3. list(l)[q] \in Sized(index[l].functions)
    BY <2>2, SizedLists
  <2>4. l \in DOMAIN index /\ k \in DOMAIN index
    BY DEF SplitUnits
  <2>5. list(l)[q] \in Functions
    BY <2>3, <2>4, FunctionsAre
  <2>6. list(l)[q].addr = f.addr
    BY <2>2, <2>5, NamesServe
  <2>7. l = k /\ list(l)[q] = f
    BY <1>1, <2>3, <2>4, <2>6, FunctionsAre
  <2>8. q = p
    BY <1>3, <2>2, <2>7, SizedLists
  <2> QED
    BY <2>1, <2>7, <2>8
<1> QED
  BY <1>4, <1>5 DEF ListedOnce, j

\* Where the index is made from the table, a name its functions have is that of
\* one symbol: the last of that name, and another would be a function of the
\* index that is looked up in its place.
LEMMA OneSymbol ==
  ASSUME image \in Images, Describes(image, index), TableServes, index = <<SymtabIndex>>,
         NEW f \in Functions, NEW s \in Lookup(f.name), NEW t \in TextSymbols, t.name = f.name
  PROVE  t = s
<1> DEFINE A == Tabled(image)
<1>1. /\ s \in TextSymbols /\ s.name = f.name
      /\ \A u \in TextSymbols : u.name = f.name => u.addr <= s.addr
  BY LooksUp
<1>2. /\ s.addr \in A /\ t.addr \in A /\ A \subseteq Nat
      /\ t.size = Distance(t.addr, A)
  BY <1>1, TextSymbolsAre, TableTyped
<1>3. t.addr <= s.addr
  BY <1>1
<1>4. ASSUME t.addr < s.addr PROVE FALSE
  <2>1. PICK g \in SymtabIndex.functions : g.addr = t.addr /\ g.size = Distance(t.addr, A)
    BY <1>2, SymtabIndexIs
  <2>2. Distance(t.addr, A) > 0
    <3> HIDE DEF A
    <3> QED
      BY <1>2, <1>4, DistanceIs
  <2>3. 1 \in DOMAIN index /\ g \in Sized(index[1].functions)
    BY <2>1, <2>2 DEF Sized
  <2>4. g \in Functions
    BY <2>3, FunctionsAre
  <2>5. PICK u \in Lookup(g.name) : u.addr = g.addr
    BY <2>4 DEF TableServes
  <2>6. u \in TextSymbols /\ u.name = g.name
    BY LooksUp
  <2>7. u = t
    BY <2>1, <2>5, <2>6, TextSymbolsAre
  <2>8. g.name = f.name
    BY <2>6, <2>7
  <2>9. s.addr <= t.addr
    BY <1>1, <2>5, <2>7, <2>8, LooksUp
  <2> QED
    BY <1>2, <1>4, <2>9
<1>5. t.addr = s.addr
  BY <1>2, <1>3, <1>4
<1> QED
  BY <1>1, <1>5, TextSymbolsAre

Named(file) == {s \in TextSymbols : <<Stem[s.name]>> = file}

LEMMA NamedLists ==
  ASSUME image \in Images, NEW file
  PROVE  LET list == ByAddress(Named(file))
         IN  /\ \A i \in DOMAIN list : list[i] \in Named(file)
             /\ \A i, j \in DOMAIN list : list[i] = list[j] => i = j
             /\ \A s \in Named(file) : \E i \in DOMAIN list : list[i] = s
<1> DEFINE S == Named(file)
<1>1. S \subseteq TextSymbols
  BY DEF Named
<1> HIDE DEF S
<1>2. \A s \in TextSymbols : s.addr \in Nat
  BY TextSymbolsAre, TableTyped
<1>3. IsFiniteSet(S) /\ \A s \in S : s.addr \in Nat
  BY <1>1, <1>2, TextSymbolsAre, FS_Subset
<1>4. /\ \A i \in DOMAIN ByAddress(S) : ByAddress(S)[i] \in S
      /\ \A i, j \in DOMAIN ByAddress(S) : ByAddress(S)[i] = ByAddress(S)[j] => i = j
      /\ \A s \in S : \E i \in DOMAIN ByAddress(S) : ByAddress(S)[i] = s
  BY <1>3, ByAddressLists
<1> QED
  BY <1>4 DEF S

\* By the table: the same.
LEMMA TableLists ==
  ASSUME image \in Images, Describes(image, index), TableServes, index = <<SymtabIndex>>,
         NEW f \in Functions
  PROVE  ListedOnce(Generate, f.name)
<1> DEFINE j == Generate
           list(file) == ByAddress(Named(file))
<1>1. /\ DOMAIN j = {<<Stem[s.name]>> : s \in TextSymbols}
      /\ \A file \in DOMAIN j : j[file] = Names(list(file))
  BY DEF Generate, Named
<1>2. PICK s \in Lookup(f.name) : TRUE
  BY DEF TableServes
<1>3. s \in TextSymbols /\ s.name = f.name
  BY LooksUp
<1> DEFINE file == <<Stem[s.name]>>
<1>4. file \in DOMAIN j /\ s \in Named(file)
  BY <1>1, <1>3 DEF Named
<1> HIDE DEF j, file
<1>5. PICK p \in DOMAIN list(file) : list(file)[p] = s
  BY <1>4, NamedLists
<1>6. p \in DOMAIN j[file] /\ j[file][p] = f.name
  BY <1>1, <1>3, <1>4, <1>5 DEF Names
<1>7. ASSUME NEW other \in DOMAIN j, NEW q \in DOMAIN j[other], j[other][q] = f.name
      PROVE  other = file /\ q = p
  <2>1. q \in DOMAIN list(other) /\ list(other)[q].name = f.name
    BY <1>1, <1>7 DEF Names
  <2>2. list(other)[q] \in Named(other)
    BY <2>1, NamedLists
  <2>3. list(other)[q] \in TextSymbols /\ other = <<Stem[list(other)[q].name]>>
    BY <2>2 DEF Named
  <2>4. list(other)[q] = s
    BY <2>1, <2>3, OneSymbol
  <2>5. other = file
    BY <2>3, <2>4 DEF file
  <2>6. q = p
    BY <1>5, <2>1, <2>4, <2>5, NamedLists
  <2> QED
    BY <2>5, <2>6
<1> QED
  BY <1>4, <1>6, <1>7 DEF ListedOnce, j

-----------------------------------------------------------------------------
(* Runs *)

\* What a file of the manifest stands for.
FileInv(file) ==
  /\ manifest[file] \in {"waiting", "written", "empty", "failed"}
  /\ manifest[file] = "written" => file \in DOMAIN disk /\ disk[file] = Emitted(Asked(file))
  /\ manifest[file] = "empty" => Live(Asked(file)) = {}

\* If the table serves, symtab.json has each function of the index once.
ListInv ==
  runs > 0 /\ Truthful(image) /\ TableServes => \A f \in Functions : ListedOnce(json, f.name)

RunInv ==
  /\ runs \in Nat /\ (runs > 0 => source # "none") /\ (runs = 0 => DOMAIN manifest = {})
  /\ runs > 0 /\ byUnit => DOMAIN manifest = {File(k) : k \in SplitUnits}
  /\ runs > 0 /\ ~byUnit => DOMAIN manifest = DOMAIN json
  /\ \A file \in DOMAIN manifest : FileInv(file)
  /\ ListInv

LEMMA IndexSame ==
  ASSUME image' = image, index' = index
  PROVE  /\ Functions' = Functions /\ SplitUnits' = SplitUnits /\ TextSymbols' = TextSymbols
         /\ \A k : File(k)' = File(k)
         /\ \A name : Lookup(name)' = Lookup(name)
         /\ TableServes' <=> TableServes
         /\ Truthful(image)' <=> Truthful(image)
<1>1. Functions' = Functions
  BY DEF Functions
<1>2. SplitUnits' = SplitUnits
  BY DEF SplitUnits
<1>3. TextSymbols' = TextSymbols
  BY DEF TextSymbols
<1>4. \A k : File(k)' = File(k)
  BY DEF File
<1>5. \A name : Lookup(name)' = Lookup(name)
  BY <1>3 DEF Lookup
<1>6. TableServes' <=> TableServes
  BY <1>1, <1>5 DEF TableServes
<1>7. Truthful(image)' <=> Truthful(image)
  OBVIOUS
<1> QED
  BY <1>1, <1>2, <1>3, <1>4, <1>5, <1>6, <1>7

LEMMA AskedSame ==
  ASSUME image' = image, index' = index, byUnit' = byUnit, json' = json, NEW file
  PROVE  Asked(file)' = Asked(file)
<1>1. UnitOf(file)' = UnitOf(file)
  BY IndexSame DEF UnitOf
<1>2. \A names : Resolved(names)' = Resolved(names)
  BY IndexSame DEF Resolved
<1> QED
  BY <1>1, <1>2 DEF Asked

\* What leaves the lists and the index alone.
LEMMA ListStays ==
  ASSUME RunInv, image' = image, index' = index, source' = source, runs' = runs,
         byUnit' = byUnit, json' = json, DOMAIN manifest' = DOMAIN manifest,
         \A file \in DOMAIN manifest : FileInv(file)'
  PROVE  RunInv'
<1>1. ListInv'
  BY IndexSame DEF RunInv, ListInv
<1> QED
  BY <1>1, IndexSame DEF RunInv

LEMMA FileStays ==
  ASSUME NEW file, FileInv(file), image' = image, index' = index, byUnit' = byUnit, json' = json,
         manifest'[file] = manifest[file],
         file \in DOMAIN disk => file \in DOMAIN disk' /\ disk'[file] = disk[file]
  PROVE  FileInv(file)'
BY AskedSame DEF FileInv

LEMMA EmitRun ==
  ASSUME RunInv, NEW file \in DOMAIN manifest, Emit(file)
  PROVE  RunInv'
<1>1. /\ runs' = runs /\ byUnit' = byUnit /\ json' = json /\ UNCHANGED <<image, loadVars>>
      /\ Live(Asked(file)) = {} => manifest' = [manifest EXCEPT ![file] = "empty"] /\ disk' = disk
      /\ Live(Asked(file)) # {} =>
           /\ manifest' = [manifest EXCEPT ![file] = "written"]
           /\ disk' = [g \in DOMAIN disk \cup {file} |->
                        IF g = file THEN Emitted(Asked(file)) ELSE disk[g]]
  BY DEF Emit
<1>2. image' = image /\ index' = index /\ source' = source
  BY <1>1 DEF loadVars
<1>3. DOMAIN manifest' = DOMAIN manifest
  BY <1>1
<1>4. Asked(file)' = Asked(file)
  BY <1>1, <1>2, AskedSame
<1>5. FileInv(file)'
  <2>1. CASE Live(Asked(file)) = {}
    <3>1. manifest'[file] = "empty"
      BY <1>1, <2>1
    <3> QED
      BY <1>4, <2>1, <3>1 DEF FileInv
  <2>2. CASE Live(Asked(file)) # {}
    <3>1. manifest'[file] = "written"
      BY <1>1, <2>2
    <3>2. file \in DOMAIN disk' /\ disk'[file] = Emitted(Asked(file))
      BY <1>1, <2>2
    <3>3. Emitted(Asked(file))' = Emitted(Asked(file))
      BY <1>4 DEF Emitted, Live
    <3> QED
      BY <3>1, <3>2, <3>3 DEF FileInv
  <2> QED
    BY <2>1, <2>2
<1>6. ASSUME NEW other \in DOMAIN manifest, other # file PROVE FileInv(other)'
  <2>1. FileInv(other)
    BY DEF RunInv
  <2>2. /\ manifest'[other] = manifest[other]
        /\ other \in DOMAIN disk => other \in DOMAIN disk' /\ disk'[other] = disk[other]
    BY <1>1, <1>6
  <2> QED
    BY <1>1, <1>2, <2>1, <2>2, FileStays
<1> QED
  BY <1>1, <1>2, <1>3, <1>5, <1>6, ListStays

LEMMA FailRun ==
  ASSUME RunInv, NEW file \in DOMAIN manifest, EmitFails(file)
  PROVE  RunInv'
<1>1. /\ image' = image /\ index' = index /\ source' = source /\ runs' = runs
      /\ byUnit' = byUnit /\ json' = json /\ disk' = disk
      /\ manifest' = [manifest EXCEPT ![file] = "failed"]
  BY DEF EmitFails, loadVars
<1>2. DOMAIN manifest' = DOMAIN manifest
  BY <1>1
<1>3. ASSUME NEW other \in DOMAIN manifest PROVE FileInv(other)'
  <2>1. CASE other = file
    BY <1>1, <2>1 DEF FileInv
  <2>2. CASE other # file
    <3>1. FileInv(other) /\ manifest'[other] = manifest[other]
      BY <1>1, <2>2 DEF RunInv
    <3> QED
      BY <1>1, <3>1, FileStays
  <2> QED
    BY <2>1, <2>2
<1> QED
  BY <1>1, <1>2, <1>3, ListStays

\* A new run: every object is waiting.
LEMMA WaitingRun ==
  ASSUME \A file \in DOMAIN manifest' : manifest'[file] = "waiting"
  PROVE  \A file \in DOMAIN manifest' : FileInv(file)'
BY DEF FileInv

LEMMA SplitRun ==
  ASSUME IndexInv, RunInv, Split
  PROVE  RunInv'
<1>1. /\ image' = image /\ index' = index /\ source' = source /\ source # "none" /\ runs' = 1
      /\ byUnit' = (source \in {"dwarf", "stabs"})
      /\ byUnit' => json' = GenerateFromIndex /\ DOMAIN manifest' = {File(k) : k \in SplitUnits}
      /\ ~byUnit' => json' = Generate /\ DOMAIN manifest' = DOMAIN json'
      /\ \A file \in DOMAIN manifest' : manifest'[file] = "waiting"
  BY DEF Split, Idle, loadVars
<1>2. \A file \in DOMAIN manifest' : FileInv(file)'
  BY <1>1, WaitingRun
<1>3. ASSUME Truthful(image), TableServes, NEW f \in Functions
      PROVE  ListedOnce(json', f.name)
  <2>1. image \in Images /\ Describes(image, index)
    BY <1>1, <1>3 DEF IndexInv
  <2>2. CASE byUnit'
    BY <1>1, <1>3, <2>1, <2>2, UnitsList
  <2>3. CASE ~byUnit'
    <3>1. source = "symtab"
      BY <1>1, <2>3 DEF IndexInv
    <3>2. index # <<>>
      BY <1>3 DEF Functions
    <3>3. index = <<SymtabIndex>>
      BY <3>1, <3>2 DEF IndexInv
    <3> QED
      BY <1>1, <1>3, <2>1, <2>3, <3>3, TableLists
  <2> QED
    BY <2>2, <2>3
<1>4. ListInv'
  BY <1>1, <1>3, IndexSame DEF ListInv
<1>5. {File(k) : k \in SplitUnits}' = {File(k) : k \in SplitUnits}
  BY <1>1, IndexSame
<1>6. /\ byUnit' => DOMAIN manifest' = {File(k) : k \in SplitUnits}'
      /\ ~byUnit' => DOMAIN manifest' = DOMAIN json'
  BY <1>1, <1>5
<1>7. runs' \in Nat /\ runs' > 0 /\ source' # "none"
  BY <1>1
<1> QED
  BY <1>2, <1>4, <1>6, <1>7 DEF RunInv

LEMMA AgainRun ==
  ASSUME RunInv, SplitAgain, CarefulEdit
  PROVE  RunInv'
<1>1. /\ image' = image /\ index' = index /\ source' = source /\ runs > 0 /\ runs' = runs + 1
      /\ byUnit' = FALSE /\ DOMAIN manifest' = DOMAIN json'
      /\ \A file \in DOMAIN manifest' : manifest'[file] = "waiting"
  BY DEF SplitAgain, loadVars
<1>2. \A file \in DOMAIN manifest' : FileInv(file)'
  BY <1>1, WaitingRun
<1>3. ASSUME Truthful(image), TableServes, NEW f \in Functions
      PROVE  ListedOnce(json', f.name)
  <2>1. ListedOnce(json, f.name)
    BY <1>1, <1>3 DEF RunInv, ListInv
  <2>2. \E names \in Range(json) : f.name \in Range(names)
    BY <2>1 DEF ListedOnce, Range
  <2> QED
    BY <2>1, <2>2 DEF CarefulEdit
<1>4. ListInv'
  BY <1>1, <1>3, IndexSame DEF ListInv
<1>5. runs' \in Nat /\ runs' > 0
  BY <1>1 DEF RunInv
<1> QED
  BY <1>1, <1>2, <1>4, <1>5, IndexSame DEF RunInv

\* While the program is loaded there is no run.
LEMMA LoadRun ==
  ASSUME RunInv, source = "none", runs' = runs, manifest' = manifest
  PROVE  RunInv'
<1>1. runs \in Nat /\ runs = 0 /\ DOMAIN manifest = {}
  BY DEF RunInv
<1> QED
  BY <1>1 DEF RunInv, ListInv

LEMMA StepRun == IndexInv /\ RunInv /\ [Next]_vars /\ [CarefulEdit]_vars => RunInv'
<1> SUFFICES ASSUME IndexInv, RunInv, [Next]_vars, [CarefulEdit]_vars PROVE RunInv'
  OBVIOUS
<1>1. CASE LoadDwarf \/ EndOfStabs
  <2>1. source = "none" /\ runs' = runs /\ manifest' = manifest
    BY <1>1 DEF LoadDwarf, EndOfStabs, runVars
  <2> QED
    BY <2>1, LoadRun
<1>2. CASE ReadSource \/ ReadOpening \/ ReadClosing \/ ReadStatic
  <2>1. source = "none" /\ runs' = runs /\ manifest' = manifest
    BY <1>2 DEF ReadSource, ReadOpening, ReadClosing, ReadStatic, NextRecord, runVars
  <2> QED
    BY <2>1, LoadRun
<1>3. CASE Split
  BY <1>3, SplitRun
<1>4. CASE SplitAgain
  <2>1. runs' # runs
    BY <1>4 DEF SplitAgain, RunInv
  <2>2. CarefulEdit
    BY <2>1 DEF vars, runVars
  <2> QED
    BY <1>4, <2>2, AgainRun
<1>5. ASSUME NEW file \in DOMAIN manifest, EmitMachoCu(file) \/ EmitElfCu(file) \/ EmitFails(file)
      PROVE  RunInv'
  BY <1>5, EmitRun, FailRun DEF EmitMachoCu, EmitElfCu
<1>6. CASE UNCHANGED <<image, loadVars, runs, format, byUnit, json, disk, manifest>>
  <2>1. /\ image' = image /\ index' = index /\ source' = source /\ runs' = runs
        /\ byUnit' = byUnit /\ json' = json /\ disk' = disk /\ manifest' = manifest
    BY <1>6 DEF loadVars
  <2>2. \A file \in DOMAIN manifest : FileInv(file)'
    BY <2>1, FileStays DEF RunInv
  <2> QED
    BY <2>1, <2>2, ListStays
<1>7. EmitMachoShared \/ EmitElfShared \/ SharedFails \/ Done \/ UNCHANGED vars
        => UNCHANGED <<image, loadVars, runs, format, byUnit, json, disk, manifest>>
  BY DEF EmitMachoShared, EmitElfShared, EmitShared, SharedFails, Done, vars, runVars
<1> QED
  BY <1>1, <1>2, <1>3, <1>4, <1>5, <1>6, <1>7 DEF Next

-----------------------------------------------------------------------------
(* Every function once *)

\* The places of an address.
LEMMA PlacesAre ==
  ASSUME NEW addr, NEW p
  PROVE  p \in Places(addr) <=>
           \E file \in Written : \E k \in DOMAIN disk[file] :
             disk[file][k].addr = addr /\ p = <<file, k>>
BY DEF Places

LEMMA OnePlace ==
  ASSUME NEW addr, NEW file \in Written, NEW k \in DOMAIN disk[file], disk[file][k].addr = addr,
         \A other \in Written : \A l \in DOMAIN disk[other] :
           disk[other][l].addr = addr => other = file /\ l = k
  PROVE  Places(addr) = {<<file, k>>} /\ Cardinality(Places(addr)) = 1
<1>1. Places(addr) = {<<file, k>>}
  BY PlacesAre
<1>2. Cardinality({<<file, k>>}) = 1
  BY FS_Singleton
<1> QED
  BY <1>1, <1>2

\* Once every object could be written, each is what was asked for.
LEMMA AllWritten ==
  ASSUME RunInv, Finished, "failed" \notin Range(manifest)
  PROVE  /\ \A file \in Written : /\ file \in DOMAIN manifest
                                   /\ disk[file] = Emitted(Asked(file))
         /\ \A file \in DOMAIN manifest : Live(Asked(file)) # {} => file \in Written
         /\ runs > 0
<1>1. \A file \in DOMAIN manifest : manifest[file] \notin {"waiting", "failed"}
  BY DEF Finished, Busy, Range
<1> QED
  BY <1>1 DEF RunInv, FileInv, Written, Finished

\* What is emitted of functions are those with an extent, that end in the text.
LEMMA EmittedIs ==
  ASSUME NEW functions, NEW k
  PROVE  /\ k \in DOMAIN Emitted(functions) =>
              /\ k \in DOMAIN functions /\ functions[k].size > 0
              /\ Emitted(functions)[k] = functions[k]
         /\ k \in Live(functions) /\ functions[k].addr + functions[k].size <= Text.hi =>
              k \in DOMAIN Emitted(functions)
BY DEF Emitted, Live

LEMMA UnitLists ==
  ASSUME Describes(image, index), NEW k \in SplitUnits
  PROVE  LET list == ByAddress(index[k].functions)
         IN  /\ \A i \in DOMAIN list : list[i] \in index[k].functions
             /\ \A i, j \in DOMAIN list : list[i] = list[j] => i = j
             /\ \A f \in index[k].functions : \E i \in DOMAIN list : list[i] = f
<1> DEFINE S == index[k].functions
<1>1. k \in DOMAIN index
  BY DEF SplitUnits
<1>2. IsFiniteSet(S) /\ S \subseteq FunctionSet
  BY <1>1 DEF Describes, FunctionSet
<1>3. \A f \in FunctionSet : f.addr \in Nat
  BY DEF FunctionSet
<1> HIDE DEF S
<1>4. /\ \A i \in DOMAIN ByAddress(S) : ByAddress(S)[i] \in S
      /\ \A i, j \in DOMAIN ByAddress(S) : ByAddress(S)[i] = ByAddress(S)[j] => i = j
      /\ \A f \in S : \E i \in DOMAIN ByAddress(S) : ByAddress(S)[i] = f
  BY <1>2, <1>3, ByAddressLists
<1> QED
  BY <1>4 DEF S

\* A function of the program has a whole extent and lies in the text.
LEMMA WholeInText ==
  ASSUME image \in Images, NEW c \in image.code, NEW size \in Nat, size > 0, Whole(image, c, size)
  PROVE  InText(c.addr) /\ c.addr + size <= Text.hi /\ c.addr \in Nat /\ c.size \in Nat
<1>1. /\ image.code \subseteq [name : STRING, addr : Nat, size : Nat, unit : STRING]
      /\ Text.lo \in Nat /\ Text.hi \in Nat
  BY MachoAssumption
<1>2. c.addr \in Nat /\ c.size \in Nat
  BY <1>1
<1>3. Text.lo <= c.addr /\ c.addr + size <= Text.hi
  BY DEF Whole
<1> QED
  BY <1>1, <1>2, <1>3 DEF InText

\* The objects of the units.
LEMMA UnitsCover ==
  ASSUME IndexInv, RunInv, Truthful(image), Finished, "failed" \notin Range(manifest), byUnit
  PROVE  Covered
<1> SUFFICES ASSUME NEW c \in image.code, NEW f \in Functions, f.addr = c.addr
             PROVE  /\ Cardinality(Places(c.addr)) = 1
                    /\ \A p \in Places(c.addr) : Whole(image, c, disk[p[1]][p[2]].size)
  BY DEF Covered
<1> DEFINE list(l) == ByAddress(index[l].functions)
<1>1. /\ image \in Images /\ Describes(image, index)
      /\ DOMAIN manifest = {File(k) : k \in SplitUnits}
  BY AllWritten DEF IndexInv, RunInv
<1>2. PICK k \in SplitUnits : f \in Sized(index[k].functions)
  BY <1>1, FunctionsAre
<1>3. \A l \in SplitUnits : l \in DOMAIN index /\ Asked(File(l)) = list(l)
  BY <1>1, UnitIs DEF Asked, SplitUnits
<1>4. f \in index[k].functions /\ f.size > 0 /\ f.size \in Nat /\ Whole(image, c, f.size)
  BY <1>1, <1>2, <1>3, FunctionsAre DEF Sized, Describes
<1>5. PICK i \in DOMAIN list(k) : list(k)[i] = f
  BY <1>1, <1>4, UnitLists
<1> HIDE DEF list
<1>6. InText(f.addr) /\ f.addr + f.size <= Text.hi
  BY <1>1, <1>4, WholeInText
<1>7. i \in Live(Asked(File(k)))
  BY <1>3, <1>4, <1>5, <1>6 DEF Live
<1>8. File(k) \in Written /\ disk[File(k)] = Emitted(list(k))
  BY <1>1, <1>3, <1>7, AllWritten
<1>9. i \in DOMAIN disk[File(k)] /\ disk[File(k)][i] = f
  BY <1>3, <1>5, <1>6, <1>7, <1>8, EmittedIs
<1>10. ASSUME NEW other \in Written, NEW j \in DOMAIN disk[other], disk[other][j].addr = c.addr
       PROVE  other = File(k) /\ j = i
  <2>1. PICK l \in SplitUnits : other = File(l)
    BY <1>1, AllWritten
  <2>2. disk[other] = Emitted(list(l))
    BY <1>3, <2>1, AllWritten
  <2>3. j \in DOMAIN list(l) /\ list(l)[j].size > 0 /\ disk[other][j] = list(l)[j]
    BY <1>10, <2>2, EmittedIs
  <2>4. list(l)[j] \in index[l].functions
    BY <1>1, <2>3, UnitLists DEF list
  <2>5. list(l)[j] \in Sized(index[l].functions)
    BY <2>3, <2>4 DEF Sized
  <2>6. l = k /\ list(l)[j] = f
    <3>1. \A m, n \in DOMAIN index : \A g \in Sized(index[m].functions), h \in Sized(index[n].functions) :
            g.addr = h.addr => m = n /\ g = h
      BY <1>1, FunctionsAre
    <3>2. k \in DOMAIN index /\ l \in DOMAIN index
      BY <1>3, <2>1
    <3>3. list(l)[j].addr = f.addr
      BY <1>10, <2>3
    <3> QED
      BY <1>2, <2>5, <3>1, <3>2, <3>3
  <2>7. j = i
    <3>1. \A m, n \in DOMAIN list(k) : list(k)[m] = list(k)[n] => m = n
      BY <1>1, UnitLists DEF list
    <3> QED
      BY <1>5, <2>3, <2>6, <3>1
  <2> QED
    BY <2>1, <2>6, <2>7
<1>11. Places(c.addr) = {<<File(k), i>>} /\ Cardinality(Places(c.addr)) = 1
  BY <1>8, <1>9, <1>10, OnePlace
<1>12. \A p \in Places(c.addr) : disk[p[1]][p[2]] = f
  BY <1>9, <1>11
<1> QED
  BY <1>4, <1>11, <1>12

\* A name is resolved to the symbol it is looked up as.
LEMMA ResolvedIs ==
  ASSUME image \in Images, NEW names, NEW k
  PROVE  /\ k \in DOMAIN Resolved(names) =>
              k \in DOMAIN names /\ Resolved(names)[k] \in Lookup(names[k])
         /\ \A s : k \in DOMAIN names /\ s \in Lookup(names[k]) =>
              k \in DOMAIN Resolved(names) /\ Resolved(names)[k] = s
<1>1. k \in DOMAIN Resolved(names) => Lookup(names[k]) # {}
  BY DEF Resolved
<1>2. k \in DOMAIN Resolved(names) => k \in DOMAIN names /\ Resolved(names)[k] \in Lookup(names[k])
  BY <1>1 DEF Resolved
<1>3. ASSUME NEW s, k \in DOMAIN names, s \in Lookup(names[k])
      PROVE  k \in DOMAIN Resolved(names) /\ Resolved(names)[k] = s
  <2>1. k \in DOMAIN Resolved(names)
    BY <1>3 DEF Resolved
  <2>2. Resolved(names)[k] \in Lookup(names[k])
    BY <1>2, <2>1
  <2> QED
    BY <1>3, <2>1, <2>2, LooksUp
<1> QED
  BY <1>2, <1>3

\* A symbol with an extent ends in the text, and where the table is true it is as
\* whole as the function of the index that has its name.
LEMMA SymbolWhole ==
  ASSUME image \in Images, TableTrue(image), NEW s \in TextSymbols, s.size > 0
  PROVE  /\ InText(s.addr) /\ s.addr + s.size <= Text.hi
         /\ \A c \in image.code : c.addr = s.addr => Whole(image, c, s.size)
<1> DEFINE A == Tabled(image)
<1>1. /\ s.addr \in A /\ s.size = Distance(s.addr, A) /\ A \subseteq Nat
      /\ \A a \in A : a < Text.hi /\ a >= Text.lo
  BY TextSymbolsAre, TableTyped
<1> HIDE DEF A
<1>2. s.addr + s.size \in A
  BY <1>1, DistanceIs
<1>3. Text.hi \in Nat
  BY TableTyped
<1>4. InText(s.addr) /\ s.addr + s.size <= Text.hi
  <2>1. InText(s.addr)
    BY <1>1 DEF InText
  <2>2. \A a \in A : a <= Text.hi
    BY <1>1, <1>3
  <2> QED
    BY <1>2, <2>1, <2>2
<1>5. \A c \in image.code : c.addr = s.addr => Whole(image, c, s.size)
  BY <1>1, ToNextIsWhole DEF A
<1> QED
  BY <1>4, <1>5

\* The objects of symtab.json.
LEMMA ListCovers ==
  ASSUME IndexInv, RunInv, Truthful(image), Finished, "failed" \notin Range(manifest), ~byUnit,
         TableServes
  PROVE  Covered
<1> SUFFICES ASSUME NEW c \in image.code, NEW f \in Functions, f.addr = c.addr
             PROVE  /\ Cardinality(Places(c.addr)) = 1
                    /\ \A p \in Places(c.addr) : Whole(image, c, disk[p[1]][p[2]].size)
  BY DEF Covered
<1>1. /\ image \in Images /\ Describes(image, index) /\ TableTrue(image)
      /\ DOMAIN manifest = DOMAIN json
  BY AllWritten DEF IndexInv, RunInv, Truthful
<1>2. ListedOnce(json, f.name)
  BY AllWritten DEF RunInv, ListInv
<1>3. PICK file \in DOMAIN json : \E k \in DOMAIN json[file] :
        /\ json[file][k] = f.name
        /\ \A other \in DOMAIN json : \A l \in DOMAIN json[other] :
             json[other][l] = f.name => other = file /\ l = k
  BY <1>2 DEF ListedOnce
<1>4. PICK k \in DOMAIN json[file] :
        /\ json[file][k] = f.name
        /\ \A other \in DOMAIN json : \A l \in DOMAIN json[other] :
             json[other][l] = f.name => other = file /\ l = k
  BY <1>3
<1>5. \A other \in DOMAIN json : Asked(other) = Resolved(json[other])
  BY DEF Asked
<1>6. PICK s \in Lookup(f.name) : s.addr = f.addr /\ s.size >= f.size
  BY DEF TableServes
<1>7. s \in TextSymbols /\ s.name = f.name
  BY <1>1, LooksUp
<1>8. s.size > 0
  <2>1. f.size \in Nat /\ f.size > 0
    BY <1>1, FunctionsAre DEF SplitUnits
  <2>2. s.size \in Nat
    <3>1. s.addr \in Tabled(image) /\ s.size = Distance(s.addr, Tabled(image))
      BY <1>1, <1>7, TextSymbolsAre
    <3>2. Tabled(image) \subseteq Nat
      BY <1>1, TableTyped
    <3> QED
      BY <3>1, <3>2, DistanceIs
  <2> QED
    BY <1>6, <2>1, <2>2
<1>9. InText(s.addr) /\ s.addr + s.size <= Text.hi /\ Whole(image, c, s.size)
  BY <1>1, <1>6, <1>7, <1>8, SymbolWhole
<1>10. k \in DOMAIN Asked(file) /\ Asked(file)[k] = s
  BY <1>1, <1>4, <1>5, <1>6, ResolvedIs
<1>11. k \in Live(Asked(file))
  BY <1>8, <1>9, <1>10 DEF Live
<1>12. file \in Written /\ disk[file] = Emitted(Asked(file))
  BY <1>1, <1>11, AllWritten
<1>13. k \in DOMAIN disk[file] /\ disk[file][k] = s
  BY <1>9, <1>10, <1>11, <1>12, EmittedIs
<1>14. ASSUME NEW other \in Written, NEW l \in DOMAIN disk[other], disk[other][l].addr = c.addr
       PROVE  other = file /\ l = k
  <2>1. other \in DOMAIN json /\ disk[other] = Emitted(Resolved(json[other]))
    BY <1>1, <1>5, AllWritten
  <2>2. l \in DOMAIN Resolved(json[other]) /\ disk[other][l] = Resolved(json[other])[l]
    BY <1>14, <2>1, EmittedIs
  <2>3. l \in DOMAIN json[other] /\ disk[other][l] \in Lookup(json[other][l])
    BY <1>1, <2>2, ResolvedIs
  <2>4. disk[other][l] \in TextSymbols /\ disk[other][l].name = json[other][l]
    BY <1>1, <2>3, LooksUp
  <2>5. disk[other][l] = s
    BY <1>1, <1>6, <1>7, <1>14, <2>4, TextSymbolsAre
  <2> QED
    BY <1>4, <1>7, <2>1, <2>3, <2>4, <2>5
<1>15. Places(c.addr) = {<<file, k>>} /\ Cardinality(Places(c.addr)) = 1
  BY <1>6, <1>12, <1>13, <1>14, OnePlace
<1>16. \A p \in Places(c.addr) : disk[p[1]][p[2]] = s
  BY <1>13, <1>15
<1> QED
  BY <1>9, <1>15, <1>16

\* Whether its units or an edited symtab.json say what goes where, a program that is
\* described truthfully has each function of the index in one object, once and whole,
\* unless an object could not be written.
THEOREM EachFunctionPlaced ==
  Spec /\ [][CarefulEdit]_vars => [](Truthful(image) => EveryFunctionOnce)
<1>1. Init => RunInv
  BY DEF Init, None, RunInv, ListInv
<1>2. IndexInv /\ RunInv /\ [Next]_vars /\ [CarefulEdit]_vars => IndexInv' /\ RunInv'
  BY StepIndex, StepRun
<1>3. IndexInv /\ RunInv => (Truthful(image) => EveryFunctionOnce)
  BY UnitsCover, ListCovers DEF EveryFunctionOnce
<1> QED
  BY <1>1, <1>2, <1>3, InitIndex, PTL DEF Spec

-----------------------------------------------------------------------------
(* References *)

\* A stub that has a name is that of the library function it stands for.
LEMMA StubsAre ==
  ASSUME StubsTrue(image), NEW a \in DOMAIN Stubs
  PROVE  a \in DOMAIN image.libs /\ Stubs[a] = image.libs[a]
<1> DEFINE slots == {t \in UNION {{[addr |-> s.addr + i * s.each, at |-> s.first + i + 1] :
                                     i \in 0..(s.size \div s.each - 1)} :
                                   s \in {t \in image.stubs : t.each > 0 /\ t.size > 0}} :
                       t.at \in DOMAIN image.indirect}
           symbol(t) == image.indirect[t.at] + 1
           named == {t \in slots : symbol(t) \in DOMAIN image.nlist
                                   /\ image.nlist[symbol(t)].name # ""}
           at == CHOOSE t \in named : t.addr = a
<1>1. Stubs = [b \in {t.addr : t \in named} |->
                 image.nlist[symbol(CHOOSE t \in named : t.addr = b)].name]
  BY Zenon DEF Stubs
<1>2. ASSUME NEW t \in named
      PROVE  t.addr \in DOMAIN image.libs /\ image.libs[t.addr] = image.nlist[symbol(t)].name
  <2>1. PICK s \in {s \in image.stubs : s.each > 0 /\ s.size > 0} :
          t \in {[addr |-> s.addr + i * s.each, at |-> s.first + i + 1] :
                   i \in 0..(s.size \div s.each - 1)}
    OBVIOUS
  <2>2. PICK i \in 0..(s.size \div s.each - 1) :
          t = [addr |-> s.addr + i * s.each, at |-> s.first + i + 1]
    BY <2>1
  <2>3. /\ s.first + i + 1 \in DOMAIN image.indirect
        /\ image.indirect[s.first + i + 1] + 1 \in DOMAIN image.nlist
        /\ image.nlist[image.indirect[s.first + i + 1] + 1].name # ""
    BY <2>2
  <2>4. s.addr + i * s.each \in DOMAIN image.libs
        /\ image.libs[s.addr + i * s.each]
             = image.nlist[image.indirect[s.first + i + 1] + 1].name
    BY <2>1, <2>3 DEF StubsTrue
  <2> QED
    BY <2>2, <2>4
<1> HIDE DEF named, symbol
<1>3. a \in {t.addr : t \in named} /\ Stubs[a] = image.nlist[symbol(at)].name
  BY <1>1
<1>4. at \in named /\ at.addr = a
  BY <1>3
<1> HIDE DEF at
<1> QED
  BY <1>2, <1>3, <1>4

\* What an object has is a function of the index or a symbol, with an extent.
LEMMA EmittedAre ==
  ASSUME IndexInv, RunInv, Truthful(image), Finished, NEW file \in Written,
         NEW d \in Range(disk[file])
  PROVE  /\ d.addr \in Nat /\ d.size \in Nat /\ d.size > 0
         /\ byUnit => d \in Functions
         /\ ~byUnit => d \in TextSymbols /\ d \in Lookup(d.name)
<1>1. image \in Images /\ Describes(image, index)
  BY DEF IndexInv, RunInv, Finished
<1>2. file \in DOMAIN manifest /\ disk[file] = Emitted(Asked(file)) /\ runs > 0
  BY DEF RunInv, FileInv, Written, Finished
<1>3. PICK k \in DOMAIN disk[file] : disk[file][k] = d
  BY DEF Range
<1>4. k \in DOMAIN Asked(file) /\ Asked(file)[k] = d /\ d.size > 0
  BY <1>2, <1>3, EmittedIs
<1>5. CASE byUnit
  <2>1. PICK l \in SplitUnits : file = File(l)
    BY <1>2, <1>5 DEF RunInv
  <2>2. Asked(file) = ByAddress(index[l].functions) /\ l \in DOMAIN index
    BY <1>1, <1>5, <2>1, UnitIs DEF Asked, SplitUnits
  <2>3. d \in Sized(index[l].functions)
    BY <1>1, <1>4, <2>2, UnitLists DEF Sized
  <2> QED
    BY <1>1, <1>4, <1>5, <2>2, <2>3, FunctionsAre
<1>6. CASE ~byUnit
  <2>1. Asked(file) = Resolved(json[file])
    BY <1>6 DEF Asked
  <2>2. d \in Lookup(json[file][k])
    BY <1>1, <1>4, <2>1, ResolvedIs
  <2>3. d \in TextSymbols /\ d.name = json[file][k] /\ d.addr \in Nat
    BY <1>1, <2>2, LooksUp
  <2>4. d.size \in Nat
    <3>1. d.addr \in Tabled(image) /\ d.size = Distance(d.addr, Tabled(image))
      BY <1>1, <2>3, TextSymbolsAre
    <3>2. Tabled(image) \subseteq Nat
      BY <1>1, TableTyped
    <3> QED
      BY <3>1, <3>2, DistanceIs
  <2> QED
    BY <1>4, <1>6, <2>2, <2>3, <2>4
<1> QED
  BY <1>5, <1>6

\* A reference is bound to such a function, or to data by a name of data.
LEMMA BoundAre ==
  ASSUME NEW file \in Written, NEW caller, NEW name, NEW d \in Bound(file, caller, name)
  PROVE  d.name = name /\ (name \in DataNames \/ \E g \in Written : d \in Range(disk[g]))
<1>1. ASSUME NEW g \in Written, d \in ObjectDefs(g), d.name = name
      PROVE  name \in DataNames \/ d \in Range(disk[g])
  <2> SUFFICES ASSUME d \notin Range(disk[g]) PROVE name \in DataNames
    OBVIOUS
  <2>1. PICK f \in Range(disk[g]) : d \in Labels(f)
    BY <1>1 DEF ObjectDefs
  <2>2. PICK v \in Variables : d.name = v.name
    BY <2>1 DEF Labels
  <2> QED
    BY <1>1, <2>2 DEF DataNames
<1>2. ASSUME d \in SharedDefs, d.name = name PROVE name \in DataNames
  <2>1. CASE \E s \in DOMAIN Data : d.name = StartName(s)
    BY <1>2, <2>1 DEF DataNames
  <2>2. CASE \E v \in Variables : d.name = v.name
    BY <1>2, <2>2 DEF DataNames
  <2> QED
    BY <1>2, <2>1, <2>2 DEF SharedDefs
<1>3. CASE d \in Local(file, caller, name)
  <2>1. d \in ObjectDefs(file) /\ d.name = name
    BY <1>3 DEF Local
  <2> QED
    BY <1>1, <2>1
<1>4. CASE d \in External(name)
  <2>1. d.name = name /\ (d \in SharedDefs \/ \E g \in Written : d \in ObjectDefs(g))
    BY <1>4 DEF External
  <2> QED
    BY <1>1, <1>2, <2>1
<1> QED
  BY <1>3, <1>4 DEF Bound

\* What has the name of a function of the index is at its address and as large.
LEMMA NameTells ==
  ASSUME IndexInv, RunInv, Truthful(image), NamesTell, Finished, NEW file \in Written,
         NEW d \in Range(disk[file]), NEW f \in Functions, d.name = f.name
  PROVE  d.addr = f.addr /\ d.size >= f.size /\ d.size \in Nat /\ f.size \in Nat /\ f.addr \in Nat
<1>1. Describes(image, index)
  BY DEF IndexInv, RunInv, Finished
<1>2. f.size \in Nat /\ f.addr \in Nat
  BY <1>1, FunctionsAre DEF SplitUnits
<1>3. d.size \in Nat /\ d.size > 0
  BY EmittedAre
<1>4. CASE byUnit
  <2>1. d \in Functions
    BY <1>4, EmittedAre
  <2>2. d.addr = f.addr
    BY <2>1 DEF NamesTell
  <2>3. d = f
    BY <1>1, <2>1, <2>2, FunctionsAre DEF SplitUnits
  <2> QED
    BY <1>2, <2>3
<1>5. CASE ~byUnit
  <2>1. d \in Lookup(f.name)
    BY <1>5, EmittedAre
  <2> QED
    BY <1>2, <1>3, <2>1 DEF NamesTell
<1> QED
  BY <1>4, <1>5

\* If all was written, every function of the index was, under its name.
LEMMA FunctionWritten ==
  ASSUME IndexInv, RunInv, Truthful(image), NamesTell, Finished, "failed" \notin Range(manifest),
         byUnit \/ TableServes, NEW f \in Functions
  PROVE  \E file \in Written : \E d \in Range(disk[file]) : d.name = f.name
<1>1. image \in Images /\ Describes(image, index)
  BY DEF IndexInv, RunInv, Finished
<1>2. PICK c \in image.code : c.addr = f.addr
  BY DEF NamesTell
<1>3. Covered
  BY UnitsCover, ListCovers
<1>4. Cardinality(Places(f.addr)) = 1
  BY <1>2, <1>3 DEF Covered
<1>5. Places(f.addr) # {}
  BY <1>4, FS_EmptySet
<1>6. PICK file \in Written : \E k \in DOMAIN disk[file] : disk[file][k].addr = f.addr
  BY <1>5, PlacesAre
<1>7. PICK k \in DOMAIN disk[file] : disk[file][k].addr = f.addr
  BY <1>6
<1> DEFINE d == disk[file][k]
<1>8. d \in Range(disk[file])
  BY DEF Range
<1> HIDE DEF d
<1>9. d.addr = f.addr
  BY <1>7 DEF d
<1>10. CASE byUnit
  <2>1. d \in Functions
    BY <1>8, <1>10, EmittedAre
  <2>2. d = f
    BY <1>1, <1>9, <2>1, FunctionsAre DEF SplitUnits
  <2> QED
    BY <1>8, <2>2
<1>11. CASE ~byUnit
  <2>1. PICK s \in Lookup(f.name) : s.addr = f.addr
    BY <1>11 DEF TableServes
  <2>2. s \in TextSymbols /\ s.name = f.name
    BY <1>1, LooksUp
  <2>3. d \in TextSymbols
    BY <1>8, <1>11, EmittedAre
  <2>4. d = s
    BY <1>1, <1>9, <2>1, <2>2, <2>3, TextSymbolsAre
  <2> QED
    BY <1>8, <2>2, <2>4
<1> QED
  BY <1>10, <1>11

\* A relocation arrives where its addend counts from the definition.
LEMMA StoredArrives ==
  ASSUME NEW d, d.addr \in Nat, NEW target \in Nat
  PROVE  Arrives(d, Stored(target - d.addr)) = target
<1>1. Width \in Nat
  BY MachoAssumption
<1> QED
  BY <1>1 DEF Arrives, Stored

\* A branch to a function of the index.
LEMMA FunctionReached ==
  ASSUME IndexInv, RunInv, Truthful(image), StubsTrue(image), NamesTell, Finished,
         NEW file \in Written, NEW caller, NEW f \in Functions, NEW target \in Nat,
         In(target, f.addr, f.size)
  PROVE  LET bound == Bound(file, caller, f.name)
         IN  /\ \A d \in bound : /\ Arrives(d, Stored(target - f.addr)) = target
                                /\ In(target, d.addr, d.size)
             /\ target \notin DOMAIN image.libs
             /\ bound = {} => \/ "failed" \in Range(manifest)
                              \/ ~byUnit /\ ~TableServes
                              \/ \E g \in Written : \E d \in Range(disk[g]) :
                                   In(target, d.addr, d.size) /\ ~d.external
<1> DEFINE bound == Bound(file, caller, f.name)
<1>1. image \in Images /\ Describes(image, index)
  BY DEF IndexInv, RunInv, Finished
<1>2. \A g \in Written : \A d \in Range(disk[g]) : d.name = f.name =>
        d.addr = f.addr /\ d.addr \in Nat /\ In(target, d.addr, d.size)
  <2> SUFFICES ASSUME NEW g \in Written, NEW d \in Range(disk[g]), d.name = f.name
               PROVE  d.addr = f.addr /\ d.addr \in Nat /\ In(target, d.addr, d.size)
    OBVIOUS
  <2>1. d.addr = f.addr /\ d.size >= f.size /\ d.size \in Nat /\ f.size \in Nat /\ f.addr \in Nat
    BY NameTells
  <2>2. target >= f.addr /\ target < f.addr + f.size
    BY DEF In
  <2> QED
    BY <2>1, <2>2 DEF In
<1>3. \A d \in bound : /\ Arrives(d, Stored(target - f.addr)) = target
                       /\ In(target, d.addr, d.size)
  <2> SUFFICES ASSUME NEW d \in bound
               PROVE  /\ Arrives(d, Stored(target - f.addr)) = target
                      /\ In(target, d.addr, d.size)
    OBVIOUS
  <2>1. f.name \notin DataNames
    BY DEF NamesTell
  <2>2. d.name = f.name /\ \E g \in Written : d \in Range(disk[g])
    BY <2>1, BoundAre
  <2>3. d.addr = f.addr /\ d.addr \in Nat /\ In(target, d.addr, d.size)
    BY <1>2, <2>2
  <2>4. Arrives(d, Stored(target - d.addr)) = target
    BY <2>3, StoredArrives
  <2> QED
    BY <2>3, <2>4
<1>4. target \notin DOMAIN image.libs
  <2>1. PICK c \in image.code : c.addr = f.addr
    BY DEF NamesTell
  <2>2. PICK k \in SplitUnits : f \in Sized(index[k].functions)
    BY <1>1, FunctionsAre
  <2>3. f.size \in Nat /\ f.size > 0 /\ f.addr \in Nat /\ k \in DOMAIN index
    BY <1>1, <2>2, FunctionsAre DEF SplitUnits
  <2>4. Whole(image, c, f.size)
    BY <1>1, <2>1, <2>2, <2>3 DEF Describes
  <2>5. InText(f.addr) /\ f.addr + f.size <= Text.hi
    BY <1>1, <2>1, <2>3, <2>4, WholeInText
  <2>6. Text.lo \in Nat /\ Text.hi \in Nat
    BY MachoAssumption
  <2>7. InText(target)
    BY <2>3, <2>5, <2>6 DEF InText, In
  <2> QED
    BY <2>7 DEF StubsTrue
<1>5. ASSUME bound = {}, "failed" \notin Range(manifest), byUnit \/ TableServes
      PROVE  \E g \in Written : \E d \in Range(disk[g]) :
               In(target, d.addr, d.size) /\ ~d.external
  <2>1. PICK g \in Written : \E d \in Range(disk[g]) : d.name = f.name
    BY <1>5, FunctionWritten
  <2>2. PICK d \in Range(disk[g]) : d.name = f.name
    BY <2>1
  <2>3. External(f.name) = {}
    BY <1>5 DEF Bound
  <2>4. d \in ObjectDefs(g)
    BY DEF ObjectDefs
  <2>5. ~d.external
    BY <2>2, <2>3, <2>4 DEF External
  <2> QED
    BY <1>2, <2>2, <2>5
<1> QED
  BY <1>3, <1>4, <1>5

\* A branch to a stub: nothing in the program has its name.
LEMMA StubReached ==
  ASSUME IndexInv, RunInv, Truthful(image), StubsTrue(image), NamesTell, Finished,
         NEW file \in Written, NEW caller, NEW target \in DOMAIN Stubs
  PROVE  /\ target \in DOMAIN image.libs /\ Stubs[target] = image.libs[target]
         /\ Bound(file, caller, Stubs[target]) = {}
<1>1. target \in DOMAIN image.libs /\ Stubs[target] = image.libs[target]
  BY StubsAre
<1>2. /\ \A f \in Functions \cup TextSymbols : f.name # Stubs[target]
      /\ Stubs[target] \notin DataNames
  BY <1>1 DEF NamesTell
<1>3. ASSUME NEW g \in Written, NEW d \in Range(disk[g]) PROVE d.name # Stubs[target]
  BY <1>2, EmittedAre
<1>4. ASSUME NEW d \in Bound(file, caller, Stubs[target]) PROVE FALSE
  BY <1>2, <1>3, BoundAre
<1> QED
  BY <1>1, <1>4

LEMMA AllReach ==
  ASSUME IndexInv, RunInv, Truthful(image), StubsTrue(image), NamesTell
  PROVE  ReferencesReach
<1> SUFFICES ASSUME Finished, NEW file \in Written, NEW caller \in Range(disk[file]),
                    NEW b \in Branches(caller), NEW ans \in ResolveCode(b.target)
             PROVE  LET bound == Bound(file, caller, ans.name)
                    IN  /\ \A d \in bound : /\ Arrives(d, Stored(ans.addend)) = b.target
                                           /\ In(b.target, d.addr, d.size)
                        /\ b.target \in DOMAIN image.libs => ans.name = image.libs[b.target]
                        /\ bound = {} /\ b.target \notin DOMAIN image.libs
                             => \/ "failed" \in Range(manifest)
                                \/ ~byUnit /\ ~TableServes
                                \/ \E g \in Written : \E d \in Range(disk[g]) :
                                     In(b.target, d.addr, d.size) /\ ~d.external
  BY DEF ReferencesReach
<1>1. b.target \in Nat
  <2>1. b \in image.branches
    BY DEF Branches
  <2>2. image \in Images
    BY DEF IndexInv
  <2>3. image.branches \subseteq [at : Nat, target : Nat]
    BY <2>2, MachoAssumption
  <2> QED
    BY <2>1, <2>3
<1>2. CASE \E f \in Functions : /\ In(b.target, f.addr, f.size)
                                /\ ans = [name |-> f.name, addend |-> b.target - f.addr]
  <2>1. PICK f \in Functions : /\ In(b.target, f.addr, f.size)
                               /\ ans = [name |-> f.name, addend |-> b.target - f.addr]
    BY <1>2
  <2>2. ans.name = f.name /\ ans.addend = b.target - f.addr
    BY <2>1
  <2> DEFINE target == b.target
             all == Bound(file, caller, f.name)
             stored == Stored(target - f.addr)
             lost == \/ "failed" \in Range(manifest)
                     \/ ~byUnit /\ ~TableServes
                     \/ \E g \in Written : \E d \in Range(disk[g]) :
                          In(target, d.addr, d.size) /\ ~d.external
  <2> HIDE DEF target
  <2>3. target \in Nat /\ In(target, f.addr, f.size)
    BY <1>1, <2>1 DEF target
  <2>4. /\ \A d \in all : Arrives(d, stored) = target /\ In(target, d.addr, d.size)
        /\ target \notin DOMAIN image.libs
        /\ all = {} => lost
    BY <2>3, FunctionReached
  <2>5. Bound(file, caller, ans.name) = all /\ Stored(ans.addend) = stored
    BY <2>2 DEF target
  <2> HIDE DEF all, stored, lost
  <2>6. \A d \in Bound(file, caller, ans.name) :
          Arrives(d, Stored(ans.addend)) = target /\ In(target, d.addr, d.size)
    BY <2>4, <2>5
  <2>7. Bound(file, caller, ans.name) = {} => lost
    BY <2>4, <2>5
  <2> QED
    BY <2>4, <2>6, <2>7 DEF target, lost
<1>3. CASE b.target \in DOMAIN Stubs /\ ans.name = Stubs[b.target]
  BY <1>3, StubReached
<1> QED
  BY <1>2, <1>3 DEF ResolveCode, Floor

\* A branch that is relocated arrives where it did, or at the library function, for
\* any program that is described truthfully and in which a name of a function is
\* that of one address, whatever could not be written and whatever careful edits the
\* grouping went through.
THEOREM ReferencesArrive ==
  Spec /\ [][CarefulEdit]_vars =>
    [](Truthful(image) /\ StubsTrue(image) /\ NamesTell => ReferencesReach)
<1>1. Init => RunInv
  BY DEF Init, None, RunInv, ListInv
<1>2. IndexInv /\ RunInv /\ [Next]_vars /\ [CarefulEdit]_vars => IndexInv' /\ RunInv'
  BY StepIndex, StepRun
<1>3. IndexInv /\ RunInv =>
        (Truthful(image) /\ StubsTrue(image) /\ NamesTell => ReferencesReach)
  BY AllReach
<1> QED
  BY <1>1, <1>2, <1>3, InitIndex, PTL DEF Spec
=============================================================================
