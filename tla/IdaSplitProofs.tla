--------------------------- MODULE IdaSplitProofs ---------------------------
(***************************************************************************)
(* The files of `delink ida-split' over any number of runs: what a         *)
(* rejected grouping leaves alone, what becomes of __shared_data, and that *)
(* the summary is true; for these the contents of the objects are left     *)
(* open.  Then what the objects contain: the sections of IdaGroups take an *)
(* orderly image apart without a byte lost or kept twice, and branches,    *)
(* switches and pointers land where they went.                             *)
(***************************************************************************)
EXTENDS IdaSplit, FiniteSetTheorems, NaturalsInduction, WellFoundedInduction, TLAPS

\* A user gives finitely many objects, none of them one of delink's own.
OwnFiles(gs) ==
  /\ IsFiniteSet(DOMAIN gs)
  /\ SharedFile \notin DOMAIN gs /\ ExceptFile \notin DOMAIN gs

RangesTyped(gs) ==
  \A k \in DOMAIN gs : /\ gs[k].code \subseteq Interval
                       /\ gs[k].data \subseteq [class : DataClasses, start : Nat, end : Nat]

FilesApart ==
  \A img \in Models :
    /\ IsFiniteSet(img.functions)
    /\ \A gs \in Groupings(img) : OwnFiles(gs)

Untouched == pc = "grouped" => disk = before

CheckedFirst == pc \in {"split", "done"} => Accepted(model, groups)

SharedHeld ==
  pc \in {"split", "done"} =>
    IF Nothing(SharedObject(model, groups)) THEN SharedFile \notin DOMAIN disk
    ELSE SharedFile \in DOMAIN disk /\ disk[SharedFile] = SharedObject(model, groups)

ObjectsHeld ==
  pc \in {"split", "done"} => \A k \in DOMAIN phase :
    phase[k] = "ok" => k \in DOMAIN disk /\ disk[k] = ObjectOf(model, groups, k)

Counted ==
  pc = "done" =>
    AllDone /\ failures = Cardinality({k \in DOMAIN phase : phase[k] = "err"})

AllWorked ==
  pc \in {"split", "done"} => \A k \in DOMAIN groups : ~Empty(groups[k]) => k \in DOMAIN phase

IInv ==
  /\ model \in Models /\ RangesTyped(groups) /\ AllWorked
  /\ OwnFiles(groups) /\ DOMAIN phase \subseteq DOMAIN groups
  /\ Untouched /\ RejectedTouchesNothing /\ CheckedFirst
  /\ SharedHeld /\ ObjectsHeld /\ Counted

-----------------------------------------------------------------------------

\* Reserved names differ from one another and from every function's.
LEMMA GeneratedApart ==
  ASSUME NEW img, IsFiniteSet(img.functions)
  PROVE  OwnFiles(Generate(img))
<1> DEFINE files  == {FunctionSymbol(img, f) : f \in img.functions}
           fileOf == [f \in img.functions |-> FunctionSymbol(img, f)]
<1>1. fileOf \in Surjection(img.functions, files)
  BY DEF Surjection
<1>2. IsFiniteSet(files)
  <2> HIDE DEF files, fileOf
  <2> QED
    BY <1>1, FS_Surjection
<1>3. SharedFile \notin files /\ ExceptFile \notin files
  BY DEF SharedFile, ExceptFile, FunctionSymbol, LinkName, Named
<1>4. DOMAIN Generate(img) = files
  BY DEF Generate
<1> QED
  BY <1>2, <1>3, <1>4 DEF OwnFiles

LEMMA GroupingTyped ==
  ASSUME NEW img \in Models, NEW gs \in Groupings(img) \cup {Generate(img)}
  PROVE  RangesTyped(gs)
<1>1. CASE gs \in Groupings(img)
  BY <1>1, IdaAssumption DEF RangesTyped, Group
<1>2. CASE gs = Generate(img)
  BY <1>2 DEF RangesTyped, Generate
<1> QED
  BY <1>1, <1>2

LEMMA InitInv == Init => IInv
<1> SUFFICES ASSUME Init PROVE IInv
  OBVIOUS
<1>1. DOMAIN <<>> = {}
  OBVIOUS
<1>2. OwnFiles(<<>>)
  BY <1>1, FS_EmptySet DEF OwnFiles
<1> QED
  BY <1>1, <1>2 DEF Init, IInv, Untouched, RejectedTouchesNothing, CheckedFirst,
     SharedHeld, ObjectsHeld, Counted, RangesTyped, AllWorked

\* A worker that writes its object, or fails to, harms no other file.
LEMMA WorkerInv ==
  ASSUME IInv, NEW k \in DOMAIN phase, Emit(k) \/ EmitFails(k)
  PROVE  IInv'
<1>1. /\ pc = "split" /\ phase[k] = "todo"
      /\ UNCHANGED <<model, pc, runs, groups, failures, before>>
  BY DEF Emit, EmitFails
<1>2. DOMAIN phase' = DOMAIN phase /\ \A j \in DOMAIN phase : j # k => phase'[j] = phase[j]
  BY DEF Emit, EmitFails
<1>3. k # SharedFile
  BY DEF IInv, OwnFiles
<1>4. /\ \A p \in DOMAIN disk : p # k => p \in DOMAIN disk' /\ disk'[p] = disk[p]
      /\ SharedFile \in DOMAIN disk' => SharedFile \in DOMAIN disk
  <2>1. CASE disk' = disk
    BY <2>1
  <2>2. ASSUME NEW object, disk' = Written(k, object)
        PROVE  /\ \A p \in DOMAIN disk : p # k => p \in DOMAIN disk' /\ disk'[p] = disk[p]
               /\ SharedFile \in DOMAIN disk' => SharedFile \in DOMAIN disk
    BY <2>2, <1>3 DEF Written
  <2>3. disk' = disk \/ \E object : disk' = Written(k, object)
    BY DEF Emit, EmitFails
  <2> QED
    BY <2>1, <2>2, <2>3
<1>5. phase'[k] = "ok" => k \in DOMAIN disk' /\ disk'[k] = ObjectOf(model, groups, k)
  <2>1. CASE Emit(k)
    BY <2>1 DEF Emit, Written
  <2>2. CASE EmitFails(k)
    BY <2>2 DEF EmitFails
  <2> QED
    BY <2>1, <2>2
<1>6. SharedHeld'
  BY <1>1, <1>3, <1>4 DEF IInv, SharedHeld
<1>7. ObjectsHeld'
  BY <1>1, <1>2, <1>4, <1>5 DEF IInv, ObjectsHeld
<1> QED
  BY <1>1, <1>2, <1>6, <1>7 DEF IInv, OwnFiles, Untouched, RejectedTouchesNothing,
     CheckedFirst, Counted, AllWorked

LEMMA StepInv ==
  ASSUME FilesApart, IInv, [Next]_vars
  PROVE  IInv'
<1> USE DEF OwnFiles, Untouched, RejectedTouchesNothing, CheckedFirst, AllWorked
<1>1. CASE Start
  <2>1. OwnFiles(groups')
    BY <1>1, GeneratedApart DEF Start, IInv, FilesApart
  <2>2. DOMAIN phase' = {}
    BY <1>1 DEF Start
  <2>3. RangesTyped(groups)'
    BY <1>1, GroupingTyped DEF Start, IInv
  <2> QED
    BY <1>1, <2>1, <2>2, <2>3 DEF Start, IInv, SharedHeld, ObjectsHeld, Counted
<1>2. CASE Reject
  BY <1>2 DEF Reject, IInv, SharedHeld, ObjectsHeld, Counted
<1>3. CASE Share
  <2>1. /\ pc' = "split" /\ Accepted(model, groups)
        /\ UNCHANGED <<model, runs, groups, failures, before>>
    BY <1>3 DEF Share
  <2>2. /\ DOMAIN phase' = {k \in DOMAIN groups : ~Empty(groups[k])}
        /\ \A k \in DOMAIN phase' : phase'[k] = "todo"
    BY <1>3 DEF Share
  <2>3. SharedHeld'
    <3>1. CASE Nothing(SharedObject(model, groups))
      BY <1>3, <2>1, <3>1 DEF Share, SharedHeld, Removed
    <3>2. CASE ~Nothing(SharedObject(model, groups))
      BY <1>3, <2>1, <3>2 DEF Share, SharedHeld, Written
    <3> QED
      BY <3>1, <3>2
  <2> QED
    BY <2>1, <2>2, <2>3 DEF IInv, ObjectsHeld, Counted
<1>4. CASE ShareFails
  BY <1>4 DEF ShareFails, IInv, SharedHeld, ObjectsHeld, Counted
<1>5. CASE Report
  <2>1. /\ pc = "split" /\ pc' = "done" /\ AllDone
        /\ failures' = Cardinality({k \in DOMAIN phase : phase[k] = "err"})
        /\ UNCHANGED <<model, runs, groups, phase, before>>
    BY <1>5 DEF Report
  <2>2. /\ SharedFile # ExceptFile
        /\ \A p \in DOMAIN disk : p # ExceptFile => p \in DOMAIN disk' /\ disk'[p] = disk[p]
        /\ \A p \in DOMAIN disk' : p # ExceptFile => p \in DOMAIN disk
    <3>1. disk' = disk \/ disk' = Written(ExceptFile, ExceptObject)
      BY <1>5 DEF Report
    <3>2. SharedFile # ExceptFile
      BY DEF SharedFile, ExceptFile
    <3> QED
      BY <3>1, <3>2 DEF Written
  <2>3. SharedHeld'
    BY <2>1, <2>2 DEF IInv, SharedHeld
  <2>4. ObjectsHeld'
    BY <2>1, <2>2 DEF IInv, ObjectsHeld
  <2> QED
    BY <2>1, <2>3, <2>4 DEF IInv, Counted, AllDone
<1>6. CASE ReportFails
  BY <1>6 DEF ReportFails, IInv, SharedHeld, ObjectsHeld, Counted
<1>7. CASE \E k \in DOMAIN phase : Emit(k) \/ EmitFails(k)
  BY <1>7, WorkerInv
<1>8. CASE Again
  BY <1>8 DEF Again, IInv, SharedHeld, ObjectsHeld, Counted
<1>9. CASE UNCHANGED vars
  BY <1>9 DEF vars, IInv, SharedHeld, ObjectsHeld, Counted, AllDone
<1> QED
  BY <1>1, <1>2, <1>3, <1>4, <1>5, <1>6, <1>7, <1>8, <1>9 DEF Next, Run, Finished

\* Every worker of a run that reports no failure is through.
LEMMA AllOk ==
  ASSUME IInv, Clean
  PROVE  \A k \in DOMAIN phase : phase[k] = "ok"
<1> DEFINE failed == {f \in DOMAIN phase : phase[f] = "err"}
<1>1. IsFiniteSet(failed) /\ Cardinality(failed) = 0
  BY FS_Subset DEF IInv, OwnFiles, Counted, Clean
<1>2. failed = {}
  <2> HIDE DEF failed
  <2> QED
    BY <1>1, FS_EmptySet
<1> QED
  BY <1>2 DEF IInv, Counted, AllDone, Clean

LEMMA CleanObjects ==
  ASSUME IInv, Clean
  PROVE  /\ \A k \in DOMAIN phase : k \in DOMAIN disk /\ disk[k] = ObjectOf(model, groups, k)
         /\ \A k \in DOMAIN groups : ~Empty(groups[k]) => k \in DOMAIN phase
  BY AllOk DEF IInv, ObjectsHeld, AllWorked, Clean

-----------------------------------------------------------------------------

\* However many runs went before, a grouping the check turns down changes no
\* object: nothing is emitted before every group has been checked.
THEOREM RejectionIsClean == FilesApart => (Spec => []RejectedTouchesNothing)
<1>1. FilesApart /\ IInv /\ [Next]_vars => IInv'
  BY StepInv
<1>2. IInv => RejectedTouchesNothing
  BY DEF IInv
<1> SUFFICES ASSUME FilesApart PROVE Spec => []RejectedTouchesNothing
  OBVIOUS
<1> QED
  BY <1>1, <1>2, InitInv, PTL DEF Spec

\* After every completed run, whatever earlier ones left and in whatever order
\* the workers wrote, __shared_data is that of the last grouping or is absent.
THEOREM SharedFollowsGrouping == FilesApart => (Spec => []SharedIsCurrent)
<1>1. FilesApart /\ IInv /\ [Next]_vars => IInv'
  BY StepInv
<1>2. IInv => SharedIsCurrent
  BY DEF IInv, SharedHeld, SharedIsCurrent
<1> SUFFICES ASSUME FilesApart PROVE Spec => []SharedIsCurrent
  OBVIOUS
<1> QED
  BY <1>1, <1>2, InitInv, PTL DEF Spec

\* A run that reports no failure has left the object of every group on disk.
THEOREM SummaryHolds == FilesApart => (Spec => []SummaryIsTrue)
<1>1. FilesApart /\ IInv /\ [Next]_vars => IInv'
  BY StepInv
<1>2. IInv => SummaryIsTrue
  BY CleanObjects DEF SummaryIsTrue
<1> SUFFICES ASSUME FilesApart PROVE Spec => []SummaryIsTrue
  OBVIOUS
<1> QED
  BY <1>1, <1>2, InitInv, PTL DEF Spec

-----------------------------------------------------------------------------
(* Runs of addresses *)

\* A nonempty set of natural numbers has a least element.
LEMMA LeastOf ==
  ASSUME NEW S, S \subseteq Nat, S # {}
  PROVE  \E m \in S : \A n \in S : m <= n
<1>1. IsWellFoundedOn(OpToRel(<, Nat), Nat)
  BY NatLessThanWellFounded
<1>2. PICK m \in S : \A n \in S : ~(<<n, m>> \in OpToRel(<, Nat))
  BY <1>1, WFMin
<1>3. \A n \in S : ~(n < m)
  BY <1>2 DEF OpToRel
<1> QED
  BY <1>3

LEMMA LeastOfTwo ==
  ASSUME NEW a \in Int, NEW b \in Int
  PROVE  Min({a, b}) = IF a <= b THEN a ELSE b
<1> DEFINE m == IF a <= b THEN a ELSE b
<1>1. m \in {a, b} /\ \A y \in {a, b} : m =< y
  OBVIOUS
<1>2. \A x \in {a, b} : (\A y \in {a, b} : x =< y) => x = m
  OBVIOUS
<1> QED
  BY <1>1, <1>2 DEF Min

\* The greatest of bounded numbers is one of them and above them all.
LEMMA GreatestOf ==
  ASSUME NEW S, S \subseteq Nat, S # {}, NEW top \in Nat, \A x \in S : x <= top
  PROVE  Max(S) \in S /\ \A x \in S : x <= Max(S)
<1> DEFINE Below == {top - x : x \in S}
<1>1. Below \subseteq Nat /\ Below # {}
  OBVIOUS
<1>2. PICK d \in Below : \A n \in Below : d <= n
  BY <1>1, LeastOf
<1>3. PICK m \in S : d = top - m
  OBVIOUS
<1>4. \A x \in S : x <= m
  <2> SUFFICES ASSUME NEW x \in S PROVE x <= m
    OBVIOUS
  <2>1. top - m <= top - x
    BY <1>2, <1>3
  <2> QED
    BY <2>1
<1>5. \E x \in S : \A y \in S : x >= y
  BY <1>4
<1> QED
  BY <1>5 DEF Max

\* Every address of a set lies in one of its runs.
LEMMA RunsCover ==
  ASSUME NEW S, S \subseteq Nat, NEW a \in S
  PROVE  \E run \in Runs(S) : a \in run
<1> DEFINE Froms == {b \in Nat : b..a \subseteq S}
<1>1. a \in Froms
  OBVIOUS
<1>2. PICK m \in Froms : \A n \in Froms : m <= n
  BY <1>1, LeastOf
<1>3. m <= a /\ m \in S
  BY <1>1, <1>2
<1>4. m - 1 \notin S
  <2> SUFFICES ASSUME m - 1 \in S PROVE FALSE
    OBVIOUS
  <2>1. m - 1 \in Nat
    OBVIOUS
  <2>2. \A x \in (m - 1)..a : x \in S
    <3> SUFFICES ASSUME NEW x \in (m - 1)..a PROVE x \in S
      OBVIOUS
    <3>1. x = m - 1 \/ x \in m..a
      BY <1>3, <2>1
    <3> QED
      BY <3>1
  <2>3. m - 1 \in Froms
    BY <2>1, <2>2
  <2>4. m <= m - 1
    BY <1>2, <2>3
  <2> QED
    BY <2>4
<1>5. a \in {b \in S : m <= b /\ m..b \subseteq S}
  BY <1>3
<1> QED
  BY <1>3, <1>4, <1>5 DEF Runs

LEMMA RunsWithin ==
  ASSUME NEW S, NEW run \in Runs(S) PROVE run \subseteq S
  BY DEF Runs

\* And in no other.
LEMMA RunsApart ==
  ASSUME NEW S, S \subseteq Nat, NEW r1 \in Runs(S), NEW r2 \in Runs(S),
         NEW a, a \in r1, a \in r2
  PROVE  r1 = r2
<1>1. PICK m \in S : m - 1 \notin S /\ r1 = {b \in S : m <= b /\ m..b \subseteq S}
  BY DEF Runs
<1>2. PICK n \in S : n - 1 \notin S /\ r2 = {b \in S : n <= b /\ n..b \subseteq S}
  BY DEF Runs
<1>3. m \in Nat /\ n \in Nat /\ a \in Nat
  BY <1>1
<1>4. m <= a /\ n <= a /\ m..a \subseteq S /\ n..a \subseteq S
  BY <1>1, <1>2
<1>5. ~(m < n)
  <2> SUFFICES ASSUME m < n PROVE FALSE
    OBVIOUS
  <2>1. n - 1 \in m..a
    BY <1>3, <1>4
  <2> QED
    BY <2>1, <1>2, <1>4
<1>6. ~(n < m)
  <2> SUFFICES ASSUME n < m PROVE FALSE
    OBVIOUS
  <2>1. m - 1 \in n..a
    BY <1>3, <1>4
  <2> QED
    BY <2>1, <1>1, <1>4
<1>7. m = n
  BY <1>3, <1>5, <1>6
<1> QED
  BY <1>1, <1>2, <1>7

\* A run that holds the first address of a stretch of the set holds it all.
LEMMA RunsWhole ==
  ASSUME NEW S, S \subseteq Nat, NEW run \in Runs(S), NEW lo \in Nat, NEW hi \in Int,
         lo \in run, lo..hi \subseteq S
  PROVE  lo..hi \subseteq run
<1>1. PICK m \in S : run = {b \in S : m <= b /\ m..b \subseteq S}
  BY DEF Runs
<1>2. m \in Nat /\ m <= lo /\ m..lo \subseteq S
  BY <1>1
<1> SUFFICES ASSUME NEW b \in lo..hi PROVE b \in run
  OBVIOUS
<1>3. b \in S /\ b \in Nat /\ m <= b
  BY <1>2
<1>4. \A x \in m..b : x \in S
  <2> SUFFICES ASSUME NEW x \in m..b PROVE x \in S
    OBVIOUS
  <2>1. x \in m..lo \/ x \in lo..hi
    BY <1>2
  <2> QED
    BY <1>2, <2>1
<1> QED
  BY <1>1, <1>3, <1>4

-----------------------------------------------------------------------------
(* Where the bytes of an image are *)

\* What the check lets through, of an orderly image, under a careful grouping.
Proper(img, gs) ==
  /\ Loadable(img) /\ Orderly(img)
  /\ RangesTyped(gs) /\ Careful(img, gs) /\ Accepted(img, gs)

LEMMA ImageTypes ==
  ASSUME NEW img, Loadable(img)
  PROVE  /\ \A s \in img.sections : /\ s.start \in Nat /\ s.end \in Nat /\ s.stop \in Nat
         /\ \A f \in img.functions : f.start \in Nat /\ f.end \in Nat /\ f.start < f.end
         /\ \A t \in img.tables : t.start \in Nat /\ t.end \in Nat
<1>1. img \in Model
  BY DEF Loadable
<1>2. /\ img.sections \subseteq Section /\ img.functions \subseteq Function
      /\ img.tables \subseteq Table
  BY <1>1 DEF Model
<1>3. \A s \in Section : s.start \in Nat /\ s.end \in Nat /\ s.stop \in Nat
  BY DEF Section
<1>4. \A f \in Function : f.start \in Nat /\ f.end \in Nat
  BY DEF Function
<1>5. \A t \in Table : t.start \in Nat /\ t.end \in Nat
  BY DEF Table
<1>6. \A f \in img.functions : f.start < f.end
  BY DEF Loadable
<1> QED
  BY <1>2, <1>3, <1>4, <1>5, <1>6

LEMMA RangeTypes ==
  ASSUME NEW gs, RangesTyped(gs), NEW k \in DOMAIN gs
  PROVE  /\ \A r \in gs[k].code : r.start \in Nat /\ r.end \in Nat
         /\ \A r \in gs[k].data : r.start \in Nat /\ r.end \in Nat /\ r.class \in DataClasses
<1>1. \A r \in Interval : r.start \in Nat /\ r.end \in Nat
  BY DEF Interval
<1>2. \A r \in [class : DataClasses, start : Nat, end : Nat] :
        r.start \in Nat /\ r.end \in Nat /\ r.class \in DataClasses
  OBVIOUS
<1> QED
  BY <1>1, <1>2 DEF RangesTyped

\* An address is in one segment.
LEMMA OneSegment ==
  ASSUME NEW img, Loadable(img), Orderly(img),
         NEW s \in img.sections, NEW t \in img.sections, NEW a, a \in Bytes(s), a \in Bytes(t)
  PROVE  s = t
<1>1. /\ s.start \in Nat /\ s.end \in Nat /\ t.start \in Nat /\ t.end \in Nat
  BY ImageTypes
<1>2. Overlap(s, t)
  BY <1>1 DEF Bytes, Overlap
<1> QED
  BY <1>2 DEF Orderly

LEMMA SegmentFound ==
  ASSUME NEW img, Loadable(img), Orderly(img),
         NEW s \in img.sections, NEW a, a \in Bytes(s)
  PROVE  SectionAt(img, a) = s
<1>1. \E t \in img.sections : a \in Bytes(t)
  OBVIOUS
<1>2. \A t \in img.sections : a \in Bytes(t) => t = s
  BY OneSegment
<1> QED
  BY <1>1, <1>2 DEF SectionAt

\* Where a range of a segment ends in the binary.
LEMMA RangeEnds ==
  ASSUME NEW img, Loadable(img), Orderly(img), NEW s \in img.sections,
         NEW r, r.start \in Nat, r.end \in Nat,
         s.start <= r.start, r.start < r.end, r.end <= s.end
  PROVE  VirtualEnd(img, r) = IF r.end <= s.stop THEN r.end ELSE s.stop
<1>1. /\ s.start \in Nat /\ s.end \in Nat /\ s.stop \in Nat /\ img.shift = 0
  BY ImageTypes DEF Orderly
<1>2. r.start \in Bytes(s)
  BY <1>1 DEF Bytes
<1>3. SectionAt(img, r.start) = s
  BY <1>2, SegmentFound
<1>4. VirtualEnd(img, r) = Min({r.end, s.stop})
  <2>1. SectionAt(img, r.start).stop - img.shift = s.stop
    BY <1>1, <1>3
  <2> QED
    BY <2>1, Zenon DEF VirtualEnd
<1> QED
  BY <1>1, <1>4, LeastOfTwo

LEMMA SegmentEnds ==
  ASSUME NEW img, Loadable(img), Orderly(img), NEW s \in img.sections
  PROVE  /\ VirtualEnd(img, s) = Min({s.end, s.stop})
         /\ Min({s.end, s.stop}) \in Nat
         /\ Min({s.end, s.stop}) <= s.end /\ Min({s.end, s.stop}) <= s.stop
<1>1. /\ s.start \in Nat /\ s.end \in Nat /\ s.stop \in Nat /\ s.start < s.end
  BY ImageTypes DEF Orderly
<1>2. VirtualEnd(img, s) = IF s.end <= s.stop THEN s.end ELSE s.stop
  BY <1>1, RangeEnds
<1>3. Min({s.end, s.stop}) = IF s.end <= s.stop THEN s.end ELSE s.stop
  BY <1>1, LeastOfTwo
<1> QED
  BY <1>1, <1>2, <1>3

\* A function and what follows it are in one segment, and the binary has them.
LEMMA BodyFacts ==
  ASSUME NEW img, Loadable(img), Orderly(img), NEW f \in img.functions
  PROVE  /\ f.start \in Nat /\ f.end \in Nat /\ f.start < f.end
         /\ EmitEnd(img, f) \in Nat /\ f.end <= EmitEnd(img, f)
         /\ \E s \in img.sections :
              /\ s.class = "code" /\ s.start <= f.start
              /\ EmitEnd(img, f) <= Min({s.end, s.stop})
         /\ Backed(img, f)
         /\ \A t \in Owns(img, f) : t.end <= EmitEnd(img, f)
<1>1. /\ f.start \in Nat /\ f.end \in Nat /\ f.start < f.end
  BY ImageTypes
<1>2. PICK s \in img.sections :
        /\ s.class = "code" /\ s.start <= f.start /\ f.end <= Min({s.end, s.stop})
        /\ \A t \in Owns(img, f) : t.end <= Min({s.end, s.stop})
  BY DEF Orderly, Owns
<1>3. /\ Min({s.end, s.stop}) \in Nat /\ Min({s.end, s.stop}) <= s.end
      /\ Min({s.end, s.stop}) <= s.stop
  BY SegmentEnds
<1>4. s.start \in Nat /\ s.end \in Nat /\ s.stop \in Nat
  BY ImageTypes
<1> DEFINE Ends == {f.end} \cup {t.end : t \in Owns(img, f)}
<1>5. Ends \subseteq Nat /\ Ends # {} /\ f.end \in Ends
  BY <1>1, ImageTypes DEF Owns, Tables
<1>6. \A e \in Ends : e <= Min({s.end, s.stop})
  BY <1>2
<1>7. EmitEnd(img, f) = Max(Ends)
  BY DEF EmitEnd
<1>8. Max(Ends) \in Ends /\ \A e \in Ends : e <= Max(Ends)
  <2> HIDE DEF Ends
  <2> QED
    BY <1>3, <1>5, <1>6, GreatestOf
<1>9. /\ EmitEnd(img, f) \in Nat /\ f.end <= EmitEnd(img, f)
      /\ EmitEnd(img, f) <= Min({s.end, s.stop})
  <2> HIDE DEF Ends
  <2> QED
    BY <1>5, <1>6, <1>7, <1>8
<1>10. SectionAt(img, f.start) = s
  <2>1. f.start \in Bytes(s)
    BY <1>1, <1>2, <1>3, <1>4 DEF Bytes
  <2> QED
    BY <2>1, SegmentFound
<1>11. Backed(img, f)
  BY <1>3, <1>4, <1>9, <1>10 DEF Backed
<1>12. \A t \in Owns(img, f) : t.end <= EmitEnd(img, f)
  BY <1>7, <1>8
<1> QED
  BY <1>1, <1>2, <1>9, <1>11, <1>12

\* The gaps leave out what is emitted.
LEMMA CoveredTaken ==
  ASSUME NEW img, Loadable(img), Orderly(img), NEW fns, fns \subseteq img.functions
  PROVE  /\ \A f \in fns : Tables(img, f) = Owns(img, f)
         /\ Covered(img, fns) = Taken(img, fns)
<1>1. ASSUME NEW f \in img.functions PROVE Tables(img, f) = Owns(img, f)
  <2>1. PICK s \in img.sections :
          /\ s.class = "code" /\ s.start <= f.start /\ f.end <= Min({s.end, s.stop})
          /\ \A t \in Tables(img, f) : t.start \in Bytes(s)
    BY DEF Orderly
  <2>2. f.start \in Bytes(s)
    <3>1. /\ f.start \in Nat /\ f.end \in Nat /\ f.start < f.end /\ s.start \in Nat /\ s.end \in Nat
      BY ImageTypes
    <3>2. Min({s.end, s.stop}) \in Nat /\ Min({s.end, s.stop}) <= s.end
      BY SegmentEnds
    <3> QED
      BY <2>1, <3>1, <3>2 DEF Bytes
  <2> QED
    BY <2>1, <2>2 DEF Owns
<1>2. \A f \in fns : f.start..(Max({f.end} \cup {t.end : t \in Tables(img, f)}) - 1) = Body(img, f)
  BY <1>1 DEF Body, EmitEnd
<1> QED
  BY <1>1, <1>2 DEF Covered, Taken

LEMMA BodyBytes ==
  ASSUME NEW img, Loadable(img), Orderly(img), NEW f \in img.functions
  PROVE  /\ f.start \in Body(img, f) /\ Bytes(f) \subseteq Body(img, f)
         /\ \A a : a \in Body(img, f) <=> a \in Nat /\ f.start <= a /\ a < EmitEnd(img, f)
<1>1. /\ f.start \in Nat /\ f.end \in Nat /\ f.start < f.end
      /\ EmitEnd(img, f) \in Nat /\ f.end <= EmitEnd(img, f)
  BY BodyFacts
<1> QED
  BY <1>1 DEF Body, Bytes

-----------------------------------------------------------------------------
(* The code of a group *)

CodeBytes(img, gs, k) ==
  Taken(img, Chosen(img, gs, k)) \cup UNION {Bytes(r) : r \in gs[k].code}

LEMMA CodeRangeFacts ==
  ASSUME NEW img, NEW gs, Proper(img, gs), NEW k \in DOMAIN gs, NEW r \in gs[k].code
  PROVE  /\ r.start \in Nat /\ r.end \in Nat /\ r.start < r.end
         /\ \E s \in img.sections : s.class = "code" /\ s.start <= r.start /\ r.end <= s.end
         /\ \A f \in img.functions : f.start < r.end /\ r.start < f.end =>
              r.start <= f.start /\ f.end <= r.end
         /\ \A f \in img.functions : Bytes(r) \cap (Body(img, f) \ Bytes(f)) # {} =>
              r.start <= f.start /\ EmitEnd(img, f) <= r.end
         /\ [file |-> k, range |-> r] \in CodeRanges(gs)
<1> DEFINE x == [file |-> k, range |-> r]
<1>1. x \in CodeRanges(gs) /\ x.range = r
  BY DEF CodeRanges
<1>2. r.start \in Nat /\ r.end \in Nat
  BY RangeTypes DEF Proper
<1>3. /\ Disjoint(CodeRanges(gs))
      /\ Contained(img, x.range, {"code"}) /\ WholeFunctions(img, x.range)
  BY <1>1 DEF Proper, Accepted, RangesValid
<1>4. r.start < r.end
  BY <1>1, <1>3 DEF Disjoint
<1>5. \E s \in img.sections : s.class = "code" /\ s.start <= r.start /\ r.end <= s.end
  BY <1>1, <1>3 DEF Contained
<1>6. \A f \in img.functions : f.start < r.end /\ r.start < f.end =>
        r.start <= f.start /\ f.end <= r.end
  BY <1>1, <1>3 DEF WholeFunctions
<1>7. \A f \in img.functions : Bytes(r) \cap (Body(img, f) \ Bytes(f)) # {} =>
        r.start <= f.start /\ EmitEnd(img, f) <= r.end
  BY <1>1 DEF Proper, Careful
<1> QED
  BY <1>1, <1>2, <1>4, <1>5, <1>6, <1>7

\* A range of code that touches a function or what follows it selects it, and
\* holds it all.
LEMMA RangeTakesWhole ==
  ASSUME NEW img, NEW gs, Proper(img, gs), NEW k \in DOMAIN gs, NEW r \in gs[k].code,
         NEW f \in img.functions, NEW a, a \in Bytes(r), a \in Body(img, f)
  PROVE  f \in Chosen(img, gs, k) /\ f.start \in Ranged(img, gs, k)
<1>1. /\ r.start \in Nat /\ r.end \in Nat /\ r.start < r.end
      /\ \A g \in img.functions : g.start < r.end /\ r.start < g.end =>
           r.start <= g.start /\ g.end <= r.end
      /\ \A g \in img.functions : Bytes(r) \cap (Body(img, g) \ Bytes(g)) # {} =>
           r.start <= g.start /\ EmitEnd(img, g) <= r.end
  BY CodeRangeFacts
<1>2. /\ f.start \in Nat /\ f.end \in Nat /\ f.start < f.end
      /\ EmitEnd(img, f) \in Nat /\ f.end <= EmitEnd(img, f)
  BY BodyFacts DEF Proper
<1>3. a \in Nat /\ r.start <= a /\ a < r.end /\ f.start <= a /\ a < EmitEnd(img, f)
  BY <1>1, <1>2 DEF Bytes, Body
<1>4. r.start <= f.start /\ f.start < r.end
  <2>1. CASE a < f.end
    BY <2>1, <1>1, <1>2, <1>3
  <2>2. CASE ~(a < f.end)
    <3>1. a \in Bytes(r) \cap (Body(img, f) \ Bytes(f))
      BY <2>2, <1>2, <1>3 DEF Bytes
    <3> QED
      BY <3>1, <1>1, <1>2, <1>3
  <2> QED
    BY <2>1, <2>2
<1>5. f \in Selected(img, r)
  BY <1>4 DEF Selected
<1>6. f.start \in Ranged(img, gs, k)
  BY <1>5 DEF Ranged
<1> QED
  BY <1>6 DEF Chosen, Starts

\* What an object takes as code is code of the image.
LEMMA CodeBytesAreCode ==
  ASSUME NEW img, NEW gs, Proper(img, gs), NEW k \in DOMAIN gs,
         NEW a, a \in CodeBytes(img, gs, k)
  PROVE  a \in Nat /\ \E s \in img.sections : s.class = "code" /\ a \in Bytes(s)
<1>1. CASE a \in Taken(img, Chosen(img, gs, k))
  <2>1. PICK f \in Chosen(img, gs, k) : a \in Body(img, f)
    BY <1>1 DEF Taken
  <2>2. f \in img.functions
    BY DEF Chosen
  <2>3. PICK s \in img.sections : s.class = "code" /\ s.start <= f.start
                                  /\ EmitEnd(img, f) <= Min({s.end, s.stop})
    BY <2>2, BodyFacts DEF Proper
  <2>4. s.start \in Nat /\ s.end \in Nat
    BY ImageTypes DEF Proper
  <2>5. Min({s.end, s.stop}) \in Nat /\ Min({s.end, s.stop}) <= s.end
    BY SegmentEnds DEF Proper
  <2>6. a \in Nat /\ f.start <= a /\ a < EmitEnd(img, f)
    BY <2>1, <2>2, BodyBytes DEF Proper
  <2>7. f.start \in Nat /\ EmitEnd(img, f) \in Nat
    BY <2>2, BodyFacts DEF Proper
  <2>8. a \in Bytes(s)
    BY <2>3, <2>4, <2>5, <2>6, <2>7 DEF Bytes
  <2> QED
    BY <2>3, <2>6, <2>8
<1>2. CASE a \notin Taken(img, Chosen(img, gs, k))
  <2>1. PICK r \in gs[k].code : a \in Bytes(r)
    BY <1>2 DEF CodeBytes
  <2>2. /\ r.start \in Nat /\ r.end \in Nat
        /\ \E s \in img.sections : s.class = "code" /\ s.start <= r.start /\ r.end <= s.end
    BY CodeRangeFacts
  <2>3. PICK s \in img.sections : s.class = "code" /\ s.start <= r.start /\ r.end <= s.end
    BY <2>2
  <2>4. s.start \in Nat /\ s.end \in Nat
    BY ImageTypes DEF Proper
  <2>5. a \in Bytes(s) /\ a \in Nat
    BY <2>1, <2>2, <2>3, <2>4 DEF Bytes
  <2> QED
    BY <2>3, <2>5
<1> QED
  BY <1>1, <1>2

\* No function is chosen for two objects.
LEMMA ChosenOnce ==
  ASSUME NEW img, NEW gs, Proper(img, gs), NEW j \in DOMAIN gs, NEW k \in DOMAIN gs, j # k
  PROVE  Chosen(img, gs, j) \cap Chosen(img, gs, k) = {}
<1> SUFFICES ASSUME NEW f, f \in Chosen(img, gs, j), f \in Chosen(img, gs, k)
             PROVE  FALSE
  OBVIOUS
<1>1. f \in img.functions /\ f.start \in Starts(img, gs, j) /\ f.start \in Starts(img, gs, k)
  BY DEF Chosen
<1>2. OneOwner(img, gs)
  BY DEF Proper, Careful
<1>3. f.start \in Ranged(img, gs, j) /\ f.start \in Ranged(img, gs, k)
  BY <1>1, <1>2 DEF OneOwner, Starts
<1>4. PICK r \in gs[j].code : \E g \in img.functions :
        g.start = f.start /\ r.start <= g.start /\ g.start < r.end
  BY <1>3 DEF Ranged, Selected
<1>5. PICK q \in gs[k].code : \E g \in img.functions :
        g.start = f.start /\ q.start <= g.start /\ g.start < q.end
  BY <1>3 DEF Ranged, Selected
<1>6. [file |-> j, range |-> r] \in CodeRanges(gs) /\ [file |-> k, range |-> q] \in CodeRanges(gs)
  BY CodeRangeFacts
<1>7. ~Overlap(r, q)
  <2>1. Disjoint(CodeRanges(gs))
    BY <1>6 DEF Proper, Accepted, RangesValid
  <2>2. [file |-> j, range |-> r] # [file |-> k, range |-> q]
    OBVIOUS
  <2>3. ~Overlap([file |-> j, range |-> r].range, [file |-> k, range |-> q].range)
    BY <1>6, <2>1, <2>2 DEF Disjoint
  <2> QED
    BY <2>3
<1>8. /\ r.start \in Nat /\ r.end \in Nat /\ q.start \in Nat /\ q.end \in Nat
      /\ f.start \in Nat
  BY <1>1, RangeTypes, ImageTypes DEF Proper
<1>9. Overlap(r, q)
  BY <1>4, <1>5, <1>8 DEF Overlap
<1> QED
  BY <1>7, <1>9

\* The code of two objects has no byte in common.
LEMMA CodeApart ==
  ASSUME NEW img, NEW gs, Proper(img, gs), NEW j \in DOMAIN gs, NEW k \in DOMAIN gs, j # k
  PROVE  CodeBytes(img, gs, j) \cap CodeBytes(img, gs, k) = {}
<1>1. ASSUME NEW m \in DOMAIN gs, NEW n \in DOMAIN gs, m # n,
             NEW a, a \in Taken(img, Chosen(img, gs, m)), a \in CodeBytes(img, gs, n)
      PROVE  FALSE
  <2>1. PICK f \in Chosen(img, gs, m) : a \in Body(img, f)
    BY <1>1 DEF Taken
  <2>2. f \in img.functions /\ f \notin Chosen(img, gs, n)
    BY <1>1, ChosenOnce DEF Chosen
  <2>3. CASE a \in Taken(img, Chosen(img, gs, n))
    <3>1. PICK g \in Chosen(img, gs, n) : a \in Body(img, g)
      BY <2>3 DEF Taken
    <3>2. g \in img.functions /\ g # f
      BY <2>2 DEF Chosen
    <3> QED
      BY <2>1, <2>2, <3>1, <3>2 DEF Proper, Orderly
  <2>4. CASE \E r \in gs[n].code : a \in Bytes(r)
    BY <2>1, <2>2, <2>4, <1>1, RangeTakesWhole
  <2> QED
    BY <2>3, <2>4, <1>1 DEF CodeBytes
<1> SUFFICES ASSUME NEW a, a \in CodeBytes(img, gs, j), a \in CodeBytes(img, gs, k)
             PROVE  FALSE
  OBVIOUS
<1>2. a \notin Taken(img, Chosen(img, gs, j)) /\ a \notin Taken(img, Chosen(img, gs, k))
  BY <1>1
<1>3. PICK r \in gs[j].code : a \in Bytes(r)
  BY <1>2 DEF CodeBytes
<1>4. PICK q \in gs[k].code : a \in Bytes(q)
  BY <1>2 DEF CodeBytes
<1> DEFINE x == [file |-> j, range |-> r]
           y == [file |-> k, range |-> q]
<1>5. x \in CodeRanges(gs) /\ y \in CodeRanges(gs) /\ x # y
  BY CodeRangeFacts
<1>6. ~Overlap(x.range, y.range)
  BY <1>5 DEF Proper, Accepted, RangesValid, Disjoint
<1>7. r.start \in Nat /\ r.end \in Nat /\ q.start \in Nat /\ q.end \in Nat
  BY RangeTypes DEF Proper
<1>8. Overlap(r, q)
  BY <1>3, <1>4, <1>7 DEF Overlap, Bytes
<1> QED
  BY <1>6, <1>8

-----------------------------------------------------------------------------
(* The sections of the objects *)

CodePiece(img, gs, k) == Piece("code", CodeBytes(img, gs, k))

RangePiece(img, r) ==
  Piece(DataKind(img, r.class, r.start), r.start..(VirtualEnd(img, r) - 1))

LEMMA GapRuns ==
  ASSUME NEW img, NEW gs, Proper(img, gs), NEW k
  PROVE  Gaps(img, gs, k) =
           UNION {Runs(Bytes(r) \ Taken(img, Chosen(img, gs, k))) : r \in gs[k].code}
<1>1. Chosen(img, gs, k) \subseteq img.functions
  BY DEF Chosen
<1>2. Covered(img, Chosen(img, gs, k)) = Taken(img, Chosen(img, gs, k))
  BY <1>1, CoveredTaken DEF Proper
<1> QED
  BY <1>2 DEF Gaps

\* The runs between the functions of a group and those functions are its code.
LEMMA CodePart ==
  ASSUME NEW img, NEW gs, Proper(img, gs), NEW k \in DOMAIN gs
  PROVE  Taken(img, {f \in Chosen(img, gs, k) : Backed(img, f)})
           \cup UNION Gaps(img, gs, k) = CodeBytes(img, gs, k)
<1> DEFINE T == Taken(img, Chosen(img, gs, k))
<1>1. {f \in Chosen(img, gs, k) : Backed(img, f)} = Chosen(img, gs, k)
  BY BodyFacts DEF Proper, Chosen
<1>6. Gaps(img, gs, k) = UNION {Runs(Bytes(r) \ T) : r \in gs[k].code}
  BY GapRuns
<1>2. ASSUME NEW a \in UNION Gaps(img, gs, k)
      PROVE  a \in CodeBytes(img, gs, k)
  <2>1. PICK r \in gs[k].code : \E run \in Runs(Bytes(r) \ T) : a \in run
    BY <1>6
  <2>2. a \in Bytes(r)
    <3> HIDE DEF T
    <3> QED
      BY <2>1, RunsWithin
  <2> QED
    BY <2>2 DEF CodeBytes
<1>3. ASSUME NEW r \in gs[k].code, NEW a \in Bytes(r), a \notin T
      PROVE  a \in UNION Gaps(img, gs, k)
  <2>1. Bytes(r) \subseteq Nat
    <3>1. r.start \in Nat /\ r.end \in Nat
      BY CodeRangeFacts
    <3> QED
      BY <3>1 DEF Bytes
  <2>2. PICK run \in Runs(Bytes(r) \ T) : a \in run
    <3> HIDE DEF T
    <3> QED
      BY <2>1, <1>3, RunsCover
  <2>3. run \in Gaps(img, gs, k)
    BY <1>6, <2>2
  <2> QED
    BY <2>2, <2>3
<1>4. CodeBytes(img, gs, k) = T \cup UNION {Bytes(r) : r \in gs[k].code}
  BY DEF CodeBytes
<1>5. T \cup UNION Gaps(img, gs, k) = CodeBytes(img, gs, k)
  <2> HIDE DEF T
  <2> QED
    BY <1>2, <1>3, <1>4
<1> QED
  BY <1>1, <1>5

LEMMA ObjectSections ==
  ASSUME NEW img, NEW gs, Proper(img, gs), NEW k \in DOMAIN gs
  PROVE  /\ CodePiece(img, gs, k) \in ObjectOf(img, gs, k).sections
         /\ \A r \in gs[k].data : r.start < VirtualEnd(img, r) =>
              RangePiece(img, r) \in ObjectOf(img, gs, k).sections
         /\ \A sec \in ObjectOf(img, gs, k).sections :
              sec = CodePiece(img, gs, k) \/ \E r \in gs[k].data : sec = RangePiece(img, r)
<1> DEFINE fns == {f \in Chosen(img, gs, k) : Backed(img, f)}
           datas == {Piece(DataKind(img, d.class, d.start), d.run) : d \in Pieces(img, gs, k)}
<1>1. ObjectOf(img, gs, k).sections =
        {Piece("code", Taken(img, fns) \cup UNION Gaps(img, gs, k))} \cup datas
  BY DEF ObjectOf
<1>2. Piece("code", Taken(img, fns) \cup UNION Gaps(img, gs, k)) = CodePiece(img, gs, k)
  BY CodePart DEF CodePiece
<1>3. ASSUME NEW r \in gs[k].data, r.start < VirtualEnd(img, r)
      PROVE  RangePiece(img, r) \in datas
  <2> DEFINE d == [class |-> r.class, start |-> r.start, run |-> r.start..(VirtualEnd(img, r) - 1)]
  <2>1. d \in Pieces(img, gs, k)
    BY <1>3 DEF Pieces
  <2>2. RangePiece(img, r) = Piece(DataKind(img, d.class, d.start), d.run)
    BY DEF RangePiece
  <2> HIDE DEF d
  <2> QED
    BY <2>1, <2>2
<1>4. ASSUME NEW sec \in datas
      PROVE  \E r \in gs[k].data : sec = RangePiece(img, r)
  <2>1. PICK d \in Pieces(img, gs, k) : sec = Piece(DataKind(img, d.class, d.start), d.run)
    OBVIOUS
  <2>2. PICK r \in gs[k].data :
          d = [class |-> r.class, start |-> r.start, run |-> r.start..(VirtualEnd(img, r) - 1)]
    BY DEF Pieces
  <2> QED
    BY <2>1, <2>2 DEF RangePiece
<1> HIDE DEF fns, datas
<1> QED
  BY <1>1, <1>2, <1>3, <1>4

LEMMA DataRangeFacts ==
  ASSUME NEW img, NEW gs, Proper(img, gs), NEW k \in DOMAIN gs, NEW r \in gs[k].data
  PROVE  /\ r.start \in Nat /\ r.end \in Nat /\ r.start < r.end
         /\ \E s \in img.sections :
              /\ s.class # "code" /\ s.start <= r.start /\ r.end <= s.end
              /\ VirtualEnd(img, r) = IF r.end <= s.stop THEN r.end ELSE s.stop
         /\ [file |-> k, range |-> r] \in DataRanges(gs)
<1> DEFINE x == [file |-> k, range |-> r]
<1>1. x \in DataRanges(gs) /\ x.range = r
  BY DEF DataRanges
<1>2. r.start \in Nat /\ r.end \in Nat /\ r.class \in DataClasses
  BY RangeTypes DEF Proper
<1>3. Disjoint(DataRanges(gs)) /\ Contained(img, x.range, Home(x.range.class))
  BY <1>1 DEF Proper, Accepted, DataValid
<1>4. r.start < r.end
  BY <1>1, <1>3 DEF Disjoint
<1>5. "code" \notin Home(r.class)
  BY <1>2 DEF Home, DataClasses
<1>6. PICK s \in img.sections : s.class # "code" /\ s.start <= r.start /\ r.end <= s.end
  BY <1>1, <1>3, <1>5 DEF Contained
<1>7. VirtualEnd(img, r) = IF r.end <= s.stop THEN r.end ELSE s.stop
  BY <1>2, <1>4, <1>6, RangeEnds DEF Proper
<1> QED
  BY <1>1, <1>2, <1>4, <1>6, <1>7

\* What an object holds of a range of data: the range, as far as the binary
\* goes.
LEMMA RangeHolds ==
  ASSUME NEW img, NEW gs, Proper(img, gs), NEW k \in DOMAIN gs, NEW r \in gs[k].data, NEW a
  PROVE  /\ a \in RangePiece(img, r).holds =>
              /\ a \in Bytes(r) /\ r.start < VirtualEnd(img, r)
              /\ \E s \in img.sections : s.class # "code" /\ a \in Bytes(s)
         /\ \A s \in img.sections :
              a \in s.start..(Min({s.end, s.stop}) - 1) /\ a \in Bytes(r) =>
                a \in RangePiece(img, r).holds
<1>1. /\ r.start \in Nat /\ r.end \in Nat /\ r.start < r.end
      /\ \E s \in img.sections :
           /\ s.class # "code" /\ s.start <= r.start /\ r.end <= s.end
           /\ VirtualEnd(img, r) = IF r.end <= s.stop THEN r.end ELSE s.stop
  BY DataRangeFacts
<1>2. PICK s \in img.sections :
        /\ s.class # "code" /\ s.start <= r.start /\ r.end <= s.end
        /\ VirtualEnd(img, r) = IF r.end <= s.stop THEN r.end ELSE s.stop
  BY <1>1
<1>3. s.start \in Nat /\ s.end \in Nat /\ s.stop \in Nat
  BY ImageTypes DEF Proper
<1>4. RangePiece(img, r).holds = r.start..(VirtualEnd(img, r) - 1)
  BY DEF RangePiece, Piece
<1>5. ASSUME a \in RangePiece(img, r).holds
      PROVE  a \in Bytes(r) /\ r.start < VirtualEnd(img, r) /\ a \in Bytes(s)
  <2>1. VirtualEnd(img, r) \in Nat /\ VirtualEnd(img, r) <= r.end
    BY <1>1, <1>2, <1>3
  <2>2. a \in r.start..(VirtualEnd(img, r) - 1)
    BY <1>4, <1>5
  <2>3. a \in Nat /\ r.start <= a /\ a < VirtualEnd(img, r)
    BY <1>1, <2>1, <2>2
  <2>4. s.start <= a /\ a < s.end /\ a < r.end
    BY <1>1, <1>2, <1>3, <2>1, <2>3
  <2> QED
    BY <1>1, <1>3, <2>1, <2>3, <2>4 DEF Bytes
<1>6. ASSUME NEW t \in img.sections, a \in t.start..(Min({t.end, t.stop}) - 1), a \in Bytes(r)
      PROVE  a \in RangePiece(img, r).holds
  <2>1. /\ t.start \in Nat /\ t.end \in Nat /\ t.stop \in Nat
        /\ Min({t.end, t.stop}) \in Nat
        /\ Min({t.end, t.stop}) <= t.end /\ Min({t.end, t.stop}) <= t.stop
    BY ImageTypes, SegmentEnds DEF Proper
  <2>2. a \in Bytes(t) /\ a \in Bytes(s)
    BY <1>1, <1>2, <1>3, <1>6, <2>1 DEF Bytes
  <2>3. s = t
    BY <2>2, OneSegment DEF Proper
  <2>4. a \in Nat /\ r.start <= a /\ a < r.end /\ a < s.stop
    BY <1>1, <1>6, <2>1, <2>3 DEF Bytes
  <2> QED
    BY <1>1, <1>2, <1>3, <1>4, <2>4
<1> QED
  BY <1>2, <1>5, <1>6

\* No byte of data is in two ranges.
LEMMA RangesOnce ==
  ASSUME NEW img, NEW gs, Proper(img, gs), NEW j \in DOMAIN gs, NEW k \in DOMAIN gs,
         NEW r \in gs[j].data, NEW q \in gs[k].data, NEW a, a \in Bytes(r), a \in Bytes(q)
  PROVE  j = k /\ r = q
<1> DEFINE x == [file |-> j, range |-> r]
           y == [file |-> k, range |-> q]
<1>1. x \in DataRanges(gs) /\ y \in DataRanges(gs)
  BY DataRangeFacts
<1>2. r.start \in Nat /\ r.end \in Nat /\ q.start \in Nat /\ q.end \in Nat
  BY RangeTypes DEF Proper
<1>3. Overlap(x.range, y.range)
  BY <1>2 DEF Overlap, Bytes
<1>4. x = y
  BY <1>1, <1>3 DEF Proper, Accepted, DataValid, Disjoint
<1> QED
  BY <1>4

-----------------------------------------------------------------------------
(* The sections of the shared object *)

LEMMA TakenBytes ==
  ASSUME NEW img, NEW gs, NEW a
  PROVE  a \in OwnedCode(gs) \cup Taken(img, Emitted(img, gs)) <=>
           \E k \in DOMAIN gs : a \in CodeBytes(img, gs, k)
<1>1. a \in OwnedCode(gs) <=> \E k \in DOMAIN gs : \E r \in gs[k].code : a \in Bytes(r)
  <2>1. ASSUME NEW k \in DOMAIN gs, NEW r \in gs[k].code, a \in Bytes(r)
        PROVE  a \in OwnedCode(gs)
    <3> DEFINE x == [file |-> k, range |-> r]
    <3>1. x \in CodeRanges(gs) /\ x.range = r
      BY DEF CodeRanges
    <3> HIDE DEF x
    <3> QED
      BY <2>1, <3>1 DEF OwnedCode
  <2>2. ASSUME a \in OwnedCode(gs)
        PROVE  \E k \in DOMAIN gs : \E r \in gs[k].code : a \in Bytes(r)
    <3>1. PICK x \in CodeRanges(gs) : a \in Bytes(x.range)
      BY <2>2 DEF OwnedCode
    <3>2. \E k \in DOMAIN gs : \E r \in gs[k].code : x = [file |-> k, range |-> r]
      BY DEF CodeRanges
    <3> QED
      BY <3>1, <3>2
  <2> QED
    BY <2>1, <2>2
<1>2. a \in Taken(img, Emitted(img, gs)) <=>
        \E k \in DOMAIN gs : a \in Taken(img, Chosen(img, gs, k))
  BY DEF Taken, Emitted
<1> QED
  BY <1>1, <1>2 DEF CodeBytes

\* The code of a segment that no group takes.
Left(img, gs, s) ==
  (s.start..(Min({s.end, s.stop}) - 1)) \ (OwnedCode(gs) \cup Taken(img, Emitted(img, gs)))

LEMMA CodeGapRuns ==
  ASSUME NEW img, NEW gs, Proper(img, gs)
  PROVE  /\ \A gap \in CodeGaps(img, gs) :
              \E s \in img.sections : s.class = "code" /\ gap \in Runs(Left(img, gs, s))
         /\ Emitted(img, gs) # {} =>
              \A s \in img.sections : s.class = "code" =>
                Runs(Left(img, gs, s)) \subseteq CodeGaps(img, gs)
<1> DEFINE within(s) == {f \in Emitted(img, gs) : f.start \in Bytes(s)}
           left(s) == s.start..(VirtualEnd(img, s) - 1)
                        \ (OwnedCode(gs) \cup Covered(img, within(s)))
           all == UNION {Runs(left(s)) : s \in {s \in img.sections : s.class = "code"}}
<1>1. CodeGaps(img, gs) = IF \A k \in DOMAIN gs : Starts(img, gs, k) = {} THEN {} ELSE all
  BY DEF CodeGaps
<1>2. ASSUME NEW s \in img.sections PROVE left(s) = Left(img, gs, s)
  <2>1. VirtualEnd(img, s) = Min({s.end, s.stop})
    BY SegmentEnds DEF Proper
  <2>2. Covered(img, within(s)) = Taken(img, within(s))
    <3>1. within(s) \subseteq img.functions
      BY DEF Emitted, Chosen
    <3> HIDE DEF within
    <3> QED
      BY <3>1, CoveredTaken DEF Proper
  <2>3. ASSUME NEW a \in s.start..(Min({s.end, s.stop}) - 1)
        PROVE  a \in Taken(img, within(s)) <=> a \in Taken(img, Emitted(img, gs))
    <3>1. ASSUME NEW f \in Emitted(img, gs), a \in Body(img, f) PROVE f \in within(s)
      <4>1. a \in Bytes(s)
        <5>1. /\ Min({s.end, s.stop}) \in Nat /\ Min({s.end, s.stop}) <= s.end
              /\ s.start \in Nat /\ s.end \in Nat
          BY ImageTypes, SegmentEnds DEF Proper
        <5> QED
          BY <5>1 DEF Bytes
      <4>2. f \in img.functions
        BY DEF Emitted, Chosen
      <4>3. PICK t \in img.sections : {f.start, a} \subseteq Bytes(t)
        <5>1. PICK t \in img.sections :
                t.class = "code" /\ t.start <= f.start /\ EmitEnd(img, f) <= Min({t.end, t.stop})
          BY <4>2, BodyFacts DEF Proper
        <5>2. /\ t.start \in Nat /\ t.end \in Nat
              /\ Min({t.end, t.stop}) \in Nat /\ Min({t.end, t.stop}) <= t.end
          BY ImageTypes, SegmentEnds DEF Proper
        <5>3. /\ f.start \in Nat /\ f.end \in Nat /\ f.start < f.end
              /\ EmitEnd(img, f) \in Nat /\ f.end <= EmitEnd(img, f)
          BY <4>2, BodyFacts DEF Proper
        <5>4. a \in f.start..(EmitEnd(img, f) - 1)
          BY <3>1 DEF Body
        <5> QED
          BY <5>1, <5>2, <5>3, <5>4 DEF Bytes
      <4>4. t = s
        BY <4>1, <4>3, OneSegment DEF Proper
      <4> QED
        BY <4>3, <4>4
    <3> QED
      BY <3>1 DEF Taken
  <2> HIDE DEF within
  <2> QED
    BY <2>1, <2>2, <2>3 DEF Left
<1>3. \A gap : gap \in all <=>
        \E s \in img.sections : s.class = "code" /\ gap \in Runs(Left(img, gs, s))
  <2> HIDE DEF left
  <2> QED
    BY <1>2
<1>4. Emitted(img, gs) # {} => ~(\A k \in DOMAIN gs : Starts(img, gs, k) = {})
  BY DEF Emitted, Chosen
<1> HIDE DEF all
<1> QED
  BY <1>1, <1>3, <1>4

LEMMA LeftBytes ==
  ASSUME NEW img, NEW gs, Proper(img, gs), NEW s \in img.sections
  PROVE  /\ Left(img, gs, s) \subseteq Nat /\ Left(img, gs, s) \subseteq Bytes(s)
         /\ \A a : a \in Left(img, gs, s) <=>
              /\ a \in s.start..(Min({s.end, s.stop}) - 1)
              /\ \A k \in DOMAIN gs : a \notin CodeBytes(img, gs, k)
<1>1. /\ s.start \in Nat /\ s.end \in Nat
      /\ Min({s.end, s.stop}) \in Nat /\ Min({s.end, s.stop}) <= s.end
  BY ImageTypes, SegmentEnds DEF Proper
<1>2. \A a : a \in Left(img, gs, s) <=>
              /\ a \in s.start..(Min({s.end, s.stop}) - 1)
              /\ \A k \in DOMAIN gs : a \notin CodeBytes(img, gs, k)
  BY TakenBytes DEF Left
<1>4. /\ s.start..(Min({s.end, s.stop}) - 1) \subseteq Nat
      /\ s.start..(Min({s.end, s.stop}) - 1) \subseteq Bytes(s)
  BY <1>1 DEF Bytes
<1> QED
  BY <1>2, <1>4

\* A byte of code is in one gap at most.
LEMMA GapsApart ==
  ASSUME NEW img, NEW gs, Proper(img, gs),
         NEW g1 \in CodeGaps(img, gs), NEW g2 \in CodeGaps(img, gs), NEW a, a \in g1, a \in g2
  PROVE  g1 = g2
<1>1. PICK s \in img.sections : s.class = "code" /\ g1 \in Runs(Left(img, gs, s))
  BY CodeGapRuns
<1>2. PICK t \in img.sections : t.class = "code" /\ g2 \in Runs(Left(img, gs, t))
  BY CodeGapRuns
<1>3. a \in Bytes(s) /\ a \in Bytes(t)
  BY <1>1, <1>2, RunsWithin, LeftBytes
<1>4. s = t
  BY <1>3, OneSegment DEF Proper
<1>5. Left(img, gs, s) \subseteq Nat
  BY LeftBytes
<1> QED
  BY <1>1, <1>2, <1>4, <1>5, RunsApart

\* The data of a segment that no group takes.
Rest(gs, s) == (s.start..(Min({s.end, s.stop}) - 1)) \ UNION {Bytes(r) : r \in Owned(gs)}

FragmentOf(s, run) == [class |-> s.class, start |-> Min(run), run |-> run]

LEMMA FragmentRuns ==
  ASSUME NEW img, NEW gs, Proper(img, gs), NEW d
  PROVE  d \in Fragments(img, gs) <=>
           \E s \in img.sections : \E run \in Runs(Rest(gs, s)) :
             s.class # "code" /\ d = FragmentOf(s, run)
<1> DEFINE excluded == UNION {Bytes(r) : r \in Owned(gs)}
<1>1. \A s \in img.sections : (s.start..(VirtualEnd(img, s) - 1)) \ excluded = Rest(gs, s)
  BY SegmentEnds DEF Proper, Rest
<1>2. Fragments(img, gs) =
        UNION {{[class |-> s.class, start |-> Min(run), run |-> run] :
                  run \in Runs((s.start..(VirtualEnd(img, s) - 1)) \ excluded)} :
                 s \in {s \in img.sections : s.class # "code"}}
  BY DEF Fragments
<1>3. ASSUME NEW s \in img.sections, s.class # "code", NEW run \in Runs(Rest(gs, s)),
             d = FragmentOf(s, run)
      PROVE  d \in Fragments(img, gs)
  <2> HIDE DEF excluded
  <2> DEFINE of(t) == {[class |-> t.class, start |-> Min(r), run |-> r] :
                         r \in Runs((t.start..(VirtualEnd(img, t) - 1)) \ excluded)}
  <2>1. d \in of(s)
    BY <1>1, <1>3 DEF FragmentOf
  <2>2. Fragments(img, gs) = UNION {of(t) : t \in {t \in img.sections : t.class # "code"}}
    BY <1>2
  <2> HIDE DEF of
  <2> QED
    BY <1>3, <2>1, <2>2
<1>4. ASSUME d \in Fragments(img, gs)
      PROVE  \E s \in img.sections : \E run \in Runs(Rest(gs, s)) :
               s.class # "code" /\ d = FragmentOf(s, run)
  <2>1. PICK s \in img.sections :
          /\ s.class # "code"
          /\ d \in {[class |-> s.class, start |-> Min(run), run |-> run] :
                     run \in Runs((s.start..(VirtualEnd(img, s) - 1)) \ excluded)}
    <3> HIDE DEF excluded
    <3> QED
      BY <1>2, <1>4
  <2>2. PICK run \in Runs(Rest(gs, s)) : d = FragmentOf(s, run)
    <3> HIDE DEF excluded
    <3> QED
      BY <1>1, <2>1 DEF FragmentOf
  <2> QED
    BY <2>1, <2>2
<1> QED
  BY <1>3, <1>4

LEMMA OwnedRange ==
  ASSUME NEW gs
  PROVE  \A r : r \in Owned(gs) <=> \E k \in DOMAIN gs : r \in gs[k].data
<1>1. ASSUME NEW k \in DOMAIN gs, NEW r \in gs[k].data PROVE r \in Owned(gs)
  <2> DEFINE x == [file |-> k, range |-> r]
  <2>1. x \in DataRanges(gs) /\ x.range = r
    BY DEF DataRanges
  <2> HIDE DEF x
  <2> QED
    BY <2>1 DEF Owned
<1>2. ASSUME NEW r \in Owned(gs) PROVE \E k \in DOMAIN gs : r \in gs[k].data
  <2>1. PICK x \in DataRanges(gs) : r = x.range
    BY DEF Owned
  <2>2. \E k \in DOMAIN gs : \E q \in gs[k].data : x = [file |-> k, range |-> q]
    BY DEF DataRanges
  <2> QED
    BY <2>1, <2>2
<1> QED
  BY <1>1, <1>2

LEMMA RestBytes ==
  ASSUME NEW img, NEW gs, Proper(img, gs), NEW s \in img.sections
  PROVE  /\ Rest(gs, s) \subseteq Nat /\ Rest(gs, s) \subseteq Bytes(s)
         /\ \A a : a \in Rest(gs, s) <=>
              /\ a \in s.start..(Min({s.end, s.stop}) - 1)
              /\ \A k \in DOMAIN gs : \A r \in gs[k].data : a \notin Bytes(r)
<1>1. /\ s.start \in Nat /\ s.end \in Nat
      /\ Min({s.end, s.stop}) \in Nat /\ Min({s.end, s.stop}) <= s.end
  BY ImageTypes, SegmentEnds DEF Proper
<1>2. \A r : r \in Owned(gs) <=> \E k \in DOMAIN gs : r \in gs[k].data
  BY OwnedRange
<1>3. \A a : a \in Rest(gs, s) <=>
              /\ a \in s.start..(Min({s.end, s.stop}) - 1)
              /\ \A k \in DOMAIN gs : \A r \in gs[k].data : a \notin Bytes(r)
  BY <1>2 DEF Rest
<1>4. /\ s.start..(Min({s.end, s.stop}) - 1) \subseteq Nat
      /\ s.start..(Min({s.end, s.stop}) - 1) \subseteq Bytes(s)
  BY <1>1 DEF Bytes
<1> QED
  BY <1>3, <1>4

LEMMA FragmentsApart ==
  ASSUME NEW img, NEW gs, Proper(img, gs),
         NEW c \in Fragments(img, gs), NEW d \in Fragments(img, gs), NEW a, a \in c.run, a \in d.run
  PROVE  c = d
<1>1. PICK s \in img.sections :
        \E run \in Runs(Rest(gs, s)) : c = FragmentOf(s, run)
  BY FragmentRuns
<1>1a. PICK r1 \in Runs(Rest(gs, s)) : c = FragmentOf(s, r1)
  BY <1>1
<1>2. PICK t \in img.sections :
        \E run \in Runs(Rest(gs, t)) : d = FragmentOf(t, run)
  BY FragmentRuns
<1>2a. PICK r2 \in Runs(Rest(gs, t)) : d = FragmentOf(t, r2)
  BY <1>2
<1>3. a \in r1 /\ a \in r2
  BY <1>1a, <1>2a DEF FragmentOf
<1>4. a \in Bytes(s) /\ a \in Bytes(t)
  BY <1>3, RunsWithin, RestBytes
<1>5. s = t
  BY <1>4, OneSegment DEF Proper
<1>6. Rest(gs, s) \subseteq Nat
  BY RestBytes
<1>7. r1 = r2
  BY <1>3, <1>5, <1>6, RunsApart
<1> QED
  BY <1>1a, <1>2a, <1>5, <1>7

FragmentPiece(img, d) == Piece(DataKind(img, d.class, d.start), d.run)

\* Code or data, given away or not: which bytes an object holds.
LEMMA ObjectHolds ==
  ASSUME NEW img, NEW gs, Proper(img, gs), NEW k \in DOMAIN gs,
         NEW sec \in ObjectOf(img, gs, k).sections, NEW a, a \in sec.holds
  PROVE  \/ /\ sec = CodePiece(img, gs, k) /\ a \in CodeBytes(img, gs, k)
            /\ \E s \in img.sections : s.class = "code" /\ a \in Bytes(s)
         \/ /\ \E r \in gs[k].data : sec = RangePiece(img, r) /\ a \in Bytes(r)
            /\ \E s \in img.sections : s.class # "code" /\ a \in Bytes(s)
<1>1. CASE sec = CodePiece(img, gs, k)
  <2>1. a \in CodeBytes(img, gs, k)
    BY <1>1 DEF CodePiece, Piece
  <2> QED
    BY <1>1, <2>1, CodeBytesAreCode
<1>2. ASSUME NEW r \in gs[k].data, sec = RangePiece(img, r)
      PROVE  a \in Bytes(r) /\ \E s \in img.sections : s.class # "code" /\ a \in Bytes(s)
  BY <1>2, RangeHolds
<1> QED
  BY <1>1, <1>2, ObjectSections

LEMMA SharedHolds ==
  ASSUME NEW img, NEW gs, Proper(img, gs),
         NEW sec \in SharedObject(img, gs).sections, NEW a, a \in sec.holds
  PROVE  \/ /\ \E gap \in CodeGaps(img, gs) : sec = Piece("code", gap) /\ a \in gap
            /\ \E s \in img.sections : s.class = "code" /\ a \in Bytes(s)
            /\ \A k \in DOMAIN gs : a \notin CodeBytes(img, gs, k)
         \/ /\ \E d \in Fragments(img, gs) : sec = FragmentPiece(img, d) /\ a \in d.run
            /\ \E s \in img.sections : s.class # "code" /\ a \in Bytes(s)
            /\ \A k \in DOMAIN gs : \A r \in gs[k].data : a \notin Bytes(r)
<1>1. \/ \E gap \in CodeGaps(img, gs) : sec = Piece("code", gap)
      \/ \E d \in Fragments(img, gs) : sec = FragmentPiece(img, d)
  BY DEF SharedObject, FragmentPiece
<1>2. CASE \E gap \in CodeGaps(img, gs) : sec = Piece("code", gap)
  <2>1. PICK gap \in CodeGaps(img, gs) : sec = Piece("code", gap)
    BY <1>2
  <2>2. a \in gap
    BY <2>1 DEF Piece
  <2>3. PICK s \in img.sections : s.class = "code" /\ gap \in Runs(Left(img, gs, s))
    BY CodeGapRuns
  <2>4. a \in Left(img, gs, s)
    BY <2>2, <2>3, RunsWithin
  <2> QED
    BY <2>1, <2>2, <2>3, <2>4, LeftBytes
<1>3. CASE \E d \in Fragments(img, gs) : sec = FragmentPiece(img, d)
  <2>1. PICK d \in Fragments(img, gs) : sec = FragmentPiece(img, d)
    BY <1>3
  <2>2. a \in d.run
    BY <2>1 DEF FragmentPiece, Piece
  <2>3. PICK s \in img.sections : \E run \in Runs(Rest(gs, s)) :
          s.class # "code" /\ d = FragmentOf(s, run)
    BY FragmentRuns
  <2>4. d.run \in Runs(Rest(gs, s)) /\ s.class # "code"
    BY <2>3 DEF FragmentOf
  <2>5. a \in Rest(gs, s)
    BY <2>2, <2>4, RunsWithin
  <2> QED
    BY <2>1, <2>2, <2>4, <2>5, RestBytes
<1> QED
  BY <1>1, <1>2, <1>3

\* What no object was given is in __shared_data.
LEMMA GapFound ==
  ASSUME NEW img, NEW gs, Proper(img, gs), Emitted(img, gs) # {},
         NEW s \in img.sections, s.class = "code",
         NEW a \in s.start..(Min({s.end, s.stop}) - 1),
         \A k \in DOMAIN gs : a \notin CodeBytes(img, gs, k)
  PROVE  \E gap \in CodeGaps(img, gs) : /\ a \in gap /\ gap \in Runs(Left(img, gs, s))
                                        /\ Piece("code", gap) \in SharedObject(img, gs).sections
<1>1. a \in Left(img, gs, s) /\ Left(img, gs, s) \subseteq Nat
  BY LeftBytes
<1>2. PICK gap \in Runs(Left(img, gs, s)) : a \in gap
  BY <1>1, RunsCover
<1>3. gap \in CodeGaps(img, gs)
  BY CodeGapRuns
<1>4. Piece("code", gap) \in SharedObject(img, gs).sections
  BY <1>3 DEF SharedObject
<1> QED
  BY <1>2, <1>3, <1>4

LEMMA FragmentFound ==
  ASSUME NEW img, NEW gs, Proper(img, gs), NEW s \in img.sections, s.class # "code",
         NEW a \in s.start..(Min({s.end, s.stop}) - 1),
         \A k \in DOMAIN gs : \A r \in gs[k].data : a \notin Bytes(r)
  PROVE  \E d \in Fragments(img, gs) : /\ a \in d.run
                                       /\ FragmentPiece(img, d) \in SharedObject(img, gs).sections
<1>1. a \in Rest(gs, s) /\ Rest(gs, s) \subseteq Nat
  BY RestBytes
<1>2. PICK run \in Runs(Rest(gs, s)) : a \in run
  BY <1>1, RunsCover
<1> DEFINE d == FragmentOf(s, run)
<1>3. d \in Fragments(img, gs)
  BY FragmentRuns
<1>4. a \in d.run
  BY <1>2 DEF FragmentOf
<1> HIDE DEF d
<1>5. FragmentPiece(img, d) \in SharedObject(img, gs).sections
  BY <1>3 DEF SharedObject, FragmentPiece
<1> QED
  BY <1>3, <1>4, <1>5

\* Only a group that lists something takes code.
LEMMA TakesSomething ==
  ASSUME NEW img, NEW gs, NEW k \in DOMAIN gs, NEW a, a \in CodeBytes(img, gs, k)
  PROVE  ~Empty(gs[k])
<1> SUFFICES ASSUME gs[k].functions = <<>>, gs[k].code = {} PROVE FALSE
  BY DEF Empty
<1>1. Listed(gs, k) = {}
  BY DEF Listed, Range
<1>2. Ranged(img, gs, k) = {}
  BY DEF Ranged
<1>3. Chosen(img, gs, k) = {}
  BY <1>1, <1>2 DEF Chosen, Starts
<1> QED
  BY <1>3 DEF CodeBytes, Taken

-----------------------------------------------------------------------------
(* The objects of a run *)

LEMMA HolderFacts ==
  ASSUME IInv, Clean, NEW a
  PROVE  /\ \A k \in DOMAIN groups : \A sec \in ObjectOf(model, groups, k).sections :
              ~Empty(groups[k]) /\ a \in sec.holds => <<k, sec>> \in Holders(a)
         /\ \A sec \in SharedObject(model, groups).sections :
              a \in sec.holds => <<SharedFile, sec>> \in Holders(a)
         /\ \A h \in Holders(a) :
              \/ \E k \in DOMAIN groups : \E sec \in ObjectOf(model, groups, k).sections :
                   h = <<k, sec>> /\ a \in sec.holds
              \/ \E sec \in SharedObject(model, groups).sections :
                   h = <<SharedFile, sec>> /\ a \in sec.holds
<1>1. /\ \A k \in DOMAIN phase : k \in DOMAIN disk /\ disk[k] = ObjectOf(model, groups, k)
      /\ \A k \in DOMAIN groups : ~Empty(groups[k]) => k \in DOMAIN phase
  BY CleanObjects
<1>2. DOMAIN phase \subseteq DOMAIN groups
  BY DEF IInv
<1>3. IF Nothing(SharedObject(model, groups)) THEN SharedFile \notin DOMAIN disk
      ELSE SharedFile \in DOMAIN disk /\ disk[SharedFile] = SharedObject(model, groups)
  BY DEF IInv, SharedHeld, Clean
<1>4. \A p, sec : <<p, sec>> \in Holders(a) <=>
        p \in Outputs /\ sec \in disk[p].sections /\ a \in sec.holds
  BY DEF Holders
<1>5. \A h \in Holders(a) : \E p \in Outputs : \E sec \in disk[p].sections :
        h = <<p, sec>> /\ a \in sec.holds
  BY DEF Holders
<1>6. ASSUME NEW k \in DOMAIN groups, NEW sec \in ObjectOf(model, groups, k).sections,
             ~Empty(groups[k]), a \in sec.holds
      PROVE  <<k, sec>> \in Holders(a)
  BY <1>1, <1>4, <1>6 DEF Outputs
<1>7. ASSUME NEW sec \in SharedObject(model, groups).sections, a \in sec.holds
      PROVE  <<SharedFile, sec>> \in Holders(a)
  BY <1>3, <1>4, <1>7 DEF Outputs, Nothing
<1>8. ASSUME NEW h \in Holders(a)
      PROVE  \/ \E k \in DOMAIN groups : \E sec \in ObjectOf(model, groups, k).sections :
                  h = <<k, sec>> /\ a \in sec.holds
             \/ \E sec \in SharedObject(model, groups).sections :
                  h = <<SharedFile, sec>> /\ a \in sec.holds
  <2>1. PICK p \in Outputs : \E sec \in disk[p].sections : h = <<p, sec>> /\ a \in sec.holds
    BY <1>5
  <2>2. CASE p = SharedFile
    BY <1>3, <2>1, <2>2 DEF Outputs
  <2>3. CASE p \in DOMAIN phase
    BY <1>1, <1>2, <2>1, <2>3
  <2> QED
    BY <2>2, <2>3 DEF Outputs
<1> QED
  BY <1>6, <1>7, <1>8

\* An address that is in one place only.
LEMMA OneHolder ==
  ASSUME NEW a, NEW h0, h0 \in Holders(a), \A h \in Holders(a) : h = h0
  PROVE  Cardinality(Holders(a)) = 1
<1>1. Holders(a) = {h0}
  OBVIOUS
<1> QED
  BY <1>1, FS_Singleton

\* Segments of code and of data have no byte in common.
LEMMA NotBoth ==
  ASSUME NEW img, NEW gs, Proper(img, gs), NEW a,
         NEW s \in img.sections, a \in Bytes(s), NEW t \in img.sections, a \in Bytes(t)
  PROVE  (s.class = "code") <=> (t.class = "code")
  BY OneSegment DEF Proper

LEMMA SegmentPart ==
  ASSUME NEW img, NEW gs, Proper(img, gs), NEW s \in img.sections,
         NEW a \in s.start..(Min({s.end, s.stop}) - 1)
  PROVE  a \in Bytes(s)
<1>1. /\ s.start \in Nat /\ s.end \in Nat
      /\ Min({s.end, s.stop}) \in Nat /\ Min({s.end, s.stop}) <= s.end
  BY ImageTypes, SegmentEnds DEF Proper
<1> QED
  BY <1>1 DEF Bytes

LEMMA DataOnce ==
  ASSUME IInv, Clean, Proper(model, groups), NEW s \in model.sections, s.class # "code",
         NEW a \in s.start..(Min({s.end, s.stop}) - 1)
  PROVE  Cardinality(Holders(a)) = 1
<1>1. a \in Bytes(s)
  BY SegmentPart
<1>2. \A t \in model.sections : a \in Bytes(t) => t.class # "code"
  BY <1>1, NotBoth
<1>3. ASSUME NEW k \in DOMAIN groups, NEW r \in groups[k].data, a \in Bytes(r)
      PROVE  Cardinality(Holders(a)) = 1
  <2> DEFINE h0 == <<k, RangePiece(model, r)>>
  <2>1. a \in RangePiece(model, r).holds
    BY <1>3, RangeHolds
  <2>2. RangePiece(model, r) \in ObjectOf(model, groups, k).sections
    BY <2>1, RangeHolds, ObjectSections
  <2>3. ~Empty(groups[k])
    BY DEF Empty
  <2>4. h0 \in Holders(a)
    BY <2>1, <2>2, <2>3, HolderFacts
  <2>5. ASSUME NEW j \in DOMAIN groups, NEW sec \in ObjectOf(model, groups, j).sections,
               a \in sec.holds
        PROVE  <<j, sec>> = h0
    <3>1. PICK q \in groups[j].data : sec = RangePiece(model, q) /\ a \in Bytes(q)
      BY <1>2, <2>5, ObjectHolds
    <3>2. j = k /\ q = r
      BY <1>3, <3>1, RangesOnce
    <3> QED
      BY <3>1, <3>2
  <2>6. ASSUME NEW sec \in SharedObject(model, groups).sections, a \in sec.holds
        PROVE  FALSE
    BY <1>2, <1>3, <2>6, SharedHolds
  <2>7. \A h \in Holders(a) : h = h0
    BY <2>5, <2>6, HolderFacts
  <2> HIDE DEF h0
  <2> QED
    BY <2>4, <2>7, OneHolder
<1>4. ASSUME \A k \in DOMAIN groups : \A r \in groups[k].data : a \notin Bytes(r)
      PROVE  Cardinality(Holders(a)) = 1
  <2>1. PICK d \in Fragments(model, groups) :
          a \in d.run /\ FragmentPiece(model, d) \in SharedObject(model, groups).sections
    BY <1>4, FragmentFound
  <2> DEFINE h0 == <<SharedFile, FragmentPiece(model, d)>>
  <2>2. h0 \in Holders(a)
    BY <2>1, HolderFacts DEF FragmentPiece, Piece
  <2>3. ASSUME NEW j \in DOMAIN groups, NEW sec \in ObjectOf(model, groups, j).sections,
               a \in sec.holds
        PROVE  FALSE
    BY <1>2, <1>4, <2>3, ObjectHolds
  <2>4. ASSUME NEW sec \in SharedObject(model, groups).sections, a \in sec.holds
        PROVE  <<SharedFile, sec>> = h0
    <3>1. PICK c \in Fragments(model, groups) : sec = FragmentPiece(model, c) /\ a \in c.run
      BY <1>2, <2>4, SharedHolds
    <3>2. c = d
      BY <2>1, <3>1, FragmentsApart
    <3> QED
      BY <3>1, <3>2
  <2>5. \A h \in Holders(a) : h = h0
    BY <2>3, <2>4, HolderFacts
  <2> HIDE DEF h0
  <2> QED
    BY <2>2, <2>5, OneHolder
<1> QED
  BY <1>3, <1>4

\* The one place of a byte of code: the object that takes it, or one gap.
LEMMA CodeHolder ==
  ASSUME IInv, Clean, Proper(model, groups), TakesFunctions,
         NEW s \in model.sections, s.class = "code",
         NEW a \in s.start..(Min({s.end, s.stop}) - 1)
  PROVE  \/ \E k \in DOMAIN groups :
              /\ a \in CodeBytes(model, groups, k)
              /\ Holders(a) = {<<k, CodePiece(model, groups, k)>>}
         \/ \E gap \in CodeGaps(model, groups) :
              /\ a \in gap /\ \A k \in DOMAIN groups : a \notin CodeBytes(model, groups, k)
              /\ Holders(a) = {<<SharedFile, Piece("code", gap)>>}
<1>1. a \in Bytes(s)
  BY SegmentPart
<1>2. \A t \in model.sections : a \in Bytes(t) => t.class = "code"
  BY <1>1, NotBoth
<1>3. ASSUME NEW k \in DOMAIN groups, a \in CodeBytes(model, groups, k)
      PROVE  Holders(a) = {<<k, CodePiece(model, groups, k)>>}
  <2> DEFINE h0 == <<k, CodePiece(model, groups, k)>>
  <2>1. a \in CodePiece(model, groups, k).holds
    BY <1>3 DEF CodePiece, Piece
  <2>2. ~Empty(groups[k])
    BY <1>3, TakesSomething
  <2>3. h0 \in Holders(a)
    BY <2>1, <2>2, ObjectSections, HolderFacts
  <2>4. ASSUME NEW j \in DOMAIN groups, NEW sec \in ObjectOf(model, groups, j).sections,
               a \in sec.holds
        PROVE  <<j, sec>> = h0
    <3>1. sec = CodePiece(model, groups, j) /\ a \in CodeBytes(model, groups, j)
      BY <1>2, <2>4, ObjectHolds
    <3>2. j = k
      BY <1>3, <3>1, CodeApart
    <3> QED
      BY <3>1, <3>2
  <2>5. ASSUME NEW sec \in SharedObject(model, groups).sections, a \in sec.holds
        PROVE  FALSE
    BY <1>2, <1>3, <2>5, SharedHolds
  <2>6. \A h \in Holders(a) : h = h0
    BY <2>4, <2>5, HolderFacts
  <2>7. Holders(a) = {h0}
    <3> HIDE DEF h0
    <3> QED
      BY <2>3, <2>6
  <2> QED
    BY <2>7
<1>4. ASSUME \A k \in DOMAIN groups : a \notin CodeBytes(model, groups, k)
      PROVE  \E gap \in CodeGaps(model, groups) :
               a \in gap /\ Holders(a) = {<<SharedFile, Piece("code", gap)>>}
  <2>1. PICK gap \in CodeGaps(model, groups) :
          a \in gap /\ Piece("code", gap) \in SharedObject(model, groups).sections
    BY <1>4, GapFound DEF TakesFunctions
  <2> DEFINE h0 == <<SharedFile, Piece("code", gap)>>
  <2>2. h0 \in Holders(a)
    BY <2>1, HolderFacts DEF Piece
  <2>3. ASSUME NEW j \in DOMAIN groups, NEW sec \in ObjectOf(model, groups, j).sections,
               a \in sec.holds
        PROVE  FALSE
    BY <1>2, <1>4, <2>3, ObjectHolds
  <2>4. ASSUME NEW sec \in SharedObject(model, groups).sections, a \in sec.holds
        PROVE  <<SharedFile, sec>> = h0
    <3>1. PICK g \in CodeGaps(model, groups) : sec = Piece("code", g) /\ a \in g
      BY <1>2, <2>4, SharedHolds
    <3>2. g = gap
      BY <2>1, <3>1, GapsApart
    <3> QED
      BY <3>1, <3>2
  <2>5. \A h \in Holders(a) : h = h0
    BY <2>3, <2>4, HolderFacts
  <2>6. Holders(a) = {h0}
    <3> HIDE DEF h0
    <3> QED
      BY <2>2, <2>5
  <2> QED
    BY <2>1, <2>6
<1> QED
  BY <1>3, <1>4

LEMMA CodeOnce ==
  ASSUME IInv, Clean, Proper(model, groups), TakesFunctions,
         NEW s \in model.sections, s.class = "code",
         NEW a \in s.start..(Min({s.end, s.stop}) - 1)
  PROVE  Cardinality(Holders(a)) = 1
<1>1. PICK h : Holders(a) = {h}
  BY CodeHolder
<1> QED
  BY <1>1, FS_Singleton

\* A chosen function is in the object it was given to, any other in one gap.
LEMMA Whole ==
  ASSUME IInv, Clean, Proper(model, groups), TakesFunctions
  PROVE  /\ \A f \in model.functions :
              \E h \in Holders(f.start) : Body(model, f) \subseteq h[2].holds
         /\ \A k \in DOMAIN groups : \A f \in Chosen(model, groups, k) :
              \E h \in Holders(f.start) : h[1] = k
<1>1. ASSUME NEW k \in DOMAIN groups, NEW f \in Chosen(model, groups, k)
      PROVE  \E h \in Holders(f.start) : h[1] = k /\ Body(model, f) \subseteq h[2].holds
  <2> DEFINE h0 == <<k, CodePiece(model, groups, k)>>
  <2>1. f \in model.functions
    BY DEF Chosen
  <2>2. Body(model, f) \subseteq CodeBytes(model, groups, k)
    BY DEF CodeBytes, Taken
  <2>3. f.start \in CodeBytes(model, groups, k)
    BY <2>1, <2>2, BodyBytes DEF Proper
  <2>4. ~Empty(groups[k])
    BY <2>3, TakesSomething
  <2>5. CodePiece(model, groups, k).holds = CodeBytes(model, groups, k)
    BY DEF CodePiece, Piece
  <2>6. h0 \in Holders(f.start)
    BY <2>3, <2>4, <2>5, ObjectSections, HolderFacts
  <2> QED
    BY <2>2, <2>5, <2>6
<1>2. ASSUME NEW f \in model.functions, \A k \in DOMAIN groups : f \notin Chosen(model, groups, k)
      PROVE  \E h \in Holders(f.start) : Body(model, f) \subseteq h[2].holds
  <2>1. /\ f.start \in Nat /\ f.end \in Nat /\ f.start < f.end
        /\ EmitEnd(model, f) \in Nat /\ f.end <= EmitEnd(model, f)
    BY BodyFacts DEF Proper
  <2>2. PICK s \in model.sections : /\ s.class = "code" /\ s.start <= f.start
                                    /\ EmitEnd(model, f) <= Min({s.end, s.stop})
    BY BodyFacts DEF Proper
  <2>3. s.start \in Nat /\ Min({s.end, s.stop}) \in Nat
    BY ImageTypes, SegmentEnds DEF Proper
  <2>4. Body(model, f) \subseteq s.start..(Min({s.end, s.stop}) - 1)
    BY <2>1, <2>2, <2>3 DEF Body
  <2>5. ASSUME NEW k \in DOMAIN groups, NEW a \in Body(model, f), a \in CodeBytes(model, groups, k)
        PROVE  FALSE
    <3>1. CASE a \in Taken(model, Chosen(model, groups, k))
      <4>1. PICK g \in Chosen(model, groups, k) : a \in Body(model, g)
        BY <3>1 DEF Taken
      <4>2. g \in model.functions /\ g # f
        BY <1>2 DEF Chosen
      <4> QED
        BY <4>1, <4>2 DEF Proper, Orderly
    <3>2. ASSUME NEW r \in groups[k].code, a \in Bytes(r)
          PROVE  FALSE
      BY <1>2, <3>2, RangeTakesWhole
    <3> QED
      BY <2>5, <3>1, <3>2 DEF CodeBytes
  <2>6. f.start \in Body(model, f)
    BY BodyBytes DEF Proper
  <2>7. f.start \in s.start..(Min({s.end, s.stop}) - 1)
    BY <2>4, <2>6
  <2>8. \A k \in DOMAIN groups : f.start \notin CodeBytes(model, groups, k)
    BY <2>5, <2>6
  <2>9. PICK gap \in CodeGaps(model, groups) :
          /\ f.start \in gap /\ gap \in Runs(Left(model, groups, s))
          /\ Piece("code", gap) \in SharedObject(model, groups).sections
    BY <2>2, <2>7, <2>8, GapFound DEF TakesFunctions
  <2>10. Body(model, f) \subseteq Left(model, groups, s) /\ Left(model, groups, s) \subseteq Nat
    BY <2>4, <2>5, LeftBytes
  <2>11. Body(model, f) \subseteq gap
    <3>1. Body(model, f) = f.start..(EmitEnd(model, f) - 1) /\ EmitEnd(model, f) - 1 \in Int
      BY <2>1 DEF Body
    <3> QED
      BY <2>1, <2>9, <2>10, <3>1, RunsWhole
  <2>12. <<SharedFile, Piece("code", gap)>> \in Holders(f.start)
    BY <2>9, HolderFacts DEF Piece
  <2>13. <<SharedFile, Piece("code", gap)>>[2].holds = gap
    BY DEF Piece
  <2> QED
    BY <2>11, <2>12, <2>13
<1> QED
  BY <1>1, <1>2

LEMMA ProperState ==
  ASSUME IInv, Clean, Orderly(model), Careful(model, groups)
  PROVE  Proper(model, groups)
  BY IdaAssumption DEF IInv, CheckedFirst, Clean, Proper

\* The objects of a run take an orderly image apart, whatever the segments,
\* functions, tables and ranges: no byte is lost, none is kept twice.
THEOREM ImageTakenApart ==
  FilesApart => (Spec => [](Orderly(model) /\ Careful(model, groups) => EmittedOnce))
<1>1. FilesApart /\ IInv /\ [Next]_vars => IInv'
  BY StepInv
<1>2. IInv => (Orderly(model) /\ Careful(model, groups) => EmittedOnce)
  BY ProperState, DataOnce, CodeOnce DEF EmittedOnce
<1> SUFFICES ASSUME FilesApart
             PROVE  Spec => [](Orderly(model) /\ Careful(model, groups) => EmittedOnce)
  OBVIOUS
<1> QED
  BY <1>1, <1>2, InitInv, PTL DEF Spec

\* No function loses its tail or its tables, given to an object or left over.
THEOREM FunctionsStayWhole ==
  FilesApart => (Spec => [](Orderly(model) /\ Careful(model, groups) => FunctionsWhole))
<1>1. FilesApart /\ IInv /\ [Next]_vars => IInv'
  BY StepInv
<1>2. IInv => (Orderly(model) /\ Careful(model, groups) => FunctionsWhole)
  BY ProperState, Whole DEF FunctionsWhole
<1> SUFFICES ASSUME FilesApart
             PROVE  Spec => [](Orderly(model) /\ Careful(model, groups) => FunctionsWhole)
  OBVIOUS
<1> QED
  BY <1>1, <1>2, InitInv, PTL DEF Spec

-----------------------------------------------------------------------------
(* What an address is called *)

LEMMA NameTypes ==
  ASSUME NEW img, Loadable(img)
  PROVE  \A n \in img.names : n.addr \in Nat
<1>1. img.names \subseteq Label
  BY DEF Loadable, Model
<1>2. \A n \in Label : n.addr \in Nat
  BY DEF Label
<1> QED
  BY <1>1, <1>2

\* Link names tell the exported names apart.
LEMMA LinkNames ==
  ASSUME NEW img, Loadable(img), NamesTrue(img), NEW m \in img.names, NEW n \in img.names,
         LabelSymbol(img, m) = LabelSymbol(img, n)
  PROVE  m = n
<1> DEFINE suffix(x) == IF img.coff /\ x.addr # Kept(img, x.name) THEN x.addr ELSE 0
<1>1. /\ LabelSymbol(img, m) = <<"name", m.name, suffix(m)>>
      /\ LabelSymbol(img, n) = <<"name", n.name, suffix(n)>>
  BY DEF LabelSymbol, LinkName, Named
<1>2. m.name = n.name /\ suffix(m) = suffix(n)
  <2> DEFINE c == suffix(m)
             d == suffix(n)
  <2>1. <<"name", m.name, c>> = <<"name", n.name, d>>
    BY <1>1
  <2> HIDE DEF c, d
  <2>2. m.name = n.name /\ c = d
    BY <2>1
  <2> QED
    BY <2>2 DEF c, d
<1>3. m.addr > 0 /\ n.addr > 0 /\ m.addr \in Nat /\ n.addr \in Nat
  BY NameTypes DEF NamesTrue
<1>4. m.addr = n.addr \/ (~img.coff /\ m.name = n.name) => m = n
  BY DEF NamesTrue
<1>5. m.addr = n.addr \/ ~img.coff
  BY <1>2, <1>3
<1> QED
  BY <1>2, <1>4, <1>5

LEMMA FunctionNames ==
  ASSUME NEW img, NamesTrue(img), NEW f \in img.functions
  PROVE  \E n \in img.names : n.addr = f.start /\ LabelSymbol(img, n) = FunctionSymbol(img, f)
<1>1. PICK n \in img.names : n.addr = f.start /\ n.name = f.name
  BY DEF NamesTrue
<1>2. LabelSymbol(img, n) = FunctionSymbol(img, f)
  BY <1>1 DEF LabelSymbol, FunctionSymbol
<1> QED
  BY <1>1, <1>2

\* The name of n stands for address a: it is there, or on the function around a.
Calls(img, n, a) ==
  n.addr = a \/ \E f \in img.functions : n.addr = f.start /\ a \in Bytes(f)

\* Code that has a name resolves to one, at its distance.
LEMMA CodeResolved ==
  ASSUME NEW img, Loadable(img), NamesTrue(img), NEW a, CodeNamed(img, a)
  PROVE  \E n \in img.names :
           /\ Calls(img, n, a)
           /\ ResolveCode(img, a) = {Reference(LabelSymbol(img, n), a - n.addr)}
<1>1. a \in Int
  BY DEF CodeNamed
<1>2. ASSUME NEW n \in img.names, n.addr = a
      PROVE  ResolveCode(img, a) = {Reference(LabelSymbol(img, n), a - n.addr)}
  <2>1. \A m \in img.names : m.addr = a <=> m = n
    BY <1>2 DEF NamesTrue
  <2>2. {m \in img.names : m.addr = a} = {n}
    BY <2>1
  <2>3. At(img, a) = {Reference(LabelSymbol(img, n), 0)}
    BY <2>2 DEF At
  <2>4. a - n.addr = 0
    BY <1>1, <1>2
  <2> QED
    BY <2>3, <2>4 DEF ResolveCode, Else
<1>3. ASSUME \A n \in img.names : n.addr # a,
             NEW f \in img.functions, a \in Bytes(f)
      PROVE  \E n \in img.names :
               /\ n.addr = f.start
               /\ ResolveCode(img, a) = {Reference(LabelSymbol(img, n), a - n.addr)}
  <2>1. At(img, a) = {}
    <3>1. {n \in img.names : n.addr = a} = {}
      BY <1>3
    <3>2. {g \in img.functions : g.start = a} = {}
      BY <1>3 DEF NamesTrue
    <3> QED
      BY <3>1, <3>2 DEF At
  <2>2. \A g \in img.functions : a \in Bytes(g) => g = f
    <3> SUFFICES ASSUME NEW g \in img.functions, a \in Bytes(g), g # f PROVE FALSE
      OBVIOUS
    <3>1. ~Overlap(f, g)
      BY DEF Loadable
    <3>2. f.start \in Nat /\ f.end \in Nat /\ g.start \in Nat /\ g.end \in Nat
      BY ImageTypes
    <3> QED
      BY <1>3, <3>1, <3>2 DEF Overlap, Bytes
  <2>3. {g \in img.functions : a \in Bytes(g)} = {f}
    BY <1>3, <2>2
  <2>4. Within(img, a) = {Reference(FunctionSymbol(img, f), a - f.start)}
    BY <2>3 DEF Within
  <2>5. PICK n \in img.names : n.addr = f.start /\ LabelSymbol(img, n) = FunctionSymbol(img, f)
    BY FunctionNames
  <2>6. ResolveCode(img, a) = {Reference(FunctionSymbol(img, f), a - f.start)}
    BY <2>1, <2>4 DEF ResolveCode, Else
  <2> QED
    BY <2>5, <2>6
<1>4. CASE \E n \in img.names : n.addr = a
  BY <1>2, <1>4 DEF Calls
<1>5. CASE \A n \in img.names : n.addr # a
  <2>1. PICK f \in img.functions : a \in Bytes(f)
    BY <1>5 DEF CodeNamed
  <2> QED
    BY <1>3, <1>5, <2>1 DEF Calls
<1> QED
  BY <1>4, <1>5

-----------------------------------------------------------------------------
(* Tables, and the symbols of the objects *)

\* A table the emitter accepts is behind its function, and so are its bytes.
LEMMA TableWithin ==
  ASSUME NEW img, Loadable(img), Orderly(img), FieldsApart(img), NEW f \in img.functions,
         ~InvalidTables(img, f), NEW t \in Owns(img, f)
  PROVE  /\ t \in img.tables /\ t.start \in Body(img, f) /\ Bytes(t) \subseteq Body(img, f)
         /\ t.dispatch \in Bytes(f)
         /\ \A u \in Owns(img, f) : \A a : a \in Bytes(t) /\ a \in Bytes(u) => u = t
<1>1. t \in img.tables
  BY DEF Owns, Tables
<1>2. t.start \in Nat /\ t.end \in Nat /\ t.start < t.end
  BY <1>1, ImageTypes DEF FieldsApart
<1>3. f.start <= t.start /\ Fits(t.dispatch, Bytes(f))
  <2>1. ~(t.start < f.start) /\ Fits(t.dispatch, Bytes(f))
    BY DEF InvalidTables
  <2>2. f.start \in Nat
    BY ImageTypes
  <2> QED
    BY <1>2, <2>1, <2>2
<1>4. EmitEnd(img, f) \in Nat /\ t.end <= EmitEnd(img, f) /\ f.start \in Nat
  BY BodyFacts
<1>5. t.start \in Body(img, f) /\ Bytes(t) \subseteq Body(img, f)
  BY <1>2, <1>3, <1>4 DEF Body, Bytes
<1>6. t.dispatch \in Bytes(f)
  <2>1. t.dispatch \in Nat
    <3>1. img.tables \subseteq Table
      BY DEF Loadable, Model
    <3> QED
      BY <1>1, <3>1 DEF Table
  <2>2. t.dispatch \in t.dispatch..(t.dispatch + Width - 1)
    BY <2>1, IdaAssumption
  <2> QED
    BY <1>3, <2>2 DEF Fits
<1>7. ASSUME NEW u \in Owns(img, f), NEW a, a \in Bytes(t), a \in Bytes(u), u # t
      PROVE  FALSE
  <2>1. ~Overlap(t, u)
    BY <1>7 DEF InvalidTables
  <2>2. u.start \in Nat /\ u.end \in Nat
    BY ImageTypes DEF Owns, Tables
  <2> QED
    BY <1>2, <1>7, <2>1, <2>2 DEF Overlap, Bytes
<1> QED
  BY <1>1, <1>5, <1>6, <1>7

GroupTables(img, gs, k) == UNION {Tables(img, f) : f \in Chosen(img, gs, k)}
AllTables(img, gs) == UNION {Owns(img, f) : f \in Emitted(img, gs)}

\* Every function of a group is backed by the binary.
LEMMA AllBacked ==
  ASSUME NEW img, NEW gs, Proper(img, gs), NEW k
  PROVE  {f \in Chosen(img, gs, k) : Backed(img, f)} = Chosen(img, gs, k)
  BY BodyFacts DEF Proper, Chosen

LEMMA ObjectSymbolSet ==
  ASSUME NEW img, NEW gs, Proper(img, gs), NEW k
  PROVE  ObjectOf(img, gs, k).symbols =
           (UNION {FunctionSymbols(img, f) : f \in Chosen(img, gs, k)}) \cup
           (UNION {Labels(img, gap, GroupTables(img, gs, k)) : gap \in Gaps(img, gs, k)}) \cup
           (UNION {{Defined(Anchor(d.class, d.start), d.start)} \cup
                     StartSymbol(img, d.class, d.start) \cup
                     VariableSymbols(img, d.run) : d \in Pieces(img, gs, k)})
<1>1. {f \in Chosen(img, gs, k) : Backed(img, f)} = Chosen(img, gs, k)
  BY AllBacked
<1>2. ObjectOf(img, gs, k).symbols =
        (UNION {FunctionSymbols(img, f) : f \in {f \in Chosen(img, gs, k) : Backed(img, f)}}) \cup
        (UNION {Labels(img, gap, UNION {Tables(img, f) : f \in Chosen(img, gs, k)}) :
                  gap \in Gaps(img, gs, k)}) \cup
        (UNION {{Defined(Anchor(d.class, d.start), d.start)} \cup
                  StartSymbol(img, d.class, d.start) \cup
                  VariableSymbols(img, d.run) : d \in Pieces(img, gs, k)})
  BY DEF ObjectOf
<1> QED
  BY <1>1, <1>2 DEF GroupTables

LEMMA SharedSymbolSet ==
  ASSUME NEW img, NEW gs
  PROVE  SharedObject(img, gs).symbols =
           (UNION {Labels(img, gap, AllTables(img, gs)) : gap \in CodeGaps(img, gs)}) \cup
           (UNION {StartSymbol(img, d.class, d.start) \cup VariableSymbols(img, d.run) :
                     d \in Fragments(img, gs)})
  BY DEF SharedObject, AllTables

\* The kinds of symbols an object defines.
IsLabel(img, d, object) ==
  \E n \in img.names : /\ d = Defined(LabelSymbol(img, n), n.addr)
                       /\ \E sec \in object.sections : n.addr \in sec.holds

IsLocal(d) == \E a : d = Defined(Local(a), a)

IsAnchor(d, data) == \E r \in data : d = Defined(Anchor(r.class, r.start), r.start)

IsStart(d) == \E class : d.symbol = StartOf(class)

LEMMA LabelsHeld ==
  ASSUME NEW img, NEW object, NEW sec \in object.sections, NEW run, run \subseteq sec.holds,
         NEW tables
  PROVE  /\ \A d \in Labels(img, run, tables) : IsLabel(img, d, object)
         /\ \A d \in VariableSymbols(img, run) : IsLabel(img, d, object)
<1>1. ASSUME NEW d \in Labels(img, run, tables) PROVE IsLabel(img, d, object)
  BY DEF Labels, IsLabel
<1>2. ASSUME NEW d \in VariableSymbols(img, run) PROVE IsLabel(img, d, object)
  BY DEF VariableSymbols, Variables, IsLabel
<1> QED
  BY <1>1, <1>2

LEMMA StartIsStart ==
  ASSUME NEW img, NEW class, NEW a, NEW d \in StartSymbol(img, class, a)
  PROVE  IsStart(d)
<1>1. d = Defined(StartOf(class), a)
  BY DEF StartSymbol
<1> QED
  BY <1>1 DEF Defined, IsStart

LEMMA ObjectSymbols ==
  ASSUME NEW img, NEW gs, Proper(img, gs), NamesTrue(img), NEW k \in DOMAIN gs,
         NEW d \in ObjectOf(img, gs, k).symbols
  PROVE  \/ IsLabel(img, d, ObjectOf(img, gs, k)) \/ IsLocal(d)
         \/ IsAnchor(d, gs[k].data) \/ IsStart(d)
<1> DEFINE object == ObjectOf(img, gs, k)
<1>1. /\ CodePiece(img, gs, k) \in object.sections
      /\ CodePiece(img, gs, k).holds = CodeBytes(img, gs, k)
  BY ObjectSections DEF CodePiece, Piece
<1>2. ASSUME NEW f \in Chosen(img, gs, k), d \in FunctionSymbols(img, f)
      PROVE  IsLabel(img, d, object) \/ IsLocal(d)
  <2>1. Body(img, f) \subseteq CodeBytes(img, gs, k) /\ f \in img.functions
    BY DEF CodeBytes, Taken, Chosen
  <2>2. f.start \in Body(img, f)
    BY <2>1, BodyBytes DEF Proper
  <2>3. CASE d = Defined(FunctionSymbol(img, f), f.start)
    <3>1. PICK n \in img.names : n.addr = f.start /\ LabelSymbol(img, n) = FunctionSymbol(img, f)
      BY <2>1, FunctionNames
    <3> QED
      BY <1>1, <2>1, <2>2, <2>3, <3>1 DEF IsLabel
  <2>4. CASE d \in Labels(img, Body(img, f), {})
    BY <1>1, <2>1, <2>4, LabelsHeld
  <2>5. CASE \E a : d = Defined(Local(a), a)
    BY <2>5 DEF IsLocal
  <2> QED
    BY <1>2, <2>3, <2>4, <2>5 DEF FunctionSymbols
<1>3. ASSUME NEW gap \in Gaps(img, gs, k), d \in Labels(img, gap, GroupTables(img, gs, k))
      PROVE  IsLabel(img, d, object)
  <2>1. gap \subseteq CodeBytes(img, gs, k)
    BY CodePart
  <2> QED
    BY <1>1, <1>3, <2>1, LabelsHeld
<1>4. ASSUME NEW p \in Pieces(img, gs, k), d \in VariableSymbols(img, p.run)
      PROVE  IsLabel(img, d, object)
  <2>1. PICK r \in gs[k].data :
          /\ r.start < VirtualEnd(img, r)
          /\ p = [class |-> r.class, start |-> r.start, run |-> r.start..(VirtualEnd(img, r) - 1)]
    BY DEF Pieces
  <2>2. RangePiece(img, r) \in object.sections
    BY <2>1, ObjectSections
  <2>3. RangePiece(img, r).holds = p.run
    BY <2>1 DEF RangePiece, Piece
  <2> QED
    BY <1>4, <2>2, <2>3, LabelsHeld
<1>5. ASSUME NEW p \in Pieces(img, gs, k), d = Defined(Anchor(p.class, p.start), p.start)
      PROVE  IsAnchor(d, gs[k].data)
  <2>1. PICK r \in gs[k].data : p.class = r.class /\ p.start = r.start
    BY DEF Pieces
  <2> QED
    BY <1>5, <2>1 DEF IsAnchor
<1>6. ASSUME NEW p \in Pieces(img, gs, k), d \in StartSymbol(img, p.class, p.start)
      PROVE  IsStart(d)
  BY <1>6, StartIsStart
<1>7. \/ \E f \in Chosen(img, gs, k) : d \in FunctionSymbols(img, f)
      \/ \E gap \in Gaps(img, gs, k) : d \in Labels(img, gap, GroupTables(img, gs, k))
      \/ \E p \in Pieces(img, gs, k) :
           \/ d = Defined(Anchor(p.class, p.start), p.start)
           \/ d \in StartSymbol(img, p.class, p.start) \/ d \in VariableSymbols(img, p.run)
  BY ObjectSymbolSet
<1> QED
  BY <1>2, <1>3, <1>4, <1>5, <1>6, <1>7

LEMMA SharedSymbols ==
  ASSUME NEW img, NEW gs, Proper(img, gs), NEW d \in SharedObject(img, gs).symbols
  PROVE  IsLabel(img, d, SharedObject(img, gs)) \/ IsStart(d)
<1> DEFINE object == SharedObject(img, gs)
<1>1. ASSUME NEW gap \in CodeGaps(img, gs), d \in Labels(img, gap, AllTables(img, gs))
      PROVE  IsLabel(img, d, object)
  <2>1. Piece("code", gap) \in object.sections /\ Piece("code", gap).holds = gap
    BY DEF SharedObject, Piece
  <2> QED
    BY <1>1, <2>1, LabelsHeld
<1>2. ASSUME NEW p \in Fragments(img, gs), d \in VariableSymbols(img, p.run)
      PROVE  IsLabel(img, d, object)
  <2>1. FragmentPiece(img, p) \in object.sections /\ FragmentPiece(img, p).holds = p.run
    BY DEF SharedObject, FragmentPiece, Piece
  <2> QED
    BY <1>2, <2>1, LabelsHeld
<1>3. ASSUME NEW p \in Fragments(img, gs), d \in StartSymbol(img, p.class, p.start)
      PROVE  IsStart(d)
  BY <1>3, StartIsStart
<1>4. \/ \E gap \in CodeGaps(img, gs) : d \in Labels(img, gap, AllTables(img, gs))
      \/ \E p \in Fragments(img, gs) :
           d \in StartSymbol(img, p.class, p.start) \/ d \in VariableSymbols(img, p.run)
  BY SharedSymbolSet
<1> QED
  BY <1>1, <1>2, <1>3, <1>4

\* The kinds have no symbol in common.
LEMMA SymbolKinds ==
  ASSUME NEW img, NEW d
  PROVE  /\ \A n : d.symbol = LabelSymbol(img, n) =>
              ~IsLocal(d) /\ ~IsStart(d) /\ \A data : ~IsAnchor(d, data)
         /\ \A a : d.symbol = Local(a) =>
              /\ ~IsStart(d) /\ \A data : ~IsAnchor(d, data)
              /\ \A object : ~IsLabel(img, d, object)
              /\ IsLocal(d) => d = Defined(Local(a), a)
         /\ \A class, a : d.symbol = Anchor(class, a) =>
              ~IsLocal(d) /\ ~IsStart(d) /\ \A object : ~IsLabel(img, d, object)
<1>1. \A n : LabelSymbol(img, n)[1] = "name"
  BY DEF LabelSymbol, LinkName, Named
<1>2. IsLocal(d) => d.symbol[1] = "label"
  <2> SUFFICES ASSUME NEW a, d = Defined(Local(a), a) PROVE d.symbol[1] = "label"
    BY DEF IsLocal
  <2> QED
    BY DEF Defined, Local
<1>3. IsStart(d) => d.symbol[1] = "start"
  BY DEF IsStart, StartOf
<1>4. ASSUME NEW data, IsAnchor(d, data) PROVE d.symbol[1] = "anchor"
  BY <1>4 DEF IsAnchor, Defined, Anchor
<1>5. \A object : IsLabel(img, d, object) => d.symbol[1] = "name"
  BY <1>1 DEF IsLabel, Defined
<1>6. \A a : Local(a)[1] = "label"
  BY DEF Local
<1>7. \A class, a : Anchor(class, a)[1] = "anchor"
  BY DEF Anchor
<1>8. ASSUME NEW a, d.symbol = Local(a), IsLocal(d)
      PROVE  d = Defined(Local(a), a)
  <2>1. PICK b : d = Defined(Local(b), b)
    BY <1>8 DEF IsLocal
  <2>2. Local(a) = Local(b)
    BY <1>8, <2>1 DEF Defined
  <2>3. a = b
    BY <2>2 DEF Local
  <2> QED
    BY <2>1, <2>3
<1>9. ASSUME NEW n, d.symbol = LabelSymbol(img, n)
      PROVE  ~IsLocal(d) /\ ~IsStart(d) /\ \A data : ~IsAnchor(d, data)
  BY <1>1, <1>2, <1>3, <1>4, <1>9
<1>10. ASSUME NEW a, d.symbol = Local(a)
       PROVE  /\ ~IsStart(d) /\ \A data : ~IsAnchor(d, data)
              /\ \A object : ~IsLabel(img, d, object)
  BY <1>3, <1>4, <1>5, <1>6, <1>10
<1>11. ASSUME NEW class, NEW a, d.symbol = Anchor(class, a)
       PROVE  ~IsLocal(d) /\ ~IsStart(d) /\ \A object : ~IsLabel(img, d, object)
  BY <1>2, <1>3, <1>5, <1>7, <1>11
<1> QED
  BY <1>8, <1>9, <1>10, <1>11

\* A label of code is defined by the object that holds it: no table begins there.
LEMMA LabelInObject ==
  ASSUME NEW img, NEW gs, Proper(img, gs), FieldsApart(img), NEW k \in DOMAIN gs,
         \A f \in Chosen(img, gs, k) : ~InvalidTables(img, f),
         NEW n \in img.names, n.addr \in CodeBytes(img, gs, k)
  PROVE  Defined(LabelSymbol(img, n), n.addr) \in ObjectOf(img, gs, k).symbols
<1>1. ASSUME NEW f \in Chosen(img, gs, k), n.addr \in Body(img, f)
      PROVE  Defined(LabelSymbol(img, n), n.addr) \in FunctionSymbols(img, f)
  BY <1>1 DEF FunctionSymbols, Labels
<1>2. ASSUME NEW gap \in Gaps(img, gs, k), n.addr \in gap,
             n.addr \notin Taken(img, Chosen(img, gs, k))
      PROVE  Defined(LabelSymbol(img, n), n.addr) \in Labels(img, gap, GroupTables(img, gs, k))
  <2>1. ASSUME NEW t \in GroupTables(img, gs, k) PROVE n.addr # t.start
    <3>1. PICK f \in Chosen(img, gs, k) : t \in Owns(img, f)
      <4>1. PICK f \in Chosen(img, gs, k) : t \in Tables(img, f)
        BY DEF GroupTables
      <4>2. Chosen(img, gs, k) \subseteq img.functions
        BY DEF Chosen
      <4> QED
        BY <4>1, <4>2, CoveredTaken DEF Proper
    <3>2. t.start \in Body(img, f)
      BY <3>1, TableWithin DEF Proper, Chosen
    <3> QED
      BY <1>2, <3>2 DEF Taken
  <2> QED
    BY <1>2, <2>1 DEF Labels
<1>3. CASE n.addr \in Taken(img, Chosen(img, gs, k))
  <2>1. PICK f \in Chosen(img, gs, k) : n.addr \in Body(img, f)
    BY <1>3 DEF Taken
  <2> QED
    BY <1>1, <2>1, ObjectSymbolSet
<1>4. CASE n.addr \notin Taken(img, Chosen(img, gs, k))
  <2>1. PICK gap \in Gaps(img, gs, k) : n.addr \in gap
    BY <1>4, CodePart, AllBacked
  <2> QED
    BY <1>2, <1>4, <2>1, ObjectSymbolSet
<1> QED
  BY <1>3, <1>4

LEMMA LabelInShared ==
  ASSUME NEW img, NEW gs, Proper(img, gs), FieldsApart(img),
         \A k \in DOMAIN gs : \A f \in Chosen(img, gs, k) : ~InvalidTables(img, f),
         NEW gap \in CodeGaps(img, gs), NEW n \in img.names, n.addr \in gap,
         \A k \in DOMAIN gs : n.addr \notin CodeBytes(img, gs, k)
  PROVE  Defined(LabelSymbol(img, n), n.addr) \in SharedObject(img, gs).symbols
<1>1. ASSUME NEW t \in AllTables(img, gs) PROVE n.addr # t.start
  <2>1. PICK k \in DOMAIN gs : \E f \in Chosen(img, gs, k) : t \in Owns(img, f)
    BY DEF AllTables, Emitted
  <2>2. PICK f \in Chosen(img, gs, k) : t \in Owns(img, f)
    BY <2>1
  <2>3. t.start \in Body(img, f)
    BY <2>2, TableWithin DEF Proper, Chosen
  <2>4. t.start \in CodeBytes(img, gs, k)
    BY <2>3 DEF CodeBytes, Taken
  <2> QED
    BY <2>4
<1>2. Defined(LabelSymbol(img, n), n.addr) \in Labels(img, gap, AllTables(img, gs))
  BY <1>1 DEF Labels
<1> QED
  BY <1>2, SharedSymbolSet

-----------------------------------------------------------------------------
(* Every reference finds its one definition *)

\* A worker writes an object only of a group that is well formed.
WrittenSound ==
  pc \in {"split", "done"} =>
    \A k \in DOMAIN phase : phase[k] = "ok" => ~ObjectFails(model, groups, k)

LEMMA InitSound == Init => WrittenSound
  BY DEF Init, WrittenSound

LEMMA StepSound ==
  ASSUME WrittenSound, [Next]_vars
  PROVE  WrittenSound'
<1>1. CASE Start
  BY <1>1 DEF Start, WrittenSound
<1>2. CASE Reject
  BY <1>2 DEF Reject, WrittenSound
<1>3. CASE Share
  BY <1>3 DEF Share, WrittenSound
<1>4. CASE ShareFails
  BY <1>4 DEF ShareFails, WrittenSound
<1>5. CASE Report
  BY <1>5 DEF Report, WrittenSound
<1>6. CASE ReportFails
  BY <1>6 DEF ReportFails, WrittenSound
<1>7. ASSUME NEW k \in DOMAIN phase, Emit(k)
      PROVE  WrittenSound'
  BY <1>7 DEF Emit, WrittenSound
<1>8. ASSUME NEW k \in DOMAIN phase, EmitFails(k)
      PROVE  WrittenSound'
  BY <1>8 DEF EmitFails, WrittenSound
<1>9. CASE Again
  BY <1>9 DEF Again, WrittenSound
<1>10. CASE UNCHANGED vars
  BY <1>10 DEF vars, WrittenSound
<1> QED
  BY <1>1, <1>2, <1>3, <1>4, <1>5, <1>6, <1>7, <1>8, <1>9, <1>10 DEF Next, Run, Finished

\* What the theorems on references take for granted of a clean run.
Sound ==
  /\ IInv /\ WrittenSound /\ Clean /\ Proper(model, groups)
  /\ NamesTrue(model) /\ FieldsApart(model)

LEMMA TablesValid ==
  ASSUME Sound
  PROVE  \A k \in DOMAIN groups : \A f \in Chosen(model, groups, k) : ~InvalidTables(model, f)
<1> SUFFICES ASSUME NEW k \in DOMAIN groups, NEW f \in Chosen(model, groups, k)
             PROVE  ~InvalidTables(model, f)
  OBVIOUS
<1>1. f.start \in Body(model, f)
  BY BodyBytes DEF Sound, Proper, Chosen
<1>2. f.start \in CodeBytes(model, groups, k)
  BY <1>1 DEF CodeBytes, Taken
<1>3. k \in DOMAIN phase /\ phase[k] = "ok"
  BY <1>2, TakesSomething, CleanObjects, AllOk DEF Sound
<1>4. ~ObjectFails(model, groups, k)
  BY <1>3 DEF Sound, WrittenSound, Clean
<1> QED
  BY <1>4 DEF ObjectFails

\* The objects of the groups and the shared one are what is linked.
LEMMA OutputObjects ==
  ASSUME IInv, Clean
  PROVE  /\ \A k \in DOMAIN groups : ~Empty(groups[k]) =>
              k \in Outputs /\ disk[k] = ObjectOf(model, groups, k)
         /\ ~Nothing(SharedObject(model, groups)) =>
              SharedFile \in Outputs /\ disk[SharedFile] = SharedObject(model, groups)
         /\ \A q \in Outputs :
              \/ q \in DOMAIN groups /\ disk[q] = ObjectOf(model, groups, q)
              \/ q = SharedFile /\ disk[q] = SharedObject(model, groups)
<1>1. /\ \A k \in DOMAIN phase : k \in DOMAIN disk /\ disk[k] = ObjectOf(model, groups, k)
      /\ \A k \in DOMAIN groups : ~Empty(groups[k]) => k \in DOMAIN phase
  BY CleanObjects
<1>2. DOMAIN phase \subseteq DOMAIN groups
  BY DEF IInv
<1>3. IF Nothing(SharedObject(model, groups)) THEN SharedFile \notin DOMAIN disk
      ELSE SharedFile \in DOMAIN disk /\ disk[SharedFile] = SharedObject(model, groups)
  BY DEF IInv, SharedHeld, Clean
<1> QED
  BY <1>1, <1>2, <1>3 DEF Outputs

\* The four kinds of sections that may hold an address.
TakenCode(h, a, k) ==
  /\ h = <<k, CodePiece(model, groups, k)>> /\ disk[k] = ObjectOf(model, groups, k)
  /\ h[2].holds = CodeBytes(model, groups, k) /\ a \in CodeBytes(model, groups, k)

TakenData(h, a, k, r) ==
  /\ h = <<k, RangePiece(model, r)>> /\ disk[k] = ObjectOf(model, groups, k)
  /\ a \in Bytes(r)

LeftCode(h, a, gap) ==
  /\ h = <<SharedFile, Piece("code", gap)>> /\ disk[h[1]] = SharedObject(model, groups)
  /\ h[2].holds = gap /\ a \in gap
  /\ \A k \in DOMAIN groups : a \notin CodeBytes(model, groups, k)

LeftData(h, a, d) ==
  /\ h = <<SharedFile, FragmentPiece(model, d)>> /\ disk[h[1]] = SharedObject(model, groups)
  /\ h[2].holds = d.run /\ a \in d.run
  /\ \A k \in DOMAIN groups : \A r \in groups[k].data : a \notin Bytes(r)

IsCode(img, a) == \E s \in img.sections : s.class = "code" /\ a \in Bytes(s)
IsData(img, a) == \E s \in img.sections : s.class # "code" /\ a \in Bytes(s)

LEMMA HolderKinds ==
  ASSUME IInv, Clean, Proper(model, groups), NEW a, NEW h \in Holders(a)
  PROVE  /\ h[1] \in Outputs /\ h[2] \in disk[h[1]].sections /\ a \in h[2].holds
         /\ h = <<h[1], h[2]>>
         /\ \/ IsCode(model, a) /\ \E k \in DOMAIN groups : TakenCode(h, a, k)
            \/ IsData(model, a) /\ \E k \in DOMAIN groups : \E r \in groups[k].data : TakenData(h, a, k, r)
            \/ IsCode(model, a) /\ \E gap \in CodeGaps(model, groups) : LeftCode(h, a, gap)
            \/ IsData(model, a) /\ \E d \in Fragments(model, groups) : LeftData(h, a, d)
<1>1. PICK p \in Outputs : \E sec \in disk[p].sections : a \in sec.holds /\ h = <<p, sec>>
  BY DEF Holders
<1>2. PICK sec \in disk[p].sections : a \in sec.holds /\ h = <<p, sec>>
  BY <1>1
<1>3. CASE p \in DOMAIN groups /\ disk[p] = ObjectOf(model, groups, p)
  <2>1. CodePiece(model, groups, p).holds = CodeBytes(model, groups, p)
    BY DEF CodePiece, Piece
  <2> QED
    BY <1>2, <1>3, <2>1, ObjectHolds DEF TakenCode, TakenData, IsCode, IsData
<1>4. CASE p = SharedFile /\ disk[p] = SharedObject(model, groups)
  <2>1. \A gap : Piece("code", gap).holds = gap
    BY DEF Piece
  <2>2. \A d : FragmentPiece(model, d).holds = d.run
    BY DEF FragmentPiece, Piece
  <2>3. \/ IsCode(model, a) /\ \E gap \in CodeGaps(model, groups) :
             /\ sec = Piece("code", gap) /\ a \in gap
             /\ \A k \in DOMAIN groups : a \notin CodeBytes(model, groups, k)
        \/ IsData(model, a) /\ \E d \in Fragments(model, groups) :
             /\ sec = FragmentPiece(model, d) /\ a \in d.run
             /\ \A k \in DOMAIN groups : \A r \in groups[k].data : a \notin Bytes(r)
    BY <1>2, <1>4, SharedHolds DEF IsCode, IsData
  <2> QED
    BY <1>2, <1>4, <2>1, <2>2, <2>3 DEF LeftCode, LeftData
<1>5. \/ IsCode(model, a) /\ \E k \in DOMAIN groups : TakenCode(h, a, k)
      \/ IsData(model, a) /\ \E k \in DOMAIN groups : \E r \in groups[k].data : TakenData(h, a, k, r)
      \/ IsCode(model, a) /\ \E gap \in CodeGaps(model, groups) : LeftCode(h, a, gap)
      \/ IsData(model, a) /\ \E d \in Fragments(model, groups) : LeftData(h, a, d)
  BY <1>3, <1>4, OutputObjects
<1> QED
  BY <1>2, <1>5

LEMMA CodeOrData ==
  ASSUME NEW img, NEW gs, Proper(img, gs), NEW a
  PROVE  ~(IsCode(img, a) /\ IsData(img, a))
  BY NotBoth DEF IsCode, IsData

\* An address is in one place at most.
LEMMA OnePlace ==
  ASSUME IInv, Clean, Proper(model, groups), NEW a, NEW g \in Holders(a), NEW h \in Holders(a)
  PROVE  g = h
<1>1. ASSUME NEW j \in DOMAIN groups, NEW k \in DOMAIN groups, TakenCode(g, a, j), TakenCode(h, a, k)
      PROVE  g = h
  BY <1>1, CodeApart DEF TakenCode
<1>2. ASSUME NEW j \in DOMAIN groups, NEW q \in groups[j].data, TakenData(g, a, j, q),
             NEW k \in DOMAIN groups, NEW r \in groups[k].data, TakenData(h, a, k, r)
      PROVE  g = h
  <2>1. j = k /\ q = r
    BY <1>2, RangesOnce DEF TakenData
  <2> QED
    BY <1>2, <2>1 DEF TakenData
<1>3. ASSUME NEW c \in CodeGaps(model, groups), NEW d \in CodeGaps(model, groups),
             LeftCode(g, a, c), LeftCode(h, a, d)
      PROVE  g = h
  BY <1>3, GapsApart DEF LeftCode
<1>4. ASSUME NEW c \in Fragments(model, groups), NEW d \in Fragments(model, groups),
             LeftData(g, a, c), LeftData(h, a, d)
      PROVE  g = h
  BY <1>4, FragmentsApart DEF LeftData
<1>5. \A k \in DOMAIN groups : \A gap \in CodeGaps(model, groups) :
        /\ ~(TakenCode(g, a, k) /\ LeftCode(h, a, gap))
        /\ ~(TakenCode(h, a, k) /\ LeftCode(g, a, gap))
  BY DEF TakenCode, LeftCode
<1>6. \A k \in DOMAIN groups : \A r \in groups[k].data : \A d \in Fragments(model, groups) :
        /\ ~(TakenData(g, a, k, r) /\ LeftData(h, a, d))
        /\ ~(TakenData(h, a, k, r) /\ LeftData(g, a, d))
  BY DEF TakenData, LeftData
<1>7. ~(IsCode(model, a) /\ IsData(model, a))
  BY CodeOrData
<1>8. \/ IsCode(model, a) /\ \E k \in DOMAIN groups : TakenCode(g, a, k)
      \/ IsData(model, a) /\ \E k \in DOMAIN groups : \E r \in groups[k].data : TakenData(g, a, k, r)
      \/ IsCode(model, a) /\ \E gap \in CodeGaps(model, groups) : LeftCode(g, a, gap)
      \/ IsData(model, a) /\ \E d \in Fragments(model, groups) : LeftData(g, a, d)
  BY HolderKinds
<1>9. \/ IsCode(model, a) /\ \E k \in DOMAIN groups : TakenCode(h, a, k)
      \/ IsData(model, a) /\ \E k \in DOMAIN groups : \E r \in groups[k].data : TakenData(h, a, k, r)
      \/ IsCode(model, a) /\ \E gap \in CodeGaps(model, groups) : LeftCode(h, a, gap)
      \/ IsData(model, a) /\ \E d \in Fragments(model, groups) : LeftData(h, a, d)
  BY HolderKinds
<1> QED
  BY <1>1, <1>2, <1>3, <1>4, <1>5, <1>6, <1>7, <1>8, <1>9

\* The addresses a section holds are natural numbers.
LEMMA HolderNat ==
  ASSUME IInv, Clean, Proper(model, groups), NEW a, NEW h \in Holders(a)
  PROVE  h[2].holds \subseteq Nat
<1>1. ASSUME NEW k \in DOMAIN groups, TakenCode(h, a, k) PROVE h[2].holds \subseteq Nat
  BY <1>1, CodeBytesAreCode DEF TakenCode
<1>2. ASSUME NEW k \in DOMAIN groups, NEW r \in groups[k].data, TakenData(h, a, k, r)
      PROVE  h[2].holds \subseteq Nat
  <2>1. h[2] = RangePiece(model, r)
    BY <1>2 DEF TakenData
  <2>2. r.start \in Nat /\ r.end \in Nat
    BY DataRangeFacts
  <2>3. \A b \in RangePiece(model, r).holds : b \in Bytes(r)
    BY RangeHolds
  <2> QED
    BY <2>1, <2>2, <2>3 DEF Bytes
<1>3. ASSUME NEW gap \in CodeGaps(model, groups), LeftCode(h, a, gap) PROVE h[2].holds \subseteq Nat
  <2>1. \E s \in model.sections : gap \in Runs(Left(model, groups, s))
    BY CodeGapRuns
  <2> QED
    BY <1>3, <2>1, RunsWithin, LeftBytes DEF LeftCode
<1>4. ASSUME NEW d \in Fragments(model, groups), LeftData(h, a, d) PROVE h[2].holds \subseteq Nat
  <2>1. PICK s \in model.sections : \E run \in Runs(Rest(groups, s)) : d = FragmentOf(s, run)
    BY FragmentRuns
  <2>2. d.run \in Runs(Rest(groups, s))
    BY <2>1 DEF FragmentOf
  <2> QED
    BY <1>4, <2>2, RunsWithin, RestBytes DEF LeftData
<1> QED
  BY <1>1, <1>2, <1>3, <1>4, HolderKinds

-----------------------------------------------------------------------------
(* One definition for every symbol *)

\* A symbol that only one object defines, and once, is found from every object.
LEMMA OneDefinition ==
  ASSUME NEW p \in Outputs, NEW symbol, symbol[1] # "label", NEW D \in disk[p].symbols,
         D.symbol = symbol,
         \A q \in Outputs : \A d \in disk[q].symbols : d.symbol = symbol => q = p /\ d = D
  PROVE  \A q \in Outputs : Definitions(q, symbol) = {<<p, D>>}
<1> DEFINE in(q) == {<<q, d>> : d \in {d \in disk[q].symbols : d.symbol = symbol}}
<1>1. in(p) = {<<p, D>>}
  OBVIOUS
<1>2. \A q \in Outputs : q # p => in(q) = {}
  OBVIOUS
<1>3. UNION {in(q) : q \in {q \in Outputs : symbol[1] # "label"}} = {<<p, D>>}
  <2> HIDE DEF in
  <2> QED
    BY <1>1, <1>2
<1> SUFFICES ASSUME NEW q \in Outputs PROVE Definitions(q, symbol) = {<<p, D>>}
  OBVIOUS
<1>4. Definitions(q, symbol) =
        IF in(q) # {} THEN in(q)
        ELSE UNION {in(x) : x \in {x \in Outputs : symbol[1] # "label"}}
  BY DEF Definitions
<1> HIDE DEF in
<1> QED
  BY <1>1, <1>2, <1>3, <1>4

LEMMA SymbolsOfLabel ==
  ASSUME Sound, NEW n \in model.names, NEW q \in Outputs, NEW d \in disk[q].symbols,
         d.symbol = LabelSymbol(model, n)
  PROVE  /\ d = Defined(LabelSymbol(model, n), n.addr)
         /\ \E sec \in disk[q].sections : <<q, sec>> \in Holders(n.addr)
<1>1. IsLabel(model, d, disk[q])
  <2>1. CASE q \in DOMAIN groups /\ disk[q] = ObjectOf(model, groups, q)
    BY <2>1, ObjectSymbols, SymbolKinds DEF Sound
  <2>2. CASE disk[q] = SharedObject(model, groups)
    BY <2>2, SharedSymbols, SymbolKinds DEF Sound
  <2> QED
    BY <2>1, <2>2, OutputObjects DEF Sound
<1>2. PICK m \in model.names : /\ d = Defined(LabelSymbol(model, m), m.addr)
                               /\ \E sec \in disk[q].sections : m.addr \in sec.holds
  BY <1>1 DEF IsLabel
<1>3. LabelSymbol(model, m) = LabelSymbol(model, n)
  BY <1>2 DEF Defined
<1>4. m = n
  BY <1>3, LinkNames DEF Sound, Proper
<1> QED
  BY <1>2, <1>4 DEF Holders

\* The resolver knows the label: it is one of code, or of a variable.
Known(img, n) == IsCode(img, n.addr) \/ n \in Variables(img)

\* The object that holds the address of a label defines it.
LEMMA LabelDefined ==
  ASSUME Sound, NEW n \in model.names, Known(model, n), NEW h \in Holders(n.addr)
  PROVE  Defined(LabelSymbol(model, n), n.addr) \in disk[h[1]].symbols
<1> DEFINE D == Defined(LabelSymbol(model, n), n.addr)
<1>1. \A k \in DOMAIN groups : \A f \in Chosen(model, groups, k) : ~InvalidTables(model, f)
  BY TablesValid
<1>2. ASSUME NEW k \in DOMAIN groups, TakenCode(h, n.addr, k) PROVE D \in disk[h[1]].symbols
  BY <1>1, <1>2, LabelInObject DEF Sound, TakenCode
<1>3. ASSUME NEW k \in DOMAIN groups, NEW r \in groups[k].data, TakenData(h, n.addr, k, r),
             n \in Variables(model)
      PROVE  D \in disk[h[1]].symbols
  <2> DEFINE d == [class |-> r.class, start |-> r.start, run |-> r.start..(VirtualEnd(model, r) - 1)]
  <2>1. n.addr \in RangePiece(model, r).holds
    BY <1>3 DEF TakenData, Holders
  <2>2. d \in Pieces(model, groups, k) /\ n.addr \in d.run
    BY <2>1, RangeHolds DEF Sound, Pieces, RangePiece, Piece
  <2>3. D \in VariableSymbols(model, d.run)
    BY <1>3, <2>2 DEF VariableSymbols
  <2>4. D \in ObjectOf(model, groups, k).symbols
    <3> HIDE DEF d, D
    <3> QED
      BY <2>2, <2>3, ObjectSymbolSet DEF Sound
  <2> QED
    BY <1>3, <2>4 DEF TakenData
<1>4. ASSUME NEW gap \in CodeGaps(model, groups), LeftCode(h, n.addr, gap)
      PROVE  D \in disk[h[1]].symbols
  BY <1>1, <1>4, LabelInShared DEF Sound, LeftCode
<1>5. ASSUME NEW d \in Fragments(model, groups), LeftData(h, n.addr, d), n \in Variables(model)
      PROVE  D \in disk[h[1]].symbols
  <2>1. D \in VariableSymbols(model, d.run)
    BY <1>5 DEF VariableSymbols, LeftData
  <2>2. D \in SharedObject(model, groups).symbols
    <3> HIDE DEF D
    <3> QED
      BY <2>1, SharedSymbolSet
  <2> QED
    BY <1>5, <2>2 DEF LeftData
<1>6. IsData(model, n.addr) => n \in Variables(model)
  BY CodeOrData DEF Sound, Known
<1> QED
  BY <1>2, <1>3, <1>4, <1>5, <1>6, HolderKinds DEF Sound

LEMMA LabelDefinedOnce ==
  ASSUME Sound, NEW n \in model.names, Known(model, n), NEW h \in Holders(n.addr)
  PROVE  \A q \in Outputs : Definitions(q, LabelSymbol(model, n)) =
                              {<<h[1], Defined(LabelSymbol(model, n), n.addr)>>}
<1> DEFINE symbol == LabelSymbol(model, n)
           D == Defined(symbol, n.addr)
<1>1. D \in disk[h[1]].symbols /\ h[1] \in Outputs
  BY LabelDefined, HolderKinds DEF Sound
<1>2. ASSUME NEW q \in Outputs, NEW d \in disk[q].symbols, d.symbol = symbol
      PROVE  q = h[1] /\ d = D
  <2>1. PICK sec \in disk[q].sections : <<q, sec>> \in Holders(n.addr)
    BY <1>2, SymbolsOfLabel
  <2>2. <<q, sec>> = h
    BY <2>1, OnePlace DEF Sound
  <2> QED
    BY <1>2, <2>2, SymbolsOfLabel
<1>3. D.symbol = symbol /\ symbol[1] # "label"
  BY DEF Defined, LabelSymbol, LinkName, Named
<1> HIDE DEF D, symbol
<1>4. \A q \in Outputs : Definitions(q, symbol) = {<<h[1], D>>}
  BY <1>1, <1>2, <1>3, OneDefinition
<1> QED
  BY <1>4 DEF D, symbol

-----------------------------------------------------------------------------
(* What lies between two addresses keeps its length *)

LEMMA PlaceShift ==
  ASSUME NEW sec, sec.holds \subseteq Nat, NEW lo \in Nat, NEW a \in Int, lo <= a,
         lo..a \subseteq sec.holds
  PROVE  Place(sec, lo) + (a - lo) = Place(sec, a)
<1> DEFINE H == sec.holds
           Low == {b \in H : b < lo}
           All == {b \in H : b < a}
           Mid == lo..(a - 1)
<1>1. IsFiniteSet(Low) /\ Cardinality(Low) \in Nat
  <2>1. Low \subseteq 0..(lo - 1)
    OBVIOUS
  <2>2. IsFiniteSet(0..(lo - 1))
    BY FS_Interval
  <2> HIDE DEF Low
  <2> QED
    BY <2>1, <2>2, FS_Subset, FS_CardinalityType
<1>2. IsFiniteSet(Mid) /\ Cardinality(Mid) = a - lo
  <2>1. /\ IsFiniteSet(lo..(a - 1))
        /\ Cardinality(lo..(a - 1)) = IF lo > a - 1 THEN 0 ELSE (a - 1) - lo + 1
    BY FS_Interval
  <2>2. Cardinality(lo..(a - 1)) = a - lo
    BY <2>1
  <2> QED
    BY <2>1, <2>2
<1>3. All = Low \cup Mid
  <2>1. \A b \in Mid : b \in H /\ b < a
    OBVIOUS
  <2>2. \A b \in Low : b < a
    OBVIOUS
  <2>3. \A b \in All : b \in Low \/ b \in Mid
    OBVIOUS
  <2> QED
    BY <2>1, <2>2, <2>3
<1>4. Low \cap Mid = {}
  OBVIOUS
<1>5. Cardinality(All) = Cardinality(Low) + Cardinality(Mid)
  <2> HIDE DEF H, Low, Mid, All
  <2>1. Cardinality(Low \cup Mid) =
          Cardinality(Low) + Cardinality(Mid) - Cardinality(Low \cap Mid)
    BY <1>1, <1>2, FS_Union
  <2>2. Cardinality(Low \cap Mid) = 0
    BY <1>4, FS_EmptySet
  <2>3. Cardinality(Low) \in Int /\ Cardinality(Mid) \in Int
    BY <1>1, <1>2, FS_CardinalityType
  <2> QED
    BY <1>3, <2>1, <2>2, <2>3
<1>6. Place(sec, lo) = Cardinality(Low) /\ Place(sec, a) = Cardinality(All)
  BY DEF Place
<1> HIDE DEF H, Low, Mid, All
<1> QED
  BY <1>1, <1>2, <1>5, <1>6

\* A symbol with one definition, in the section that holds all from there to a.
LEMMA LandsFrom ==
  ASSUME NEW q, NEW r, NEW p, NEW sec \in disk[p].sections, sec.holds \subseteq Nat,
         NEW D, NEW from \in Nat, NEW a \in Int, from <= a, from..a \subseteq sec.holds,
         D.at = from, Definitions(q, r.symbol) = {<<p, D>>}, r.addend = a - from
  PROVE  Lands(q, r, a)
<1>1. Place(sec, from) + r.addend = Place(sec, a)
  BY PlaceShift
<1>2. Cardinality(Definitions(q, r.symbol)) = 1
  BY FS_Singleton
<1>3. from \in from..a /\ a \in from..a
  OBVIOUS
<1>4. <<p, D>>[1] = p /\ <<p, D>>[2].at = from
  OBVIOUS
<1>5. \A def \in Definitions(q, r.symbol) : \E se \in disk[def[1]].sections :
         /\ {def[2].at, a} \subseteq se.holds
         /\ Place(se, def[2].at) + r.addend = Place(se, a)
  BY <1>1, <1>3, <1>4
<1> QED
  BY <1>2, <1>5 DEF Lands

\* A label, and what lies behind it in the same section.
LEMMA LabelLands ==
  ASSUME Sound, NEW q \in Outputs, NEW n \in model.names, Known(model, n),
         NEW a \in Int, n.addr <= a, NEW h \in Holders(a), n.addr..a \subseteq h[2].holds,
         NEW r, r.symbol = LabelSymbol(model, n), r.addend = a - n.addr
  PROVE  Lands(q, r, a)
<1> DEFINE D == Defined(LabelSymbol(model, n), n.addr)
<1>1. n.addr \in Nat
  BY NameTypes DEF Sound, Proper
<1>2. /\ h[1] \in Outputs /\ h[2] \in disk[h[1]].sections /\ h = <<h[1], h[2]>>
      /\ h[2].holds \subseteq Nat
  BY HolderKinds, HolderNat DEF Sound
<1>3. n.addr \in h[2].holds
  BY <1>1
<1>4. h \in Holders(n.addr)
  BY <1>2, <1>3 DEF Holders
<1>5. Definitions(q, r.symbol) = {<<h[1], D>>}
  BY <1>4, LabelDefinedOnce
<1>6. D.at = n.addr
  BY DEF Defined
<1> HIDE DEF D
<1> QED
  BY <1>1, <1>2, <1>5, <1>6, LandsFrom

\* A part of a set that touches a run of it is in that run.
LEMMA RunAround ==
  ASSUME NEW S, S \subseteq Nat, NEW run \in Runs(S), NEW a \in run,
         NEW lo \in Nat, NEW hi \in Int, lo <= a, a <= hi, lo..hi \subseteq S
  PROVE  lo..hi \subseteq run
<1>1. a \in Int
  <2>1. run \subseteq S
    BY RunsWithin
  <2> QED
    BY <2>1
<1>2. lo \in lo..hi /\ a \in lo..hi
  BY <1>1
<1>3. PICK other \in Runs(S) : lo \in other
  BY <1>2, RunsCover
<1>4. lo..hi \subseteq other
  BY <1>3, RunsWhole
<1>5. other = run
  BY <1>2, <1>4, RunsApart
<1> QED
  BY <1>4, <1>5

\* The section that holds some byte of a function holds them all.
LEMMA FunctionTogether ==
  ASSUME IInv, Clean, Proper(model, groups), NEW f \in model.functions,
         NEW a \in Body(model, f), NEW h \in Holders(a)
  PROVE  Body(model, f) \subseteq h[2].holds
<1>1. /\ f.start \in Nat /\ EmitEnd(model, f) \in Nat
      /\ \E s \in model.sections : /\ s.class = "code" /\ s.start <= f.start
                                   /\ EmitEnd(model, f) <= Min({s.end, s.stop})
  BY BodyFacts DEF Proper
<1>2. PICK s \in model.sections : /\ s.class = "code" /\ s.start <= f.start
                                  /\ EmitEnd(model, f) <= Min({s.end, s.stop})
  BY <1>1
<1>3. s.start \in Nat /\ Min({s.end, s.stop}) \in Nat
  BY ImageTypes, SegmentEnds DEF Proper
<1>4. /\ Body(model, f) = f.start..(EmitEnd(model, f) - 1)
      /\ a \in Nat /\ f.start <= a /\ a <= EmitEnd(model, f) - 1
  BY <1>1 DEF Body
<1>5. Body(model, f) \subseteq s.start..(Min({s.end, s.stop}) - 1)
  BY <1>1, <1>2, <1>3, <1>4
<1>6. IsCode(model, a)
  BY <1>2, <1>5, SegmentPart DEF IsCode
<1>7. ASSUME NEW k \in DOMAIN groups, a \in CodeBytes(model, groups, k)
      PROVE  f \in Chosen(model, groups, k)
  <2>1. ASSUME NEW g \in Chosen(model, groups, k), a \in Body(model, g) PROVE g = f
    BY <2>1 DEF Proper, Orderly, Chosen
  <2>2. ASSUME NEW r \in groups[k].code, a \in Bytes(r) PROVE f \in Chosen(model, groups, k)
    BY <2>2, RangeTakesWhole
  <2> QED
    BY <1>7, <2>1, <2>2 DEF CodeBytes, Taken
<1>8. ASSUME NEW k \in DOMAIN groups, TakenCode(h, a, k)
      PROVE  Body(model, f) \subseteq h[2].holds
  BY <1>7, <1>8 DEF TakenCode, CodeBytes, Taken
<1>9. ASSUME NEW gap \in CodeGaps(model, groups), LeftCode(h, a, gap)
      PROVE  Body(model, f) \subseteq h[2].holds
  <2>1. PICK t \in model.sections : gap \in Runs(Left(model, groups, t))
    BY CodeGapRuns
  <2>2. a \in gap /\ h[2].holds = gap
    BY <1>9 DEF LeftCode
  <2>3. a \in Bytes(t) /\ a \in Bytes(s)
    BY <1>5, <2>1, <2>2, RunsWithin, LeftBytes, SegmentPart
  <2>4. t = s
    BY <2>3, OneSegment DEF Proper
  <2>5. ASSUME NEW b \in Body(model, f), NEW k \in DOMAIN groups, b \in CodeBytes(model, groups, k)
        PROVE  FALSE
    <3>1. \A g \in Chosen(model, groups, k) : b \in Body(model, g) => g = f
      BY DEF Proper, Orderly, Chosen
    <3>2. \A r \in groups[k].code : b \in Bytes(r) => f \in Chosen(model, groups, k)
      BY RangeTakesWhole
    <3>3. f \in Chosen(model, groups, k)
      BY <2>5, <3>1, <3>2 DEF CodeBytes, Taken
    <3>4. a \in CodeBytes(model, groups, k)
      BY <3>3 DEF CodeBytes, Taken
    <3> QED
      BY <1>9, <3>4 DEF LeftCode
  <2>6. Body(model, f) \subseteq Left(model, groups, s) /\ Left(model, groups, s) \subseteq Nat
    BY <1>5, <2>5, LeftBytes
  <2>7. Body(model, f) \subseteq gap
    <3> DEFINE S == Left(model, groups, s)
               hi == EmitEnd(model, f) - 1
    <3>1. gap \in Runs(S) /\ S \subseteq Nat
      BY <2>1, <2>4, <2>6
    <3>2. hi \in Int /\ f.start <= a /\ a <= hi /\ f.start..hi \subseteq S
      BY <1>1, <1>4, <2>6
    <3> HIDE DEF S, hi
    <3>3. f.start..hi \subseteq gap
      BY <1>1, <2>2, <3>1, <3>2, RunAround
    <3> QED
      BY <1>4, <3>3 DEF hi
  <2> QED
    BY <2>2, <2>7
<1> QED
  BY <1>6, <1>8, <1>9, CodeOrData, HolderKinds

\* A function or its label stands for what is in the function.
LEMMA CallLands ==
  ASSUME Sound, NEW q \in Outputs, NEW a, NEW n \in model.names, Calls(model, n, a),
         n.addr = a => Known(model, n),
         NEW h \in Holders(a),
         NEW r, r.symbol = LabelSymbol(model, n), r.addend = a - n.addr
  PROVE  Lands(q, r, a)
<1>1. a \in h[2].holds /\ h[2].holds \subseteq Nat /\ n.addr \in Nat
  BY HolderKinds, HolderNat, NameTypes DEF Sound, Proper
<1>2. a \in Int
  BY <1>1
<1>3. CASE n.addr = a
  <2>1. n.addr <= a /\ n.addr..a \subseteq h[2].holds
    BY <1>1, <1>3
  <2> QED
    BY <1>2, <1>3, <2>1, LabelLands
<1>4. ASSUME NEW f \in model.functions, n.addr = f.start, a \in Bytes(f)
      PROVE  Lands(q, r, a)
  <2>1. /\ f.start \in Nat /\ f.end \in Nat /\ f.start < f.end
        /\ \E s \in model.sections : s.class = "code" /\ s.start <= f.start /\ f.end <= s.end
    BY BodyFacts DEF Sound, Proper, Loadable
  <2>2. \A s \in model.sections : s.start \in Nat /\ s.end \in Nat
    BY ImageTypes DEF Sound, Proper
  <2>3. IsCode(model, n.addr)
    BY <1>4, <2>1, <2>2 DEF IsCode, Bytes
  <2>4. a \in Body(model, f) /\ \A b : b \in Bytes(f) => b \in Body(model, f)
    BY <1>4, BodyBytes DEF Sound, Proper
  <2>5. Body(model, f) \subseteq h[2].holds
    BY <2>4, FunctionTogether DEF Sound
  <2>6. n.addr <= a /\ n.addr..a \subseteq Bytes(f)
    BY <1>2, <1>4, <2>1 DEF Bytes
  <2>7. n.addr..a \subseteq h[2].holds
    BY <2>4, <2>5, <2>6
  <2> QED
    BY <1>2, <2>3, <2>6, <2>7, LabelLands DEF Known
<1> QED
  BY <1>3, <1>4 DEF Calls

\* Code is named by a label in the same section, at its old distance.
LEMMA CodeLands ==
  ASSUME Sound, TakesFunctions, NEW q \in Outputs, NEW a, CodeNamed(model, a),
         NEW n \in model.names, Calls(model, n, a), NEW r,
         r.symbol = LabelSymbol(model, n), r.addend = a - n.addr
  PROVE  Lands(q, r, a)
<1>1. PICK s \in model.sections : s.class = "code" /\ a \in s.start..(Min({s.end, s.stop}) - 1)
  BY DEF CodeNamed
<1>2. PICK h : h \in Holders(a)
  BY <1>1, CodeHolder DEF Sound
<1>3. IsCode(model, a)
  BY <1>1, SegmentPart DEF Sound, IsCode
<1> QED
  BY <1>2, <1>3, CallLands DEF Known

-----------------------------------------------------------------------------
(* What relocations there are *)

LEMMA ObjectRelocationSet ==
  ASSUME NEW img, NEW gs, Proper(img, gs), NEW k
  PROVE  ObjectOf(img, gs, k).relocations =
           (UNION {FunctionRelocations(img, Owned(gs), f) : f \in Chosen(img, gs, k)}) \cup
           (UNION {PointerRelocations(img, Owned(gs), gap) : gap \in Gaps(img, gs, k)}) \cup
           (UNION {PointerRelocations(img, Owned(gs), d.run) :
                     d \in {d \in Pieces(img, gs, k) : DataKind(img, d.class, d.start) # "bss"}})
<1>1. {f \in Chosen(img, gs, k) : Backed(img, f)} = Chosen(img, gs, k)
  BY AllBacked
<1>2. ObjectOf(img, gs, k).relocations =
        (UNION {FunctionRelocations(img, Owned(gs), f) :
                  f \in {f \in Chosen(img, gs, k) : Backed(img, f)}}) \cup
        (UNION {PointerRelocations(img, Owned(gs), gap) : gap \in Gaps(img, gs, k)}) \cup
        (UNION {PointerRelocations(img, Owned(gs), d.run) :
                  d \in {d \in Pieces(img, gs, k) : DataKind(img, d.class, d.start) # "bss"}})
  BY DEF ObjectOf
<1> QED
  BY <1>1, <1>2

\* A relocation for a pointer is where some word is, inside its run.
LEMMA PointerAt ==
  ASSUME NEW img, Loadable(img), NEW owned, NEW run, NEW r \in PointerRelocations(img, owned, run)
  PROVE  r.at \in run /\ \E w \in img.words : w.at = r.at
<1>1. PICK p \in Pointers(img) : Fits(p.at, run) /\ r.at = p.at
  BY DEF PointerRelocations, Relocation
<1>2. PICK w \in img.words : w.at = p.at
  BY DEF Pointers, Confirmed
<1>3. w.at \in Nat
  <2>1. img.words \subseteq [at : Nat, value : Nat]
    BY DEF Loadable, Model
  <2> QED
    BY <2>1
<1>4. p.at \in p.at..(p.at + Width - 1)
  BY <1>2, <1>3, IdaAssumption
<1> QED
  BY <1>1, <1>2, <1>4 DEF Fits

\* The relocations of an object: those of branches and tables, and pointers that
\* are no field of a function they lie in.
LEMMA RelocationKinds ==
  ASSUME NEW img, NEW gs, Proper(img, gs), NEW k \in DOMAIN gs,
         NEW r \in ObjectOf(img, gs, k).relocations
  PROVE  \/ \E f \in Chosen(img, gs, k) : r \in BranchRelocations(img, f)
         \/ \E f \in Chosen(img, gs, k) : r \in TableRelocations(img, f)
         \/ /\ \E run : r \in PointerRelocations(img, Owned(gs), run)
            /\ \A f \in Chosen(img, gs, k) : r.at \in Body(img, f) => r.at \notin Fields(img, f)
<1> DEFINE Pointer == /\ \E run : r \in PointerRelocations(img, Owned(gs), run)
                      /\ \A f \in Chosen(img, gs, k) :
                           r.at \in Body(img, f) => r.at \notin Fields(img, f)
<1>1. ASSUME NEW f \in Chosen(img, gs, k), r \in PointerRelocations(img, Owned(gs), Body(img, f)),
             r.at \notin Fields(img, f)
      PROVE  Pointer
  <2>1. r.at \in Body(img, f)
    BY <1>1, PointerAt DEF Proper
  <2>2. \A g \in Chosen(img, gs, k) : r.at \in Body(img, g) => g = f
    BY <2>1 DEF Proper, Orderly, Chosen
  <2> QED
    BY <1>1, <2>1, <2>2
<1>2. ASSUME NEW gap \in Gaps(img, gs, k), r \in PointerRelocations(img, Owned(gs), gap)
      PROVE  Pointer
  <2>1. r.at \in gap
    BY <1>2, PointerAt DEF Proper
  <2>2. PICK c \in gs[k].code : gap \in Runs(Bytes(c) \ Taken(img, Chosen(img, gs, k)))
    BY GapRuns
  <2>3. r.at \notin Taken(img, Chosen(img, gs, k))
    BY <2>1, <2>2, RunsWithin
  <2> QED
    BY <1>2, <2>3 DEF Taken
<1>3. ASSUME NEW d \in Pieces(img, gs, k), r \in PointerRelocations(img, Owned(gs), d.run)
      PROVE  Pointer
  <2>1. r.at \in d.run
    BY <1>3, PointerAt DEF Proper
  <2>2. PICK c \in gs[k].data : d.run = RangePiece(img, c).holds
    BY DEF Pieces, RangePiece, Piece
  <2>3. \E s \in img.sections : s.class # "code" /\ r.at \in Bytes(s)
    BY <2>1, <2>2, RangeHolds
  <2>4. r.at \notin CodeBytes(img, gs, k)
    BY <2>3, CodeBytesAreCode, NotBoth
  <2> QED
    BY <1>3, <2>4 DEF CodeBytes, Taken
<1>4. \/ \E f \in Chosen(img, gs, k) : r \in FunctionRelocations(img, Owned(gs), f)
      \/ \E gap \in Gaps(img, gs, k) : r \in PointerRelocations(img, Owned(gs), gap)
      \/ \E d \in Pieces(img, gs, k) : r \in PointerRelocations(img, Owned(gs), d.run)
  BY ObjectRelocationSet
<1>5. ASSUME NEW f \in Chosen(img, gs, k), r \in FunctionRelocations(img, Owned(gs), f)
      PROVE  \/ r \in BranchRelocations(img, f) \/ r \in TableRelocations(img, f)
             \/ /\ r \in PointerRelocations(img, Owned(gs), Body(img, f))
                /\ r.at \notin Fields(img, f)
  BY <1>5 DEF FunctionRelocations
<1> HIDE DEF Pointer
<1>6. \/ \E f \in Chosen(img, gs, k) : r \in BranchRelocations(img, f)
      \/ \E f \in Chosen(img, gs, k) : r \in TableRelocations(img, f)
      \/ Pointer
  BY <1>1, <1>2, <1>3, <1>4, <1>5
<1> QED
  BY <1>6 DEF Pointer

LEMMA BranchAt ==
  ASSUME NEW img, NEW f, NEW r \in BranchRelocations(img, f)
  PROVE  \E b \in img.branches : /\ r.at = b.at
                                 /\ \E ref \in ResolveCode(img, b.target) : r = Relocation(b.at, ref)
<1>1. PICK b \in img.branches : \E ref \in ResolveCode(img, b.target) : r = Relocation(b.at, ref)
  BY DEF BranchRelocations
<1> QED
  BY <1>1 DEF Relocation

CaseOf(img, f, e) ==
  IF e.target \in Body(img, f) THEN {Reference(Local(e.target), 0)} ELSE ResolveCode(img, e.target)

LEMMA TableAt ==
  ASSUME NEW img, NEW f, NEW r \in TableRelocations(img, f)
  PROVE  \E t \in Owns(img, f) :
           \/ r.at = t.dispatch /\ r = Relocation(t.dispatch, Reference(Local(t.start), 0))
           \/ \E e \in t.entries : /\ r.at = e.at
                                   /\ \E ref \in CaseOf(img, f, e) : r = Relocation(e.at, ref)
<1>1. CASE r \in {Relocation(t.dispatch, Reference(Local(t.start), 0)) : t \in Owns(img, f)}
  BY <1>1 DEF Relocation
<1>2. CASE \E e \in UNION {t.entries : t \in Owns(img, f)} :
             \E ref \in CaseOf(img, f, e) : r = Relocation(e.at, ref)
  <2>1. PICK t \in Owns(img, f) :
          \E e \in t.entries : \E ref \in CaseOf(img, f, e) : r = Relocation(e.at, ref)
    BY <1>2
  <2>2. PICK e \in t.entries : \E ref \in CaseOf(img, f, e) : r = Relocation(e.at, ref)
    BY <2>1
  <2>3. r.at = e.at
    BY <2>2 DEF Relocation
  <2> QED
    BY <2>2, <2>3
<1>3. TableRelocations(img, f) =
        {Relocation(t.dispatch, Reference(Local(t.start), 0)) : t \in Owns(img, f)} \cup
        (UNION {{Relocation(e.at, ref) : ref \in CaseOf(img, f, e)} :
                  e \in UNION {t.entries : t \in Owns(img, f)}})
  BY DEF TableRelocations, CaseOf
<1> QED
  BY <1>1, <1>2, <1>3

\* The code of a function is in the one object the function was given to.
LEMMA FunctionHolder ==
  ASSUME Sound, NEW k \in DOMAIN groups, NEW f \in Chosen(model, groups, k),
         NEW a \in Body(model, f), NEW h \in Holders(a)
  PROVE  /\ h[1] = k /\ k \in Outputs /\ disk[k] = ObjectOf(model, groups, k)
         /\ CodePiece(model, groups, k) \in disk[k].sections
         /\ Body(model, f) \subseteq CodePiece(model, groups, k).holds
         /\ CodePiece(model, groups, k).holds \subseteq Nat
<1>1. Body(model, f) \subseteq CodeBytes(model, groups, k)
  BY DEF CodeBytes, Taken
<1>2. a \in CodeBytes(model, groups, k) /\ ~Empty(groups[k])
  BY <1>1, TakesSomething
<1>3. \E s \in model.sections : s.class = "code" /\ a \in Bytes(s)
  BY <1>2, CodeBytesAreCode DEF Sound
<1>4. \A s \in model.sections : a \in Bytes(s) => s.class = "code"
  BY <1>3, NotBoth DEF Sound
<1>5. ASSUME NEW j \in DOMAIN groups, NEW sec \in ObjectOf(model, groups, j).sections, a \in sec.holds
      PROVE  j = k
  <2>1. a \in CodeBytes(model, groups, j)
    BY <1>4, <1>5, ObjectHolds DEF Sound
  <2> QED
    BY <1>2, <2>1, CodeApart DEF Sound
<1>6. ASSUME NEW sec \in SharedObject(model, groups).sections, a \in sec.holds
      PROVE  FALSE
  BY <1>2, <1>4, <1>6, SharedHolds DEF Sound
<1>7. h[1] = k
  BY <1>5, <1>6, HolderFacts DEF Sound
<1>8. k \in Outputs /\ disk[k] = ObjectOf(model, groups, k)
  BY <1>2, OutputObjects DEF Sound
<1>9. /\ CodePiece(model, groups, k) \in ObjectOf(model, groups, k).sections
      /\ CodePiece(model, groups, k).holds = CodeBytes(model, groups, k)
  BY ObjectSections DEF Sound, CodePiece, Piece
<1>10. CodeBytes(model, groups, k) \subseteq Nat
  BY CodeBytesAreCode DEF Sound
<1> QED
  BY <1>1, <1>7, <1>8, <1>9, <1>10

\* A local symbol of a function is found in its own object.
LEMMA LocalLands ==
  ASSUME Sound, NEW k \in DOMAIN groups, NEW f \in Chosen(model, groups, k),
         NEW h \in Holders(f.start), NEW a \in Body(model, f),
         Defined(Local(a), a) \in FunctionSymbols(model, f),
         NEW r, r.symbol = Local(a), r.addend = 0
  PROVE  Lands(k, r, a)
<1> DEFINE D == Defined(Local(a), a)
           sec == CodePiece(model, groups, k)
           found == {<<k, d>> : d \in {d \in disk[k].symbols : d.symbol = Local(a)}}
<1>1. f.start \in Body(model, f)
  BY BodyBytes DEF Sound, Proper, Chosen
<1>2. /\ k \in Outputs /\ disk[k] = ObjectOf(model, groups, k) /\ sec \in disk[k].sections
      /\ Body(model, f) \subseteq sec.holds /\ sec.holds \subseteq Nat
  BY <1>1, FunctionHolder
<1>3. D \in disk[k].symbols /\ D.symbol = Local(a) /\ D.at = a
  BY <1>2, ObjectSymbolSet DEF Sound, Defined
<1>4. \A d \in disk[k].symbols : d.symbol = Local(a) => d = D
  BY <1>2, ObjectSymbols, SymbolKinds DEF Sound
<1>5. found = {<<k, D>>}
  <2> HIDE DEF D
  <2> QED
    BY <1>3, <1>4
<1>6. Definitions(k, r.symbol) = {<<k, D>>}
  <2>1. found # {} => Definitions(k, Local(a)) = found
    BY DEF Definitions
  <2> HIDE DEF found, D
  <2> QED
    BY <1>5, <2>1
<1>7. /\ a \in Nat /\ a \in Int /\ a <= a /\ a..a \subseteq sec.holds
      /\ r.addend = a - a
  BY <1>2
<1> HIDE DEF D, sec
<1> QED
  BY <1>2, <1>3, <1>6, <1>7, LandsFrom

-----------------------------------------------------------------------------
(* Branches and switches *)

LEMMA BranchesLandStep ==
  ASSUME Sound, TargetsNamed(model)
  PROVE  BranchesLand
<1> SUFFICES ASSUME NEW f \in Emitted(model, groups), NEW b \in model.branches,
                    b.at \in Bytes(f), b.target \notin Body(model, f), NEW h \in Holders(b.at)
             PROVE  LET rs == RelocationsAt(h[1], b.at)
                    IN  Cardinality(rs) = 1 /\ \A r \in rs : Lands(h[1], r, b.target)
  BY DEF BranchesLand
<1>1. PICK k \in DOMAIN groups : f \in Chosen(model, groups, k)
  BY DEF Emitted
<1>2. f \in model.functions /\ TakesFunctions
  BY <1>1 DEF Chosen, TakesFunctions
<1>3. Bytes(f) \subseteq Body(model, f) /\ Bytes(f) \subseteq Nat
  <2>1. Bytes(f) \subseteq Body(model, f)
    BY <1>2, BodyBytes DEF Sound, Proper
  <2>2. f.start \in Nat /\ f.end \in Nat
    BY <1>2, BodyFacts DEF Sound, Proper
  <2> QED
    BY <2>1, <2>2 DEF Bytes
<1>4. h[1] = k /\ k \in Outputs /\ disk[k] = ObjectOf(model, groups, k)
  BY <1>1, <1>3, FunctionHolder
<1>5. ~b.short /\ CodeNamed(model, b.target)
  BY DEF TargetsNamed
<1>6. PICK n \in model.names :
        /\ Calls(model, n, b.target)
        /\ ResolveCode(model, b.target) = {Reference(LabelSymbol(model, n), b.target - n.addr)}
  BY <1>5, CodeResolved DEF Sound, Proper
<1> DEFINE ref == Reference(LabelSymbol(model, n), b.target - n.addr)
           R == Relocation(b.at, ref)
<1>7. R \in BranchRelocations(model, f)
  <2> DEFINE code == Bytes(f) \ UNION {Bytes(t) : t \in Owns(model, f)}
  <2>1. b.at \in code /\ code \subseteq Nat
    BY <1>3 DEF Sound, FieldsApart, Owns, Tables
  <2>2. PICK span \in Runs(code) : b.at \in span
    <3> HIDE DEF code
    <3> QED
      BY <2>1, RunsCover
  <2>3. span \subseteq code
    <3> HIDE DEF code
    <3> QED
      BY RunsWithin
  <2>4. b.target \notin span
    BY <1>3, <2>3
  <2>5. span \in Spans(model, f)
    BY DEF Spans
  <2>6. ref \in ResolveCode(model, b.target)
    BY <1>6
  <2> HIDE DEF ref, code
  <2> QED
    BY <1>5, <2>2, <2>4, <2>5, <2>6 DEF BranchRelocations
<1>8. R \in disk[k].relocations /\ R.at = b.at
  <2>1. R.at = b.at
    BY DEF Relocation
  <2>2. R \in FunctionRelocations(model, Owned(groups), f)
    BY <1>7 DEF FunctionRelocations
  <2> HIDE DEF R
  <2> QED
    BY <1>1, <1>4, <2>1, <2>2, ObjectRelocationSet DEF Sound
<1>9. ASSUME NEW r \in disk[k].relocations, r.at = b.at
      PROVE  r = R
  <2>1. CASE \E g \in Chosen(model, groups, k) : r \in BranchRelocations(model, g)
    <3>1. PICK c \in model.branches :
            r.at = c.at /\ \E x \in ResolveCode(model, c.target) : r = Relocation(c.at, x)
      BY <2>1, BranchAt
    <3>2. c = b
      BY <1>9, <3>1 DEF Sound, FieldsApart
    <3> QED
      BY <1>6, <3>1, <3>2
  <2>2. CASE \E g \in Chosen(model, groups, k) : r \in TableRelocations(model, g)
    <3>1. PICK t \in model.tables : r.at = t.dispatch \/ \E e \in t.entries : r.at = e.at
      BY <2>2, TableAt DEF Owns, Tables
    <3> QED
      BY <1>9, <3>1 DEF Sound, FieldsApart
  <2>3. CASE \E run : r \in PointerRelocations(model, Owned(groups), run)
    <3>1. \E w \in model.words : w.at = r.at
      BY <2>3, PointerAt DEF Sound, Proper
    <3> QED
      BY <1>9, <3>1 DEF Sound, FieldsApart
  <2> QED
    BY <1>4, <2>1, <2>2, <2>3, RelocationKinds DEF Sound
<1>10. RelocationsAt(k, b.at) = {R}
  <2> HIDE DEF R
  <2> QED
    BY <1>8, <1>9 DEF RelocationsAt
<1>11. R.symbol = LabelSymbol(model, n) /\ R.addend = b.target - n.addr
  BY DEF Relocation, Reference
<1> HIDE DEF R
<1>12. Lands(k, R, b.target)
  BY <1>2, <1>4, <1>5, <1>6, <1>11, CodeLands
<1>13. Cardinality({R}) = 1
  BY FS_Singleton
<1> QED
  BY <1>4, <1>10, <1>12, <1>13

LEMMA SwitchesLandStep ==
  ASSUME Sound, TargetsNamed(model)
  PROVE  SwitchesLand
<1> SUFFICES ASSUME NEW f \in Emitted(model, groups), NEW t \in Owns(model, f),
                    NEW h \in Holders(f.start)
             PROVE  /\ \A r \in RelocationsAt(h[1], t.dispatch) : Lands(h[1], r, t.start)
                    /\ \A e \in t.entries :
                         /\ Cardinality(RelocationsAt(h[1], e.at)) = 1
                         /\ \A r \in RelocationsAt(h[1], e.at) : Lands(h[1], r, e.target)
  BY DEF SwitchesLand
<1>1. PICK k \in DOMAIN groups : f \in Chosen(model, groups, k)
  BY DEF Emitted
<1>2. f \in model.functions /\ TakesFunctions
  BY <1>1 DEF Chosen, TakesFunctions
<1>3. f.start \in Body(model, f) /\ Bytes(f) \subseteq Body(model, f)
  BY <1>2, BodyBytes DEF Sound, Proper
<1>4. h[1] = k /\ k \in Outputs /\ disk[k] = ObjectOf(model, groups, k)
  BY <1>1, <1>3, FunctionHolder
<1>5. \A g \in Chosen(model, groups, k) : \A u \in Owns(model, g) :
        /\ u \in model.tables /\ u.start \in Body(model, g) /\ Bytes(u) \subseteq Body(model, g)
        /\ u.dispatch \in Bytes(g)
        /\ \A v \in Owns(model, g) : \A a : a \in Bytes(u) /\ a \in Bytes(v) => v = u
  BY TablesValid, TableWithin DEF Sound, Proper, Chosen
<1>6. \A g \in Chosen(model, groups, k) : \A a : a \in Body(model, f) /\ a \in Body(model, g) => g = f
  BY <1>2 DEF Sound, Proper, Orderly, Chosen
<1>7. /\ t \in model.tables /\ t.start \in Body(model, f) /\ t.dispatch \in Bytes(f)
      /\ Bytes(t) \subseteq Body(model, f)
  BY <1>1, <1>5
<1>8. /\ \A u \in model.tables : /\ t.dispatch \notin Bytes(u)
                                 /\ t.dispatch = u.dispatch => t = u
                                 /\ u.dispatch \notin Bytes(t)
                                 /\ \A e \in u.entries : e.at \in Bytes(u)
      /\ \A e \in t.entries : \A g \in t.entries : e.at = g.at => e = g
      /\ \A b \in model.branches : b.at # t.dispatch /\ b.at \notin Bytes(t)
  BY <1>7 DEF Sound, FieldsApart
<1>9. \A e \in t.entries : e.at \in Bytes(t) /\ e.at \in Body(model, f)
  BY <1>7, <1>8
<1>10. /\ t.dispatch \in Fields(model, f)
       /\ \A e \in t.entries : e.at \in Fields(model, f)
  BY DEF Fields
\* Nothing but the table itself relocates its fields.
<1>11. ASSUME NEW r \in disk[k].relocations,
              r.at = t.dispatch \/ \E e \in t.entries : r.at = e.at
       PROVE  \E g \in Chosen(model, groups, k) : r \in TableRelocations(model, g)
  <2>1. r.at \in Body(model, f) /\ r.at \in Fields(model, f)
    BY <1>3, <1>7, <1>9, <1>10, <1>11
  <2>2. ASSUME NEW g \in Chosen(model, groups, k), r \in BranchRelocations(model, g)
        PROVE  FALSE
    <3>1. PICK b \in model.branches : r.at = b.at
      BY <2>2, BranchAt
    <3> QED
      BY <1>8, <1>9, <1>11, <3>1
  <2> QED
    BY <1>1, <1>4, <2>1, <2>2, RelocationKinds DEF Sound
<1>12. ASSUME NEW r \in RelocationsAt(k, t.dispatch)
       PROVE  Lands(k, r, t.start)
  <2>1. r \in disk[k].relocations /\ r.at = t.dispatch
    BY DEF RelocationsAt
  <2>2. PICK g \in Chosen(model, groups, k) : r \in TableRelocations(model, g)
    BY <1>11, <2>1
  <2>3. PICK u \in Owns(model, g) :
          \/ r.at = u.dispatch /\ r = Relocation(u.dispatch, Reference(Local(u.start), 0))
          \/ \E e \in u.entries : r.at = e.at
    BY <2>2, TableAt
  <2>4. u \in model.tables
    BY DEF Owns, Tables
  <2>5. r.at = u.dispatch /\ r = Relocation(u.dispatch, Reference(Local(u.start), 0)) /\ u = t
    BY <1>8, <2>1, <2>3, <2>4
  <2>6. r.symbol = Local(t.start) /\ r.addend = 0
    BY <2>5 DEF Relocation, Reference
  <2>7. Defined(Local(t.start), t.start) \in FunctionSymbols(model, f)
    BY DEF FunctionSymbols
  <2> QED
    BY <1>1, <1>7, <2>6, <2>7, LocalLands
<1>13. ASSUME NEW e \in t.entries, NEW r \in disk[k].relocations, r.at = e.at
       PROVE  \E ref \in CaseOf(model, f, e) : r = Relocation(e.at, ref)
  <2>1. PICK g \in Chosen(model, groups, k) : r \in TableRelocations(model, g)
    BY <1>11, <1>13
  <2>2. PICK u \in Owns(model, g) :
          \/ r.at = u.dispatch
          \/ \E x \in u.entries : r.at = x.at /\ \E ref \in CaseOf(model, g, x) : r = Relocation(x.at, ref)
    BY <2>1, TableAt
  <2>3. u \in model.tables /\ Bytes(u) \subseteq Body(model, g)
    BY <1>5
  <2>4. PICK x \in u.entries : r.at = x.at /\ \E ref \in CaseOf(model, g, x) : r = Relocation(x.at, ref)
    BY <1>8, <1>9, <1>13, <2>2, <2>3
  <2>5. e.at \in Bytes(t) /\ e.at \in Bytes(u) /\ e.at \in Body(model, f) /\ e.at \in Body(model, g)
    BY <1>8, <1>9, <1>13, <2>3, <2>4
  <2>6. g = f
    BY <1>6, <2>5
  <2>7. u = t
    BY <1>5, <2>5, <2>6
  <2>8. x = e
    BY <1>8, <1>13, <2>4, <2>7
  <2> QED
    BY <2>4, <2>6, <2>8
<1>14. ASSUME NEW e \in t.entries, NEW ref \in CaseOf(model, f, e)
       PROVE  Relocation(e.at, ref) \in disk[k].relocations
  <2>1. e \in UNION {u.entries : u \in Owns(model, f)}
    OBVIOUS
  <2>2. Relocation(e.at, ref) \in TableRelocations(model, f)
    BY <1>14, <2>1 DEF TableRelocations, CaseOf
  <2>3. Relocation(e.at, ref) \in FunctionRelocations(model, Owned(groups), f)
    BY <2>2 DEF FunctionRelocations
  <2> QED
    BY <1>1, <1>4, <2>3, ObjectRelocationSet DEF Sound
<1>15. ASSUME NEW e \in t.entries
       PROVE  \E ref : CaseOf(model, f, e) = {ref} /\ Lands(k, Relocation(e.at, ref), e.target)
  <2>1. CASE e.target \in Body(model, f)
    <3> DEFINE ref == Reference(Local(e.target), 0)
               r == Relocation(e.at, ref)
    <3>1. CaseOf(model, f, e) = {ref}
      BY <2>1 DEF CaseOf
    <3>2. r.symbol = Local(e.target) /\ r.addend = 0
      BY DEF Relocation, Reference
    <3>3. Defined(Local(e.target), e.target) \in FunctionSymbols(model, f)
      <4>1. e \in UNION {u.entries : u \in Owns(model, f)}
        OBVIOUS
      <4> QED
        BY <2>1, <4>1 DEF FunctionSymbols
    <3> HIDE DEF r
    <3>4. Lands(k, r, e.target)
      BY <1>1, <2>1, <3>2, <3>3, LocalLands
    <3> QED
      BY <3>1, <3>4 DEF r
  <2>2. CASE e.target \notin Body(model, f)
    <3>1. CodeNamed(model, e.target)
      BY <1>7 DEF TargetsNamed
    <3>2. PICK n \in model.names :
            /\ Calls(model, n, e.target)
            /\ ResolveCode(model, e.target) = {Reference(LabelSymbol(model, n), e.target - n.addr)}
      BY <3>1, CodeResolved DEF Sound, Proper
    <3> DEFINE ref == Reference(LabelSymbol(model, n), e.target - n.addr)
               r == Relocation(e.at, ref)
    <3>3. CaseOf(model, f, e) = {ref}
      BY <2>2, <3>2 DEF CaseOf
    <3>4. r.symbol = LabelSymbol(model, n) /\ r.addend = e.target - n.addr
      BY DEF Relocation, Reference
    <3> HIDE DEF r
    <3>5. Lands(k, r, e.target)
      BY <1>2, <1>4, <3>1, <3>2, <3>4, CodeLands
    <3> QED
      BY <3>3, <3>5 DEF r
  <2> QED
    BY <2>1, <2>2
<1>16. ASSUME NEW e \in t.entries
       PROVE  /\ Cardinality(RelocationsAt(k, e.at)) = 1
              /\ \A r \in RelocationsAt(k, e.at) : Lands(k, r, e.target)
  <2>1. PICK ref : CaseOf(model, f, e) = {ref} /\ Lands(k, Relocation(e.at, ref), e.target)
    BY <1>15
  <2> DEFINE R == Relocation(e.at, ref)
  <2>2. R \in disk[k].relocations /\ R.at = e.at
    <3>1. R.at = e.at
      BY DEF Relocation
    <3> QED
      BY <1>14, <2>1, <3>1
  <2>3. \A r \in disk[k].relocations : r.at = e.at => r = R
    BY <1>13, <2>1
  <2> HIDE DEF R
  <2>4. RelocationsAt(k, e.at) = {R}
    BY <2>2, <2>3 DEF RelocationsAt
  <2>5. Cardinality({R}) = 1
    BY FS_Singleton
  <2>6. Lands(k, R, e.target)
    BY <2>1 DEF R
  <2> QED
    BY <2>4, <2>5, <2>6
<1> QED
  BY <1>4, <1>12, <1>16

References == NamesTrue(model) /\ FieldsApart(model) /\ TargetsNamed(model)

\* Calls and jumps out of the functions of an object reach what they went to,
\* whatever object it is in now and however the database names it.
THEOREM BranchesArrive ==
  FilesApart =>
    (Spec => [](Orderly(model) /\ Careful(model, groups) /\ References => BranchesLand))
<1>1. FilesApart /\ IInv /\ WrittenSound /\ [Next]_vars => IInv' /\ WrittenSound'
  BY StepInv, StepSound
<1>2. IInv /\ WrittenSound =>
        (Orderly(model) /\ Careful(model, groups) /\ References => BranchesLand)
  <2>1. ~Clean => BranchesLand
    BY DEF BranchesLand
  <2> QED
    BY <2>1, ProperState, BranchesLandStep DEF Sound, References
<1> SUFFICES ASSUME FilesApart
             PROVE  Spec => [](Orderly(model) /\ Careful(model, groups) /\ References
                               => BranchesLand)
  OBVIOUS
<1> QED
  BY <1>1, <1>2, InitInv, InitSound, PTL DEF Spec

\* A switch in an object finds its table and goes where it went, in the function
\* or, with a case outside it, in another object.
THEOREM SwitchesArrive ==
  FilesApart =>
    (Spec => [](Orderly(model) /\ Careful(model, groups) /\ References => SwitchesLand))
<1>1. FilesApart /\ IInv /\ WrittenSound /\ [Next]_vars => IInv' /\ WrittenSound'
  BY StepInv, StepSound
<1>2. IInv /\ WrittenSound =>
        (Orderly(model) /\ Careful(model, groups) /\ References => SwitchesLand)
  <2>1. ~Clean => SwitchesLand
    BY DEF SwitchesLand
  <2> QED
    BY <2>1, ProperState, SwitchesLandStep DEF Sound, References
<1> SUFFICES ASSUME FilesApart
             PROVE  Spec => [](Orderly(model) /\ Careful(model, groups) /\ References
                               => SwitchesLand)
  OBVIOUS
<1> QED
  BY <1>1, <1>2, InitInv, InitSound, PTL DEF Spec

-----------------------------------------------------------------------------
(* What a pointer goes to *)

\* The section that holds some byte of a variable holds it from its start.
LEMMA VariableTogether ==
  ASSUME Sound, KeepsVariables(model, groups), VariablesWhole(model),
         NEW n \in Variables(model), NEW a, n.addr <= a, a - n.addr < n.size, NEW h \in Holders(a)
  PROVE  n.addr..a \subseteq h[2].holds
<1>1. n \in model.names /\ n.addr \in Nat /\ n.size \in Nat /\ a \in Nat
  <2>1. n \in model.names
    BY DEF Variables
  <2>2. model.names \subseteq Label
    BY DEF Sound, Proper, Loadable, Model
  <2>3. n.addr \in Nat /\ n.size \in Nat
    BY <2>1, <2>2 DEF Label
  <2> QED
    BY <2>1, <2>3, HolderKinds, HolderNat DEF Sound
<1>2. PICK s \in model.sections :
        /\ s.class # "code"
        /\ n.addr..(n.addr + n.size - 1) \subseteq s.start..(Min({s.end, s.stop}) - 1)
  BY DEF VariablesWhole
<1>3. n.addr..a \subseteq s.start..(Min({s.end, s.stop}) - 1)
  <2>1. n.addr..a \subseteq n.addr..(n.addr + n.size - 1)
    BY <1>1
  <2> QED
    BY <1>2, <2>1
<1>4. a \in n.addr..a
  BY <1>1
<1>5. a \in Bytes(s)
  BY <1>3, <1>4, SegmentPart DEF Sound
<1>6. ~IsCode(model, a)
  BY <1>2, <1>5, CodeOrData DEF Sound, IsData
<1>7. ASSUME NEW k \in DOMAIN groups, NEW r \in groups[k].data, NEW b \in n.addr..a, b \in Bytes(r)
      PROVE  n.addr..a \subseteq Bytes(r)
  <2>1. r \in Owned(groups)
    BY OwnedRange
  <2>2. r.start \in Nat /\ r.end \in Nat
    BY DataRangeFacts DEF Sound
  <2>3. n.addr < r.end /\ r.start < n.addr + n.size
    BY <1>1, <1>7, <2>2 DEF Bytes
  <2>4. r.start <= n.addr /\ n.addr + n.size <= r.end
    BY <1>1, <2>1, <2>3 DEF KeepsVariables
  <2> QED
    BY <1>1, <2>2, <2>4 DEF Bytes
<1>8. ASSUME NEW k \in DOMAIN groups, NEW r \in groups[k].data, TakenData(h, a, k, r)
      PROVE  n.addr..a \subseteq h[2].holds
  <2>1. a \in Bytes(r) /\ h[2] = RangePiece(model, r)
    BY <1>8 DEF TakenData
  <2>2. n.addr..a \subseteq Bytes(r)
    BY <1>4, <1>7, <2>1
  <2> QED
    BY <1>3, <2>1, <2>2, RangeHolds DEF Sound
<1>9. ASSUME NEW d \in Fragments(model, groups), LeftData(h, a, d)
      PROVE  n.addr..a \subseteq h[2].holds
  <2>1. PICK t \in model.sections : \E run \in Runs(Rest(groups, t)) : d = FragmentOf(t, run)
    BY FragmentRuns DEF Sound
  <2>2. d.run \in Runs(Rest(groups, t)) /\ a \in d.run /\ h[2].holds = d.run
    BY <1>9, <2>1 DEF FragmentOf, LeftData
  <2>3. d.run \subseteq Rest(groups, t)
    BY <2>2, RunsWithin
  <2>4. a \in Bytes(t)
    BY <2>2, <2>3, RestBytes DEF Sound
  <2>5. s = t
    BY <1>5, <2>4, OneSegment DEF Sound, Proper
  <2>6. \A k \in DOMAIN groups : \A r \in groups[k].data : a \notin Bytes(r)
    BY <1>9 DEF LeftData
  <2>7. n.addr..a \subseteq Rest(groups, s)
    BY <1>3, <1>4, <1>7, <2>6, RestBytes DEF Sound
  <2>8. Rest(groups, s) \subseteq Nat
    BY RestBytes DEF Sound
  <2>9. n.addr..a \subseteq d.run
    BY <1>1, <2>2, <2>5, <2>7, <2>8, RunAround
  <2> QED
    BY <2>2, <2>9
<1> QED
  BY <1>6, <1>8, <1>9, HolderKinds DEF Sound

\* The anchor of a range of data, and what lies behind it in the range.
LEMMA AnchorLands ==
  ASSUME Sound, NEW q \in Outputs, NEW k \in DOMAIN groups, NEW r \in groups[k].data,
         NEW a, a \in Bytes(r), NEW h \in Holders(a),
         NEW rel, rel.symbol = Anchor(r.class, r.start), rel.addend = a - r.start
  PROVE  Lands(q, rel, a)
<1> DEFINE symbol == Anchor(r.class, r.start)
           D == Defined(symbol, r.start)
<1>1. /\ r.start \in Nat /\ r.end \in Nat /\ r.start < r.end /\ VirtualEnd(model, r) \in Int
      /\ IsData(model, a)
  <2>1. /\ r.start \in Nat /\ r.end \in Nat /\ r.start < r.end
        /\ \E s \in model.sections :
             /\ s.class # "code" /\ s.start <= r.start /\ r.end <= s.end
             /\ VirtualEnd(model, r) = IF r.end <= s.stop THEN r.end ELSE s.stop
    BY DataRangeFacts DEF Sound
  <2>2. \A s \in model.sections : s.start \in Nat /\ s.end \in Nat /\ s.stop \in Nat
    BY ImageTypes DEF Sound, Proper
  <2>3. VirtualEnd(model, r) \in Int
    BY <2>1, <2>2
  <2>4. IsData(model, a)
    BY <2>1, <2>2 DEF IsData, Bytes
  <2> QED
    BY <2>1, <2>3, <2>4
<1>2. TakenData(h, a, k, r)
  <2>1. ASSUME NEW j \in DOMAIN groups, NEW x \in groups[j].data, TakenData(h, a, j, x)
        PROVE  TakenData(h, a, k, r)
    <3>1. j = k /\ x = r
      BY <2>1, RangesOnce DEF Sound, TakenData
    <3> QED
      BY <2>1, <3>1
  <2>2. \A d \in Fragments(model, groups) : ~LeftData(h, a, d)
    BY DEF LeftData
  <2>3. ~IsCode(model, a)
    BY <1>1, CodeOrData DEF Sound
  <2> QED
    BY <2>1, <2>2, <2>3, HolderKinds DEF Sound
<1>3. /\ h[1] = k /\ h[2] = RangePiece(model, r) /\ disk[k] = ObjectOf(model, groups, k)
      /\ k \in Outputs /\ h[2] \in disk[k].sections /\ a \in h[2].holds
      /\ h[2].holds \subseteq Nat
  BY <1>2, HolderKinds, HolderNat DEF Sound, TakenData
<1>4. h[2].holds = r.start..(VirtualEnd(model, r) - 1)
  BY <1>3 DEF RangePiece, Piece
<1>5. r.start <= a /\ a \in Int /\ r.start..a \subseteq h[2].holds /\ r.start < VirtualEnd(model, r)
  BY <1>1, <1>3, <1>4
<1>6. D \in disk[k].symbols
  <2> DEFINE d == [class |-> r.class, start |-> r.start, run |-> r.start..(VirtualEnd(model, r) - 1)]
  <2>1. d \in Pieces(model, groups, k)
    BY <1>5 DEF Pieces
  <2>2. D = Defined(Anchor(d.class, d.start), d.start)
    OBVIOUS
  <2> HIDE DEF d, D
  <2>3. D \in ObjectOf(model, groups, k).symbols
    BY <2>1, <2>2, ObjectSymbolSet DEF Sound
  <2> QED
    BY <1>3, <2>3
<1>7. ASSUME NEW p \in Outputs, NEW d \in disk[p].symbols, d.symbol = symbol
      PROVE  p = k /\ d = D
  <2>1. ~IsLocal(d) /\ ~IsStart(d) /\ \A object : ~IsLabel(model, d, object)
    BY <1>7, SymbolKinds
  <2>2. p \in DOMAIN groups /\ IsAnchor(d, groups[p].data)
    BY <2>1, OutputObjects, ObjectSymbols, SharedSymbols DEF Sound
  <2>3. PICK x \in groups[p].data : d = Defined(Anchor(x.class, x.start), x.start)
    BY <2>2 DEF IsAnchor
  <2>4. Anchor(x.class, x.start) = Anchor(r.class, r.start)
    BY <1>7, <2>3 DEF Defined
  <2>5. x.start = r.start
    BY <2>4 DEF Anchor
  <2>6. x.start \in Nat /\ x.end \in Nat /\ x.start < x.end
    BY <2>2, DataRangeFacts DEF Sound
  <2>7. r.start \in Bytes(x) /\ r.start \in Bytes(r)
    BY <1>1, <2>5, <2>6 DEF Bytes
  <2>8. p = k /\ x = r
    BY <2>2, <2>7, RangesOnce DEF Sound
  <2> QED
    BY <2>3, <2>8
<1>8. D.symbol = symbol /\ D.at = r.start /\ symbol[1] # "label"
  BY DEF Defined, Anchor
<1> HIDE DEF D, symbol
<1>9. Definitions(q, symbol) = {<<k, D>>}
  BY <1>3, <1>6, <1>7, <1>8, OneDefinition
<1>10. rel.symbol = symbol
  BY DEF symbol
<1> QED
  BY <1>1, <1>3, <1>5, <1>8, <1>9, <1>10, LandsFrom

\* The variable around an address is the one that starts last.
LEMMA OneCovering ==
  ASSUME NEW img, Loadable(img), NamesTrue(img), NEW a, Covering(img, a) # {}
  PROVE  \E n \in Variables(img) :
           /\ n.addr <= a /\ a - n.addr < n.size
           /\ Covering(img, a) = {Reference(LabelSymbol(img, n), a - n.addr)}
<1> DEFINE Latest == {n \in Variables(img) :
                      /\ n.addr <= a /\ a - n.addr < n.size
                      /\ \A m \in Variables(img) : m.addr <= a => m.addr <= n.addr}
<1>1. Covering(img, a) = {Reference(LabelSymbol(img, n), a - n.addr) : n \in Latest}
  BY DEF Covering
<1>2. PICK n \in Latest : TRUE
  BY <1>1
<1>3. \A m \in Latest : m = n
  <2>1. \A m \in Latest : m \in img.names /\ m.addr \in Nat
    BY NameTypes DEF Variables
  <2>2. \A m \in Latest : m.addr <= n.addr /\ n.addr <= m.addr
    OBVIOUS
  <2>3. n \in img.names /\ n.addr \in Nat
    BY <2>1
  <2> HIDE DEF Latest
  <2> QED
    BY <2>1, <2>2, <2>3 DEF NamesTrue
<1>4. Latest = {n}
  BY <1>2, <1>3
<1>5. Covering(img, a) = {Reference(LabelSymbol(img, n), a - n.addr)}
  <2> HIDE DEF Latest
  <2> QED
    BY <1>1, <1>4
<1> QED
  BY <1>2, <1>5

\* Without a name at it, an address is not called by any exact name.
LEMMA Nameless ==
  ASSUME NEW img, NamesTrue(img), NEW a, \A n \in img.names : n.addr # a
  PROVE  At(img, a) = {}
<1>1. {n \in img.names : n.addr = a} = {}
  OBVIOUS
<1>2. {f \in img.functions : f.start = a} = {}
  BY DEF NamesTrue
<1> QED
  BY <1>1, <1>2 DEF At

\* What has a name, or is in something that has one, resolves to one reference,
\* which from every object lands on it.
LEMMA DataLands ==
  ASSUME Sound, KeepsVariables(model, groups), VariablesWhole(model),
         NEW a, DataNamed(model, groups, a), NEW h \in Holders(a)
  PROVE  \E ref : /\ ResolveSplitData(model, Owned(groups), a) = {ref}
                  /\ \A q \in Outputs : \A at : Lands(q, Relocation(at, ref), a)
<1> DEFINE owned == {Reference(Anchor(r.class, r.start), a - r.start) :
                       r \in {r \in Owned(groups) : a \in Bytes(r)}}
<1>1. a \in Nat /\ a \in h[2].holds /\ (IsCode(model, a) \/ IsData(model, a))
  BY HolderKinds, HolderNat DEF Sound
<1>2. ResolveSplitData(model, Owned(groups), a) =
        Else(ResolveExact(model, a), Else(owned, ResolveData(model, a)))
  BY DEF ResolveSplitData
<1>3. \A n \in model.names : n.addr \in Nat
  BY NameTypes DEF Sound, Proper
<1>4. ASSUME NEW n \in model.names, n.addr = a
      PROVE  \E ref : /\ ResolveSplitData(model, Owned(groups), a) = {ref}
                      /\ \A q \in Outputs : \A at : Lands(q, Relocation(at, ref), a)
  <2> DEFINE ref == Reference(LabelSymbol(model, n), 0)
  <2>1. {m \in model.names : m.addr = a} = {n}
    BY <1>4 DEF Sound, NamesTrue
  <2>2. At(model, a) = {ref}
    BY <2>1 DEF At
  <2>3. ResolveSplitData(model, Owned(groups), a) = {ref}
    <3> HIDE DEF ref, owned
    <3> QED
      BY <1>2, <2>2 DEF ResolveExact, Else
  <2>4. Known(model, n)
    BY <1>1, <1>4 DEF Known, VariablesWhole, IsData
  <2>5. n.addr <= a /\ n.addr..a \subseteq h[2].holds /\ a - n.addr = 0
    BY <1>1, <1>4
  <2>6. ASSUME NEW q \in Outputs, NEW at PROVE Lands(q, Relocation(at, ref), a)
    <3> DEFINE R == Relocation(at, ref)
    <3>1. R.symbol = LabelSymbol(model, n) /\ R.addend = a - n.addr
      BY <2>5 DEF Relocation, Reference
    <3> HIDE DEF R, ref
    <3>2. Lands(q, R, a)
      BY <1>1, <2>4, <2>5, <3>1, LabelLands
    <3> QED
      BY <3>2 DEF R
  <2> QED
    BY <2>3, <2>6
<1>5. ASSUME \A n \in model.names : n.addr # a, Covering(model, a) # {}
      PROVE  \E ref : /\ ResolveSplitData(model, Owned(groups), a) = {ref}
                      /\ \A q \in Outputs : \A at : Lands(q, Relocation(at, ref), a)
  <2>1. PICK n \in Variables(model) :
          /\ n.addr <= a /\ a - n.addr < n.size
          /\ Covering(model, a) = {Reference(LabelSymbol(model, n), a - n.addr)}
    BY <1>5, OneCovering DEF Sound, Proper
  <2> DEFINE ref == Reference(LabelSymbol(model, n), a - n.addr)
  <2>2. At(model, a) = {}
    BY <1>5, Nameless DEF Sound
  <2>3. ResolveSplitData(model, Owned(groups), a) = {ref}
    <3>1. Covering(model, a) = {ref}
      BY <2>1
    <3> HIDE DEF ref, owned
    <3> QED
      BY <1>2, <2>2, <3>1 DEF ResolveExact, Else
  <2>4. n \in model.names /\ Known(model, n)
    BY DEF Variables, Known
  <2>5. n.addr..a \subseteq h[2].holds
    BY <2>1, VariableTogether
  <2>6. ASSUME NEW q \in Outputs, NEW at PROVE Lands(q, Relocation(at, ref), a)
    <3> DEFINE R == Relocation(at, ref)
    <3>1. R.symbol = LabelSymbol(model, n) /\ R.addend = a - n.addr
      BY DEF Relocation, Reference
    <3> HIDE DEF R, ref
    <3>2. Lands(q, R, a)
      BY <1>1, <2>1, <2>4, <2>5, <3>1, LabelLands
    <3> QED
      BY <3>2 DEF R
  <2> QED
    BY <2>3, <2>6
<1>6. ASSUME \A n \in model.names : n.addr # a, Covering(model, a) = {},
             NEW r \in Owned(groups), a \in Bytes(r)
      PROVE  \E ref : /\ ResolveSplitData(model, Owned(groups), a) = {ref}
                      /\ \A q \in Outputs : \A at : Lands(q, Relocation(at, ref), a)
  <2> DEFINE ref == Reference(Anchor(r.class, r.start), a - r.start)
  <2>1. PICK k \in DOMAIN groups : r \in groups[k].data
    BY OwnedRange
  <2>2. ASSUME NEW x \in Owned(groups), a \in Bytes(x) PROVE x = r
    <3>1. PICK j \in DOMAIN groups : x \in groups[j].data
      BY OwnedRange
    <3> QED
      BY <1>6, <2>1, <2>2, <3>1, RangesOnce DEF Sound
  <2>3. {x \in Owned(groups) : a \in Bytes(x)} = {r}
    BY <1>6, <2>2
  <2>4. owned = {ref}
    BY <2>3
  <2>5. At(model, a) = {}
    BY <1>6, Nameless DEF Sound
  <2>6. ResolveSplitData(model, Owned(groups), a) = {ref}
    <3> HIDE DEF ref, owned
    <3> QED
      BY <1>2, <1>6, <2>4, <2>5 DEF ResolveExact, Else
  <2>7. ASSUME NEW q \in Outputs, NEW at PROVE Lands(q, Relocation(at, ref), a)
    <3> DEFINE R == Relocation(at, ref)
    <3>1. R.symbol = Anchor(r.class, r.start) /\ R.addend = a - r.start
      BY DEF Relocation, Reference
    <3> HIDE DEF R, ref
    <3>2. Lands(q, R, a)
      BY <1>6, <2>1, <3>1, AnchorLands
    <3> QED
      BY <3>2 DEF R
  <2> QED
    BY <2>6, <2>7
<1>7. ASSUME \A n \in model.names : n.addr # a, Covering(model, a) = {},
             \A r \in Owned(groups) : a \notin Bytes(r),
             NEW f \in model.functions, a \in Bytes(f)
      PROVE  \E ref : /\ ResolveSplitData(model, Owned(groups), a) = {ref}
                      /\ \A q \in Outputs : \A at : Lands(q, Relocation(at, ref), a)
  <2>1. PICK n \in model.names : n.addr = f.start /\ LabelSymbol(model, n) = FunctionSymbol(model, f)
    BY FunctionNames DEF Sound
  <2> DEFINE ref == Reference(LabelSymbol(model, n), a - n.addr)
  <2>2. \A g \in model.functions : a \in Bytes(g) => g = f
    <3> SUFFICES ASSUME NEW g \in model.functions, a \in Bytes(g), g # f PROVE FALSE
      OBVIOUS
    <3>1. ~Overlap(f, g)
      BY DEF Sound, Proper, Loadable
    <3>2. f.start \in Nat /\ f.end \in Nat /\ g.start \in Nat /\ g.end \in Nat
      BY ImageTypes DEF Sound, Proper
    <3> QED
      BY <1>7, <3>1, <3>2 DEF Overlap, Bytes
  <2>3. {g \in model.functions : a \in Bytes(g)} = {f}
    BY <1>7, <2>2
  <2>4. Within(model, a) = {ref}
    BY <2>1, <2>3 DEF Within
  <2>5. At(model, a) = {} /\ owned = {}
    BY <1>7, Nameless DEF Sound
  <2>6. ResolveSplitData(model, Owned(groups), a) = {ref}
    <3> HIDE DEF ref, owned
    <3> QED
      BY <1>2, <1>7, <2>4, <2>5 DEF ResolveExact, ResolveData, Else
  <2>7. Calls(model, n, a) /\ n.addr # a
    BY <1>7, <2>1 DEF Calls
  <2>8. ASSUME NEW q \in Outputs, NEW at PROVE Lands(q, Relocation(at, ref), a)
    <3> DEFINE R == Relocation(at, ref)
    <3>1. R.symbol = LabelSymbol(model, n) /\ R.addend = a - n.addr
      BY DEF Relocation, Reference
    <3> HIDE DEF R, ref
    <3>2. Lands(q, R, a)
      BY <2>7, <3>1, CallLands
    <3> QED
      BY <3>2 DEF R
  <2> QED
    BY <2>6, <2>8
<1> QED
  BY <1>4, <1>5, <1>6, <1>7 DEF DataNamed

-----------------------------------------------------------------------------
(* The pointers *)

\* A word holds an address exactly if it is a pointer, to what it holds.
LEMMA PointerOf ==
  ASSUME Sound, NEW gs, WordsWhole(model, gs), NEW w \in model.words
  PROVE  LET P == [at |-> w.at, target |-> w.value + model.shift]
         IN  /\ HoldsAddress(w) <=> P \in Pointers(model)
             /\ \A p \in Pointers(model) : p.at = w.at => p = P
<1> DEFINE P == [at |-> w.at, target |-> w.value + model.shift]
<1>1. model.shift = 0
  BY DEF Sound, Proper, Orderly
<1>2. \A v \in model.words : v.at = w.at => v = w
  BY DEF WordsWhole
<1>3. /\ model.words \subseteq [at : Nat, value : Nat]
      /\ model.fixups \subseteq [at : Nat, target : Nat]
  BY DEF Sound, Proper, Loadable, Model
<1>4. w.at \in Nat /\ w.value \in Nat
  BY <1>3
<1>5. P.at = w.at /\ P.target = w.value /\ w.value + model.shift = w.value
      /\ w.at - model.shift = w.at
  BY <1>1, <1>4
<1>6. ASSUME NEW r \in Confirmed(model), r.at = w.at
      PROVE  r = P
  <2>1. r \in model.fixups /\ \E v \in model.words :
          v.at = r.at /\ (v.value = r.target \/ v.value + model.shift = r.target)
    BY DEF Confirmed
  <2>2. r.target = w.value
    BY <1>2, <1>5, <1>6, <2>1
  <2>3. r \in [at : Nat, target : Nat]
    BY <1>3, <2>1
  <2> QED
    BY <1>5, <1>6, <2>2, <2>3
<1>7. P \in model.fixups <=> P \in Confirmed(model)
  BY <1>5 DEF Confirmed
<1> DEFINE Own == {[at |-> v.at, target |-> v.value + model.shift] :
                     v \in {v \in model.words : /\ v.at - model.shift \in model.base
                                                /\ \A r \in Confirmed(model) : r.at # v.at}}
<1>8. Pointers(model) = Confirmed(model) \cup Own
  BY DEF Pointers
<1>9. ASSUME NEW p \in Own, p.at = w.at
      PROVE  p = P /\ w.at - model.shift \in model.base
  BY <1>2, <1>9
<1>10. ASSUME w.at - model.shift \in model.base, \A r \in Confirmed(model) : r.at # w.at
       PROVE  P \in Own
  BY <1>10
<1>11. HoldsAddress(w) <=> w.at - model.shift \in model.base \/ P \in model.fixups
  BY DEF HoldsAddress
<1> HIDE DEF P, Own
<1>12. \A p \in Pointers(model) : p.at = w.at => p = P
  BY <1>6, <1>8, <1>9
<1>13. HoldsAddress(w) <=> P \in Pointers(model)
  BY <1>5, <1>6, <1>7, <1>8, <1>9, <1>10, <1>11
<1> QED
  BY <1>12, <1>13 DEF P

\* The relocations that objects have where a word is are those of the pointer there.
LEMMA WordRelocations ==
  ASSUME Sound, WordsWhole(model, groups), NEW w \in model.words, NEW h \in Holders(w.at),
         NEW r \in RelocationsAt(h[1], w.at)
  PROVE  \E p \in Pointers(model) :
           /\ p.at = w.at
           /\ \E ref \in ResolveSplitData(model, Owned(groups), p.target) : r = Relocation(p.at, ref)
<1>1. r \in disk[h[1]].relocations /\ r.at = w.at
  BY DEF RelocationsAt
<1>2. ASSUME NEW run, r \in PointerRelocations(model, Owned(groups), run)
      PROVE  \E p \in Pointers(model) :
               /\ p.at = w.at
               /\ \E ref \in ResolveSplitData(model, Owned(groups), p.target) :
                    r = Relocation(p.at, ref)
  <2>1. PICK p \in Pointers(model) :
          \E ref \in ResolveSplitData(model, Owned(groups), p.target) : r = Relocation(p.at, ref)
    BY <1>2 DEF PointerRelocations
  <2>2. r.at = p.at
    BY <2>1 DEF Relocation
  <2> QED
    BY <1>1, <2>1, <2>2
<1>3. CASE h[1] \in DOMAIN groups /\ disk[h[1]] = ObjectOf(model, groups, h[1])
  <2>1. ASSUME NEW g \in Chosen(model, groups, h[1]), r \in BranchRelocations(model, g) PROVE FALSE
    <3>1. PICK b \in model.branches : r.at = b.at
      BY <2>1, BranchAt
    <3> QED
      BY <1>1, <3>1 DEF Sound, FieldsApart
  <2>2. ASSUME NEW g \in Chosen(model, groups, h[1]), r \in TableRelocations(model, g) PROVE FALSE
    <3>1. PICK t \in model.tables : r.at = t.dispatch \/ \E e \in t.entries : r.at = e.at
      BY <2>2, TableAt DEF Owns, Tables
    <3>2. \A e \in t.entries : e.at \in Bytes(t)
      BY DEF Sound, FieldsApart
    <3> QED
      BY <1>1, <3>1, <3>2 DEF WordsWhole
  <2>3. \E run : r \in PointerRelocations(model, Owned(groups), run)
    BY <1>1, <1>3, <2>1, <2>2, RelocationKinds DEF Sound
  <2> QED
    BY <1>2, <2>3
<1>4. CASE disk[h[1]] = SharedObject(model, groups)
  <2>1. \E run : r \in PointerRelocations(model, Owned(groups), run)
    BY <1>1, <1>4 DEF SharedObject
  <2> QED
    BY <1>2, <2>1
<1> QED
  BY <1>3, <1>4, OutputObjects, HolderKinds DEF Sound

\* A pointer that lies in a section with its whole word has its relocations.
LEMMA PointerRelocated ==
  ASSUME Sound, WordsWhole(model, groups), NEW w \in model.words, NEW h \in Holders(w.at),
         Fits(w.at, h[2].holds), h[2].kind # "bss",
         NEW p \in Pointers(model), p.at = w.at,
         NEW ref \in ResolveSplitData(model, Owned(groups), p.target)
  PROVE  Relocation(p.at, ref) \in RelocationsAt(h[1], w.at)
<1> DEFINE R == Relocation(p.at, ref)
           word == w.at..(w.at + Width - 1)
           owned == Owned(groups)
<1>1. R.at = w.at
  BY DEF Relocation
<1>2. w.at \in Nat /\ w.at \in word /\ word \subseteq Nat
  <2>1. model.words \subseteq [at : Nat, value : Nat]
    BY DEF Sound, Proper, Loadable, Model
  <2>2. w.at \in Nat
    BY <2>1
  <2> QED
    BY <2>2, IdaAssumption
<1>3. ASSUME NEW run, word \subseteq run PROVE R \in PointerRelocations(model, owned, run)
  <2>1. Fits(p.at, run)
    BY <1>3 DEF Fits
  <2> QED
    BY <2>1 DEF PointerRelocations
<1>4. word \subseteq h[2].holds
  BY DEF Fits
<1> HIDE DEF R, owned
<1>5. ASSUME NEW k \in DOMAIN groups, TakenCode(h, w.at, k)
      PROVE  R \in disk[h[1]].relocations
  <2>1. h[1] = k /\ disk[k] = ObjectOf(model, groups, k) /\ w.at \in CodeBytes(model, groups, k)
    BY <1>5 DEF TakenCode
  <2>2. ASSUME NEW f \in Chosen(model, groups, k), w.at \in Body(model, f)
        PROVE  R \in ObjectOf(model, groups, k).relocations
    <3>1. word \subseteq Body(model, f)
      BY <1>2, <2>2 DEF WordsWhole, Chosen
    <3>2. R \in PointerRelocations(model, owned, Body(model, f))
      BY <1>3, <3>1
    <3>3. R.at \notin Fields(model, f)
      <4>1. ASSUME NEW t \in Owns(model, f)
            PROVE  w.at # t.dispatch /\ \A e \in t.entries : w.at # e.at
        <5>1. t \in model.tables
          BY DEF Owns, Tables
        <5> QED
          BY <5>1 DEF WordsWhole, Sound, FieldsApart
      <4> QED
        BY <1>1, <4>1 DEF Fields
    <3>4. R \in FunctionRelocations(model, owned, f)
      BY <3>2, <3>3 DEF FunctionRelocations
    <3> QED
      BY <3>4, ObjectRelocationSet DEF Sound, owned
  <2>3. ASSUME \A f \in Chosen(model, groups, k) : w.at \notin Body(model, f)
        PROVE  R \in ObjectOf(model, groups, k).relocations
    <3> DEFINE T == Taken(model, Chosen(model, groups, k))
    <3>1. PICK c \in groups[k].code : w.at \in Bytes(c)
      BY <2>1, <2>3 DEF CodeBytes, Taken
    <3>2. [file |-> k, range |-> c] \in CodeRanges(groups)
      BY DEF CodeRanges
    <3>3. word \subseteq Bytes(c)
      <4> DEFINE x == [file |-> k, range |-> c]
      <4>1. x \in CodeRanges(groups) /\ x.range = c
        BY <3>2
      <4> HIDE DEF x
      <4> QED
        BY <1>2, <3>1, <4>1 DEF WordsWhole
    <3>4. \A f \in Chosen(model, groups, k) : word \cap Body(model, f) = {}
      BY <1>2, <2>3 DEF WordsWhole, Chosen
    <3>5. word \subseteq Bytes(c) \ T
      BY <3>3, <3>4 DEF Taken
    <3>6. c.start \in Nat /\ c.end \in Nat
      BY CodeRangeFacts DEF Sound
    <3>7. Bytes(c) \ T \subseteq Nat
      BY <3>6 DEF Bytes
    <3> HIDE DEF T
    <3>8. PICK gap \in Runs(Bytes(c) \ T) : w.at \in gap
      BY <1>2, <3>5, <3>7, RunsCover
    <3> DEFINE last == w.at + Width - 1
    <3>9. w.at <= last /\ last \in Int
      BY <1>2, IdaAssumption
    <3>10. word \subseteq gap
      <4> HIDE DEF last
      <4>1. w.at \in Nat /\ w.at <= w.at /\ w.at..last \subseteq Bytes(c) \ T
        BY <1>2, <3>5 DEF last
      <4>2. w.at..last \subseteq gap
        BY <3>7, <3>8, <3>9, <4>1, RunAround
      <4> QED
        BY <4>2 DEF last
    <3>11. gap \in Gaps(model, groups, k)
      <4>1. Gaps(model, groups, k) = UNION {Runs(Bytes(r) \ T) : r \in groups[k].code}
        BY GapRuns DEF Sound, T
      <4> QED
        BY <3>8, <4>1
    <3>12. R \in PointerRelocations(model, owned, gap)
      BY <1>3, <3>10
    <3> QED
      BY <3>11, <3>12, ObjectRelocationSet DEF Sound, owned
  <2> QED
    BY <2>1, <2>2, <2>3
<1>6. ASSUME NEW k \in DOMAIN groups, NEW r \in groups[k].data, TakenData(h, w.at, k, r)
      PROVE  R \in disk[h[1]].relocations
  <2> DEFINE d == [class |-> r.class, start |-> r.start, run |-> r.start..(VirtualEnd(model, r) - 1)]
  <2>1. h[1] = k /\ h[2] = RangePiece(model, r) /\ disk[k] = ObjectOf(model, groups, k)
    BY <1>6 DEF TakenData
  <2>2. w.at \in RangePiece(model, r).holds
    BY <1>2, <1>4, <2>1
  <2>3. d \in Pieces(model, groups, k)
    BY <2>2, RangeHolds DEF Sound, Pieces
  <2>4. word \subseteq d.run /\ DataKind(model, d.class, d.start) # "bss"
    BY <1>4, <2>1 DEF RangePiece, Piece
  <2> HIDE DEF d
  <2>5. R \in PointerRelocations(model, owned, d.run)
    BY <1>3, <2>4
  <2>6. R \in ObjectOf(model, groups, k).relocations
    BY <2>3, <2>4, <2>5, ObjectRelocationSet DEF Sound, owned
  <2> QED
    BY <2>1, <2>6
<1>7. ASSUME NEW gap \in CodeGaps(model, groups), LeftCode(h, w.at, gap)
      PROVE  R \in disk[h[1]].relocations
  <2>1. R \in PointerRelocations(model, owned, gap) /\ disk[h[1]] = SharedObject(model, groups)
    BY <1>3, <1>4, <1>7 DEF LeftCode
  <2> QED
    BY <2>1 DEF SharedObject, owned
<1>8. ASSUME NEW d \in Fragments(model, groups), LeftData(h, w.at, d)
      PROVE  R \in disk[h[1]].relocations
  <2>1. R \in PointerRelocations(model, owned, d.run) /\ disk[h[1]] = SharedObject(model, groups)
    BY <1>3, <1>4, <1>8 DEF LeftData
  <2>2. DataKind(model, d.class, d.start) # "bss"
    BY <1>8 DEF LeftData, FragmentPiece, Piece
  <2> QED
    BY <2>1, <2>2 DEF SharedObject, owned
<1>9. R \in disk[h[1]].relocations
  BY <1>5, <1>6, <1>7, <1>8, HolderKinds DEF Sound
<1>10. R \in RelocationsAt(h[1], w.at)
  BY <1>1, <1>9 DEF RelocationsAt
<1> QED
  BY <1>10 DEF R

LEMMA PointersLandStep ==
  ASSUME Sound, WordsWhole(model, groups), KeepsVariables(model, groups),
         VariablesWhole(model), PointersNamed(model, groups)
  PROVE  PointersLand
<1> SUFFICES ASSUME NEW w \in model.words, NEW h \in Holders(w.at),
                    Fits(w.at, h[2].holds), h[2].kind # "bss",
                    Holders(w.value + model.shift) # {}
             PROVE  LET rs == RelocationsAt(h[1], w.at)
                    IN  IF HoldsAddress(w)
                        THEN /\ Cardinality(rs) = 1
                             /\ \A r \in rs : Lands(h[1], r, w.value + model.shift)
                        ELSE rs = {}
  BY DEF PointersLand
<1> DEFINE P == [at |-> w.at, target |-> w.value + model.shift]
           rs == RelocationsAt(h[1], w.at)
<1>1. /\ HoldsAddress(w) <=> P \in Pointers(model)
      /\ \A p \in Pointers(model) : p.at = w.at => p = P
  BY PointerOf
<1>2. P.at = w.at /\ P.target = w.value + model.shift
  OBVIOUS
<1>3. h[1] \in Outputs
  BY HolderKinds DEF Sound
<1> HIDE DEF P
<1>4. ASSUME ~HoldsAddress(w)
      PROVE  rs = {}
  BY <1>1, <1>4, WordRelocations
<1>5. ASSUME HoldsAddress(w)
      PROVE  Cardinality(rs) = 1 /\ \A r \in rs : Lands(h[1], r, P.target)
  <2>1. P \in Pointers(model) /\ DataNamed(model, groups, P.target)
    BY <1>1, <1>5 DEF PointersNamed
  <2>2. PICK g : g \in Holders(P.target)
    BY <1>2
  <2>3. PICK ref :
          /\ ResolveSplitData(model, Owned(groups), P.target) = {ref}
          /\ \A q \in Outputs : \A at : Lands(q, Relocation(at, ref), P.target)
    BY <2>1, <2>2, DataLands
  <2> DEFINE R == Relocation(P.at, ref)
  <2>4. R \in rs
    BY <1>2, <2>1, <2>3, PointerRelocated
  <2>5. \A r \in rs : r = R
    BY <1>1, <2>3, WordRelocations
  <2>6. Lands(h[1], R, P.target)
    BY <1>3, <2>3
  <2> HIDE DEF R, rs
  <2>7. rs = {R}
    BY <2>4, <2>5
  <2>8. Cardinality({R}) = 1
    BY FS_Singleton
  <2> QED
    BY <2>6, <2>7, <2>8
<1> QED
  BY <1>2, <1>4, <1>5

Pointed ==
  /\ NamesTrue(model) /\ FieldsApart(model) /\ VariablesWhole(model)
  /\ WordsWhole(model, groups) /\ KeepsVariables(model, groups) /\ PointersNamed(model, groups)

\* The pointers of the image, in code and in data, given away or left over, point
\* to what they pointed to; a word that is no pointer stays as it is.
THEOREM PointersArrive ==
  FilesApart =>
    (Spec => [](Orderly(model) /\ Careful(model, groups) /\ Pointed => PointersLand))
<1>1. FilesApart /\ IInv /\ WrittenSound /\ [Next]_vars => IInv' /\ WrittenSound'
  BY StepInv, StepSound
<1>2. IInv /\ WrittenSound =>
        (Orderly(model) /\ Careful(model, groups) /\ Pointed => PointersLand)
  <2>1. ~Clean => PointersLand
    BY DEF PointersLand
  <2> QED
    BY <2>1, ProperState, PointersLandStep DEF Sound, Pointed
<1> SUFFICES ASSUME FilesApart
             PROVE  Spec => [](Orderly(model) /\ Careful(model, groups) /\ Pointed
                               => PointersLand)
  OBVIOUS
<1> QED
  BY <1>1, <1>2, InitInv, InitSound, PTL DEF Spec
=============================================================================
