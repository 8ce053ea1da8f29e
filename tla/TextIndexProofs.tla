--------------------------- MODULE TextIndexProofs ---------------------------
(***************************************************************************)
(* Proofs about the recovery of .text functions, for every symbol table,   *)
(* every .text and every padding.                                          *)
(***************************************************************************)
EXTENDS TextIndex, WellFoundedInduction, TLAPS

(***************************************************************************)
(* The inductive invariant, one conjunct per phase or relation.            *)
(***************************************************************************)

\* Before the overlap pass nothing has been emitted.
NothingEarly ==
  pc \in {"dedup", "size"} => kept = {} /\ end = 0 /\ orphans = {}

\* After deduplication an address names one entry.
OnePerAddress == \A f, g \in fns : f.value = g.value => f = g

\* The loops walk over what the previous one left.
TodoFromLoop ==
  /\ pc \in {"size", "fold"} => todo \subseteq fns
  /\ pc = "gaps" => todo \subseteq kept
  /\ kept \subseteq fns

\* What the overlap pass keeps or drops has a size.
SizedFns == pc \in {"fold", "gaps", "done"} => \A f \in fns : f.size > 0

KeptApart == Cover!PairwiseApart(kept)

\* `end' is the end of the last kept function, and everything left lies above.
FoldInv ==
  pc = "fold" =>
    /\ orphans = {}
    /\ \A k \in kept : k.value + k.size <= end
    /\ \A k \in kept : \A t \in todo : k.value < t.value

\* The functions before the cursor are scanned, the others lie after it.
ScanInv ==
  pc = "gaps" =>
    /\ TextBase <= cursor
    /\ \A t \in todo : cursor <= t.value
    /\ \A k \in kept \ todo : k.value + k.size <= cursor
    /\ \A k \in kept \ todo : \A t \in todo : k.value < t.value
    /\ \A o \in orphans : o.value + o.size <= cursor

OrphansSized == \A o \in orphans : o.size > 0

ScannedCovered ==
  pc = "gaps" =>
    \A b \in Live : b < cursor =>
      \E r \in kept \cup orphans : Cover!Holds(r, b)

IInv ==
  /\ TypeOK
  /\ NothingEarly
  /\ OnePerAddress
  /\ TodoFromLoop
  /\ SizedFns
  /\ KeptApart
  /\ FoldInv
  /\ ScanInv
  /\ OrphansSized
  /\ RegionsApart
  /\ ScannedCovered
  /\ NothingLost

-----------------------------------------------------------------------------
(* Lemmas about the operators *)

\* The symbols of the table lie in .text and carry natural numbers.
LEMMA EntryFacts ==
  ASSUME NEW e \in Entry
  PROVE  /\ e.value \in Nat /\ e.size \in Nat /\ e.rank \in Nat
         /\ TextBase <= e.value /\ e.value <= TextEnd
<1>1. e.value \in Values /\ e.size \in Nat /\ e.rank \in Ranks
  BY DEF Entry
<1>2. e.value \in TextBase..TextEnd
  BY <1>1, TextAssumption
<1>3. e.rank \in Nat
  BY <1>1, TextAssumption
<1>4. TextBase \in Nat /\ TextEnd \in Nat
  BY TextAssumption
<1>5. e.value \in Nat /\ TextBase <= e.value /\ e.value <= TextEnd
  BY <1>2, <1>4
<1> QED
  BY <1>1, <1>3, <1>5

\* The room of an entry never ends before the entry.
LEMMA LimitAbove ==
  ASSUME fns \subseteq Entry, NEW f \in Entry, NEW l \in Limits(f)
  PROVE  l \in Nat /\ f.value <= l /\ l <= TextEnd /\ (f.value < TextEnd => f.value < l)
<1>1. CASE l = TextEnd
  BY <1>1, EntryFacts, TextAssumption
<1>2. CASE l # TextEnd
  <2>1. PICK g \in fns : f.value < g.value /\ l = g.value
    BY <1>2 DEF Limits
  <2>2. g.value \in Nat /\ g.value <= TextEnd /\ f.value \in Nat
    BY EntryFacts
  <2> QED
    BY <2>1, <2>2
<1> QED
  BY <1>1, <1>2

\* A gap that is_padding accepts holds no live byte, so skipping it is safe.
LEMMA PaddingIsDead ==
  ASSUME NEW from \in Nat, NEW to \in Nat, IsPadding(from, to),
         NEW b \in Live, from <= b, b < to
  PROVE  FALSE
<1>1. b \in Nat
  BY TextAssumption DEF Live
<1> DEFINE a == b - ((b - from) % 4)
<1>2. a \in from..(to - 1) /\ (a - from) % 4 = 0 /\ a <= b /\ b < a + 4
  BY <1>1
<1>3. a \in nops
  BY <1>2 DEF IsPadding
<1> QED
  BY <1>2, <1>3 DEF Live

\* A gap is either padding, empty, or becomes one orphan that fills it.
LEMMA GapIsCovered ==
  ASSUME NEW from \in Nat, NEW to \in Nat, to <= TextEnd,
         NEW b \in Live, from <= b, b < to
  PROVE  \E r \in GapRegion(from, to) : Cover!Holds(r, b)
<1>1. ~IsPadding(from, to)
  BY PaddingIsDead
<1>2. b \in Nat
  BY TextAssumption DEF Live
<1>3. GapRegion(from, to) = {[value |-> from, size |-> to - from]}
  BY <1>1, <1>2 DEF GapRegion
<1> QED
  BY <1>2, <1>3 DEF Cover!Holds

\* What a gap contributes stays inside the gap.
LEMMA GapInside ==
  ASSUME NEW from \in Nat, NEW to \in Nat, NEW o \in GapRegion(from, to)
  PROVE  /\ o \in Orphan
         /\ o.size > 0
         /\ o.value = from
         /\ o.value + o.size = to
  BY DEF GapRegion, Orphan

\* A gap contributes at most one orphan.
LEMMA GapIsOne ==
  ASSUME NEW from, NEW to, NEW o \in GapRegion(from, to),
         NEW p \in GapRegion(from, to)
  PROVE  o = p
  BY DEF GapRegion

\* Deduplication leaves one entry per address.
LEMMA FirstIsOnly ==
  ASSUME NEW table, table \subseteq Entry,
         NEW f \in FirstAtAddress(table), NEW g \in FirstAtAddress(table),
         f.value = g.value
  PROVE  f = g
<1> SUFFICES ASSUME f # g PROVE FALSE
  OBVIOUS
<1>1. f \in Entry /\ g \in Entry
  BY DEF FirstAtAddress
<1>2. Precedes(f, g) /\ Precedes(g, f)
  BY DEF FirstAtAddress
<1>3. f.rank \in Nat /\ g.rank \in Nat
  BY <1>1, EntryFacts
<1> QED
  BY <1>2, <1>3 DEF Precedes

-----------------------------------------------------------------------------
(* Type correctness *)

LEMMA InitType == Init => TypeOK
<1> SUFFICES ASSUME Init PROVE TypeOK
  OBVIOUS
<1>1. PICK N \in SUBSET Ranks :
        \E sym \in [N -> [value : Values, size : Sizes]] :
          symtab = {[value |-> sym[r].value, size |-> sym[r].size, rank |-> r] :
                      r \in N}
  BY DEF Init
<1>2. PICK sym \in [N -> [value : Values, size : Sizes]] :
        symtab = {[value |-> sym[r].value, size |-> sym[r].size, rank |-> r] :
                    r \in N}
  BY <1>1
<1>3. ASSUME NEW r \in N
      PROVE  [value |-> sym[r].value, size |-> sym[r].size, rank |-> r] \in Entry
  <2>1. sym[r] \in [value : Values, size : Sizes]
    OBVIOUS
  <2>2. sym[r].value \in Values /\ sym[r].size \in Nat
    BY <2>1, TextAssumption
  <2> QED
    BY <2>2 DEF Entry
<1>4. symtab \subseteq Entry
  BY <1>2, <1>3
<1> QED
  BY <1>4 DEF Init, TypeOK

LEMMA StepType == TypeOK /\ [Next]_vars => TypeOK'
<1> SUFFICES ASSUME TypeOK, [Next]_vars PROVE TypeOK'
  OBVIOUS
<1> USE DEF TypeOK
<1>1. CASE Dedup
  BY <1>1 DEF Dedup, FirstAtAddress
<1>2. CASE SkipSized
  BY <1>2 DEF SkipSized
<1>3. CASE InferSize
  <2>0. PICK f \in todo : \E next \in Limits(f) :
          /\ todo' = todo \ {f}
          /\ fns' = (fns \ {f}) \cup {[f EXCEPT !.size = next - f.value]}
    BY <1>3 DEF InferSize
  <2>1. PICK next \in Limits(f) :
          /\ todo' = todo \ {f}
          /\ fns' = (fns \ {f}) \cup {[f EXCEPT !.size = next - f.value]}
    BY <2>0
  <2>2. next \in Nat /\ f.value \in Nat /\ f.value <= next
    BY LimitAbove, EntryFacts
  <2>3. [f EXCEPT !.size = next - f.value] \in Entry
    BY <2>2 DEF Entry
  <2> QED
    BY <1>3, <2>1, <2>3 DEF InferSize
<1>4. CASE Retain
  BY <1>4 DEF Retain
<1>5. CASE Keep
  <2>1. PICK f \in todo : kept' = kept \cup {f} /\ end' = f.value + f.size
                            /\ todo' = todo \ {f}
    BY <1>5 DEF Keep
  <2>2. f \in Entry /\ f.value \in Nat /\ f.size \in Nat
    BY EntryFacts
  <2> QED
    BY <1>5, <2>1, <2>2 DEF Keep
<1>6. CASE Fold
  BY <1>6 DEF Fold
<1>7. CASE StartGaps
  BY <1>7, TextAssumption DEF StartGaps
<1>8. CASE ScanGap
  <2>1. PICK f \in todo :
          /\ orphans' = orphans \cup GapRegion(cursor, f.value)
          /\ cursor' = IF cursor < f.value + f.size THEN f.value + f.size ELSE cursor
          /\ todo' = todo \ {f}
    BY <1>8 DEF ScanGap
  <2>2. f.value \in Nat /\ f.size \in Nat
    BY EntryFacts
  <2>3. orphans' \subseteq Orphan
    BY <2>1, <2>2, GapInside
  <2> QED
    BY <1>8, <2>1, <2>2, <2>3 DEF ScanGap
<1>9. CASE ScanTail
  <2>1. orphans' \subseteq Orphan
    BY <1>9, GapInside, TextAssumption DEF ScanTail
  <2> QED
    BY <1>9, <2>1 DEF ScanTail
<1>10. CASE UNCHANGED vars
  BY <1>10 DEF vars
<1> QED
  BY <1>1, <1>2, <1>3, <1>4, <1>5, <1>6, <1>7, <1>8, <1>9, <1>10
  DEF Next, Finished

\* In every reachable state each variable of the index has its type: the sizes
\* inferred and the gap lengths never underflow the unsigned subtraction.
THEOREM TypeCorrect == Spec => []TypeOK
  BY InitType, StepType, PTL DEF Spec

-----------------------------------------------------------------------------
(* The inductive invariant *)

LEMMA InitInv == Init => IInv
<1> SUFFICES ASSUME Init PROVE IInv
  OBVIOUS
<1> USE DEF Init
<1>1. TypeOK
  BY InitType
<1>2. NothingEarly /\ OnePerAddress /\ TodoFromLoop /\ SizedFns
  BY DEF NothingEarly, OnePerAddress, TodoFromLoop, SizedFns
<1>3. KeptApart /\ RegionsApart
  BY DEF KeptApart, RegionsApart, Cover!PairwiseApart
<1>4. FoldInv /\ ScanInv /\ OrphansSized /\ ScannedCovered /\ NothingLost
  BY DEF FoldInv, ScanInv, OrphansSized, ScannedCovered, NothingLost
<1> QED
  BY <1>1, <1>2, <1>3, <1>4 DEF IInv

LEMMA DedupInv == IInv /\ Dedup => IInv'
<1> SUFFICES ASSUME IInv, Dedup PROVE IInv'
  OBVIOUS
<1> USE DEF Dedup
<1>1. TypeOK'
  BY StepType DEF IInv, Next
<1>2. OnePerAddress'
  BY FirstIsOnly DEF IInv, TypeOK, OnePerAddress
<1>3. NothingEarly' /\ TodoFromLoop' /\ SizedFns'
  BY DEF IInv, NothingEarly, TodoFromLoop, SizedFns
<1>4. KeptApart' /\ RegionsApart'
  BY DEF IInv, NothingEarly, KeptApart, RegionsApart, Cover!PairwiseApart
<1>5. FoldInv' /\ ScanInv' /\ OrphansSized' /\ ScannedCovered' /\ NothingLost'
  BY DEF IInv, NothingEarly, FoldInv, ScanInv, OrphansSized, ScannedCovered, NothingLost
<1> QED
  BY <1>1, <1>2, <1>3, <1>4, <1>5 DEF IInv

LEMMA SkipSizedInv == IInv /\ SkipSized => IInv'
<1> SUFFICES ASSUME IInv, SkipSized PROVE IInv'
  OBVIOUS
<1>1. TypeOK'
  BY StepType DEF IInv, Next
<1>2. /\ pc = "size" /\ todo' \subseteq todo
      /\ UNCHANGED <<symtab, nops, pc, fns, kept, end, cursor, orphans>>
  BY DEF SkipSized
<1>3. OnePerAddress' /\ NothingEarly' /\ TodoFromLoop' /\ SizedFns'
  BY <1>2 DEF IInv, OnePerAddress, NothingEarly, TodoFromLoop, SizedFns
<1>4. KeptApart' /\ RegionsApart'
  BY <1>2 DEF IInv, KeptApart, RegionsApart, Cover!PairwiseApart
<1>5. FoldInv' /\ ScanInv' /\ OrphansSized' /\ ScannedCovered' /\ NothingLost'
  BY <1>2 DEF IInv, FoldInv, ScanInv, OrphansSized, ScannedCovered, NothingLost
<1> QED
  BY <1>1, <1>3, <1>4, <1>5 DEF IInv

\* Inferring a size replaces an entry by one at the same address.
LEMMA InferSizeInv == IInv /\ InferSize => IInv'
<1> SUFFICES ASSUME IInv, InferSize PROVE IInv'
  OBVIOUS
<1>1. TypeOK'
  BY StepType DEF IInv, Next
<1>2. /\ pc = "size"
      /\ UNCHANGED <<symtab, nops, pc, kept, end, cursor, orphans>>
  BY DEF InferSize
<1>3. PICK f \in todo : \E next \in Limits(f) :
        /\ todo' = todo \ {f}
        /\ fns' = (fns \ {f}) \cup {[f EXCEPT !.size = next - f.value]}
  BY DEF InferSize
<1>4. PICK next \in Limits(f) :
        /\ todo' = todo \ {f}
        /\ fns' = (fns \ {f}) \cup {[f EXCEPT !.size = next - f.value]}
  BY <1>3
<1>5. f \in fns /\ f \in Entry
  BY <1>2 DEF IInv, TodoFromLoop, TypeOK
<1>6. [f EXCEPT !.size = next - f.value].value = f.value
  BY <1>5 DEF Entry
<1>7. OnePerAddress'
  <2>1. PICK g : fns' = (fns \ {f}) \cup {g} /\ g.value = f.value
    BY <1>4, <1>6
  <2>2. \A x, y \in fns : x.value = y.value => x = y
    BY DEF IInv, OnePerAddress
  <2>3. \A x \in fns' : x = g \/ (x \in fns /\ x.value # g.value)
    BY <1>5, <2>1, <2>2
  <2> QED
    BY <2>1, <2>2, <2>3 DEF OnePerAddress
<1>8. NothingEarly' /\ TodoFromLoop' /\ SizedFns'
  BY <1>2, <1>4 DEF IInv, NothingEarly, TodoFromLoop, SizedFns
<1>9. KeptApart' /\ RegionsApart'
  BY <1>2 DEF IInv, KeptApart, RegionsApart, Cover!PairwiseApart
<1>10. FoldInv' /\ ScanInv' /\ OrphansSized' /\ ScannedCovered' /\ NothingLost'
  BY <1>2 DEF IInv, FoldInv, ScanInv, OrphansSized, ScannedCovered, NothingLost
<1> QED
  BY <1>1, <1>7, <1>8, <1>9, <1>10 DEF IInv

LEMMA RetainInv == IInv /\ Retain => IInv'
<1> SUFFICES ASSUME IInv, Retain PROVE IInv'
  OBVIOUS
<1> USE DEF Retain
<1>1. TypeOK'
  BY StepType DEF IInv, Next
<1>2. kept = {} /\ orphans = {}
  BY DEF IInv, NothingEarly
<1>3. OnePerAddress' /\ NothingEarly' /\ TodoFromLoop' /\ SizedFns'
  BY <1>2 DEF IInv, OnePerAddress, NothingEarly, TodoFromLoop, SizedFns
<1>4. KeptApart' /\ RegionsApart'
  BY <1>2 DEF KeptApart, RegionsApart, Cover!PairwiseApart
<1>5. FoldInv' /\ ScanInv' /\ OrphansSized' /\ ScannedCovered' /\ NothingLost'
  BY <1>2 DEF FoldInv, ScanInv, OrphansSized, ScannedCovered, NothingLost
<1> QED
  BY <1>1, <1>3, <1>4, <1>5 DEF IInv

\* The kept function starts at or after `end', hence after every earlier one.
LEMMA KeepInv == IInv /\ Keep => IInv'
<1> SUFFICES ASSUME IInv, Keep PROVE IInv'
  OBVIOUS
<1>1. TypeOK'
  BY StepType DEF IInv, Next
<1>2. pc = "fold" /\ UNCHANGED <<symtab, nops, pc, fns, cursor, orphans>>
  BY DEF Keep
<1>3. PICK f \in todo :
        /\ Lowest(f, todo)
        /\ end <= f.value
        /\ kept' = kept \cup {f}
        /\ end' = f.value + f.size
        /\ todo' = todo \ {f}
  BY DEF Keep
<1>4. f \in fns /\ f \in Entry /\ todo \subseteq fns /\ fns \subseteq Entry
      /\ kept \subseteq Entry
  BY <1>2 DEF IInv, TodoFromLoop, TypeOK
<1>5. f.value \in Nat /\ f.size \in Nat /\ end \in Nat
  BY <1>4, EntryFacts DEF IInv, TypeOK
<1>6. \A k \in kept : k.value \in Nat /\ k.size \in Nat /\ k.value + k.size <= f.value
  BY <1>2, <1>3, <1>4, <1>5, EntryFacts DEF IInv, FoldInv
<1>7. KeptApart'
  BY <1>3, <1>6 DEF IInv, KeptApart, Cover!PairwiseApart, Cover!Apart
<1>8. orphans' = {}
  BY <1>2 DEF IInv, FoldInv
<1>9. RegionsApart'
  BY <1>7, <1>8 DEF KeptApart, RegionsApart
<1>10. \A t \in todo \ {f} : f.value < t.value
  BY <1>3, <1>4, <1>5, EntryFacts DEF Lowest, IInv, OnePerAddress
<1>11. FoldInv'
  <2>1. \A k \in kept' : k.value + k.size <= end'
    BY <1>3, <1>5, <1>6
  <2>2. \A k \in kept' : \A t \in todo' : k.value < t.value
    BY <1>2, <1>3, <1>10 DEF IInv, FoldInv
  <2> QED
    BY <1>8, <2>1, <2>2 DEF FoldInv
<1>12. OnePerAddress' /\ NothingEarly' /\ TodoFromLoop' /\ SizedFns'
  BY <1>2, <1>3, <1>4 DEF IInv, OnePerAddress, NothingEarly, TodoFromLoop, SizedFns
<1>13. ScanInv' /\ OrphansSized' /\ ScannedCovered' /\ NothingLost'
  BY <1>2, <1>8 DEF ScanInv, OrphansSized, ScannedCovered, NothingLost
<1> QED
  BY <1>1, <1>7, <1>9, <1>11, <1>12, <1>13 DEF IInv

LEMMA FoldStepInv == IInv /\ Fold => IInv'
<1> SUFFICES ASSUME IInv, Fold PROVE IInv'
  OBVIOUS
<1>1. TypeOK'
  BY StepType DEF IInv, Next
<1>2. /\ pc = "fold" /\ todo' \subseteq todo
      /\ UNCHANGED <<symtab, nops, pc, fns, kept, end, cursor, orphans>>
  BY DEF Fold
<1>3. OnePerAddress' /\ NothingEarly' /\ TodoFromLoop' /\ SizedFns'
  BY <1>2 DEF IInv, OnePerAddress, NothingEarly, TodoFromLoop, SizedFns
<1>4. KeptApart' /\ RegionsApart'
  BY <1>2 DEF IInv, KeptApart, RegionsApart, Cover!PairwiseApart
<1>5. FoldInv' /\ ScanInv' /\ OrphansSized' /\ ScannedCovered' /\ NothingLost'
  BY <1>2 DEF IInv, FoldInv, ScanInv, OrphansSized, ScannedCovered, NothingLost
<1> QED
  BY <1>1, <1>3, <1>4, <1>5 DEF IInv

LEMMA StartGapsInv == IInv /\ StartGaps => IInv'
<1> SUFFICES ASSUME IInv, StartGaps PROVE IInv'
  OBVIOUS
<1> USE DEF StartGaps
<1>1. TypeOK'
  BY StepType DEF IInv, Next
<1>2. orphans = {} /\ kept \subseteq Entry
  BY DEF IInv, FoldInv, TypeOK
<1>3. OnePerAddress' /\ NothingEarly' /\ TodoFromLoop' /\ SizedFns'
  BY DEF IInv, OnePerAddress, NothingEarly, TodoFromLoop, SizedFns
<1>4. KeptApart' /\ RegionsApart'
  BY DEF IInv, KeptApart, RegionsApart, Cover!PairwiseApart
<1>5. ScanInv'
  <2>1. TextBase <= cursor' /\ \A t \in todo' : cursor' <= t.value
    BY <1>2, EntryFacts, TextAssumption
  <2> QED
    BY <1>2, <2>1 DEF ScanInv
<1>6. \A b \in Live : b \in Nat /\ TextBase <= b /\ b < TextEnd
  BY TextAssumption DEF Live
<1>7. ScannedCovered' /\ NothingLost'
  <2>1. Live' = Live
    BY DEF Live
  <2>2. ASSUME NEW b \in Live, b < TextBase \/ ~(TextBase < TextEnd) PROVE FALSE
    BY <1>6, <2>2, TextAssumption
  <2> QED
    BY <2>1, <2>2 DEF ScannedCovered, NothingLost, Cover!CoversAll
<1>8. FoldInv' /\ OrphansSized'
  BY <1>2 DEF FoldInv, OrphansSized
<1> QED
  BY <1>1, <1>3, <1>4, <1>5, <1>7, <1>8 DEF IInv

\* The cursor moves over the gap and the function behind it.
LEMMA ScanGapInv == IInv /\ ScanGap => IInv'
<1> SUFFICES ASSUME IInv, ScanGap PROVE IInv'
  OBVIOUS
<1>1. TypeOK'
  BY StepType DEF IInv, Next
<1>2. pc = "gaps" /\ UNCHANGED <<symtab, nops, pc, fns, kept, end>>
  BY DEF ScanGap
<1>3. PICK f \in todo :
        /\ Lowest(f, todo)
        /\ orphans' = orphans \cup GapRegion(cursor, f.value)
        /\ cursor' = IF cursor < f.value + f.size THEN f.value + f.size ELSE cursor
        /\ todo' = todo \ {f}
  BY DEF ScanGap
<1>4. /\ f \in kept /\ todo \subseteq kept /\ kept \subseteq fns
      /\ kept \subseteq Entry /\ cursor \in Nat /\ orphans \subseteq Orphan
  BY <1>2 DEF IInv, TodoFromLoop, TypeOK
<1>5. \A k \in kept : k.value \in Nat /\ k.size \in Nat /\ k.value <= TextEnd /\ k.size > 0
  BY <1>2, <1>4, EntryFacts DEF IInv, SizedFns
<1>6. \A t \in todo \ {f} : f.value < t.value
  BY <1>3, <1>4, <1>5 DEF Lowest, IInv, OnePerAddress
<1>7. \A t \in todo \ {f} : f.value + f.size <= t.value
  BY <1>4, <1>5, <1>6 DEF IInv, KeptApart, Cover!PairwiseApart, Cover!Apart
<1>8. /\ TextBase <= cursor /\ cursor <= f.value
      /\ cursor' = f.value + f.size
      /\ \A k \in kept \ todo : k.value + k.size <= cursor
      /\ \A o \in orphans : o.value + o.size <= cursor
  BY <1>2, <1>3, <1>4, <1>5 DEF IInv, ScanInv
<1>9. \A o \in GapRegion(cursor, f.value) :
        /\ o.value = cursor /\ o.value + o.size = f.value
        /\ o.value \in Nat /\ o.size \in Nat /\ o.size > 0
  BY <1>4, <1>5, GapInside DEF Orphan
<1>10. \A o \in orphans : o.value \in Nat /\ o.size \in Nat /\ o.size > 0
  BY <1>4 DEF Orphan, IInv, OrphansSized
<1>11. ScanInv'
  <2>1. TextBase <= cursor' /\ \A t \in todo' : cursor' <= t.value
    BY <1>3, <1>4, <1>5, <1>7, <1>8, TextAssumption
  <2>2. \A k \in kept' \ todo' : k.value + k.size <= cursor'
    BY <1>2, <1>3, <1>4, <1>5, <1>8
  <2>3. \A k \in kept' \ todo' : \A t \in todo' : k.value < t.value
    BY <1>2, <1>3, <1>6 DEF IInv, ScanInv
  <2>4. \A o \in orphans' : o.value + o.size <= cursor'
    BY <1>3, <1>4, <1>5, <1>8, <1>9, <1>10
  <2> QED
    BY <2>1, <2>2, <2>3, <2>4 DEF ScanInv
<1>12. OrphansSized'
  BY <1>3, <1>9, <1>10 DEF OrphansSized
<1>13. KeptApart'
  BY <1>2 DEF IInv, KeptApart
<1>14. RegionsApart'
  <2>1. ASSUME NEW o \in GapRegion(cursor, f.value), NEW r \in kept \cup orphans
        PROVE  Cover!Apart(o, r) /\ Cover!Apart(r, o)
    <3>1. CASE r \in orphans
      BY <1>4, <1>8, <1>9, <1>10, <3>1 DEF Cover!Apart
    <3>2. CASE r \in kept \ todo
      BY <1>4, <1>5, <1>8, <1>9, <3>2 DEF Cover!Apart
    <3>3. CASE r \in todo
      <4>1. f.value <= r.value
        BY <1>3, <3>3 DEF Lowest
      <4> QED
        BY <1>4, <1>5, <1>9, <3>3, <4>1 DEF Cover!Apart
    <3> QED
      BY <3>1, <3>2, <3>3
  <2>2. \A r, s \in kept \cup orphans : r = s \/ Cover!Apart(r, s)
    BY DEF IInv, RegionsApart, Cover!PairwiseApart
  <2>3. \A r, s \in kept' \cup orphans' : r = s \/ Cover!Apart(r, s)
    BY <1>2, <1>3, <2>1, <2>2, GapIsOne
  <2> QED
    BY <2>3 DEF RegionsApart, Cover!PairwiseApart
<1>15. ScannedCovered'
  <2>1. SUFFICES ASSUME NEW b \in Live, b < cursor'
                 PROVE  \E r \in kept' \cup orphans' : Cover!Holds(r, b)
    BY <1>2 DEF ScannedCovered, Live
  <2>2. b \in Nat
    BY TextAssumption DEF Live
  <2>3. CASE b < cursor
    BY <1>2, <1>3, <2>3 DEF IInv, ScannedCovered
  <2>4. CASE cursor <= b /\ b < f.value
    <3>1. \E r \in GapRegion(cursor, f.value) : Cover!Holds(r, b)
      BY <1>4, <1>5, <2>4, GapIsCovered
    <3> QED
      BY <1>3, <3>1
  <2>5. CASE f.value <= b
    BY <1>2, <1>4, <1>8, <2>1, <2>5 DEF Cover!Holds
  <2> QED
    BY <1>4, <1>5, <2>2, <2>3, <2>4, <2>5
<1>16. OnePerAddress' /\ NothingEarly' /\ TodoFromLoop' /\ SizedFns'
  BY <1>2, <1>3 DEF IInv, OnePerAddress, NothingEarly, TodoFromLoop, SizedFns
<1>17. FoldInv' /\ NothingLost'
  BY <1>2 DEF FoldInv, NothingLost
<1> QED
  BY <1>1, <1>11, <1>12, <1>13, <1>14, <1>15, <1>16, <1>17 DEF IInv

LEMMA ScanTailInv == IInv /\ ScanTail => IInv'
<1> SUFFICES ASSUME IInv, ScanTail PROVE IInv'
  OBVIOUS
<1>1. TypeOK'
  BY StepType DEF IInv, Next
<1>2. /\ pc = "gaps" /\ todo = {} /\ pc' = "done"
      /\ orphans' = orphans \cup GapRegion(cursor, TextEnd)
      /\ UNCHANGED <<symtab, nops, fns, todo, kept, end, cursor>>
  BY DEF ScanTail
<1>3. kept \subseteq Entry /\ cursor \in Nat /\ orphans \subseteq Orphan /\ TextEnd \in Nat
  BY TextAssumption DEF IInv, TypeOK
<1>4. \A k \in kept : k.value \in Nat /\ k.size \in Nat
  BY <1>3, EntryFacts
<1>5. /\ \A k \in kept : k.value + k.size <= cursor
      /\ \A o \in orphans : o.value + o.size <= cursor
  BY <1>2 DEF IInv, ScanInv
<1>6. \A o \in GapRegion(cursor, TextEnd) :
        /\ o.value = cursor /\ o.value + o.size = TextEnd
        /\ o.value \in Nat /\ o.size \in Nat /\ o.size > 0
  BY <1>3, GapInside DEF Orphan
<1>7. \A o \in orphans : o.value \in Nat /\ o.size \in Nat /\ o.size > 0
  BY <1>3 DEF Orphan, IInv, OrphansSized
<1>8. OrphansSized'
  BY <1>2, <1>6, <1>7 DEF OrphansSized
<1>9. KeptApart'
  BY <1>2 DEF IInv, KeptApart
<1>10. RegionsApart'
  <2>1. ASSUME NEW o \in GapRegion(cursor, TextEnd), NEW r \in kept \cup orphans
        PROVE  Cover!Apart(o, r) /\ Cover!Apart(r, o)
    BY <1>3, <1>4, <1>5, <1>6, <1>7 DEF Cover!Apart
  <2>2. \A r, s \in kept \cup orphans : r = s \/ Cover!Apart(r, s)
    BY DEF IInv, RegionsApart, Cover!PairwiseApart
  <2>3. \A r, s \in kept' \cup orphans' : r = s \/ Cover!Apart(r, s)
    BY <1>2, <2>1, <2>2, GapIsOne
  <2> QED
    BY <2>3 DEF RegionsApart, Cover!PairwiseApart
<1>11. NothingLost'
  <2>1. SUFFICES ASSUME NEW b \in Live
                 PROVE  \E r \in kept' \cup orphans' : Cover!Holds(r, b)
    BY <1>2 DEF NothingLost, Live, Cover!CoversAll
  <2>2. b \in Nat /\ b < TextEnd
    BY TextAssumption DEF Live
  <2>3. CASE b < cursor
    BY <1>2, <2>3 DEF IInv, ScannedCovered
  <2>4. CASE cursor <= b
    <3>1. \E r \in GapRegion(cursor, TextEnd) : Cover!Holds(r, b)
      BY <1>3, <2>2, <2>4, GapIsCovered
    <3> QED
      BY <1>2, <3>1
  <2> QED
    BY <1>3, <2>2, <2>3, <2>4
<1>12. OnePerAddress' /\ NothingEarly' /\ TodoFromLoop' /\ SizedFns'
  BY <1>2 DEF IInv, OnePerAddress, NothingEarly, TodoFromLoop, SizedFns
<1>13. FoldInv' /\ ScanInv' /\ ScannedCovered'
  BY <1>2 DEF FoldInv, ScanInv, ScannedCovered
<1> QED
  BY <1>1, <1>8, <1>9, <1>10, <1>11, <1>12, <1>13 DEF IInv

LEMMA StepInv == IInv /\ [Next]_vars => IInv'
<1> SUFFICES ASSUME IInv, [Next]_vars PROVE IInv'
  OBVIOUS
<1>1. CASE UNCHANGED vars
  <2> USE <1>1 DEF vars
  <2>1. TypeOK' /\ OnePerAddress' /\ NothingEarly' /\ TodoFromLoop' /\ SizedFns'
    BY DEF IInv, TypeOK, OnePerAddress, NothingEarly, TodoFromLoop, SizedFns
  <2>2. KeptApart' /\ RegionsApart' /\ FoldInv' /\ ScanInv' /\ OrphansSized'
    BY DEF IInv, KeptApart, RegionsApart, FoldInv, ScanInv, OrphansSized
  <2>3. ScannedCovered' /\ NothingLost'
    BY DEF IInv, ScannedCovered, NothingLost, Live
  <2> QED
    BY <2>1, <2>2, <2>3 DEF IInv
<1>2. CASE Finished
  BY <1>1, <1>2 DEF Finished
<1> QED
  BY <1>1, <1>2, DedupInv, SkipSizedInv, InferSizeInv, RetainInv, KeepInv,
     FoldStepInv, StartGapsInv, ScanGapInv, ScanTailInv DEF Next

LEMMA Invariance == Spec => []IInv
  BY InitInv, StepInv, PTL DEF Spec

-----------------------------------------------------------------------------
(* The theorems *)

\* The overlap pass and the gap scan never emit a byte twice, whatever symbols
\* alias, nest, overlap or overrun in the table.
THEOREM NeverTwice == Spec => []RegionsApart
<1>1. IInv => RegionsApart
  BY DEF IInv
<1> QED
  BY <1>1, Invariance, PTL

\* Every live byte of .text is in a named function or in an orphan once the
\* index is built.
THEOREM NeverLost == Spec => []NothingLost
<1>1. IInv => NothingLost
  BY DEF IInv
<1> QED
  BY <1>1, Invariance, PTL

\* The recovery implements the abstract cover of TextCover: what it publishes
\* holds every live byte exactly once, and it publishes it in one step.
THEOREM Refinement == Spec => ImplementsCover
<1>1. Init => Cover!CoverInit
  BY DEF Init, Cover!CoverInit
<1>2. IInv /\ IInv' /\ [Next]_vars => [Cover!Publish(Live)]_(Cover!coverVars)
  <2> SUFFICES ASSUME IInv, IInv', [Next]_vars
               PROVE  [Cover!Publish(Live)]_(Cover!coverVars)
    OBVIOUS
  <2>1. CASE pc # "done" /\ pc' = "done"
    <3>1. \A r \in kept' \cup orphans' : r.size > 0
      BY <2>1 DEF IInv, SizedFns, TodoFromLoop, OrphansSized
    <3>2. Cover!PairwiseApart(kept' \cup orphans')
      BY DEF IInv, RegionsApart, Cover!PairwiseApart, Cover!Apart
    <3>3. Live' = Live
      BY DEF Next, vars, Dedup, SkipSized, InferSize, Retain, Keep, Fold, StartGaps,
             ScanGap, ScanTail, Finished, Live
    <3>4. Cover!CoversAll(kept' \cup orphans', Live)
      BY <2>1, <3>3 DEF IInv, NothingLost, Cover!CoversAll, Cover!Holds
    <3> QED
      BY <2>1, <3>1, <3>2, <3>4 DEF Cover!Publish, Cover!IsCover
  <2>2. CASE pc = "done"
    BY <2>2 DEF Next, vars, Dedup, SkipSized, InferSize, Retain, Keep, Fold, StartGaps,
             ScanGap, ScanTail, Finished, Cover!coverVars
  <2>3. CASE pc' # "done" /\ pc # "done"
    BY <2>3 DEF Cover!coverVars
  <2> QED
    BY <2>1, <2>2, <2>3
<1> QED
  BY <1>1, <1>2, Invariance, PTL DEF Spec, ImplementsCover

-----------------------------------------------------------------------------
(* Entry points *)

RanksDistinct == \A f, g \in symtab : f.rank = g.rank => f = g

\* The last kept function ends at `end'.
EndWitness ==
  pc = "fold" => (kept = {} /\ end = 0) \/ \E k \in kept : k.value + k.size = end

\* Every symbol address is carried from loop to loop, ever closer to a kept
\* function that holds it.
EntryInv ==
  /\ pc \in {"size"} =>
       /\ \A s \in symtab : \E f \in fns : f.value = s.value
       /\ \A f \in fns \ todo : f.value < TextEnd => f.size > 0
  /\ pc = "fold" =>
       /\ \A s \in symtab : s.value < TextEnd => \E f \in fns : f.value = s.value
       /\ \A f \in fns \ todo : \E k \in kept : Cover!Holds(k, f.value)
  /\ pc \in {"gaps", "done"} =>
       \A s \in symtab : s.value < TextEnd => \E k \in kept : Cover!Holds(k, s.value)

ReachInv == RanksDistinct /\ EndWitness /\ EntryInv

\* A nonempty set of natural numbers has a least element.
LEMMA LeastNat ==
  ASSUME NEW S, S \subseteq Nat, S # {}
  PROVE  \E m \in S : \A n \in S : m <= n
<1>1. IsWellFoundedOn(OpToRel(<, Nat), Nat)
  BY NatLessThanWellFounded
<1>2. PICK m \in S : \A n \in S : ~(<<n, m>> \in OpToRel(<, Nat))
  BY <1>1, WFMin
<1>3. \A n \in S : ~(n < m)
  BY <1>2 DEF OpToRel
<1> QED
  BY <1>3

\* Deduplication keeps a symbol at every address of the table.
LEMMA FirstExists ==
  ASSUME NEW table, table \subseteq Entry, NEW s \in table,
         \A f, g \in table : f.rank = g.rank => f = g
  PROVE  \E f \in FirstAtAddress(table) : f.value = s.value
<1> DEFINE Aliases == {f \in table : f.value = s.value}
           Sized == {f \in Aliases : f.size # 0}
           Best == IF Sized = {} THEN Aliases ELSE Sized
           RankSet == {f.rank : f \in Best}
<1>1. Best # {} /\ Best \subseteq Aliases
  OBVIOUS
<1>2. \A f \in table : f.rank \in Nat /\ f.size \in Nat
  BY EntryFacts
<1>3. RankSet \subseteq Nat /\ RankSet # {}
  BY <1>1, <1>2
<1>4. PICK m \in RankSet : \A n \in RankSet : m <= n
  BY <1>3, LeastNat
<1>5. PICK f \in Best : f.rank = m
  OBVIOUS
<1>6. ASSUME NEW g \in table, g.value = f.value, g # f
      PROVE  Precedes(f, g)
  <2>1. g \in Aliases /\ f \in Aliases
    BY <1>1, <1>6
  <2>2. CASE g \in Best
    <3>1. f.rank <= g.rank /\ f.rank # g.rank
      BY <1>4, <1>5, <1>6, <2>1, <2>2
    <3>2. f.size = 0 <=> g.size = 0
      BY <1>5, <2>2
    <3> QED
      BY <1>2, <2>1, <3>1, <3>2 DEF Precedes
  <2>3. CASE g \notin Best
    <3>1. f.size # 0 /\ g.size = 0
      BY <1>5, <2>1, <2>3
    <3> QED
      BY <3>1 DEF Precedes
  <2> QED
    BY <2>2, <2>3
<1> QED
  BY <1>1, <1>5, <1>6 DEF FirstAtAddress

LEMMA InitReach == Init => ReachInv
<1> SUFFICES ASSUME Init PROVE ReachInv
  OBVIOUS
<1>1. PICK N \in SUBSET Ranks :
        \E sym \in [N -> [value : Values, size : Sizes]] :
          symtab = {[value |-> sym[r].value, size |-> sym[r].size, rank |-> r] :
                      r \in N}
  BY DEF Init
<1>2. RanksDistinct
  BY <1>1 DEF RanksDistinct
<1> QED
  BY <1>2 DEF Init, ReachInv, EndWitness, EntryInv

LEMMA StepReach == IInv /\ ReachInv /\ [Next]_vars => ReachInv'
<1> SUFFICES ASSUME IInv, ReachInv, [Next]_vars PROVE ReachInv'
  OBVIOUS
<1>0. symtab' = symtab
  BY DEF Next, vars, Dedup, SkipSized, InferSize, Retain, Keep, Fold, StartGaps,
         ScanGap, ScanTail, Finished
<1>a. RanksDistinct'
  BY <1>0 DEF ReachInv, RanksDistinct
<1>b. symtab \subseteq Entry /\ fns \subseteq Entry /\ todo \subseteq Entry
      /\ kept \subseteq Entry
  BY DEF IInv, TypeOK
<1>1. CASE Dedup
  <2>1. pc' = "size" /\ fns' = FirstAtAddress(symtab) /\ todo' = fns'
    BY <1>1 DEF Dedup
  <2>2. \A s \in symtab : \E f \in fns' : f.value = s.value
    BY <1>b, <2>1, FirstExists DEF ReachInv, RanksDistinct
  <2> QED
    BY <1>0, <1>a, <2>1, <2>2 DEF ReachInv, EndWitness, EntryInv
<1>2. CASE SkipSized
  <2>1. PICK f \in todo : f.size # 0 /\ todo' = todo \ {f}
    BY <1>2 DEF SkipSized
  <2>2. pc = "size" /\ pc' = pc /\ fns' = fns
    BY <1>2 DEF SkipSized
  <2>3. f.size > 0
    BY <1>b, <2>1, EntryFacts
  <2>4. \A g \in fns' \ todo' : g.value < TextEnd => g.size > 0
    BY <2>1, <2>2, <2>3 DEF ReachInv, EntryInv
  <2> QED
    BY <1>0, <1>a, <2>2, <2>4 DEF ReachInv, EndWitness, EntryInv
<1>3. CASE InferSize
  <2>1. PICK f \in todo : \E next \in Limits(f) :
          /\ todo' = todo \ {f}
          /\ fns' = (fns \ {f}) \cup {[f EXCEPT !.size = next - f.value]}
    BY <1>3 DEF InferSize
  <2>2. PICK next \in Limits(f) :
          /\ todo' = todo \ {f}
          /\ fns' = (fns \ {f}) \cup {[f EXCEPT !.size = next - f.value]}
    BY <2>1
  <2> DEFINE h == [f EXCEPT !.size = next - f.value]
  <2>3. pc = "size" /\ pc' = pc
    BY <1>3 DEF InferSize
  <2>4. f \in Entry
    BY <1>b
  <2>5. h.value = f.value /\ h.size = next - f.value
    BY <2>4 DEF Entry
  <2>6. f.value < TextEnd => h.size > 0
    <3>1. f.value \in Nat /\ next \in Nat /\ (f.value < TextEnd => f.value < next)
      BY <1>b, <2>4, LimitAbove, EntryFacts
    <3> QED
      BY <2>5, <3>1
  <2>7. \A g \in fns' \ todo' : g.value < TextEnd => g.size > 0
    BY <2>2, <2>3, <2>5, <2>6 DEF ReachInv, EntryInv
  <2>8. \A s \in symtab : \E g \in fns' : g.value = s.value
    <3>1. h \in fns'
      BY <2>2
    <3> QED
      BY <2>2, <2>3, <2>5, <3>1 DEF ReachInv, EntryInv
  <2> QED
    BY <1>0, <1>a, <2>3, <2>7, <2>8 DEF ReachInv, EndWitness, EntryInv
<1>4. CASE Retain
  <2>1. /\ pc = "size" /\ todo = {} /\ pc' = "fold" /\ kept' = kept /\ end' = end
        /\ fns' = {f \in fns : f.size > 0} /\ todo' = fns'
    BY <1>4 DEF Retain
  <2>2. EndWitness'
    BY <2>1 DEF IInv, NothingEarly, EndWitness
  <2>3. \A s \in symtab : s.value < TextEnd => \E f \in fns' : f.value = s.value
    BY <2>1 DEF ReachInv, EntryInv
  <2> QED
    BY <1>0, <1>a, <2>1, <2>2, <2>3 DEF ReachInv, EntryInv
<1>5. CASE Keep
  <2>1. PICK f \in todo :
          /\ kept' = kept \cup {f}
          /\ end' = f.value + f.size
          /\ todo' = todo \ {f}
    BY <1>5 DEF Keep
  <2>2. pc = "fold" /\ pc' = pc /\ fns' = fns
    BY <1>5 DEF Keep
  <2>3. f \in fns /\ f.size > 0 /\ f.value \in Nat /\ f.size \in Nat
    BY <1>b, <2>2, EntryFacts DEF IInv, TodoFromLoop, SizedFns
  <2>4. Cover!Holds(f, f.value)
    BY <2>3 DEF Cover!Holds
  <2>5. \A g \in fns' \ todo' : \E k \in kept' : Cover!Holds(k, g.value)
    BY <2>1, <2>2, <2>4 DEF ReachInv, EntryInv
  <2>6. EndWitness'
    BY <2>1 DEF EndWitness
  <2> QED
    BY <1>0, <1>a, <2>2, <2>5, <2>6 DEF ReachInv, EntryInv
<1>6. CASE Fold
  <2>1. PICK f \in todo : f.value < end /\ todo' = todo \ {f}
    BY <1>6 DEF Fold
  <2>2. pc = "fold" /\ pc' = pc /\ fns' = fns /\ kept' = kept /\ end' = end
    BY <1>6 DEF Fold
  <2>3. f.value \in Nat /\ end \in Nat
    BY <1>b, EntryFacts DEF IInv, TypeOK
  <2>4. PICK k \in kept : k.value + k.size = end
    BY <2>1, <2>2, <2>3 DEF ReachInv, EndWitness
  <2>5. k.value < f.value /\ k.value \in Nat
    BY <1>b, <2>2, EntryFacts DEF IInv, FoldInv
  <2>6. Cover!Holds(k, f.value)
    BY <2>1, <2>3, <2>4, <2>5 DEF Cover!Holds
  <2>7. \A g \in fns' \ todo' : \E j \in kept' : Cover!Holds(j, g.value)
    BY <2>1, <2>2, <2>6 DEF ReachInv, EntryInv
  <2> QED
    BY <1>0, <1>a, <2>2, <2>7 DEF ReachInv, EndWitness, EntryInv
<1>7. CASE StartGaps
  <2>1. pc = "fold" /\ pc' \in {"gaps", "done"} /\ todo = {} /\ kept' = kept /\ fns' = fns
    BY <1>7 DEF StartGaps
  <2>2. \A s \in symtab : s.value < TextEnd => \E k \in kept : Cover!Holds(k, s.value)
    BY <2>1 DEF ReachInv, EntryInv
  <2> QED
    BY <1>0, <1>a, <2>1, <2>2 DEF ReachInv, EndWitness, EntryInv
<1>8. CASE ScanGap
  BY <1>0, <1>a, <1>8 DEF ScanGap, ReachInv, EndWitness, EntryInv
<1>9. CASE ScanTail
  BY <1>0, <1>a, <1>9 DEF ScanTail, ReachInv, EndWitness, EntryInv
<1>10. CASE UNCHANGED vars
  BY <1>a, <1>10 DEF vars, ReachInv, EndWitness, EntryInv
<1> QED
  BY <1>1, <1>2, <1>3, <1>4, <1>5, <1>6, <1>7, <1>8, <1>9, <1>10
  DEF Next, Finished

\* No entry point of the table is lost: whatever is folded, aliased or sized by
\* inference, its address lies in a kept function, so references to it resolve.
THEOREM EntryPoints == Spec => []EntryPointsReachable
<1>1. ReachInv => EntryPointsReachable
  BY DEF ReachInv, EntryInv, EntryPointsReachable
<1> QED
  BY <1>1, InitInv, StepInv, InitReach, StepReach, PTL DEF Spec
=============================================================================
