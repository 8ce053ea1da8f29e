------------------------------ MODULE TextIndex ------------------------------
(***************************************************************************)
(* How delink-core recovers the functions of an ELF image from .symtab:    *)
(* collect_text_functions followed by find_orphan_regions (symtab.rs).     *)
(*                                                                         *)
(* The code is a sequence of four loops over the function symbols of .text *)
(* in address order, and each iteration is a step here:                    *)
(*                                                                         *)
(*   "dedup"  sort, one symbol per address                                 *)
(*   "size"   give every zero-sized symbol the room up to the next one     *)
(*   "fold"   drop the entry points inside a function already kept         *)
(*   "gaps"   turn what no kept function covers into orphan functions      *)
(*   "done"   text_functions() = kept \cup orphans                         *)
(*                                                                         *)
(* `todo' holds the entries the current loop has not reached.  Addresses   *)
(* are bytes; the contents of .text are abstracted to the addresses at     *)
(* which a padding word (a zero word or an A32 no-op) starts.              *)
(***************************************************************************)
EXTENDS Integers

CONSTANTS
  TextBase, TextEnd,   \* the address range of .text, [TextBase, TextEnd)
  Values, Sizes,       \* candidate st_value and st_size of function symbols
  Ranks,               \* positions in the (name, table position) order
  NopSites             \* candidate addresses of padding words

ASSUME TextAssumption ==
  /\ TextBase \in Nat /\ TextEnd \in Nat /\ TextBase <= TextEnd
  /\ Values \subseteq TextBase..TextEnd
  /\ Sizes \subseteq Nat
  /\ Ranks \subseteq Nat
  /\ NopSites \subseteq Nat

VARIABLES
  symtab,    \* input: the named STT_FUNC symbols of .text
  nops,      \* input: where the padding words of .text start
  pc,        \* the loop being executed
  fns,       \* the deduplicated symbols, their sizes being inferred
  todo,      \* entries the current loop has not reached yet
  kept,      \* the named functions of the index
  end,       \* end of the last kept function
  cursor,    \* end of the part of .text accounted for
  orphans    \* the synthetic __delink_orphan_<addr> functions

vars == <<symtab, nops, pc, fns, todo, kept, end, cursor, orphans>>

Cover == INSTANCE TextCover WITH
           published <- pc = "done",
           cover     <- IF pc = "done" THEN kept \cup orphans ELSE {}

-----------------------------------------------------------------------------
(* Entries and the sort order *)

Entry  == [value : Values, size : Nat, rank : Ranks]
\* The name of an orphan is its address; it has no place in the name order.
Orphan == [value : Nat, size : Nat]

\* Among the aliases of one address, the sized symbols sort first, then names.
Precedes(f, g) ==
  \/ f.size # 0 /\ g.size = 0
  \/ (f.size = 0 <=> g.size = 0) /\ f.rank < g.rank

FirstAtAddress(table) ==
  {f \in table : \A g \in table : g.value = f.value /\ g # f => Precedes(f, g)}

Lowest(f, entries) == f \in entries /\ \A g \in entries : f.value <= g.value

\* Where the room of f ends: at the next symbol, or at the end of .text.
Limits(f) == {g.value : g \in {h \in fns : f.value < h.value}} \cup {TextEnd}

-----------------------------------------------------------------------------
(* Padding *)

\* Mutant: one padding word makes the whole run padding.
HasPadding(from, to) ==
  \E a \in from..(to - 1) : (a - from) % 4 = 0 /\ a \in nops

\* is_padding: whole 4-byte chunks, each of them a padding word.
IsPadding(from, to) ==
  \A a \in from..(to - 1) : (a - from) % 4 = 0 => a + 4 <= to /\ a \in nops

\* The bytes of .text that belong to no padding word.
Live == {b \in TextBase..(TextEnd - 1) :
           \A a \in nops : ~(a <= b /\ b < a + 4)}

\* The closure `push': the orphan of a gap, if the gap deserves one.
GapRegion(from, to) ==
  IF from < to /\ to <= TextEnd /\ ~IsPadding(from, to)
  THEN {[value |-> from, size |-> to - from]}
  ELSE {}

-----------------------------------------------------------------------------
(* The steps *)

Init ==
  /\ \E N \in SUBSET Ranks : \E sym \in [N -> [value : Values, size : Sizes]] :
       symtab = {[value |-> sym[r].value, size |-> sym[r].size, rank |-> r] :
                   r \in N}
  /\ nops \in SUBSET NopSites
  /\ pc = "dedup"
  /\ fns = {} /\ todo = {} /\ kept = {} /\ orphans = {}
  /\ end = 0 /\ cursor = 0

\* sort_by, dedup_by_key
Dedup ==
  /\ pc = "dedup"
  /\ fns' = FirstAtAddress(symtab)
  /\ todo' = fns'
  /\ pc' = "size"
  /\ UNCHANGED <<symtab, nops, kept, end, cursor, orphans>>

\* Mutant: the test for a missing size is gone.
SkipAnySize ==
  /\ pc = "size"
  /\ \E f \in todo : Lowest(f, todo) /\ todo' = todo \ {f}
  /\ UNCHANGED <<symtab, nops, pc, fns, kept, end, cursor, orphans>>

\* An entry with a size of its own: `continue'.
SkipSized ==
  /\ pc = "size"
  /\ \E f \in todo :
       /\ Lowest(f, todo)
       /\ f.size # 0
       /\ todo' = todo \ {f}
  /\ UNCHANGED <<symtab, nops, pc, fns, kept, end, cursor, orphans>>

InferSize ==
  /\ pc = "size"
  /\ \E f \in todo : \E next \in Limits(f) :
       /\ Lowest(f, todo)
       /\ f.size = 0
       /\ \A l \in Limits(f) : next <= l
       /\ todo' = todo \ {f}
       /\ fns' = (fns \ {f}) \cup {[f EXCEPT !.size = next - f.value]}
  /\ UNCHANGED <<symtab, nops, pc, kept, end, cursor, orphans>>

\* retain(size > 0), and the start of the overlap pass
Retain ==
  /\ pc = "size" /\ todo = {}
  /\ fns' = {f \in fns : f.size > 0}
  /\ todo' = fns'
  /\ pc' = "fold"
  /\ UNCHANGED <<symtab, nops, kept, end, cursor, orphans>>

\* Mutant: only an entry that ends inside the kept function is folded.
KeepPartialOverlap ==
  /\ pc = "fold"
  /\ \E f \in todo :
       /\ Lowest(f, todo)
       /\ end <= f.value + f.size
       /\ kept' = kept \cup {f}
       /\ end' = f.value + f.size
       /\ todo' = todo \ {f}
  /\ UNCHANGED <<symtab, nops, pc, fns, cursor, orphans>>

Keep ==
  /\ pc = "fold"
  /\ \E f \in todo :
       /\ Lowest(f, todo)
       /\ end <= f.value
       /\ kept' = kept \cup {f}
       /\ end' = f.value + f.size
       /\ todo' = todo \ {f}
  /\ UNCHANGED <<symtab, nops, pc, fns, cursor, orphans>>

\* A secondary entry point inside the last kept function is dropped.
Fold ==
  /\ pc = "fold"
  /\ \E f \in todo :
       /\ Lowest(f, todo)
       /\ f.value < end
       /\ todo' = todo \ {f}
  /\ UNCHANGED <<symtab, nops, pc, fns, kept, end, cursor, orphans>>

\* find_orphan_regions starts, unless .text is empty (its early return).
StartGaps ==
  /\ pc = "fold" /\ todo = {}
  /\ todo' = kept
  /\ cursor' = TextBase
  /\ pc' = IF TextBase < TextEnd THEN "gaps" ELSE "done"
  /\ UNCHANGED <<symtab, nops, fns, kept, end, orphans>>

ScanGap ==
  /\ pc = "gaps"
  /\ \E f \in todo :
       /\ Lowest(f, todo)
       /\ orphans' = orphans \cup GapRegion(cursor, f.value)
       /\ cursor' = IF cursor < f.value + f.size THEN f.value + f.size ELSE cursor
       /\ todo' = todo \ {f}
  /\ UNCHANGED <<symtab, nops, pc, fns, kept, end>>

\* Mutant: the code after the last function is forgotten.
ForgetTail ==
  /\ pc = "gaps" /\ todo = {}
  /\ pc' = "done"
  /\ UNCHANGED <<symtab, nops, fns, todo, kept, end, cursor, orphans>>

\* The gap after the last function.
ScanTail ==
  /\ pc = "gaps" /\ todo = {}
  /\ orphans' = orphans \cup GapRegion(cursor, TextEnd)
  /\ pc' = "done"
  /\ UNCHANGED <<symtab, nops, fns, todo, kept, end, cursor>>

Finished == pc = "done" /\ UNCHANGED vars

Next ==
  \/ Dedup
  \/ SkipSized \/ InferSize \/ Retain
  \/ Keep \/ Fold
  \/ StartGaps \/ ScanGap \/ ScanTail
  \/ Finished

Spec == Init /\ [][Next]_vars
\* The loops run to their end: the program does not stop half way.

-----------------------------------------------------------------------------
(* Properties *)

\* The type invariant: every variable holds what the code's variable can hold.
TypeOK ==
  /\ symtab \subseteq Entry
  /\ nops \subseteq NopSites
  /\ pc \in {"dedup", "size", "fold", "gaps", "done"}
  /\ fns \subseteq Entry /\ todo \subseteq Entry /\ kept \subseteq Entry
  /\ end \in Nat /\ cursor \in Nat
  /\ orphans \subseteq Orphan

\* At no point do two emitted regions share a byte, whatever symbols overlap:
\* the overlap pass and the gap scan never duplicate code.
RegionsApart == Cover!PairwiseApart(kept \cup orphans)

\* No code is lost: when the index is built every live byte of .text lies in a
\* named function or in an orphan.
NothingLost ==
  pc = "done" => Cover!CoversAll(kept \cup orphans, Live)

\* Every address the table names inside .text lies in a kept function, so that
\* a reference to a folded or aliased entry point resolves as outer + delta.
EntryPointsReachable ==
  pc = "done" =>
    \A s \in symtab : s.value < TextEnd => \E k \in kept : Cover!Holds(k, s.value)

\* The index implements the abstract cover of the live bytes of .text.
ImplementsCover ==
  Cover!CoverInit /\ [][Cover!Publish(Live)]_(Cover!coverVars)

=============================================================================
