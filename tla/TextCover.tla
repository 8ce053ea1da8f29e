------------------------------ MODULE TextCover ------------------------------
(***************************************************************************)
(* What recovering the functions of .text from the symbol table promises   *)
(* to the rest of the splitter, whatever the table looks like: one list of *)
(* regions, published once, that loses no live byte of .text and emits no  *)
(* byte twice.  A test of symtab.rs, interior_entry_points_fold_into_the_  *)
(* enclosing_function, words it "bytes must be covered exactly once".      *)
(*                                                                         *)
(* TextIndex implements this specification.                                *)
(***************************************************************************)
EXTENDS Integers

VARIABLES
  published,   \* has the index been built?
  cover        \* the regions [value, size] it consists of

coverVars == <<published, cover>>

\* A region occupies the addresses value, ..., value + size - 1.
Holds(region, byte) == region.value <= byte /\ byte < region.value + region.size

\* Two regions share no byte.
Apart(r, s) ==
  \/ r.value + r.size <= s.value
  \/ s.value + s.size <= r.value

PairwiseApart(regions) == \A r, s \in regions : r = s \/ Apart(r, s)

CoversAll(regions, live) == \A b \in live : \E r \in regions : Holds(r, b)

\* A cover of the live bytes: none is lost, none is emitted twice.
IsCover(regions, live) ==
  /\ \A r \in regions : r.size > 0
  /\ PairwiseApart(regions)
  /\ CoversAll(regions, live)

CoverInit == published = FALSE /\ cover = {}

\* `live' are the bytes of .text that are not inter-function padding.
Publish(live) ==
  /\ ~published
  /\ published' = TRUE
  /\ IsCover(cover', live)
=============================================================================
