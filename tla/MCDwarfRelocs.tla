--------------------------- MODULE MCDwarfRelocs ---------------------------
(* Two units: `a' and `b' at 100 and 103, one behind the other, `c' at 108. *)
(* Functions land anywhere from 98, on addresses that other functions had.  *)
EXTENDS DwarfRelocs

MCLayouts(img) ==
  LET addrs  == {f.addr : f \in img.functions}
      others == {s.addr : s \in img.sections} \cup img.variables
  IN  {l \in {[a \in addrs \cup others \cup {Strings} |->
                IF a \in addrs THEN l[a] ELSE IF a = Strings THEN 7 ELSE a + 20] :
                l \in [addrs -> 98..106]} : Linkable(img, l)}

Fn(addr, size, unit) == [addr |-> addr, size |-> size, unit |-> unit]
Attr(attr, form, value) == [attr |-> attr, form |-> form, value |-> value]
Op(op, value) == [op |-> op, value |-> value]
Pair(lo, hi, unit) == [kind |-> "pair", lo |-> lo, hi |-> hi, unit |-> unit]
Terminator == [kind |-> "end", lo |-> 0, hi |-> 0, unit |-> 0]
Selector(a) == [kind |-> "base", lo |-> -1, hi |-> a, unit |-> 1]
Fde(begin, size) == [kind |-> "fde", begin |-> begin, size |-> size]
Record(kind) == [kind |-> kind, begin |-> 0, size |-> 0]

A == Fn(100, 3, 1)  B == Fn(103, 2, 1)  C == Fn(108, 3, 2)
Apart == Fn(104, 2, 1)   \* `b' behind padding

-----------------------------------------------------------------------------
(* Sections *)

\* A function or a block; the entry of a unit that has one section, and of one that
\* has not.
Die(lo, size) ==
  <<Attr("name", "strp", 5), Attr("low_pc", "addr", lo), Attr("high_pc", "data", size)>>
DieTo(lo, hi) == <<Attr("low_pc", "addr", lo), Attr("high_pc", "addr", hi)>>
Entered(a) == <<Attr("entry_pc", "addr", a), Attr("ranges", "data", 0)>>
Dead == Die(0, 2)
Whole(lo, size) == <<Die(lo, size)>>
Parts == <<<<Attr("name", "strp", 0), Attr("ranges", "data", 0)>>>>

Row(n) == Op("row", n)
LineOf(f, k) == <<Op("set", f.addr), Row(0), Op("other", 0), Row(k), Op("end", f.size)>>
OneSequence == <<Op("set", 100), Row(0), Row(2), Row(4), Op("end", 5)>>
Reset == <<Op("set", 100), Row(0), Op("set", 103), Row(0), Op("set", 104), Row(0), Op("end", 1)>>
DeadLine == <<Op("set", 0), Row(0), Op("end", 2)>>

\* Two lists of unit 1, one of unit 2, relative to the origin they have.
Lists(pairs) ==
  {<<p, q, Terminator, Pair(0, 2, 2), Pair(1, 3, 2), Terminator>> : p, q \in pairs}
PairsFrom(origin, ends) == {Pair(p[1] - origin, p[2] - origin, 1) : p \in ends}

-----------------------------------------------------------------------------
(* Programs *)

Image(perFunction, b, unit1, line1, ranges, loc, frames) ==
  [arch |-> "aarch64", perFunction |-> perFunction, units |-> 2, functions |-> {A, b, C},
   info |-> <<unit1, Whole(108, 3) \o <<Die(108, 3), Entered(109)>>>>,
   line |-> <<line1, LineOf(C, 2)>>,
   ranges |-> ranges, loc |-> loc, frames |-> frames, index |-> <<>>,
   variables |-> {101, 120}, sections |-> {[addr |-> 120, size |-> 4]}]

\* Unwind records of the functions, with a part split off; what else there is.
FramesOf(b, rest) ==
  <<Record("cie"), Fde(100, 3), Fde(b.addr, b.size), Record("cie"), Fde(108, 2), Fde(110, 1)>>
    \o rest
Rests == {<<>>, <<Record("end")>>, <<Record("end"), Fde(100, 2)>>}

\* A unit of one section: pairs are distances from its start.
OneSection ==
  {Image(FALSE, B, Whole(100, 5) \o <<Die(100, 3), Dead, Die(103, 2)>>, line, ranges, loc,
         FramesOf(B, rest)) :
     line \in {OneSequence, LineOf(A, 1) \o DeadLine \o LineOf(B, 1), Reset},
     ranges \in Lists(PairsFrom(100, {<<100, 103>>, <<101, 104>>, <<103, 105>>})),
     loc \in Lists(PairsFrom(100, {<<100, 105>>, <<104, 105>>})), rest \in Rests}

\* A unit of a section for each function: pairs are addresses, or distances from a
\* base at 0; dropped code is at 0.
EachSection ==
  {Image(TRUE, Apart, Parts \o <<Die(100, 3), Dead, Entered(104), Die(104, 2)>>,
         LineOf(A, 2) \o LineOf(Apart, 1), ranges, loc, FramesOf(Apart, <<>>)) :
     ranges \in Lists(PairsFrom(0, {<<100, 103>>, <<100, 102>>, <<101, 102>>, <<104, 106>>, <<0, 2>>})),
     loc \in Lists(PairsFrom(0, {<<100, 103>>, <<105, 106>>}))
             \cup {<<Selector(0), Pair(100, 102, 1), Terminator>>}}

\* ARM: an index with an entry for every function, or for runs of them.
ArmImages(indices) ==
  {[Image(pf, B, <<>>, <<>>, <<>>, <<>>, <<>>) EXCEPT
      !.arch = "arm", !.units = 0, !.index = [k \in DOMAIN i |-> [begin |-> i[k]]]] :
     pf \in BOOLEAN, i \in indices}

\* A unit of types alone that the walk cannot read.
Types == {Image(TRUE, Apart, <<<<Attr("x", "unknown", 0)>>>>, <<>>, <<>>, <<>>, <<>>)}

MCImages ==
  OneSection \cup EachSection \cup Types
    \cup ArmImages({<<100, 103, 108>>, <<100, 108>>, <<100, 102, 103, 108, 110>>})

ASSUME MCProvisions == \A img \in MCImages : Described(img) /\ Told(img)

-----------------------------------------------------------------------------
(* What the walk gets wrong *)

Simple(unit1, line1, ranges) == Image(TRUE, Apart, unit1, line1, ranges, <<>>, <<>>)

\* A block up to the end of a function that another one follows.
Adjacent == {Image(TRUE, B, Parts, <<>>, <<Pair(101, 103, 1), Terminator>>, <<>>, <<>>)}
\* The unit's functions had padding between them, and one row of the line table
\* leads to the next across it.
Padded ==
  {[Image(FALSE, Apart, Parts, <<Op("set", 100), Row(0), Row(4), Op("end", 6)>>, <<>>, <<>>, <<>>)
      EXCEPT !.info = <<Parts, Parts>>]}
\* The end of a function as an address.
Ends == {Simple(<<DieTo(100, 103)>>, <<>>, <<>>)}
\* A base, and pairs relative to it.
Selected == {Simple(Parts, <<>>, <<Selector(100), Pair(0, 2, 1), Terminator>>)}
\* A pair relative to the unit whose distances are addresses of functions.
Distant ==
  {[Image(FALSE, Fn(3, 2, 1), <<>>, <<>>, <<>>, <<>>, <<>>) EXCEPT
      !.functions = {Fn(1, 2, 1), Fn(3, 2, 1)}, !.units = 1,
      !.info = <<Whole(1, 4)>>, !.line = <<<<>>>>, !.ranges = <<Pair(1, 3, 1), Terminator>>]}
\* The place of a call; a form the walk does not know, in an entry that is otherwise
\* known.
Calls == {Simple(<<<<Attr("call_pc", "addr", 101)>>>>, <<>>, <<>>)}
UnknownForm == {Simple(<<Die(100, 3), <<Attr("x", "unknown", 0)>>>>, <<>>, <<>>)}
\* Records behind a 64-bit one, one that begins where there is a variable in the
\* code, one of code nobody knows.
LongRecord == {Image(TRUE, Apart, <<>>, <<>>, <<>>, <<>>, <<Record("long"), Fde(100, 3)>>)}
Hidden == ArmImages({<<100, 101, 103, 108>>})
Stray == {Image(TRUE, Apart, <<>>, <<>>, <<>>, <<>>, <<Fde(96, 3)>>)}
=============================================================================
