----------------------------- MODULE MCIdaSplit -----------------------------
(* Three functions, one of them with a jump table behind it, a labelled gap, *)
(* constants, and data with a zero tail; pointers have two bytes.            *)
EXTENDS IdaSplit

MCTexts == {"f", "g", "h", "pad", "k", "v", "w", "z", "t"}

Fn(start, end, name) == [start |-> start, end |-> end, name |-> name]
Lb(addr, size, name) == [addr |-> addr, size |-> size, name |-> name]
Seg(class, start, end, init) ==
  [class |-> class, start |-> start, end |-> end, stop |-> end, init |-> init]
Word(at, value) == [at |-> at, value |-> value]
To(at, target)  == [at |-> at, target |-> target]

\* f 10-14, pad 14-15, g 15-19 with a table 19-21, h 21-24; a call from f to h
\* and a jump from h to g; k holds a pointer to g, v one into w.
Base ==
  [sections |-> {Seg("code", 10, 24, 24), Seg("const", 30, 34, 34), Seg("data", 40, 50, 46)},
   functions |-> {Fn(10, 14, "f"), Fn(15, 19, "g"), Fn(21, 24, "h")},
   tables |-> {[owner |-> 15, start |-> 19, end |-> 21, dispatch |-> 16,
                entries |-> {To(19, 18)}]},
   names |-> {Lb(10, 0, "f"), Lb(15, 0, "g"), Lb(21, 0, "h"), Lb(14, 0, "pad"), Lb(30, 2, "k"), Lb(40, 2, "v"), Lb(42, 4, "w"), Lb(46, 2, "z")},
   words |-> {Word(12, 46), Word(30, 15), Word(40, 44), Word(44, 14)},
   fixups |-> {To(40, 44), To(12, 46)}, base |-> {30, 40, 44},
   branches |-> {[at |-> 11, target |-> 21, short |-> FALSE],
                 [at |-> 22, target |-> 17, short |-> FALSE],
                 [at |-> 23, target |-> 14, short |-> FALSE]},
   shift |-> 0, coff |-> TRUE]

\* An import table before the constants, with a slot that is also called h.
Imports == [Base EXCEPT !.sections = @ \cup {Seg("xtrn", 28, 30, 30)},
                        !.names = @ \cup {Lb(28, 2, "h")},
                        !.words = @ \cup {Word(32, 28)}, !.base = @ \cup {32}]

\* The function at 21 is called f as well; the operand at 12 is an address or
\* not.  Only COFF objects get by with two functions f.
PassModels ==
  {[img EXCEPT !.functions = {Fn(10, 14, "f"), Fn(15, 19, "g"), Fn(21, 24, h)},
               !.names = {n \in @ : n.addr # 21} \cup {Lb(21, 0, h)},
               !.fixups = {To(40, 44), To(12, t)}] :
     img \in {Base, Imports}, h \in {"f", "h"}, t \in {46, 47}}
  \cup {[Base EXCEPT !.coff = FALSE]}

A == <<"name", "A", 0>>
B == <<"name", "B", 0>>

I(start, end) == [start |-> start, end |-> end]
D(class, start, end) == [class |-> class, start |-> start, end |-> end]
G(functions, code, data) == [functions |-> functions, code |-> code, data |-> data]

Both(a, b) == [k \in {A, B} |-> IF k = A THEN a ELSE b]

\* Functions and code ranges of the two groups.
Codes ==
  {<<fa, {}, fb, {}>> : fa \in {<<>>, <<10>>, <<10, 15>>, <<15, 15>>}, fb \in {<<21>>, <<21, 15>>, <<12>>}}
  \cup {<<fa, {I(s, e)}, fb, cb>> :
          s \in {10, 12, 14}, e \in {14, 15, 19, 21, 24}, fa \in {<<>>, <<21>>},
          fb \in {<<>>, <<15>>, <<21>>}, cb \in {{}, {I(21, 24)}, {I(14, 15)}}}

Datas ==
  {<<{}, {}>>, <<{D("data", 40, 42)}, {D("data", 42, 46)}>>,
   <<{D("data", 42, 46), D("bss", 46, 50)}, {D("const", 30, 34)}>>,
   <<{D("data", 46, 48)}, {D("const", 30, 31)}>>,
   <<{D("data", 40, 43)}, {D("data", 42, 46)}>>,
   <<{D("data", 45, 46)}, {}>>, <<{D("data", 44, 46)}, {}>>, <<{D("const", 40, 42)}, {}>>,
   <<{D("data", 40, 50)}, {D("const", 30, 34)}>>}

All == {Both(G(c[1], c[2], d[1]), G(c[3], c[4], d[2])) : c \in Codes, d \in Datas}

Sensible(img) == {g \in All : Careful(img, g) /\ KeepsVariables(img, g)}

\* The provisions of the proofs hold of what the passing runs check.
ASSUME MCProvisions ==
  \A img \in PassModels :
    /\ Orderly(img) /\ Careful(img, Generate(img))
    /\ NamesTrue(img) /\ FieldsApart(img) /\ TargetsNamed(img) /\ VariablesWhole(img)
    /\ \A gs \in Sensible(img) :
         Accepted(img, gs) => WordsWhole(img, gs) /\ PointersNamed(img, gs)

\* Groupings for two runs over one directory: everything given away, some of
\* it, a malformed one and two the check turns down.
Edited(img) ==
  {Both(G(<<10, 15>>, {}, {D("const", 30, 34)}), G(<<21>>, {}, {D("data", 40, 50)})),
   Both(G(<<>>, {I(10, 24)}, {D("const", 30, 34)}), G(<<>>, {}, {D("data", 40, 50)})),
   Both(G(<<10>>, {}, {}), G(<<15>>, {}, {})),
   Both(G(<<10, 15>>, {}, {}), G(<<12>>, {}, {})),
   Both(G(<<>>, {I(10, 17)}, {}), G(<<21>>, {}, {})),
   Both(G(<<>>, {I(10, 14)}, {}), G(<<10>>, {}, {})),
   Both(G(<<10>>, {}, {D("data", 40, 43)}), G(<<15>>, {}, {D("data", 42, 46)}))}

-----------------------------------------------------------------------------
(* What the code does with other inputs *)

BaseOnly == {Base}

\* g is listed in both groups.
Twice(img) == {Both(G(<<10, 15>>, {}, {}), G(<<15, 21>>, {}, {}))}

\* A range ends between g and its table, the next one begins there.
Apart(img) == {Both(G(<<>>, {I(10, 19)}, {}), G(<<>>, {I(19, 24)}, {}))}

\* The variable w is shared out between two objects.
Halves(img) == {Both(G(<<10, 15>>, {}, {D("data", 42, 44)}), G(<<21>>, {}, {}))}

\* A second data segment, with a variable the data of the first points to.
SecondData ==
  {[Base EXCEPT !.sections = @ \cup {Seg("data", 60, 64, 64)},
                !.names = @ \cup {Lb(60, 2, "t")},
                !.words = {Word(40, 60)}, !.fixups = {}, !.base = {40}]}

\* The database is rebased by four.
Rebased ==
  {[Base EXCEPT !.words = {Word(40, 38)}, !.fixups = {}, !.base = {36}, !.shift = 4]}

\* f ends in a short jump to h.
ShortJump ==
  {[Base EXCEPT !.branches = {[at |-> 13, target |-> 21, short |-> TRUE]}]}

\* Padding before g and before h.
Padded ==
  {[Base EXCEPT !.functions = {Fn(10, 14, "f"), Fn(15, 19, "g"), Fn(22, 24, "h")},
                !.names = {n \in @ : n.addr # 21}, !.branches = {}]}

None(img) == {}
=============================================================================
