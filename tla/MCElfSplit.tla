----------------------------- MODULE MCElfSplit -----------------------------
(* Three functions of two translation units and a variable of one of them. *)
EXTENDS ElfSplit

MCStems == {"f", "g", "h", "<anon>", "__delink_sub", "__delink_data_start"}

F == Plain("f")
G == Plain("g")
H == Plain("h")

Fn(addr, name, global, unit) ==
  [addr |-> addr, size |-> 2, name |-> name, code |-> TRUE, global |-> global,
   unit |-> unit]
Var(name, global, unit) ==
  [addr |-> 130, size |-> 0, name |-> name, code |-> FALSE, global |-> global,
   unit |-> unit]

ImageOf(symtab, dwarf, imports) ==
  [text |-> [base |-> 16, limit |-> 64],
   sections |-> {[base |-> 128, limit |-> 134, start |-> "__delink_data_start"]},
   symtab |-> symtab, dwarf |-> dwarf, imports |-> imports]

\* What a linker accepts: one global definition of a name.
Linkable(defs) ==
  \A d, e \in defs : d.global /\ e.global /\ d.name = e.name => d = e

\* No static of any unit has the name of a global.
NoShadow(defs) ==
  \A d, e \in defs : d.global /\ d.name = e.name => d = e

Tables(names) ==
  {{Fn(16, F, g1, 0), Fn(32, n2, g2, u2), Fn(48, n3, g3, 1), Var(v, FALSE, u2)} :
     g1 \in BOOLEAN, n2 \in names, g2 \in BOOLEAN, u2 \in {0, 1}, n3 \in names,
     g3 \in BOOLEAN, v \in names}

\* Statics may share names with statics; a compiler-made `f.5' may be shared
\* too; DWARF describes everything, or not the function at 48, or is missing.
PassImages ==
  {ImageOf(t, {d \in t : d.addr \notin undescribed}, {H}) :
     t \in {t \in Tables({F, G, Suffixed(F, 5)}) : NoShadow(t)},
     undescribed \in {{}, {48}, {16, 32, 48, 130}}}

\* Every function has a name of its own.
DistinctImages ==
  {ImageOf(t, {d \in t : d.addr \notin undescribed}, {H}) :
     t \in {t \in Tables({F, G, Suffixed(F, 5)}) :
              /\ NoShadow(t)
              /\ \A d, e \in Functions(t) : d.name = e.name => d = e
              /\ \A d \in t : d.addr = 32 => d.name = G
              /\ \A d \in t : d.code \/ d.name = F},
     undescribed \in {{}, {48}}}

Replace(s, i) == SubSeq(s, 1, i - 1) \o SubSeq(s, i + 1, Len(s))

\* Move the first name of one file to the end of another.
Moves(objects) ==
  {[objects EXCEPT ![from] = Replace(@, 1), ![to] = Append(@, objects[from][1])] :
     <<from, to>> \in {p \in (DOMAIN objects) \X (DOMAIN objects) :
                         p[1] # p[2] /\ objects[p[1]] # <<>>}}

Renamed(objects, from, to) ==
  [file \in (DOMAIN objects \ {from}) \cup {to} |->
     IF file = to THEN objects[from] ELSE objects[file]]

Chosen == [base |-> "mine", id |-> 0, dotO |-> FALSE]

\* Rename a file, leaving the ".o" off.
Renames(objects) == {Renamed(objects, from, Chosen) : from \in DOMAIN objects}

MCEdits(objects) == Moves(objects) \cup Renames(objects)

\* The theorems of ElfSplitProofs are about these images and these edits.
ASSUME MCProvisions ==
  /\ \A img \in PassImages \cup DistinctImages : \A index \in {img.symtab, img.dwarf} :
       /\ Placed(img, index) /\ DataApart(img) /\ NamesApart(img, index)
       /\ Contained(img, index) /\ ImportsApart(img, index)
       /\ ExportsUnshared(img, index)
  /\ \A img \in DistinctImages : \A index \in {img.symtab, img.dwarf} :
       /\ FunctionsNamed(index)
       /\ \A new \in MCEdits(ObjectsJson(index)) :
            PathsApart(new) /\ NamesKept(ObjectsJson(index), new)

-----------------------------------------------------------------------------
(* Images and edits on which a documented claim fails *)

\* The third function is a compiler-made static that is really called f.20,
\* which is what the second one (at 32) is renamed to.
DottedImages ==
  {ImageOf({Fn(16, F, FALSE, 0), Fn(32, F, FALSE, 1),
            Fn(48, Suffixed(F, 32), FALSE, 1)}, {}, {})}

\* A static function of one unit has the name of a symbol another one imports.
CaptureImages ==
  {ImageOf({Fn(16, F, FALSE, 0), Fn(32, G, TRUE, 1)}, {}, {F})}

\* A static shadows an exported function.
ShadowImages ==
  {ImageOf(t, {}, {}) : t \in {t \in Tables({F, G}) : Linkable(t)}}

\* Two statics of different units share their name.
TwinImages ==
  {ImageOf({Fn(16, F, FALSE, 0), Fn(32, G, TRUE, 0), Fn(48, F, FALSE, 1)}, {}, {})}

\* DWARF has no name for one of the functions.
AnonImages ==
  LET defs == {Fn(16, Plain("<anon>"), TRUE, 0), Fn(32, G, TRUE, 1)}
  IN  {ImageOf(defs, defs, {})}

\* DWARF describes a static whose address is taken by data.
StaticImages ==
  LET defs == {Fn(16, F, FALSE, 0), Fn(32, G, TRUE, 1), Var(H, TRUE, 0)}
  IN  {ImageOf(defs, defs, {})}

\* DWARF still describes two functions the linker dropped, at address zero.
DeadImages ==
  LET dead == [Fn(0, G, TRUE, 0) EXCEPT !.size = 4]
      defs == {Fn(16, F, TRUE, 0), Fn(32, H, TRUE, 1)}
  IN  {ImageOf(defs, {dead, Fn(16, F, TRUE, 0)}, {})}

\* Rename one file to another file's name without the ".o".
BareRenames(objects) ==
  {Renamed(objects, p[1], [p[2] EXCEPT !.dotO = FALSE]) :
     p \in {q \in (DOMAIN objects) \X (DOMAIN objects) : q[1] # q[2]}}
=============================================================================
