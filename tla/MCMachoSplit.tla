---------------------------- MODULE MCMachoSplit ----------------------------
(* Instances of MachoSplit: two source files of one name in two directories,    *)
(* four functions with padding between them, one of them without debug          *)
(* information, data, a stub, and branches from and to all of them.             *)
EXTENDS MachoSplit

MCText == [lo |-> 10, hi |-> 32]
MCData ==
  [s \in {"__data", "__const", "__bss"} |->
     CASE s = "__data" -> [lo |-> 40, hi |-> 44] [] s = "__const" -> [lo |-> 44, hi |-> 46]
       [] s = "__bss" -> [lo |-> 46, hi |-> 48]]
Libs == [a \in {50, 53, 60, 65} |-> CASE a \in {50, 65} -> "_puts" [] a \in {53, 60} -> "_exit"]
MCNameOrder == <<"<anon>", "__b", "_a", "_b", "_e", "_exit", "_puts", "_t", "_z", "a", "b">>
MCStem ==
  [n \in Range(MCNameOrder) \cup {"x/u.c", "y/u.c", "batch"} |->
     CASE n \in {"_a", "a"} -> "a" [] n \in {"__b", "_b", "b"} -> "b" [] n = "_t" -> "t"
       [] n = "_e" -> "e" [] n = "_z" -> "z" [] n = "_puts" -> "puts" [] n = "_exit" -> "exit"
       [] n \in {"x/u.c", "y/u.c"} -> "u" [] n = "batch" -> "batch" [] OTHER -> "_anon_"]

Code ==
  {[name |-> "_a", addr |-> 10, size |-> 5, unit |-> "x/u.c"],
   [name |-> "_b", addr |-> 16, size |-> 4, unit |-> "x/u.c"],
   [name |-> "__b", addr |-> 20, size |-> 7, unit |-> "y/u.c"],
   [name |-> "_t", addr |-> 28, size |-> 3, unit |-> "none"]}

AllBranches ==
  {[at |-> a, target |-> t] : a \in {11, 17, 21, 23, 28}, t \in {10, 12, 16, 20, 24, 28, 50, 53, 56, 60, 65}}

Rec(type, name, value) == [type |-> type, name |-> name, value |-> value]
AllRecords ==
  <<Rec("fun", "", 3), Rec("so", "x/u.c", 0), Rec("fun", "_a", 10), Rec("fun", "", 5),
    Rec("fun", "_b", 16), Rec("fun", "", 4), Rec("static", "_z", 41), Rec("so", "", 0),
    Rec("so", "y/u.c", 0), Rec("static", "", 47), Rec("fun", "__b", 20), Rec("fun", "", 7),
    Rec("fun", "", 7), Rec("so", "", 0)>>

\* Records that may be missing: ends of functions and of units, data, stray ends.
Dropped(drop) ==
  LET kept == SelectSeq([k \in DOMAIN AllRecords |-> k], LAMBDA k : k \notin drop)
  IN  [k \in DOMAIN kept |-> AllRecords[kept[k]]]
Streams == {Dropped(drop) : drop \in SUBSET {1, 4, 6, 7, 8, 12, 14}} \cup {<<>>, <<Rec("so", "x/u.c", 0)>>}

Nl(name, addr, external) == [name |-> name, addr |-> addr, external |-> external]
\* A static called from the object that defines it; a symbol at the end of the code.
Tables ==
  {<<Nl("_b", 16, TRUE), Nl("_a", 10, static), Nl("__b", 20, TRUE), Nl("_t", 28, TRUE),
     Nl("_e", 31, TRUE), Nl("_z", 41, FALSE), Nl("_puts", 0, TRUE), Nl("_exit", 0, TRUE)>> : static \in BOOLEAN}

Die(tag, low, high, name, linkage, external, origin) ==
  [tag |-> tag, low |-> low, high |-> high, name |-> name, linkage |-> linkage,
   external |-> external, origin |-> origin]
Length(n) == {[form |-> "len", value |-> n]}
End(a) == {[form |-> "addr", value |-> a]}

\* A method defined outside its class, an inline function without code, a label in
\* the code; an empty unit.
DwarfUnits ==
  <<[name |-> "x/u.c", ranges |-> FALSE, dies |->
       <<Die("subprogram", {10}, Length(5), {}, {}, FALSE, 3),
         Die("subprogram", {}, {}, {"b"}, {}, TRUE, 0),
         Die("subprogram", {}, {}, {"a"}, {"_a"}, TRUE, 0),
         Die("subprogram", {16}, End(20), {"b"}, {"_b"}, FALSE, 2),
         Die("variable", {12}, {}, {"_e"}, {}, TRUE, 0)>>],
    [name |-> "<anon>", ranges |-> FALSE, dies |-> <<>>],
    [name |-> "y/u.c", ranges |-> TRUE, dies |->
       <<Die("subprogram", {20}, Length(7), {"__b"}, {}, TRUE, 0),
         Die("subprogram", {28}, {}, {"_t"}, {}, TRUE, 0)>>]>>

Program(dwarf, stabs, nlist) ==
  [dwarf |-> dwarf, stabs |-> stabs, nlist |-> nlist, branches |-> AllBranches, code |-> Code,
   libs |-> IF Len(nlist) > 6 THEN Libs ELSE <<>>,
   stubs |-> {[addr |-> 50, size |-> 9, first |-> 0, each |-> 3],
              [addr |-> 60, size |-> 15, first |-> 4, each |-> 5],
              [addr |-> 90, size |-> 0, first |-> 0, each |-> 0]},
   \* The last stub of each section has no symbol, one is past the table.
   indirect |-> <<6, 7, 99, 3, 7, 6>>]

MCImages ==
  {Program(<<>>, stabs, nlist) : stabs \in Streams, nlist \in Tables}
    \cup {Program(DwarfUnits, <<>>, nlist) : nlist \in Tables}

ASSUME MCProvisions == \A img \in MCImages : Truthful(img) /\ StubsTrue(img)

\* symtab.json as it is, all names in one file, every name in a file of its own.
AllNames(j) == FlattenSeq(SetToSeq({j[f] : f \in DOMAIN j}))
MCEdits(j) ==
  {j, [f \in {<<"all">>} |-> AllNames(j)],
   [f \in {<<n>> : n \in Range(AllNames(j))} |-> <<f[1]>>]}

\* By hand: the debug information has the last function of the code; names in DWARF
\* have no underscore.
LastImages ==
  {Program(<<>>, AllRecords, SubSeq(nlist, 1, 3)) : nlist \in Tables}
PlainImages ==
  {Program(<<[name |-> "x/u.c", ranges |-> FALSE, dies |->
                <<Die("subprogram", {10}, Length(5), {"a"}, {}, TRUE, 0)>>]>>, <<>>, nlist) :
     nlist \in Tables}
\* By hand: a symbol table only, with a static, or with two names for one function.
BareImages == {Program(<<>>, <<>>, SubSeq(nlist, 1, 4)) : nlist \in Tables}
AliasImages ==
  {Program(<<>>, <<>>, <<Nl("_b", 16, TRUE), Nl("_a", 10, TRUE), Nl("_e", 20, TRUE),
                         Nl("__b", 20, TRUE), Nl("_t", 28, TRUE)>>)}
=============================================================================
