----------------------------- MODULE MCPeSplit -----------------------------
(* Two modules with code, a third with data only.  Code lies at 1 to 19, with *)
(* a routine of a library at 18; read-only data at 30 to 37, data at 40 to 51, *)
(* thread data at 60 and 61, an import slot at 70.                            *)
EXTENDS PeSplit

MCUdt == [n \in {"U"} |-> 4]
MCSection ==
  [s \in {"text", "rdata", "data", "tls", "idata"} |->
     CASE s = "text"  -> [lo |-> 1,  hi |-> 20]
       [] s = "rdata" -> [lo |-> 30, hi |-> 38]
       [] s = "data"  -> [lo |-> 40, hi |-> 52]
       [] s = "tls"   -> [lo |-> 60, hi |-> 62]
       [] s = "idata" -> [lo |-> 70, hi |-> 72]]
MCImports  == [a \in {70} |-> <<"__imp_q">>]
MCLiterals == [a \in {32} |-> <<"??_C@">>]

Public(va, n, code) == [va |-> va, name |-> <<n>>, code |-> code]
MCPublics ==
  {Public(5, "f", TRUE), Public(5, "f2", TRUE), Public(18, "memcpy", TRUE), Public(34, "k", FALSE)}

Proc(va, len, n, global, params, frame) ==
  [kind |-> "proc", va |-> va, len |-> len, raw |-> <<n>>, global |-> global,
   params |-> params, frame |-> frame]
Data(va, n, size, unique) ==
  [kind |-> "data", va |-> va, raw |-> <<n>>, global |-> TRUE,
   type |-> [size |-> size, unique |-> unique]]
Label(va, n) == [kind |-> "label", va |-> va, raw |-> <<n>>]
Contrib(va, size, section, uninit) ==
  [va |-> va, size |-> size, section |-> section, uninit |-> uninit]

MCModules ==
  << [records  |-> {Proc(1, 4, "s", FALSE, {<<1, 8>>}, {TRUE}), Proc(5, 6, "f", TRUE, {}, {}),
                    Proc(0, 6, "gone", TRUE, {}, {TRUE}), Label(8, "l"), Data(40, "x", 0, "U")},
      contribs |-> {Contrib(1, 10, "text", FALSE), Contrib(40, 6, "data", FALSE)}],
     [records  |-> {Proc(11, 6, "h", TRUE, {}, {FALSE}), Data(48, "y", 0, "V"), Data(60, "t", 2, ""),
                    Data(30, "r", 1, "")},
      contribs |-> {Contrib(11, 6, "text", FALSE), Contrib(46, 4, "data", FALSE),
                    Contrib(60, 2, "tls", FALSE), Contrib(30, 4, "rdata", FALSE)}],
     [records  |-> {}, contribs |-> {}],
     [records  |-> {}, contribs |-> {Contrib(34, 4, "rdata", FALSE), Contrib(50, 2, "data", TRUE)}] >>

ASSUME MCProvisions ==
  /\ LinkNamesApart /\ NamedAreGlobal /\ ProceduresApart
  /\ GlobalsApart /\ AddressesOnce /\ SectionsKept /\ DataHoused
  /\ LibrariesApart /\ ProceduresWhole

-----------------------------------------------------------------------------
(* Images: a field of each of two places, prefixes at 6 and 12 *)

At(a, kind, targets) == {[at |-> a, kind |-> kind, target |-> t] : t \in targets}

InS == At(3, "branch", {5, 11, 13, 18, 19}) \cup At(3, "rip", {40, 42, 0})
InF == At(9, "branch", {1, 6, 11}) \cup At(9, "rip", {5, 8, 11, 31, 32, 34, 42, 45, 48, 60, 70})
InH == At(15, "rip", {35, 41, 49}) \cup At(15, "abs", {5, 48}) \cup At(15, "entry", {11})
InData  == At(42, "abs", {5, 11, 31, 48}) \cup At(50, "abs", {11})
InRdata == At(30, "abs", {11, 42}) \cup At(36, "abs", {5, 34, 60})

MCImages ==
  {[fields |-> {x, y}, prefixes |-> {6, 12}, tables |-> {}, replaceRepRet |-> b] :
     <<x, y>> \in (InS \X InF) \cup (InH \X InData) \cup (InRdata \X InData), b \in BOOLEAN}

\* Behind a dropped prefix an offset into a function leads astray.
MCCleanImages ==
  {i \in MCImages : i.replaceRepRet => \A x \in i.fields : x.target # 13}

ASSUME MCCleanProvisions ==
  Images \subseteq MCCleanImages => DataDescribed /\ PrefixesClear

-----------------------------------------------------------------------------
(* Images on which a documented claim fails *)

\* The entry of a jump table names a case behind a dropped prefix.
TableEntry ==
  {[fields |-> At(15, "entry", {14}), prefixes |-> {12}, tables |-> {15, 16},
    replaceRepRet |-> TRUE]}

\* A branch over a dropped prefix.
BranchOver ==
  {[fields |-> At(15, "branch", {11}), prefixes |-> {12}, tables |-> {}, replaceRepRet |-> TRUE]}

\* Nothing but a label in the code lies in front of an unnamed constant.
LabelModules ==
  << [records  |-> {Proc(5, 6, "f", TRUE, {}, {}), Label(8, "l")},
      contribs |-> {Contrib(5, 6, "text", FALSE)}] >>
Constant ==
  {[fields |-> At(9, "rip", {31}), prefixes |-> {}, tables |-> {}, replaceRepRet |-> FALSE]}
=============================================================================
