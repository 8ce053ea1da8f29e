----------------------------- MODULE MachoSplit -----------------------------
(***************************************************************************)
(* Splitting a Mach-O program into objects (delink-macho, macho-split).    *)
(*                                                                         *)
(* The functions come from DWARF, or else from the STABS records, or else  *)
(* from the symbol table.  With debug information a pool of workers writes *)
(* one object per unit, and a symtab.json that lists the functions of each *)
(* object by name; without it the symbol table makes up that list.  The    *)
(* user may edit the list and run the split again with --symtab: the names *)
(* are then looked up in the symbol table, while references are still      *)
(* resolved with what the debug information says.                          *)
(*                                                                         *)
(* An address is a byte; a branch field has Width bytes.                   *)
(***************************************************************************)
EXTENDS Integers, FiniteSets, SequencesExt

CONSTANTS
  Width,     \* REL32_FIELD_BYTES
  Text,      \* [lo, hi]: __TEXT,__text
  Data,      \* name of a __DATA section -> [lo, hi]
  NameOrder, \* every name, in the order of strings
  Stem,      \* a name -> what sanitize_filename or sanitize_file_stem makes of it
  MaxRuns,   \* bound on the runs of the split
  Images,    \* the programs the split may be given
  Edits(_)   \* what the user may make of a symtab.json

\* A program: its DWARF units and STABS records, its symbol table, and the
\* branches of its code.
\*   dwarf: [name, ranges, dies], a die being [tag, inline, low, high, name,
\*     linkage, external, origin]: low, high, name and linkage are sets of at
\*     most one value, origin is the place of another die or 0;
\*   stabs: [type, name, value];  nlist: [name, addr, external];
\*   stubs: [addr, size, first, each], the stub sections; indirect: the numbers,
\*     from 0, in the symbol table of the symbols of the stubs;
\*   branches: [at, target], a place with several targets standing for programs
\*     with one of them;
\*   code, libs: what the program really consists of, [name, addr, size, unit], and
\*     what its stubs stand for, address -> name.

ASSUME MachoAssumption ==
  /\ Width \in Nat /\ Text.lo \in Nat /\ Text.hi \in Nat
  /\ \A img \in Images :
       /\ img.stabs \in Seq([type : STRING, name : STRING, value : Nat])
       /\ img.nlist \in Seq([name : STRING, addr : Nat, external : BOOLEAN])
       /\ img.branches \subseteq [at : Nat, target : Nat]
       /\ img.code \subseteq [name : STRING, addr : Nat, size : Nat, unit : STRING]

VARIABLES
  image,
  pos,       \* STABS records read
  unit,      \* the STABS unit being read: {} or {[name, functions, variables]}
  open,      \* open_fun: {} or {[name, addr]}
  index,     \* the units so far, in order
  source,    \* "none" until the program is loaded, "dwarf", "stabs", "symtab"
  runs,      \* how often the split was started
  format,    \* "macho" or "elf"
  byUnit,    \* use_debug_info
  json,      \* symtab.json: file -> sequence of names
  disk,      \* file -> the functions of the object, by their places in it
  manifest,  \* file -> "waiting", "written", "empty" or "failed"
  shared     \* "waiting", "written" or "failed", of this run

scanVars == <<pos, unit, open>>
loadVars == <<scanVars, index, source>>
runVars == <<runs, format, byUnit, json, disk, manifest, shared>>
vars == <<image, loadVars, runVars>>

In(a, lo, size) == a >= lo /\ a < lo + size
InText(a) == a >= Text.lo /\ a < Text.hi
Rank(n) == CHOOSE k \in DOMAIN NameOrder : NameOrder[k] = n
Function(name, addr, size, external) ==
  [name |-> name, addr |-> addr, size |-> size, external |-> external]
Minus(a, b) == IF a > b THEN a - b ELSE 0   \* saturating_sub

-----------------------------------------------------------------------------
(* DWARF *)

\* The die and what it specifies or originates from, five hops at most.
Chain(dies, k) ==
  LET hop[h \in 0..5] ==
        IF h = 0 THEN k ELSE IF hop[h - 1] = 0 THEN 0 ELSE dies[hop[h - 1]].origin
  IN  [h \in 1..6 |-> hop[h - 1]]

\* The first of the chain that has a value, if any.
FirstOf(dies, chain, F(_)) ==
  LET has == {h \in DOMAIN chain : chain[h] # 0 /\ F(dies[chain[h]]) # {}}
  IN  IF has = {} THEN {} ELSE F(dies[chain[Min(has)]])

\* symbol_name: the linkage name, or else the source name.
SymbolName(linkage, name) ==
  IF linkage \cup name = {} THEN "<anon>"
  ELSE CHOOSE n \in (IF linkage # {} THEN linkage ELSE name) : TRUE

HighSize(die, low) ==
  IF die.high = {} THEN 0
  ELSE LET h == CHOOSE x \in die.high : TRUE
       IN  IF h.form = "addr" THEN Minus(h.value, low) ELSE h.value

DwarfFunctions(u) ==
  {LET die == u.dies[k]
       low == CHOOSE a \in die.low : TRUE
       chain == Chain(u.dies, k)
   IN  Function(SymbolName(FirstOf(u.dies, chain, LAMBDA d : d.linkage),
                           FirstOf(u.dies, chain, LAMBDA d : d.name)),
                low, HighSize(die, low),
                \E h \in DOMAIN chain : chain[h] # 0 /\ u.dies[chain[h]].external) :
     k \in {k \in DOMAIN u.dies : u.dies[k].tag = "subprogram" /\ u.dies[k].low # {}}}

DwarfVariables(u) ==
  {LET die == u.dies[k]
   IN  [name |-> SymbolName(die.linkage, die.name), addr |-> CHOOSE a \in die.low : TRUE,
        external |-> die.external] :
     k \in {k \in DOMAIN u.dies : u.dies[k].tag = "variable" /\ u.dies[k].low # {}}}

DwarfUnit(u) ==
  [name |-> u.name, functions |-> DwarfFunctions(u), variables |-> DwarfVariables(u)]

\* A unit with nothing in it gets no place.
DwarfIndex(units) ==
  LET kept == SelectSeq(units, LAMBDA u : DwarfFunctions(u) # {} \/ DwarfVariables(u) # {}
                                            \/ u.ranges)
  IN  [k \in DOMAIN kept |-> DwarfUnit(kept[k])]

-----------------------------------------------------------------------------
(* The symbol table *)

AddrsOf(symbols) == {s.addr : s \in symbols}

\* The distance to the next symbol; 0 for the last.
Distance(a, addrs) ==
  IF \E b \in addrs : b > a THEN Min({b \in addrs : b > a}) - a ELSE 0

\* build_cu_index_from_symtab: of the names of an address, the first in the table.
\* The batches of a hundred are never emitted and are left out.
SymtabIndex ==
  LET text == {k \in DOMAIN image.nlist : InText(image.nlist[k].addr)}
      addrs == {image.nlist[k].addr : k \in text}
  IN  [name |-> "batch", variables |-> {},
       functions |->
         {Function(image.nlist[Min({k \in text : image.nlist[k].addr = a})].name, a,
                   Distance(a, addrs), TRUE) : a \in addrs}]

\* parse_text_symbols: of the names of an address, the first in the alphabet.
TextSymbols ==
  LET text == {s \in Range(image.nlist) : InText(s.addr)}
      least(a) == CHOOSE s \in text : /\ s.addr = a
                                      /\ \A t \in text : t.addr = a => Rank(s.name) <= Rank(t.name)
  IN  {Function(least(a).name, a, Distance(a, AddrsOf(text)), least(a).external) :
         a \in AddrsOf(text)}

\* build_lookup: a later symbol takes the place of an earlier one of its name.
Lookup(name) ==
  {s \in TextSymbols : s.name = name /\ \A t \in TextSymbols : t.name = name => t.addr <= s.addr}

\* A listing in the order of addresses.
ByAddress(S) ==
  CHOOSE s \in [1..Cardinality(S) -> S] :
    IsInjective(s) /\ \A i, j \in DOMAIN s : i < j => s[i].addr <= s[j].addr
Names(functions) == [k \in DOMAIN functions |-> functions[k].name]

\* generate: one file for each name, as far as the file names differ.
Generate ==
  [file \in {<<Stem[s.name]>> : s \in TextSymbols} |->
     Names(ByAddress({s \in TextSymbols : <<Stem[s.name]>> = file}))]

\* generate_from_cu_index and split_all_macho: the file of a unit.
\* Mutant: the number of the unit is left out of the name of its file.
FileByStem(k) == <<Stem[index[k].name]>>

File(k) == <<k, Stem[index[k].name]>>

Sized(functions) == {f \in functions : f.size > 0}
SplitUnits == {k \in DOMAIN index : Sized(index[k].functions) # {}}

\* Units with one file: the last replaces the others.
UnitOf(file) == CHOOSE k \in SplitUnits : /\ File(k) = file
                                          /\ \A j \in SplitUnits : File(j) = file => j <= k
GenerateFromIndex ==
  [file \in {File(k) : k \in SplitUnits} |->
     Names(ByAddress(Sized(index[UnitOf(file)].functions)))]

-----------------------------------------------------------------------------
(* Resolving branches *)

\* parse_stubs_32: the stubs that have a symbol, local and absolute ones and those
\* past the end of the indirect table excepted.
Stubs ==
  LET slots == {t \in UNION {{[addr |-> s.addr + i * s.each, at |-> s.first + i + 1] :
                                i \in 0..(s.size \div s.each - 1)} :
                              s \in {t \in image.stubs : t.each > 0 /\ t.size > 0}} :
                  t.at \in DOMAIN image.indirect}
      symbol(t) == image.indirect[t.at] + 1
      named == {t \in slots : symbol(t) \in DOMAIN image.nlist /\ image.nlist[symbol(t)].name # ""}
  IN  [a \in {t.addr : t \in named} |->
         image.nlist[symbol(CHOOSE t \in named : t.addr = a)].name]

\* MachoGlobalSymbols::build: of the functions at an address, that of the first unit.
Functions ==
  {f \in UNION {Sized(index[k].functions) : k \in DOMAIN index} :
     \E k \in DOMAIN index :
        /\ f \in index[k].functions
        /\ \A j \in DOMAIN index : j < k =>
             f.addr \notin {g.addr : g \in Sized(index[j].functions)}}

Variables ==
  {v \in UNION {index[k].variables : k \in DOMAIN index} :
     /\ v.addr # 0
     /\ \E k \in DOMAIN index :
           /\ v \in index[k].variables
           /\ \A j \in DOMAIN index : j < k => v.addr \notin {w.addr : w \in index[j].variables}}

\* The function that starts last at or before an address.
Floor(va) ==
  {f \in Functions : f.addr <= va /\ \A g \in Functions : g.addr <= va => g.addr <= f.addr}

\* Mutant: the function before an address is taken to reach it.
ResolveToFloor(va) ==
  LET inside == Floor(va)
  IN  IF inside # {} THEN {[name |-> f.name, addend |-> va - f.addr] : f \in inside}
      ELSE IF va \in DOMAIN Stubs THEN {[name |-> Stubs[va], addend |-> 0]} ELSE {}

ResolveCode(va) ==
  LET inside == {f \in Floor(va) : In(va, f.addr, f.size)}
  IN  IF inside # {} THEN {[name |-> f.name, addend |-> va - f.addr] : f \in inside}
      ELSE IF va \in DOMAIN Stubs THEN {[name |-> Stubs[va], addend |-> 0]} ELSE {}

-----------------------------------------------------------------------------
(* Loading: load_macho, build_cu_index_from_stabs *)

None == <<>>   \* no file

Init ==
  /\ image \in Images
  /\ pos = 0 /\ unit = {} /\ open = {}
  /\ index = <<>> /\ source = "none"
  /\ runs = 0 /\ format = "macho" /\ byUnit = FALSE
  /\ json = None /\ disk = None /\ manifest = None /\ shared = "waiting"

LoadDwarf ==
  /\ source = "none" /\ DwarfIndex(image.dwarf) # <<>>
  /\ index' = DwarfIndex(image.dwarf) /\ source' = "dwarf"
  /\ UNCHANGED <<image, scanVars, runVars>>

\* The open function, closed by a record that says how long it is.
Closed(size) == {Function(o.name, o.addr, size, TRUE) : o \in open}

\* The units once the one being read ends: a function still open has no size, and
\* there is none at address 0.  A unit with nothing in it gets no place.
Units ==
  LET done == {[u EXCEPT !.functions = @ \cup {f \in Closed(0) : f.addr # 0}] : u \in unit}
  IN  index \o SetToSeq({u \in done : u.functions # {} \/ u.variables # {}})

\* The next record, with DWARF absent.
NextRecord(type) ==
  /\ source = "none" /\ DwarfIndex(image.dwarf) = <<>>
  /\ pos < Len(image.stabs) /\ image.stabs[pos + 1].type = type
  /\ pos' = pos + 1
  /\ UNCHANGED <<image, source, runVars>>
Record == image.stabs[pos + 1]

\* N_SO: the end of a unit, and the start of one if it has a name (the
\* directory record before it and the N_OSO record after it are left out).
\* Mutant: a function left open stays open in the next unit.
SourceKeepsOpen ==
  /\ NextRecord("so") /\ index' = Units
  /\ unit' = IF Record.name = "" THEN {}
             ELSE {[name |-> Record.name, functions |-> {}, variables |-> {}]}
  /\ UNCHANGED open

ReadSource ==
  /\ NextRecord("so") /\ index' = Units
  /\ unit' = IF Record.name = "" THEN {}
             ELSE {[name |-> Record.name, functions |-> {}, variables |-> {}]}
  /\ open' = {}

Add(functions) == unit' = {[u EXCEPT !.functions = @ \cup functions] : u \in unit}

\* N_FUN with a name: a function that is still open ends here.
ReadOpening ==
  /\ NextRecord("fun") /\ Record.name # ""
  /\ Add(UNION {Closed(Minus(Record.value, o.addr)) : o \in open})
  /\ open' = IF unit = {} THEN {} ELSE {[name |-> Record.name, addr |-> Record.value]}
  /\ UNCHANGED index

\* N_FUN without a name: the size of the open function, if there is one.
ReadClosing ==
  /\ NextRecord("fun") /\ Record.name = ""
  /\ Add(Closed(Record.value))
  /\ open' = {}
  /\ UNCHANGED index

\* N_STSYM and N_LCSYM.
ReadStatic ==
  /\ NextRecord("static")
  /\ unit' = {[u EXCEPT !.variables = @ \cup
                 (IF Record.value # 0 /\ Record.name # ""
                  THEN {[name |-> Record.name, addr |-> Record.value, external |-> FALSE]}
                  ELSE {})] : u \in unit}
  /\ UNCHANGED <<open, index>>

\* No unit came out of the debug information: the symbol table makes one.
EndOfStabs ==
  /\ source = "none" /\ DwarfIndex(image.dwarf) = <<>> /\ pos = Len(image.stabs)
  /\ unit' = {} /\ open' = {}
  /\ index' = IF Units # <<>> THEN Units
              ELSE IF SymtabIndex.functions = {} THEN <<>> ELSE <<SymtabIndex>>
  /\ source' = IF Units # <<>> THEN "stabs" ELSE "symtab"
  /\ UNCHANGED <<image, pos, runVars>>

-----------------------------------------------------------------------------
(* Splitting: cmd_macho_split, split_all_macho, split_by_symtab *)

Busy == "waiting" \in Range(manifest) \/ shared = "waiting"
Idle == source # "none" /\ (runs = 0 \/ ~Busy)

\* Without --symtab: by unit if there is debug information, and symtab.json
\* says what the objects hold.
Split ==
  /\ Idle /\ runs = 0
  /\ byUnit' = (source \in {"dwarf", "stabs"})
  /\ json' = IF byUnit' THEN GenerateFromIndex ELSE Generate
  /\ manifest' = [file \in (IF byUnit' THEN {File(k) : k \in SplitUnits} ELSE DOMAIN json') |->
                    "waiting"]
  /\ format' \in {"macho", "elf"}
  /\ runs' = 1 /\ shared' = "waiting"
  /\ UNCHANGED <<image, loadVars, disk>>

\* With --symtab, after the user has had a look at symtab.json.
SplitAgain ==
  /\ Idle /\ runs > 0 /\ runs < MaxRuns
  /\ byUnit' = FALSE
  /\ json' \in Edits(json)
  /\ manifest' = [file \in DOMAIN json' |-> "waiting"]
  /\ runs' = runs + 1 /\ shared' = "waiting"
  /\ UNCHANGED <<image, loadVars, format, disk>>

\* The functions an object is asked to hold, each in a place: names the table does
\* not have are passed over, functions have the extent the table gives them.
Resolved(names) ==
  [k \in {k \in DOMAIN names : Lookup(names[k]) # {}} |-> CHOOSE s \in Lookup(names[k]) : TRUE]

Asked(file) ==
  IF byUnit THEN ByAddress(index[UnitOf(file)].functions) ELSE Resolved(json[file])

\* The places of functions with an extent, and the functions that end in the text.
Live(functions) == {k \in DOMAIN functions : functions[k].size > 0 /\ InText(functions[k].addr)}
Emitted(functions) ==
  [k \in {k \in Live(functions) : functions[k].addr + functions[k].size <= Text.hi} |->
     functions[k]]

\* An object with no function is refused and what was in its place stays there.
Emit(file) ==
  /\ runs > 0 /\ file \in DOMAIN manifest /\ manifest[file] = "waiting"
  /\ IF Live(Asked(file)) = {}
     THEN /\ manifest' = [manifest EXCEPT ![file] = "empty"]
          /\ UNCHANGED disk
     ELSE /\ manifest' = [manifest EXCEPT ![file] = "written"]
          /\ disk' = [g \in DOMAIN disk \cup {file} |->
                       IF g = file THEN Emitted(Asked(file)) ELSE disk[g]]
  /\ UNCHANGED <<image, loadVars, runs, format, byUnit, json, shared>>

EmitMachoCu(file) == format = "macho" /\ Emit(file)
EmitElfCu(file) == format = "elf" /\ Emit(file)

\* An object that cannot be written.
EmitFails(file) ==
  /\ runs > 0 /\ file \in DOMAIN manifest /\ manifest[file] = "waiting"
  /\ manifest' = [manifest EXCEPT ![file] = "failed"]
  /\ UNCHANGED <<image, loadVars, runs, format, byUnit, json, disk, shared>>

EmitShared ==
  /\ runs > 0 /\ "waiting" \notin Range(manifest) /\ shared = "waiting"
  /\ shared' = "written"
  /\ UNCHANGED <<image, loadVars, runs, format, byUnit, json, disk, manifest>>

\* Its error ends the run before the manifest and the summary are written; the
\* objects and symtab.json stay.
SharedFails ==
  /\ runs > 0 /\ "waiting" \notin Range(manifest) /\ shared = "waiting"
  /\ shared' = "failed"
  /\ UNCHANGED <<image, loadVars, runs, format, byUnit, json, disk, manifest>>

EmitMachoShared == format = "macho" /\ EmitShared
EmitElfShared == format = "elf" /\ EmitShared

Done == runs = MaxRuns /\ ~Busy /\ UNCHANGED vars

Next ==
  \/ LoadDwarf \/ ReadSource \/ ReadOpening \/ ReadClosing \/ ReadStatic \/ EndOfStabs
  \/ Split \/ SplitAgain
  \/ \E file \in DOMAIN manifest : EmitMachoCu(file) \/ EmitElfCu(file) \/ EmitFails(file)
  \/ EmitMachoShared \/ EmitElfShared \/ SharedFails \/ Done

Spec == Init /\ [][Next]_vars

-----------------------------------------------------------------------------
(* What the linker makes of the objects the manifest lists *)

Written == {file \in DOMAIN manifest : manifest[file] = "written"}

\* Definitions: [name, external, addr, size].  A variable inside a function is a
\* label of it, one in a data section a symbol of the shared object.
Labels(f) ==
  {[name |-> v.name, external |-> v.external, addr |-> v.addr, size |-> 0] :
     v \in {w \in Variables : In(w.addr, f.addr + 1, f.size - 1)}}
ObjectDefs(file) ==
  Range(disk[file]) \cup UNION {Labels(f) : f \in Range(disk[file])}

StartName(section) ==
  IF format = "elf"
  THEN CASE section = "__data" -> "__delink_data_start"
         [] section = "__const" -> "__delink_rodata_start"
         [] section = "__bss" -> "__delink_bss_start"
  ELSE CASE section = "__data" -> "__delink_macho_data_start"
         [] section = "__const" -> "__delink_macho_const_start"
         [] section = "__bss" -> "__delink_macho_bss_start"

SharedDefs ==
  {[name |-> StartName(s), external |-> TRUE, addr |-> Data[s].lo, size |-> 0] : s \in DOMAIN Data}
    \cup {[name |-> v.name, external |-> v.external, addr |-> v.addr, size |-> 0] :
            v \in {w \in Variables :
                    \E s \in DOMAIN Data : w.addr >= Data[s].lo /\ w.addr < Data[s].hi}}

\* What a name means to a caller in an object: a function of the object emitted
\* no later than the caller, or else whatever has that name outside.
Local(file, caller, name) ==
  {d \in ObjectDefs(file) : d.name = name /\ d.addr <= caller.addr}
External(name) ==
  {d \in (UNION {ObjectDefs(file) : file \in Written})
         \cup (IF shared = "written" THEN SharedDefs ELSE {}) : d.name = name /\ d.external}
Bound(file, caller, name) ==
  IF Local(file, caller, name) # {} THEN Local(file, caller, name) ELSE External(name)

\* The branches of a function that are relocated: those that leave it, if the
\* target has a name.
Branches(caller) ==
  {b \in image.branches : /\ b.at >= caller.addr /\ b.at + Width <= caller.addr + caller.size
                          /\ ~In(b.target, caller.addr, caller.size)}

\* R_386_PC32 counts from the field, GENERIC_RELOC_VANILLA from behind it.
Stored(addend) == IF format = "elf" THEN addend - Width ELSE addend
Arrives(d, stored) == d.addr + stored + (IF format = "elf" THEN Width ELSE 0)

-----------------------------------------------------------------------------
(* Provisions: what compilers and linkers see to *)

\* An extent of a function that covers it, in the text, and reaches into no other.
Whole(img, c, size) ==
  /\ c.size <= size /\ Text.lo <= c.addr /\ c.addr + size <= Text.hi
  /\ \A d \in img.code : ~In(d.addr, c.addr + 1, size - 1)

Opening(r) == r.type = "fun" /\ r.name # ""
Ending(r) == r.type = "fun" /\ r.name = ""

\* The record of the source file a record belongs to.
SourceOf(stabs, i) ==
  {j \in 1..(i - 1) : stabs[j].type = "so" /\ \A k \in (j + 1)..(i - 1) : stabs[k].type # "so"}

\* The record behind an opening one, in its unit, that tells an extent.
NextOf(stabs, i) ==
  {k \in (i + 1)..Len(stabs) :
     stabs[k].type = "fun" /\ \A j \in (i + 1)..(k - 1) : stabs[j].type \notin {"so", "fun"}}

Extent(stabs, i, k) ==
  IF stabs[k].name = "" THEN stabs[k].value ELSE Minus(stabs[k].value, stabs[i].value)

\* An opening record is that of a function of the source file it is under, and
\* what comes next, if it tells an extent, is its end or the start of another.
RecordsTrue(img) ==
  \A i \in DOMAIN img.stabs : Opening(img.stabs[i]) =>
    \E j \in SourceOf(img.stabs, i), c \in img.code :
      /\ img.stabs[j].name # "" /\ c.unit = img.stabs[j].name
      /\ c.name = img.stabs[i].name /\ c.addr = img.stabs[i].value
      /\ \A k \in NextOf(img.stabs, i) :
           Extent(img.stabs, i, k) > 0 => Whole(img, c, Extent(img.stabs, i, k))

\* A function has one opening record.
RecordsOnce(img) ==
  \A i, j \in DOMAIN img.stabs :
    Opening(img.stabs[i]) /\ Opening(img.stabs[j]) /\ img.stabs[i].value = img.stabs[j].value
      => i = j

\* Units that have a function once, and with an extent that is whole.
Describes(img, units) ==
  /\ \A k \in DOMAIN units :
       /\ k \in Nat /\ IsFiniteSet(units[k].functions)
       /\ units[k].functions \subseteq
            [name : STRING, addr : Nat, size : Nat, external : BOOLEAN]
       /\ \A f \in Sized(units[k].functions) :
            \A c \in img.code : c.addr = f.addr => Whole(img, c, f.size)
  /\ \A k, l \in DOMAIN units :
       \A f \in Sized(units[k].functions), g \in Sized(units[l].functions) :
         f.addr = g.addr => k = l /\ f = g

\* The functions of the code are in the symbol table, and nothing inside them is.
TableTrue(img) ==
  \A c \in img.code :
    /\ InText(c.addr) /\ \E s \in Range(img.nlist) : s.addr = c.addr
    /\ \A s \in Range(img.nlist) : ~In(s.addr, c.addr + 1, c.size - 1)

\* What the debug information and the symbol table say of the program is so, and
\* functions were not folded.
Truthful(img) ==
  /\ RecordsTrue(img) /\ RecordsOnce(img) /\ Describes(img, DwarfIndex(img.dwarf)) /\ TableTrue(img)
  /\ \A c, d \in img.code : c.addr = d.addr => c = d

\* The indirect symbol table tells what the stubs stand for, and they are not in
\* the text.
StubsTrue(img) ==
  /\ \A s \in img.stubs : s.each > 0 =>
       \A i \in 0..(s.size \div s.each - 1) :
         LET at == s.first + i + 1
             symbol == img.indirect[at] + 1
             stub == s.addr + i * s.each
         IN  at \in DOMAIN img.indirect /\ symbol \in DOMAIN img.nlist
               /\ img.nlist[symbol].name # "" =>
                 stub \in DOMAIN img.libs /\ img.libs[stub] = img.nlist[symbol].name
  /\ \A a \in DOMAIN img.libs : ~InText(a)

\* A name of a function is that of one address, in the index and in the symbol table,
\* which has no symbol within an extent of the index; it is not the name of a
\* variable or of a section.  None of these is the name of a library function.
DataNames == {v.name : v \in Variables} \cup {StartName(s) : s \in DOMAIN Data}
NamesTell ==
  /\ \A f \in Functions :
       /\ \E c \in image.code : c.addr = f.addr
       /\ \A g \in Functions : g.name = f.name => g.addr = f.addr
       /\ \A s \in Lookup(f.name) : s.addr = f.addr /\ (s.size > 0 => s.size >= f.size)
       /\ f.name \notin DataNames
  /\ \A a \in DOMAIN image.libs :
       /\ \A f \in Functions \cup TextSymbols : f.name # image.libs[a]
       /\ image.libs[a] \notin DataNames

\* The user moves names about and keeps each in one place.
ListedOnce(listing, name) ==
  \E file \in DOMAIN listing : \E k \in DOMAIN listing[file] :
    /\ listing[file][k] = name
    /\ \A other \in DOMAIN listing : \A l \in DOMAIN listing[other] :
         listing[other][l] = name => other = file /\ l = k

CarefulEdit ==
  SplitAgain =>
    \A names \in Range(json) : \A name \in Range(names) :
      ListedOnce(json, name) => ListedOnce(json', name)

-----------------------------------------------------------------------------
(* Properties *)

\* Records of functions may come without their ends, and units without theirs.
\* Nevertheless a unit of the STABS index has functions of its own source file
\* only, an extent covers its function and reaches into no other, and a function
\* whose record of its end is there has exactly that extent (the record machine of
\* stabs.rs).
UnitsOwnFunctions ==
  source = "stabs" =>
    /\ \A k \in DOMAIN index : \A f \in Sized(index[k].functions) :
         \E c \in image.code :
            /\ c.name = f.name /\ c.addr = f.addr /\ c.unit = index[k].name
            /\ Whole(image, c, f.size)
    /\ \A i \in 1..(Len(image.stabs) - 1) :
         Opening(image.stabs[i]) /\ Ending(image.stabs[i + 1]) =>
           \E k \in DOMAIN index : \E f \in index[k].functions :
             f.addr = image.stabs[i].value /\ f.size = image.stabs[i + 1].value

\* A run is over, be it with an error of the shared object.
Finished == runs > 0 /\ ~Busy

\* The symbol table knows every function by the name and at the address the index
\* has, and the next symbol is not within it.
TableServes ==
  \A f \in Functions : \E s \in Lookup(f.name) : s.addr = f.addr /\ s.size >= f.size

Places(addr) ==
  UNION {{<<file, k>> : k \in {k \in DOMAIN disk[file] : disk[file][k].addr = addr}} :
           file \in Written}

Covered ==
  \A c \in image.code : (\E f \in Functions : f.addr = c.addr) =>
    /\ Cardinality(Places(c.addr)) = 1
    /\ \A p \in Places(c.addr) : Whole(image, c, disk[p[1]][p[2]].size)

\* Whether the units or an edited symtab.json say what goes where: if every object
\* could be written, each function of the index is in exactly one of them, whole and
\* without a part of another.  With symtab.json this needs a symbol table that
\* serves (split_all_macho, split_by_symtab).
EveryFunctionOnce ==
  Finished /\ "failed" \notin Range(manifest) /\ (byUnit \/ TableServes) => Covered

\* What the comment at main.rs:983 promises, "so the user can inspect (and re-run
\* with --symtab to customise) the grouping": the objects hold the functions then too.
RerunKeepsFunctions ==
  Finished /\ "failed" \notin Range(manifest) => Covered

\* The default symtab.json "puts each function in its own file" (symtab_json.rs:2).
NothingLost ==
  Finished /\ "failed" \notin Range(manifest) /\ source = "symtab" =>
    \A c \in image.code : Places(c.addr) # {}

\* A branch that is relocated arrives at the byte it arrived at, or at the stub's
\* library function, or at nothing; and not at nothing if the function is known
\* outside and every object was written.  Objects name functions after the symbol
\* table or the debug information, references after the latter (recover,
\* resolve_symbol, split_by_symtab).
ReferencesReach ==
  Finished =>
    \A file \in Written : \A caller \in Range(disk[file]) : \A b \in Branches(caller) :
      \A ans \in ResolveCode(b.target) :
        LET bound == Bound(file, caller, ans.name)
        IN  /\ \A d \in bound : /\ Arrives(d, Stored(ans.addend)) = b.target
                               /\ In(b.target, d.addr, d.size)
            /\ b.target \in DOMAIN image.libs => ans.name = image.libs[b.target]
            /\ bound = {} /\ b.target \notin DOMAIN image.libs
                 => \/ "failed" \in Range(manifest)
                    \/ ~byUnit /\ ~TableServes
                    \/ \E g \in Written : \E d \in Range(disk[g]) :
                         In(b.target, d.addr, d.size) /\ ~d.external

\* The same for every function: statics are called where they are defined.
NamesDefined ==
  Finished /\ "failed" \notin Range(manifest) =>
    \A file \in Written : \A caller \in Range(disk[file]) : \A b \in Branches(caller) :
      \A ans \in ResolveCode(b.target) :
        b.target \in DOMAIN image.libs \/ Bound(file, caller, ans.name) # {}
=============================================================================
