# delink: a TLA+ verification project

`delink` takes a linked binary apart into relocatable objects, one per
translation unit or per group a user chooses, so that linking them again gives
the program back. This directory holds TLA+ models of its core logic, the TLC
configurations that check them on small instances, and TLAPS proofs of the
results that hold for every instance. Paths below are relative to
`src/crates/`.

    tlc -workers 2 -config MCIdaSplit.cfg MCIdaSplit     # any .cfg with its MC module
    tlapm TextIndexProofs.tla                            # any *Proofs module

## 1. Inventory

| Component | Source | State it keeps | Operations | Status |
|---|---|---|---|---|
| Text index | `delink-core/src/symtab.rs` | list of functions being sorted, sized, folded; cursor of the gap scan | `build_text_functions`, `find_orphan_regions`; attribution to files, data objects | index modelled and proved; attribution not |
| Symbol resolver | `delink-core/src/symbols.rs` | maps address → definition | `disambiguate_names`, `resolve`, `resolve_into`, `resolve_data`, `at` | modelled, proved |
| ELF split | `delink-cli/src/main.rs` (`cmd_split`), `delink-emit/src/lib.rs` | output directory, `objects.json`, outcomes of the worker pool | choose source, default units, regroup, emit units in parallel, `emit_shared_data`, summary | modelled; proved but for `auto` |
| AArch64 recovery | `delink-aarch64/src/recover.rs` | register tracker, relocations | one pass over the instructions | modelled, proved |
| ARM recovery | `delink-arm/src/recover.rs` | literal pools, tracker | search for pools in rounds, second pass, addends written back | modelled |
| x86-64 recovery | `delink-x86_64/src/recover.rs` | registers that hold the image base, tables found | one pass, tables, thread-local offsets | modelled, proved |
| x86 recovery | `delink-x86/src/recover.rs` | – | branches to relocations | branches, inside the IDA model |
| IDA splitter | `delink-ida/src/*.rs`, `cmd_ida_split` | link names, relocations, groups, output directory | normalise names, combine relocations, check groupings, emit objects and `__shared_data` | modelled except table discovery; proved in part |
| PE split | `delink-pe/src/*.rs`, `cmd_pe_split` | publics, names by address, units, stripped prefixes | two passes over the PDB, resolver, emission of units and shared data | modelled in part, proved |
| Mach-O split | `delink-macho/src/*.rs`, `cmd_macho_split` | STABS machine, units, `symtab.json` | three sources of units, emission, rerun with an edited list | modelled; proved in part |
| DWARF and unwind relocations | `delink-emit/src/dwarf_relocs.rs`, `delink-emit/src/lib.rs` | cursor of a walk, relocations | walks of `.debug_info`, `.debug_line`, `.debug_ranges`, `.debug_loc`, `.eh_frame`, `.ARM.exidx` | walks modelled, proved; encodings not |
| DWARF units, ELF reader, CLI reports | `delink-core/src/{cu,binary,inspect}.rs` | – | parsing and printing | inputs of the models |
| IDA exporter | `delink-ida/ida_export.py` | – | runs inside IDA | input of `IdaSymbols` |

How they interact. A reader (symbol table, DWARF, PDB, STABS or an IDA
export) yields definitions. The resolver turns an address into *symbol plus
addend*. Recovery walks the code of a function and asks the resolver for every
address it finds. The driver groups functions into units and a rayon pool emits
the units in parallel; each worker builds an object in memory, writes one file,
and returns an outcome. One shared object holds the data nobody took. Nothing
is shared between workers but the output directory. Splits of ELF, Mach-O and
IDA images can be run again over one directory with a list the user has edited.

What is hard here:

* **naming** – a reference and the definition it means are emitted by different
  workers from different tables and meet again only in the linker;
* **boundaries** – symbols that alias, nest or overlap, functions with their
  pools or tables behind them, ranges that cut functions, variables or pointers;
* **stale knowledge** – the tracker of a linear scan against real control flow;
* **order** – records of a PDB or of STABS that come in any order, or unpaired;
* **several runs** over one directory, partial failure of one of many workers,
  rejected groupings, objects that earlier runs left.

The full list, with the line where each bites, is under `hazards` in
`PROJECT.json`. A correct splitter (i) puts every byte into exactly one object,
(ii) makes every reference reach, after linking, what it meant, (iii) relocates
no byte that is not an address, (iv) reports what it did.

## 2. Modules

| Module | Models | Extends |
|---|---|---|
| `TextCover` | abstract: a cover of the live bytes of `.text`, published once | |
| `TextIndex` | the four loops of the text index, a step per iteration; implements `TextCover` | |
| `SymbolNames` | names, `disambiguate_names`, the four lookups | |
| `ElfSplit` | `delink split` over several runs, the linker behind it | `SymbolNames` |
| `Aarch64Recover`, `ArmRecover`, `X64Recover` | the scan next to what the machine really does, and the relinked function | |
| `IdaSymbols` | the export, its relocations, link names and resolver | |
| `IdaGroups` | check of groupings, contents of every object | `IdaSymbols` |
| `IdaSplit` | `delink ida-split` over several runs, the linker behind it | `IdaGroups` |
| `PeIndex` | the two passes over a PDB, record by record; the resolver | |
| `PeSplit` | the objects of `delink pe-split`, its workers, the linker behind it | `PeIndex` |
| `MachoSplit` | `delink macho-split` from the debug records to the second run, and the linker | |
| `DwarfRelocs` | the walks of debug and unwind sections, and what a reader finds in them after the link | |
| `MC*` | instances for TLC | the module they check |
| `TextIndexProofs`, `ElfSplitProofs`, `IdaSplitProofs`, `PeSplitProofs`, `MachoSplitProofs`, `Aarch64RecoverProofs`, `X64RecoverProofs`, `DwarfRelocsProofs` | theorems | the module they are about |

**Text index.** In `TextIndex`, `pc` names the loop the code is in,
`todo` is what its iterator has not reached, `fns`, `kept`, `end`, `cursor`
and `orphans` are the code's variables; the names of symbols are abstracted to
their rank in the order the sort uses. The contents of `.text` are the
addresses at which a padding word starts.

**ELF.** In `ElfSplit` a run is `Start`, then `Save` or `Regroup` (or
`NothingToSplit`, `SaveFails`), then for each unit `Prepare` and `Write` or
`WriteFails` in any interleaving, then `EmitShared` or `SharedFails`, then
`Report`; `Edit` is the user between two runs. `disk` maps a path to the symbols
of the object last written there: a file that was truncated by a failed write is
`<<>>`. A unit is a sequence of definitions; which functions go where is said by
sets of *places* (a file and a position in it), and the order of a default unit
by the one thing the code sorts for: its addresses do not descend (`ByAddress`). `objects.json` is `grouping`. Names are a stem and the numbers appended
to it with dots, which is all that disambiguation does to them.

**Recovery.** The three scans are modelled on one plan: the variables of the
code next to history variables that say what the machine really does.

* In `Aarch64Recover` every instruction is an action by the branch of `recover`
  it takes (`Adrp`, `Add`, `Memory`, `Call`, `Leave`, `Generic`). The function is
  chosen while it is scanned. `holds`, `jumps`, `uses`, `dropped` and `called`
  are not the program's: they record which `adrp` each register really holds when
  control gets there, through branches to labels (`Label`), and so what the scan
  should have found.
* `ArmRecover` counts words, since code and pools share them. Its phases are the
  code's: the first pass finds the words that are loaded as literals, in rounds,
  because what lies behind a pool may only decode once the pool is known; the
  second pass walks the code in between with its `tracker`; then `Run` executes
  the function along any path, original and relinked at once, so that a register
  holds a pair of values and a wrong relocation shows as a wrong address.
* `X64Recover` chooses the code one instruction at a time, with the jump tables
  and what their bytes decode as behind it. Beside the scan's own `bases` it
  keeps which registers really hold the image base and which fields of the
  function designate an address.

**IDA.** In `IdaSplit` a run is `Start` (the grouping is written), `Reject`,
`ShareFails` or `Share` (the shared object comes first, and an empty one is
removed), `Emit` or `EmitFails` for each group in any order, `Report` or
`ReportFails`. Objects are sets of sections, symbols and relocations, all by
original address, computed by `ObjectOf` and `SharedObject` in `IdaGroups`.
`Runs` stands for `subtract_ranges`.

**PE.** `PeIndex` reads the records of the global stream (`phase = "publics"`) and
then of one module after another in any order, a record a step: `primary`
and `aliases` are the name an address goes by and the bag of its other link
names; `fresh` and `scope` are the procedure that waits for its frame record and the name that
scopes labels. `PeSplit` starts when the index is complete: workers write units in
any order, the shared object comes last. What an object contains is a function
of the index (`Stripped`, `Remap`, `CodeRelocs`, `DataRelocs`), so the
variables only say which objects are on disk; the linker places the fragments
and looks at what each relocated field then refers to.

**Mach-O.** `MachoSplit` loads a program by DWARF, if that yields no unit by
STABS, and if those do not either by the symbol table: the STABS machine (`unit`,
`open`) takes a record a step. A run then writes `symtab.json`, the objects in
any order, each of which may fail, and the shared object; the user may merge or
take apart the lists of `symtab.json` and run again with `--symtab`, which looks
names up in the symbol table while references still go through the debug
information. An object is its functions by the places they were asked for in; the
order of a unit is that of addresses (`ByAddress`).

**DWARF.** In `DwarfRelocs` the sections of a program are sequences of entries
(an entry of `.debug_info` is its attributes; a row of a line table, a pair of a
list, a record of `.eh_frame` or `.ARM.exidx`), and the walk takes an entry a
step, section after section, as `walk` and `cursor` say. Afterwards `Link` puts
every function wherever a linker may. `Extents` and `Found` are the reader: which
bytes each described extent covers, and which unwind record each instruction
finds, before and after.

The operator `Finished` or `Done` of a module lets a completed behaviour
stutter, so deadlock is checked everywhere.

## 3. Runs

| Run | Question | Instance |
|---|---|---|
| `text_index` | are the regions of `.text` a cover, at every step and for every table, and does the index refine `TextCover`? | every table of up to three symbols out of five addresses and four sizes, four padding sites |
| `elf_split` | do references bind after one split, by symbol table, DWARF or auto; is every function emitted once; does auto keep coverage? | three functions of two units, a variable, an import; statics and dotted compiler names shared or not; DWARF of all, part or nothing |
| `elf_regroup` | the same after the grouping was edited, round trip of the unedited file, truth of the summary, end of every run | two runs; moves and renames; every interleaving of workers, each may fail |
| `aarch64_recover` | are the pairs the scan finds real, does it find all that come straight down, do they relink; do branches go where they went, or are counted? | every function of up to six instructions out of eighteen over three registers |
| `arm_recover` | does every literal reach what it meant on every path after relinking, is nothing relocated twice or missed, do branches arrive? | functions of four instructions out of some twenty with pools of two literals, and longer ones with three pools |
| `x64_recover` | does no relocation land on bytes that are no address, and does every address reach what it meant? | every function of up to five instructions out of sixteen over three registers, with tables behind it |
| `pe_split` | do the names objects link by survive the passes, are the inlined functions those declared so, do all references of units and shared data reach? | up to three of four publics, the records of two modules in any order, 170 images, with and without `--replace-rep-ret` |
| `macho_split` | does every function end up in the unit its records say, once, also after a rerun, and do references reach? | all 128 ways to drop records of a STABS table, debug information or none, both formats, failures, a second run |
| `ida_split` | do the objects of any grouping take the image apart, and does every pointer, call and switch case land? | nine images (imports, duplicate names, an operand that is no address, ELF), some hundreds of groupings |
| `ida_regroup` | a rejected grouping touches no object, no old `__shared_data` survives, runs end | seven groupings, two runs, every failure |
| `dwarf_relocs` | does every extent cover the bytes it covered, and does unwinding find its records, wherever the linker puts the functions? | two units of three functions, in one section or a section each; combinations of blocks, rows, lists and records; every placement, on addresses other functions had |

Each property of each run has a mutant of the code's definition in `PROJECT.json`
(a dropped guard, a missing reset, a wrong order) under which TLC finds it
violated.

**Why the bounds are enough.** Three symbols are the least in which a nested and
a partially overlapping symbol meet a neighbour; the addresses include the
start, the end, and an unaligned one. Two units with two runs are the least in
which a function can move, a name be shared, and a worker overwrite another's
file. Six instructions of AArch64 hold two pairs with a branch or call between
them; five of x86-64 an image base, its use, an overwriting and another use;
four of ARM a load, an overwriting or a branch, and a use, and the three pools
take as many rounds to find. Two groups and the shared object are the least in
which a range, its neighbour and the rest differ; the image has each thing a
boundary can cut (function, table, gap, sized variable, pointer, zero tail). Two
modules of a PDB let the same procedure, scope or static name appear in the
other one first. Every way to drop STABS records contains every way in which
they may be unpaired. Three functions, two of them of one unit and adjacent,
are the least in which an address is the end of one function and the start of
another and a third can come to lie between them.

**Fairness.** Only the two drivers with liveness assume any: `WF_vars(Run)` in
`ElfSplit` and `IdaSplit`, a run that was started goes on as long as one of its
workers can, which is what a rayon pool joined by its caller gives. Nothing
forces the user to start a run, so liveness (`RunsEnd`) is *a run that was
started ends*.

### What the passing runs take for granted

Each of these is a named set or predicate of a module, and where the code does
not enforce it there is a counterexample without it (section 4). Those a theorem
needs too are operators of the component's module, under *Provisions*, and
`ASSUME MCProvisions` of `MCElfSplit`, `MCIdaSplit`, `MCMachoSplit`, `MCPeSplit`,
`MCX64Recover` and `MCDwarfRelocs` has TLC evaluate that the instances have them: the theorems are about the images the
runs explore, among all others. (`StaticsNear`, `StaticsTold` and `NamesTell` are
about the index a run builds; they hold of every state of the runs.)

* ELF: no static carries the name of an import or an exported symbol
  (`ImportsApart`, `ExportsUnshared`), no name is that of a renamed static or of
  a section start (`NamesApart`), code is in `.text` and data in its sections
  (`Placed`, `Contained`, `DataApart`); edits keep output paths apart and list a
  name once (`CarefulEdit`); DWARF names every function it describes and
  describes none the linker dropped; in `elf_regroup` functions have names of
  their own (`FunctionsNamed`).
* AArch64: compiled code (`WellFormed`): where a register is used to form an
  address its contents do not depend on the path, and the address is that of
  data. One `adrp` serves several addresses only inside one aligned block, data
  keeps its alignment and slots are read whole (`Compiled`). Byte and doubleword
  accesses only (`WidthsTold`); no `bic` or `bfi` (`WritesReported`). Jumps stay in
  the function or go to the start of one (`JumpsOfStarts`), which those to a folded
  entry point, and those between a function and its cold part, do not; calls may
  go anywhere. Every word decodes: `disasm_all` stops at the first that does not,
  and what is behind it is neither relocated nor counted. Base registers that are
  written back, and accesses whose displacement is not scaled (`ldur`) or that
  move a pair, are not among the address-forming instructions.
* ARM: a literal is used on the path that loads it (`WellFormed`); constants
  do not decode as loads or as single-precision instructions.
* x86-64: code of a compiler (`Compiled`): no constant equals the offset of
  thread-local data, tables are apart and read by one operand (`Admitted = {}`,
  `TablesApart`); symbols do not overlap (`SymbolsApart`), what is referred to has
  one (`TargetsNamed`), and a field lies in its instruction (`Encoded`).
* IDA: the database keeps the image's base, segments are apart, functions are
  disjoint, backed by the binary and in one segment with their tables (`Orderly`;
  the gaps of code skip a table elsewhere, which no object emits); no function is
  listed twice, and a range that takes the table of a function takes the function
  (`Careful`); no range cuts a variable (`KeepsVariables`) or a word (`WordsWhole`).
  Names belong to one address each, and every function has its own (`NamesTrue`);
  a field serves one branch, word or table entry (`FieldsApart`); branches are long, and they and the
  cases of switches go to code that is named or in a function (`TargetsNamed`);
  pointers go to what is named, in a named thing or in a range given away
  (`PointersNamed`), and named data is in the first segment of its class, all of it
  (`VariablesWhole`). Ranges of a group form a set, so two identical ranges in one
  list are not expressed.
* PE: a link name is that of one address, a procedure that has one is not
  static in its module, procedures of a module do not overlap
  (`LinkNamesApart`, `NamedAreGlobal`, `ProceduresApart`); two exported symbols
  have two names, none that of a section's start (`GlobalsApart`); an address belongs
  to one section, module and procedure (`AddressesOnce`), code is in `.text` and
  a contribution in the section it names (`SectionsKept`); exported data lie in
  one of the three data sections, in a contribution of a unit with code, or
  inside a function, and of `.idata` only import slots are used (`DataHoused`);
  imports, literals and the image base have names of their own (`LibrariesApart`);
  a public symbol in a procedure is at its start, and data in one ends with it
  (`ProceduresWhole`). What a unit refers to is public or defined earlier in it
  (`StaticsNear`), and the name of a static is that of nothing else there
  (`StaticsTold`; both are predicates on the state). Where unnamed data follows code,
  something the PDB describes is in between (`DataDescribed`, without which
  `PeLabel.cfg`), and no field is on a dropped prefix or refers across one by an
  offset (`PrefixesClear`, without which `PeTable.cfg`).
* Mach-O: the STABS records that are there, DWARF and the symbol table are true, and
  functions are not folded (`Truthful`); `symtab.json` is edited so that the symbol table can serve it
  (`TableServes`); the name of a function is that of one address and of nothing else
  (`NamesTell`), stubs are where the indirect table says (`StubsTrue`); references of
  statics are excepted.
* DWARF: an unwind record is of a part of one function, and an entry of `.ARM.exidx`
  that begins inside one not where a variable is, which would be taken instead
  (`Described`); what `Told` says of debug information:
  the end of a function is given as a length and no attribute names a place only
  callers know (`EntryTold`); a slice is readable or tells nothing (`UnitTold`);
  what is described lies in one function or in functions of one section without
  padding between them (`Spans`), and what described dropped code at 0 where no
  function gets (`Unused`); between two rows of a line table the address is set
  anew only inside such a part (`LineTold`); a pair of addresses lies in one
  function and does not end where another begins, its base is 0, and a distance is
  no function's address (`PairTold`).

## 4. Where the code falls short

Run `macho_last` expects a violation, and `findings` in `PROJECT.json` quotes
the line it contradicts: the last text symbol of a Mach-O file has no size, so an
unedited `symtab.json` run a second time loses the function.

Further counterexamples are configurations to run by hand, with the MC module of
their component; each violates a property its `.cfg` names, and its first line
says which other values of a constant fail too.

| Configuration | What happens |
|---|---|
| `ElfShadow` | an exported function is renamed away from its dynamic symbol; a static made global captures an import; a second `f` is renamed to `f.20`, which another static really has |
| `ElfAnon` | a nameless function is defined and referred to under two names; a pointer in data does not reach a DWARF static; dropped functions count as coverage |
| `ElfBareKey` | keys `a` and `a.o`: two workers write one file, both count as written; the unedited `objects.json` of two statics of one name loses one of them |
| `Aarch64Stale`, `Aarch64Word` | `bic` begins with `b`, so its destination is not forgotten; a 32-bit access gets a 64-bit relocation; a jump to a folded entry point, or back out of a cold part, gets none and is not counted |
| `ArmFloat` | a single-precision constant is decoded as code and hides the call behind it; a literal outlives a jump in the tracker; a constant decodes as a load and takes an instruction for its literal |
| `X64Shapes` | a pointer in a register still marked as the image base gets a relocation over an opcode; a table read twice, or two tables side by side, are relocated twice; the table of an index table is not relocated; an operand that is overwritten by its own instruction is missed |
| `PeLabel`, `PeTable` | a label without a size takes in the unnamed constant of another section; branches and table entries across a dropped `rep` are not adjusted |
| `MachoStatic` | a static, or an alias, is referred to by a name no object exports; a file whose units have no functions loses those of the symbol table |
| `MachoLast` | the violation of `macho_last`; a second run also loses every function whose DWARF name lacks the underscore of its symbol |
| `IdaTwice`, `IdaRebased` | a function listed in two groups, or the table behind a function cut off from it, is in two objects; with a rebased database the tails of sections are dropped |
| `IdaHalves`, `IdaShort` | a cut variable's second half is referred to through the first, a second data segment is never named; a short jump out of a function is neither relocated nor counted, no order of the objects restores a layout with gaps |
| `DwarfAdjacent` | the end of a range is taken for the start of the next function; padding, ends given as addresses, base selectors, distances that look like addresses and call sites do not follow; an attribute of unknown form loses a unit's relocations, a 64-bit record those of all frames behind it; unwinding fails where an index is out of order, a record is of code nobody knows or begins at a variable in the code |

## 5. Proofs

The proof modules assume what the constants' `ASSUME`s say and nothing else
unless the theorem states it.

**`TextIndexProofs`** – for every symbol table and every `.text`:
`TypeCorrect`; `NeverTwice` (`RegionsApart`, at every step); `NeverLost`;
`EntryPoints` (`EntryPointsReachable`); `Refinement` (`ImplementsCover`).
`RegionsApart` is not inductive: the fold loop keeps `f` because `end <= f.value`,
which protects it only if `end` is the end of *all* kept functions and what is
left in `todo` begins no earlier than they do; and the gap scan needs that
orphans lie below the cursor, inside the gaps, and that everything live
below the cursor is already covered. `IInv` says this loop by loop. The proof
has one lemma per action. `EntryPoints` needs a second invariant, `ReachInv`:
every address of the table below the end of `.text` is a kept function's, or
still has an entry that will be looked at. The refinement maps `cover` to
`kept \cup orphans` once `pc = "done"` and to nothing before.

**`ElfSplitProofs`** – of `SymbolNames`, for every image: `ExportNamesDistinct`: two
functions whose names hide no dotted twin get different names (the suffix is
their address, and appending a number is injective); `IdentifiersDistinct`: plain
identifiers need no further hypothesis; `ResolveDataSound`, `CodeResolves`: the
lookups describe the address they were asked for, and no address of an exported
function is without a symbol. `ElfShadow.cfg` says how to see the first fail
without its hypothesis. Of `ElfSplit`, for every number of units and runs,
interleaving of the workers and edit in between:

* `SummaryHolds` (`SummaryIsTrue`): a run that reports no failure has every
  unit's object on disk, if edits keep output paths apart
  (`[][PathsKeptApart]_vars`, without which `ElfBareKey.cfg` refutes it). `IInv`
  says that the paths of the units differ from one another and from the shared
  object's, that a unit whose worker is done has its object on disk, that nobody
  reports before all are done, and that the count of failures is the number of
  failed units.
* `EachFunctionOnce` (`EmittedOnce`). `RunInv` adds what ties a run to its input:
  the units are those of the source or of `objects.json` (`UnitsFollow`), the
  shared object is written before the report, and `objects.json` lists each
  name of the source it came from in one place, whatever edits came since
  (`GroupingLists`, which is why edits must be `CarefulEdit`s). `Lists` says of
  any such units that each function of `.text` has exactly one place; the default
  units have it since a listing by address is a bijection (`ByAddressLists`, for
  which an address-sorted listing is shown to exist, by ranks), the regrouped
  ones since a name has one place. Nothing else is at a function's address: data
  is outside `.text` (`DataApart`).
* `ReferencesFollow` (`ReferencesBind`), `DwarfCallsFollow`
  (`DwarfReferencesBind`), `DynamicNamesFollow` (`DynamicNamesBind`): the binding
  done by the linker finds what was meant, because the definitions under a name
  are at one address (`NamesAgree`) and the object meant is among them
  (`KnownHasEntry`). The provisions are `NamesApart`, `Contained`,
  `ImportsApart` and `ExportsUnshared`; `ElfShadow.cfg` and `ElfAnon.cfg` say
  what happens without them. That the new names differ is `OneAddressForAName`.
* `RunsRepeat` (`RoundTrip`): running again with the unedited `objects.json`
  reproduces every object, none missing and none left over. `AgainInv` says that
  `objects.json` is the listing of the last whole run until it is edited, and
  that every object a run has written so far is the one the run before left.
  `ByAddress` is a function of the set, as the sort of one table is.

**`Aarch64RecoverProofs`** – `PairsReal` (`PairsAreReal`) and `PairsFound`
(`TrackedPairsFound`), for functions of any length with any labels, over any
instructions for which `write_regs` tells the registers they overwrite
(`WritesReported`). What is inductive is that an entry of the tracker is held by
the register it is of, and that what a register holds straight down is in the
tracker or in `dropped`. `AddressesRelinked` (`Compiled => RelinkedAddresses`)
needs `AddressInv` besides: every relocation is that of an `adrp` or a use
the machine met, at its own site, and of the target both were for. The rest is
arithmetic: a page and an offset in it move together if the distance keeps the
alignment of the access (`PageAndRest`), for which the scale of a relocation
must be the access's width (`WidthsTold`; `Aarch64Word.cfg` is the code where it
is not). `BranchesFollow` (`RelinkedBranches`): wherever the linker places the
functions and stubs, every branch, conditional ones included, goes where it went, or
is a call into the middle of another function and counted. `BranchInv`: offsets name
branches, a relocation is that of the one branch at its place, and a branch
without one stays in the function, which is moved in one piece
(`PlacesAssumption`), or was counted. Jumps must go to starts or stay
(`JumpsOfStarts`).

**`X64RecoverProofs`** – `RelocationsReal`: no relocation lands on bytes that
designate no address, for functions of any length, if no register is reused as a
pointer while its mark is stale (`"reuse" \notin Admitted`) and the decoder
reports what an instruction writes. The invariant: a marked register was
written and is one some instruction loads the image base into, every relocation
is on a field, and a section-relative one only where the thread's block was read.
`FieldsArrive` (`FieldsReach`): linked anywhere, every field designates what it
did. The linker adds up the relocations on a field, so a field needs exactly
one, of its kind (`AddressesKept`; none or one for a thread-local offset,
`ConstantsKept`); this takes that fields do not share a place (`FieldsApart`),
that the scan believes in every register it should (`TrackerComplete`, as long as
code is read), and that the words behind the code which became fields are the
tables some instruction named, from a beginning on (`TablesRead`). The hypotheses:
the shapes of `X64Shapes.cfg` are not admitted (`Strict`), names do not overlap
(`SymbolsApart`), branches and operands go to something named (`TargetsNamed`),
the decoder places operands inside their instruction (`Encoded`), and words of a
table are addresses of code, each table behind an end (`TablesApart`); the
passing run assumes them of its instance, so they are not empty.

**`PeSplitProofs`** – `InlineListTrue` (`InlinedAreDeclared`) for every PDB and
every order of its records, without hypothesis: names are complete before the
first module is read, `fresh` and `scope` are those of the module being read,
and the list so far is that of the records so far. `LinkNamesSurvive`
(`LinkNamesKept`), also without hypothesis: the bag of an address's names is
that of the public records read for it. `LinkNamesLink` (`LinkNamesDefined`):
every link name is defined, outside, at the start of its function in the object
the function went to. `LinkInv` traces every entry of the index back to a record
of its module (`NamesTrue`, `UnitsTrue`) and every object on disk to a unit; it
rests on `LinkNamesApart`, `NamedAreGlobal` and `ProceduresApart`, since a name
given twice, a static folded with an exported function, or a procedure inside
another leaves the linker a choice. `ObjectsLink` (`NamesLink`): no two objects
define one external name, and when no worker failed every name is defined or a
library's. `OwnersInv` says that the units are modules, each once and with all its
functions (`Owned`), that an external datum bears a name of its address and lies
where some object has the bytes (`VariablesTrue`). An external name stands for one
address, so two definitions of it are at one place; a place is in one
section, in one module's contribution or procedure, or in none, when it is the
shared object's, whose `claimed_vas` therefore must ask which units are split at
all. A lookup ends at a function, a datum, a library's name or the start of
a section (`CodeAnswers`, `DataAnswers`), each of which has an object.
`ReferencesArrive` (`ReferencesReach`): every relocation is on its field and leads to
the byte the field referred to. `FoundInv` says that every entry of the index is what
some record at its address became (`CodeTrue`, `FunctionsMade`, `VariablesMade`) and
that no record read so far lacks its entry (`AllEntered`). So a name an answer gives is
one of the address the answer starts from (`Bears`), and what the linker binds to it
is there (`BoundThere`). If that is in a function, so is the target (`TargetInside`):
a datum in a function does not reach out of it, and the gap after it is closed by
`DataDescribed`. Then no dropped prefix lies between (`NoneBetween`), bytes without one
between them stay as far apart (`RemapShift`), and the bytes left are where `Remap`
says (`LeftAt`). A field itself was not torn apart by a prefix (`ReferenceSits`).

**`MachoSplitProofs`** – `RecordsAttributed` (`UnitsOwnFunctions`) for every stream of
STABS records that is true as far as it goes (`RecordsTrue`: an opening record is
that of a function of the source file above it, and what follows, if it tells an
extent, is its end or the start of another). `ScanInv` says that the unit being
read is that of the last source record (`UnitFollows`), that the open function is
that of the last record of a function, in this unit (`OpenFollows`), which is why
it must not stay open across `N_SO`, that units have whole functions of their own
(`UnitsTrue`), and that no pair of records read so far was dropped (`PairsKept`).
`EachFunctionPlaced` (`EveryFunctionOnce`) for programs that are described
truthfully (`Truthful`) and edits of `symtab.json` that keep a name in one place
(`CarefulEdit`): `IndexInv` says that the index, from wherever it comes, describes
whole functions, each once (`Describes`; for STABS by `OnceInv`, that records begin
no function twice; for the symbol table since what reaches to the next symbol is
whole), and `RunInv` that an object is what it was asked for and `symtab.json` lists
each function of the index once. The latter is not obvious where two symbols have a
name: the table serves the index (`TableServes`) only if they are not both in it.
`ReferencesArrive` (`ReferencesReach`): branches that are relocated arrive, also in
runs in which objects could not be written. Here the names decide: an object is
named and sized by the index or by the symbol table, a reference by the index, so the
two must mean one address by a name, and nothing else may have it (`NamesTell`);
`MachoStatic.cfg` and `MachoLast.cfg` are programs with names that do not tell. A
library function is reached because its stub has its name (`StubsTrue`) and no object
defines that. That a function of the index is there to arrive at is `EachFunctionPlaced`.

**`IdaSplitProofs`** – `RejectionIsClean` (`RejectedTouchesNothing`),
`SharedFollowsGrouping` (`SharedIsCurrent`), `SummaryHolds`, for every image,
grouping, number of runs and order of the workers, if there are finitely many
functions and no group is named like one of delink's own objects (`FilesApart`).
`ImageTakenApart` (`EmittedOnce`) and `FunctionsStayWhole` (`FunctionsWhole`):
wherever an `Orderly` image is split by a `Careful` grouping, the objects take
it apart, to the byte. By then a run has passed the check and written every
object (`ProperState`). The maximal runs of a set of addresses cover it and do
not meet, so `Runs` splits what is left of a section without loss, and the
fragments of groups are apart because their functions are, with their tables;
`IdaTwice.cfg` and `IdaRebased.cfg` are images that are not so.

On this rest `BranchesArrive` (`BranchesLand`), `SwitchesArrive` (`SwitchesLand`) and
`PointersArrive` (`PointersLand`): every call, jump, case and pointer of a clean run
lands where it went, whichever objects the two ends are in. The invariant gains
`WrittenSound`, that what a worker wrote was no malformed group. An address has one
holder (`OnePlace`), of one of four kinds (`HolderKinds`: code or data, given away or
left over), and a holder has in one piece the function (`FunctionTogether`), the
variable (`VariableTogether`) or the range around an address. A resolution is one
label, anchor or local symbol; the holder of its place defines it and no other object
does (`LabelDefinedOnce`, `AnchorLands`, `LocalLands`), because suffixes tell names
apart (`LinkNames`) and the kinds of symbols have none in common (`SymbolKinds`). So
the linker adds the old distance to a place in the same section, and `PlaceShift`
counts that nothing was lost in between. Where a field is, there is one relocation:
branches, tables and words do not share fields (`FieldsApart`, `WordsWhole`), the word
of a pointer is inside one function, gap or range (`PointerRelocated`), and a word has
one exactly if it holds an address (`PointerOf`). `IdaHalves.cfg` and `IdaShort.cfg`
show what happens without `KeepsVariables`, `VariablesWhole` and long branches.

**`DwarfRelocsProofs`** – `UnwindingFinds` (`UnwindFinds`) for any functions, any
unwind records of theirs (`Described`), and whatever the linker does. The
invariant `IInv` says that each address the walk has passed has the relocation
against its owner, and that relocations of the unwind section come from nowhere
else; it must also say that relocations of a unit that is given up are of another
section, and that no terminator was passed. From it an address moves with its
function (`Moves`), so an instruction is inside a moved record exactly if it was
inside the record (`InExtent`), functions being apart before and after; for the
search of `.ARM.exidx` their order has to be kept besides (`BehindBegin`).

On the same model `ExtentsCovered` (`ExtentsFollow`), for any image of which `Told`
holds. The invariant is `DebugInv`: a field of a section that was walked has exactly
the relocation it should have (`Wanted`), and one behind the cursor of the section at
hand has it among those found; a unit that is given up is excepted. So what a field
holds after the link is known (`HeldThere`, and for each form `AttributeHeld`,
`SetHeld`, `PairHeld`). That an extent follows is an argument of its own: the
addresses of a part that lies in one function, or in functions of one section that
touch, all move by the same distance (`SpanMoves`: the least address that did not
would be the first of a function whose neighbour below did, and the linker keeps the
two together), and no other function comes to lie in between (`SpanCovers`, from
`OnePlace`). Entries, points, strings, rows, and pairs with a base of 0 or the start of
their unit are then cases (`EntriesFollow`, `PointsFollow`, `TextsFollow`,
`RowFollows`, `AbsoluteFollows`, `RelativeFollows`). `DwarfAdjacent.cfg` and the
variants of it in section 4 show what happens without `Told`.

**Only model-checked**, and why:

* `RunsEnd` of both drivers: liveness under fairness, which the prover cannot do.
* `AutoKeepsCoverage` of `ElfSplit`: it compares sums over sets, so it needs
  induction over the data. The same holds of the rounds and the recursive
  walk of `ArmRecover`, of which nothing is proved.

## 6. Not modelled, and the plan

Not modelled: parsing of ELF, PE, Mach-O, DWARF, PDB and JSON (inputs of the
models); the decoding of x86 jump tables (`discover_x86_jump_tables`), of which
tables are an input; memory operands of 32-bit x86; 64-bit IDA images; section
alignment except where DWARF is misled by it; the text of messages;
`restore-pe` and the information commands. Of PE: headers, import tables, XBE,
names of thread-local data, demangling, the symbols of jump tables. Of DWARF:
`.ARM.extab` and personality pointers, offsets from one debug section into
another, which are copied as they are; the sections of 32-bit targets, copied
with a warning.

Some things the code does were seen while modelling and have no property: objects of an
earlier grouping stay in the output directory, and a run without `--objects`
overwrites an edited `objects.json`; units with one file name are merged
(`symtab.rs`); `idapro.json` is overwritten before a grouping is rejected.

Planned, in this order:

1. `SymtabUnits` – attribution of functions to `STT_FILE` units, merged file
   names, data objects, `build_symbols` (`symtab.rs`); composed with `TextIndex`.
2. `SubtractRanges` – the loop behind `Runs`, proved equal to it.
