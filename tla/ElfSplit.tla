------------------------------ MODULE ElfSplit ------------------------------
(***************************************************************************)
(* `delink split' on an ELF image (cmd_split of delink-cli, split_all,     *)
(* emit_cu and emit_shared_data of delink-emit), run several times over    *)
(* one output directory with the grouping file edited in between.          *)
(*                                                                         *)
(* A run chooses its source of compilation units, builds the resolver from *)
(* every definition of that source, writes objects.json or regroups by it, *)
(* emits the units in parallel (each prepared in memory and then written), *)
(* writes __shared_data.o and reports.  An object is abstracted to the     *)
(* symbols it defines; every address the resolver can name is taken to be  *)
(* referenced from every object, so references need no state of their own. *)
(***************************************************************************)
EXTENDS SymbolNames, SequencesExt, FiniteSetsExt

CONSTANTS
  Images,      \* the images the program may be given
  Edits(_),    \* what a user may make of a grouping file
  MaxRuns      \* bound on the number of runs

\* text: .text; sections: the data sections with their start symbols.
\* symtab, dwarf: what either source finds.  imports: dynamic symbols that
\* the image does not define.
Image ==
  [text : [base : Nat, limit : Nat],
   sections : SUBSET [base : Nat, limit : Nat, start : Stems],
   symtab : SUBSET Definition, dwarf : SUBSET Definition,
   imports : SUBSET Name]

ASSUME SplitAssumption ==
  /\ \A img \in Images : /\ img \in Image
                           /\ IsFiniteSet(img.symtab) /\ IsFiniteSet(img.dwarf)
                           /\ IsFiniteSet(img.sections)
  /\ MaxRuns \in Nat

VARIABLES
  image,     \* input: the binary
  pc,        \* where the driver is
  runs,      \* how many runs have started
  by,        \* --group-by of this run
  regroup,   \* was --objects given?
  source,    \* "symtab" or "dwarf": where this run takes its units from
  units,     \* file -> the functions of the unit to be written there
  phase,     \* file -> what the worker of that unit has reached
  grouping,  \* objects.json: file -> names; empty when there is none
  disk,      \* path -> the symbols of the object last written there
  failures,  \* the failures the summary line reports
  edited,    \* history: has the user edited objects.json since it was written?
  origin,    \* history: the source objects.json was written from
  previous   \* history: source and disk of the run before, if it was clean

vars == <<image, pc, runs, by, regroup, source, units, phase, grouping, disk,
          failures, edited, origin, previous>>

-----------------------------------------------------------------------------
(* The source index *)

Functions(defs) == {d \in defs : d.code}

TextCoverage(defs) == MapThenSumSet(LAMBDA f : f.size, Functions(defs))

\* Mutant: DWARF is used whenever there is any.
AnyDwarf(img, group) ==
  CASE group = "symtab" -> "symtab"
    [] group = "dwarf"  -> "dwarf"
    [] group = "auto"   -> IF TextCoverage(img.dwarf) > 0 THEN "dwarf" ELSE "symtab"

\* build_split_index: which source a --group-by selects.
SourceFor(img, group) ==
  CASE group = "symtab" -> "symtab"
    [] group = "dwarf"  -> "dwarf"
    [] group = "auto"   -> IF /\ TextCoverage(img.dwarf) >= TextCoverage(img.symtab)
                              /\ TextCoverage(img.dwarf) > 0
                           THEN "dwarf" ELSE "symtab"

IndexOf(img, src) == IF src = "dwarf" THEN img.dwarf ELSE img.symtab

Index == IndexOf(image, source)

\* The resolver sees every definition of the source, whatever the grouping.
Known == Mapped(Index)

-----------------------------------------------------------------------------
(* Files and grouping *)

\* A name in the grouping file or of an output, with or without its ".o".
CuFile(unit)   == [base |-> "cu", id |-> unit, dotO |-> TRUE]
SharedFile     == [base |-> "__shared_data", id |-> 0, dotO |-> TRUE]
OutputOf(file) == [base |-> file.base, id |-> file.id, dotO |-> TRUE]

\* In the order of the index: by unit, then by address.
Earlier(d, e) == d.unit < e.unit \/ (d.unit = e.unit /\ d.addr < e.addr)

\* A listing of definitions in the order of their addresses.
ByAddress(defs) ==
  CHOOSE s \in [1..Cardinality(defs) -> defs] :
    /\ IsInjective(s)
    /\ \A i, j \in DOMAIN s : i < j => s[i].addr <= s[j].addr

\* Mutant: a unit also emits the functions of the units before it.
CumulativeUnits(index) ==
  LET of(unit) == {f \in Functions(index) : f.unit <= unit /\ f.size > 0}
      ids      == {f.unit : f \in Functions(index)}
  IN  [file \in {CuFile(u) : u \in ids} |-> ByAddress(of(file.id))]

DefaultUnits(index) ==
  LET of(unit) == {f \in Functions(index) : f.unit = unit /\ f.size > 0}
      ids      == {f.unit : f \in Functions(index)}
  IN  [file \in {CuFile(u) : u \in {i \in ids : of(i) # {}}} |-> ByAddress(of(file.id))]

\* Mutant: objects.json lists the names the resolver renamed.
ExportedJson(index) ==
  [file \in DOMAIN DefaultUnits(index) |->
     [i \in DOMAIN DefaultUnits(index)[file] |->
        ExportName(Mapped(index), DefaultUnits(index)[file][i])]]

\* objects_json_from_index
ObjectsJson(index) ==
  [file \in DOMAIN DefaultUnits(index) |->
     [i \in DOMAIN DefaultUnits(index)[file] |-> DefaultUnits(index)[file][i].name]]

\* by_name: the first function of the index wins a name.
Named(index, name) ==
  {f \in Functions(index) :
     /\ f.name = name
     /\ \A g \in Functions(index) : g.name = name /\ g # f => Earlier(f, g)}

\* regroup_index: unknown names are skipped, units left empty are dropped.  What
\* remains of a unit keeps its places in the list.
Regrouped(index, objects) ==
  LET known(file) == {i \in DOMAIN objects[file] : Named(index, objects[file][i]) # {}}
  IN  [file \in {k \in DOMAIN objects : known(k) # {}} |->
         [i \in known(file) |-> CHOOSE f \in Named(index, objects[file][i]) : TRUE]]

-----------------------------------------------------------------------------
(* Objects *)

InText(img, f) == img.text.base <= f.addr /\ f.addr + f.size <= img.text.limit

\* The places of the functions of a unit that have bytes in .text.
Live(img, fns) == {i \in DOMAIN fns : fns[i].size > 0 /\ InText(img, fns[i])}

\* Mutant: a definition keeps the name the index gives it.
RawName(defs, f) == f.name

\* The name emit_cu defines a function under: the resolver's, if it has one.
SymbolOf(defs, f) ==
  LET mapped == At(defs, TRUE, f.addr)
      name   == IF mapped = {} THEN f.name
                ELSE ExportName(defs, CHOOSE d \in mapped : TRUE)
  IN  IF name = Plain(Anonymous)
      THEN [stem |-> "__delink_sub", dots |-> <<f.addr>>]
      ELSE name

\* Mutant: statics stay local to their object.
LocalsStayLocal(src, f) == f.global

\* promote_locals: a reconstructed grouping makes every function global.
Visible(src, f) == f.global \/ src = "symtab"

ObjectOf(img, src, fns) ==
  [i \in Live(img, fns) |->
     [name |-> SymbolOf(Mapped(IndexOf(img, src)), fns[i]), addr |-> fns[i].addr,
      visible |-> Visible(src, fns[i])]]

\* emit_shared_data: every variable inside a data section, static or not.
SharedVariables(img, defs) ==
  {[name |-> ExportName(defs, v), addr |-> v.addr, visible |-> TRUE] :
     v \in {d \in defs : ~d.code /\ \E s \in img.sections :
                           s.base <= d.addr /\ d.addr < s.limit}}

SharedObject(img, src) ==
  SetToSeq(SharedVariables(img, Mapped(IndexOf(img, src))) \cup
           {[name |-> Plain(s.start), addr |-> s.base, visible |-> TRUE] :
              s \in img.sections})

-----------------------------------------------------------------------------
(* One run *)

Init ==
  /\ image \in Images
  /\ pc = "idle" /\ runs = 0 /\ by = "auto" /\ regroup = FALSE
  /\ source = "symtab"
  /\ units = <<>> /\ phase = <<>> /\ grouping = <<>> /\ disk = <<>>
  /\ failures = 0 /\ edited = FALSE /\ origin = "none"
  /\ previous = [source |-> "none", disk |-> <<>>]

\* The user starts a run; --objects names the file an earlier run wrote.
Start ==
  /\ pc = "idle" /\ runs < MaxRuns
  /\ runs' = runs + 1
  /\ by' \in {"auto", "dwarf", "symtab"}
  /\ regroup' \in {r \in BOOLEAN : r => grouping # <<>>}
  /\ pc' = "index"
  /\ UNCHANGED <<image, source, units, phase, grouping, disk, failures, edited,
                 origin, previous>>

\* build_split_index has nothing to split: the run ends with an error.
NothingToSplit ==
  /\ pc = "index"
  /\ LET src == SourceFor(image, by)
     IN IF src = "dwarf" THEN image.dwarf = {} ELSE image.symtab = {}
  /\ pc' = "failed"
  /\ UNCHANGED <<image, runs, by, regroup, source, units, phase, grouping, disk,
                 failures, edited, origin, previous>>

StartUnits(newUnits) ==
  /\ units' = newUnits
  /\ phase' = [file \in DOMAIN newUnits |-> "todo"]
  /\ pc' = "emit"

\* Without --objects: write objects.json and split by the source's own units.
Save ==
  /\ pc = "index" /\ ~regroup
  /\ source' = SourceFor(image, by)
  /\ IndexOf(image, source') # {}
  /\ grouping' = ObjectsJson(IndexOf(image, source'))
  /\ edited' = FALSE /\ origin' = source'
  /\ StartUnits(DefaultUnits(IndexOf(image, source')))
  /\ UNCHANGED <<image, runs, by, regroup, disk, failures, previous>>

\* Writing objects.json fails after it was truncated.
SaveFails ==
  /\ pc = "index" /\ ~regroup
  /\ source' = SourceFor(image, by)
  /\ IndexOf(image, source') # {}
  /\ grouping' = <<>> /\ edited' = FALSE /\ origin' = "none"
  /\ pc' = "failed"
  /\ UNCHANGED <<image, runs, by, regroup, units, phase, disk, failures, previous>>

Regroup ==
  /\ pc = "index" /\ regroup
  /\ source' = SourceFor(image, by)
  /\ IndexOf(image, source') # {}
  /\ StartUnits(Regrouped(IndexOf(image, source'), grouping))
  /\ UNCHANGED <<image, runs, by, regroup, grouping, disk, failures, edited,
                 origin, previous>>

\* A worker recovers the relocations of a unit and builds its object.
Prepare(file) ==
  /\ pc = "emit" /\ phase[file] = "todo"
  /\ phase' = [phase EXCEPT ![file] =
                 IF Live(image, units[file]) = {} THEN "err" ELSE "ready"]
  /\ UNCHANGED <<image, pc, runs, by, regroup, source, units, grouping, disk,
                 failures, edited, origin, previous>>

WriteFile(path, object) ==
  disk' = [p \in DOMAIN disk \cup {path} |-> IF p = path THEN object ELSE disk[p]]

Write(file) ==
  /\ pc = "emit" /\ phase[file] = "ready"
  /\ WriteFile(OutputOf(file), ObjectOf(image, source, units[file]))
  /\ phase' = [phase EXCEPT ![file] = "ok"]
  /\ UNCHANGED <<image, pc, runs, by, regroup, source, units, grouping, failures,
                 edited, origin, previous>>

\* Mutant: the worker forgets to report the error.
WriteFailsSilently(file) ==
  /\ pc = "emit" /\ phase[file] = "ready"
  /\ WriteFile(OutputOf(file), <<>>)
  /\ phase' = [phase EXCEPT ![file] = "ok"]
  /\ UNCHANGED <<image, pc, runs, by, regroup, source, units, grouping, failures,
                 edited, origin, previous>>

\* Mutant: a unit whose write failed is put back in the queue.
WriteAgain(file) ==
  /\ pc = "emit" /\ phase[file] = "ready"
  /\ WriteFile(OutputOf(file), <<>>)
  /\ phase' = [phase EXCEPT ![file] = "todo"]
  /\ UNCHANGED <<image, pc, runs, by, regroup, source, units, grouping, failures,
                 edited, origin, previous>>

\* fs::write fails after it has truncated the file.
WriteFails(file) ==
  /\ pc = "emit" /\ phase[file] = "ready"
  /\ WriteFile(OutputOf(file), <<>>)
  /\ phase' = [phase EXCEPT ![file] = "err"]
  /\ UNCHANGED <<image, pc, runs, by, regroup, source, units, grouping, failures,
                 edited, origin, previous>>

\* Every worker has returned: the driver writes the shared data, last of all.
EmitShared ==
  /\ pc = "emit"
  /\ \A file \in DOMAIN phase : phase[file] \in {"ok", "err"}
  /\ WriteFile(SharedFile, SharedObject(image, source))
  /\ pc' = "report"
  /\ UNCHANGED <<image, runs, by, regroup, source, units, phase, grouping,
                 failures, edited, origin, previous>>

\* Its error, unlike a unit's, ends the run before the summary.
SharedFails ==
  /\ pc = "emit"
  /\ \A file \in DOMAIN phase : phase[file] \in {"ok", "err"}
  /\ WriteFile(SharedFile, <<>>)
  /\ pc' = "failed"
  /\ UNCHANGED <<image, runs, by, regroup, source, units, phase, grouping,
                 failures, edited, origin, previous>>

\* The summary: a failed unit is counted, the run still ends well.
Report ==
  /\ pc = "report"
  /\ failures' = Cardinality({file \in DOMAIN phase : phase[file] = "err"})
  /\ pc' = "done"
  /\ UNCHANGED <<image, runs, by, regroup, source, units, phase, grouping, disk,
                 edited, origin, previous>>

\* Between two runs the user may edit objects.json, or leave it alone.
Edit ==
  /\ pc \in {"done", "failed"} /\ runs < MaxRuns
  /\ \/ UNCHANGED <<grouping, edited>>
     \/ grouping' \in Edits(grouping) /\ edited' = TRUE
  /\ previous' = IF pc = "done" /\ failures = 0
                 THEN [source |-> source, disk |-> disk]
                 ELSE [source |-> "none", disk |-> <<>>]
  /\ pc' = "idle"
  /\ failures' = 0
  /\ units' = <<>> /\ phase' = <<>>
  /\ UNCHANGED <<image, runs, by, regroup, source, disk, origin>>

Finished == pc \in {"done", "failed"} /\ runs = MaxRuns /\ UNCHANGED vars

Worker == \E file \in DOMAIN units : Prepare(file) \/ Write(file) \/ WriteFails(file)

Run ==
  NothingToSplit \/ Save \/ SaveFails \/ Regroup \/ Worker \/ EmitShared \/ SharedFails \/ Report

Next == Start \/ Run \/ Edit \/ Finished

Spec == Init /\ [][Next]_vars
\* A run that was started goes on; nobody has to start one.
FairSpec == Spec /\ WF_vars(Run)

-----------------------------------------------------------------------------
(* Linking the outputs of one run (external: ld) *)

Outputs == {OutputOf(file) : file \in DOMAIN units} \cup {SharedFile}

\* The linker looks in the object itself, then among the global symbols.
Bound(path, name) ==
  LET own == {i \in DOMAIN disk[path] : disk[path][i].name = name}
  IN  IF own # {} THEN {disk[path][i] : i \in own}
      ELSE {s \in UNION {Range(disk[p]) : p \in Outputs} : s.visible /\ s.name = name}

\* Every definition of that name lands on address a.
BindsTo(path, ref, a) ==
  {s.addr + ref.addend : s \in Bound(path, ref.symbol)} = {a}

\* Where in the outputs the symbols at address a are.
EmittedAt(a) ==
  UNION {{<<path, i>> : i \in {j \in DOMAIN disk[path] : disk[path][j].addr = a}} :
           path \in Outputs}

\* The run ended, and the summary reports no failure.
Clean == pc = "done" /\ failures = 0

\* The grouping this run went by lists the functions of its own source.
WholeIndex == origin = source

-----------------------------------------------------------------------------
(* Provisions: images and edits for which the theorems hold                *)

LiveFunctions(img, index) == {f \in Functions(index) : f.size > 0 /\ InText(img, f)}

InData(img, a) == \E s \in img.sections : s.base <= a /\ a < s.limit

\* The resolver's map holds every function of .text, and no two at an address.
Placed(img, index) ==
  /\ LiveFunctions(img, index) \subseteq Mapped(index)
  /\ \A f, g \in Functions(Mapped(index)) : f.addr = g.addr => f = g

\* The data sections are outside .text.
DataApart(img) ==
  \A s \in img.sections :
    s.base < s.limit /\ (s.limit <= img.text.base \/ img.text.limit <= s.base)

\* No definition is called what another one is renamed to, nor what a section
\* starts with, and no function is left without a name.
NamesApart(img, index) ==
  /\ NoDottedTwin(Mapped(index))
  /\ \A s, t \in img.sections : s.start = t.start => s = t
  /\ \A s \in img.sections, d \in Mapped(index) : d.name # Plain(s.start)
  /\ \A f \in Functions(Mapped(index)) : ExportName(Mapped(index), f) # Plain(Anonymous)

\* What the resolver can name is in .text or in a data section.
Contained(img, index) ==
  \A d \in Mapped(index) : IF d.code THEN InText(img, d) ELSE InData(img, d.addr)

\* Nothing in the image is called what it imports.
ImportsApart(img, index) ==
  \A n \in img.imports :
    /\ IsIdentifier(n)
    /\ \A d \in Mapped(index) : d.name # n
    /\ \A s \in img.sections : Plain(s.start) # n

\* No static shares the name of an exported definition.
ExportsUnshared(img, index) ==
  \A d \in index : d.global /\ (d.code => InText(img, d)) =>
    /\ d \in Mapped(index) /\ d.name \notin Colliding(Mapped(index))
    /\ d.code \/ InData(img, d.addr)

\* objects.json tells the functions apart.
FunctionsNamed(index) == \A f, g \in Functions(index) : f.name = g.name => f = g

\* Different files of a grouping, or of a run, are written to different paths,
\* and none of them to the shared data object.
PathsApart(objects) ==
  /\ IsFiniteSet(DOMAIN objects)
  /\ \A file \in DOMAIN objects : OutputOf(file) # SharedFile
  /\ \A a, b \in DOMAIN objects : OutputOf(a) = OutputOf(b) => a = b

\* A grouping lists a name in one place.
ListedOnce(objects, name) ==
  \E file \in DOMAIN objects : \E i \in DOMAIN objects[file] :
    /\ objects[file][i] = name
    /\ \A other \in DOMAIN objects : \A j \in DOMAIN objects[other] :
         objects[other][j] = name => other = file /\ j = i

NamesKept(old, new) ==
  \A file \in DOMAIN old : \A i \in DOMAIN old[file] :
    ListedOnce(old, old[file][i]) => ListedOnce(new, old[file][i])

\* An edit moves functions and renames files, but gives no two files one path,
\* and loses and repeats no name.
PathsKeptApart == Edit /\ PathsApart(grouping) => PathsApart(grouping')

CarefulEdit == PathsKeptApart /\ (Edit => NamesKept(grouping, grouping'))

-----------------------------------------------------------------------------
(* Properties *)

\* The type invariant.
TypeOK ==
  /\ image \in Images
  /\ pc \in {"idle", "index", "emit", "report", "done", "failed"}
  /\ runs \in 0..MaxRuns
  /\ by \in {"auto", "dwarf", "symtab"} /\ regroup \in BOOLEAN
  /\ source \in {"symtab", "dwarf"}
  /\ DOMAIN phase = DOMAIN units
  /\ \A file \in DOMAIN units :
       /\ Range(units[file]) \subseteq Index /\ units[file] # <<>>
       /\ phase[file] \in {"todo", "ready", "ok", "err"}
  /\ \A file \in DOMAIN grouping : grouping[file] \in Seq(Name)
  /\ \A path \in DOMAIN disk : path.dotO
  /\ failures \in Nat /\ edited \in BOOLEAN
  /\ origin \in {"none", "symtab", "dwarf"}

\* References to code or data of the image, from any object of a
\* symbol-table split, end up at the address they had before the split.
ReferencesBind ==
  Clean /\ WholeIndex /\ source = "symtab" =>
    \A path \in Outputs, d \in Index :
      d.size > 0 \/ ~d.code =>
        \A a \in d.addr..(d.addr + d.size) :
          \A ref \in ResolveData(Known, image.sections, a) : BindsTo(path, ref, a)

\* With the units DWARF describes, statics stay local; what is referenced from
\* its own object or is global still binds to its address.
DwarfReferencesBind ==
  Clean /\ WholeIndex /\ source = "dwarf" =>
    \A path \in Outputs, f \in Functions(Known) :
      \A ref \in Resolve(Known, f.addr) :
        /\ InText(image, f)
        /\ f.global \/ \E i \in DOMAIN disk[path] : disk[path][i].addr = f.addr
        => BindsTo(path, ref, f.addr)

\* A dynamic relocation names a symbol by its original name: an import finds no
\* definition among the objects, an exported definition finds itself.
DynamicNamesBind ==
  Clean /\ WholeIndex =>
    \A path \in Outputs :
      /\ \A n \in image.imports : Bound(path, n) = {}
      /\ \A d \in Index : d.global /\ (d.code => InText(image, d)) =>
           BindsTo(path, [symbol |-> d.name, addend |-> 0], d.addr)

\* Function pointers in the shared data object reach the functions they point
\* to, wherever the grouping came from.
DataReachesCode ==
  Clean /\ WholeIndex =>
    \A f \in Functions(Known) : \A ref \in Resolve(Known, f.addr) :
      InText(image, f) => BindsTo(SharedFile, ref, f.addr)

\* Every function of the index is emitted once: none is lost, none is twice
\* among the objects of a run, also after functions were moved between files.
EmittedOnce ==
  Clean /\ WholeIndex =>
    \A f \in Functions(Index) : f.size > 0 /\ InText(image, f) =>
      Cardinality(EmittedAt(f.addr)) = 1

\* Running again with the grouping file the first run wrote, unedited,
\* reproduces the objects of the first run.
RoundTrip ==
  Clean /\ WholeIndex /\ regroup /\ ~edited /\ previous.source = source => disk = previous.disk

\* A run that reports no failure has left every unit's object on disk, whatever
\* the order in which the workers wrote.
SummaryIsTrue ==
  Clean => \A file \in DOMAIN units :
             disk[OutputOf(file)] = ObjectOf(image, source, units[file])

\* Bytes of .text that the functions of an index cover.
Covered(defs) ==
  {b \in image.text.base..(image.text.limit - 1) :
     \E f \in Functions(defs) : f.addr <= b /\ b < f.addr + f.size}

\* --group-by auto does not trade .text for better boundaries.
AutoKeepsCoverage ==
  pc \in {"emit", "report", "done"} /\ by = "auto" =>
    Cardinality(Covered(image.symtab)) <= Cardinality(Covered(Index))

\* A run that was started ends.
RunsEnd == pc = "index" ~> pc \in {"done", "failed"}
=============================================================================
