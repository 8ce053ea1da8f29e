------------------------------ MODULE IdaSplit ------------------------------
(***************************************************************************)
(* `delink ida-split' (cmd_ida_split of delink-cli) run several times over *)
(* one output directory, each time with a grouping of its own: idapro.json *)
(* is written, __shared_data is emitted first and removed again if it is   *)
(* empty, then workers emit the groups in parallel, the symbol             *)
(* __except_list gets an object, and the run reports.                      *)
(***************************************************************************)
EXTENDS IdaGroups

CONSTANTS
  Models,          \* the exported images
  Groupings(_),    \* the groupings a user may write for an image
  MaxRuns          \* bound on the number of runs

\* What load() lets through, of functions as IDA keeps them: apart.
Loadable(img) ==
  /\ img \in Model
  /\ \A f \in img.functions :
       /\ f.start < f.end
       /\ \E s \in img.sections : s.class = "code" /\ s.start <= f.start /\ f.end <= s.end
       /\ \A g \in img.functions : f # g => ~Overlap(f, g)
  /\ \A m, n \in img.names : m.addr < n.addr => m.addr + m.size <= n.addr

ASSUME IdaAssumption ==
  /\ Width \in Nat \ {0} /\ MaxRuns \in Nat
  /\ \A img \in Models :
       /\ Loadable(img)
       /\ \A gs \in Groupings(img) : \A k \in DOMAIN gs : gs[k] \in Group

SharedFile == <<"shared", "", 0>>
ExceptFile == <<"except", "", 0>>

VARIABLES
  model,     \* input: the export, with the binary behind it
  pc,        \* where the driver is
  runs,      \* how many runs have started
  groups,    \* idapro.json: file -> group
  phase,     \* file -> what the worker of that group has reached
  disk,      \* file -> the object last written there
  failures,  \* the failures the summary reports
  before     \* history: the disk when the run began

vars == <<model, pc, runs, groups, phase, disk, failures, before>>

Broken == [sections |-> {}, symbols |-> {}, relocations |-> {}]

\* __except_list is absolute: its object holds no bytes.
ExceptObject == Broken

Written(path, object) ==
  [p \in DOMAIN disk \cup {path} |-> IF p = path THEN object ELSE disk[p]]

Removed(path) == [p \in DOMAIN disk \ {path} |-> disk[p]]

-----------------------------------------------------------------------------
(* One run *)

Init ==
  /\ model \in Models
  /\ pc = "idle" /\ runs = 0 /\ groups = <<>> /\ phase = <<>>
  /\ disk = <<>> /\ failures = 0 /\ before = <<>>

\* The grouping, given or generated, is written to the output directory.
Start ==
  /\ pc = "idle" /\ runs < MaxRuns
  /\ runs' = runs + 1
  /\ groups' \in Groupings(model) \cup {Generate(model)}
  /\ phase' = <<>> /\ failures' = 0 /\ before' = disk
  /\ pc' \in {"grouped", "failed"}
  /\ UNCHANGED <<model, disk>>

\* Mutant: the shared object is written before the grouping is checked.
RejectLate ==
  /\ pc = "grouped"
  /\ ~Accepted(model, groups) \/ SharedFails(model, groups)
  /\ disk' = Written(SharedFile, SharedObject(model, groups))
  /\ pc' = "failed"
  /\ UNCHANGED <<model, runs, groups, phase, failures, before>>

\* emit_shared_for_groups checks the grouping before it emits anything.
Reject ==
  /\ pc = "grouped"
  /\ ~Accepted(model, groups) \/ SharedFails(model, groups)
  /\ pc' = "failed"
  /\ UNCHANGED <<model, runs, groups, phase, disk, failures, before>>

\* Mutant: an empty shared object is not written, an old one stays.
ShareIfAny ==
  /\ pc = "grouped"
  /\ Accepted(model, groups) /\ ~SharedFails(model, groups)
  /\ disk' = IF Nothing(SharedObject(model, groups)) THEN disk
             ELSE Written(SharedFile, SharedObject(model, groups))
  /\ phase' = [k \in {k \in DOMAIN groups : ~Empty(groups[k])} |-> "todo"]
  /\ pc' = "split"
  /\ UNCHANGED <<model, runs, groups, failures, before>>

Share ==
  /\ pc = "grouped"
  /\ Accepted(model, groups) /\ ~SharedFails(model, groups)
  /\ disk' = IF Nothing(SharedObject(model, groups)) THEN Removed(SharedFile)
             ELSE Written(SharedFile, SharedObject(model, groups))
  /\ phase' = [k \in {k \in DOMAIN groups : ~Empty(groups[k])} |-> "todo"]
  /\ pc' = "split"
  /\ UNCHANGED <<model, runs, groups, failures, before>>

\* Writing the shared object fails after the file was truncated.
ShareFails ==
  /\ pc = "grouped"
  /\ Accepted(model, groups) /\ ~SharedFails(model, groups)
  /\ disk' = Written(SharedFile, Broken)
  /\ pc' = "failed"
  /\ UNCHANGED <<model, runs, groups, phase, failures, before>>

Emit(k) ==
  /\ pc = "split" /\ phase[k] = "todo" /\ ~ObjectFails(model, groups, k)
  /\ disk' = Written(k, ObjectOf(model, groups, k))
  /\ phase' = [phase EXCEPT ![k] = "ok"]
  /\ UNCHANGED <<model, pc, runs, groups, failures, before>>

\* Mutant: a group that failed is tried again.
TryAgain(k) ==
  /\ pc = "split" /\ phase[k] = "todo" /\ ObjectFails(model, groups, k)
  /\ UNCHANGED vars

\* The group is malformed, and no file is touched, or the write fails.
EmitFails(k) ==
  /\ pc = "split" /\ phase[k] = "todo"
  /\ IF ObjectFails(model, groups, k) THEN disk' = disk
     ELSE disk' = Written(k, Broken)
  /\ phase' = [phase EXCEPT ![k] = "err"]
  /\ UNCHANGED <<model, pc, runs, groups, failures, before>>

AllDone == \A k \in DOMAIN phase : phase[k] \in {"ok", "err"}

\* The auxiliary objects of a PE, and the summary.
Report ==
  /\ pc = "split" /\ AllDone
  /\ disk' = IF model.coff THEN Written(ExceptFile, ExceptObject) ELSE disk
  /\ failures' = Cardinality({k \in DOMAIN phase : phase[k] = "err"})
  /\ pc' = "done"
  /\ UNCHANGED <<model, runs, groups, phase, before>>

\* An auxiliary file cannot be written: no summary.
ReportFails ==
  /\ pc = "split" /\ AllDone
  /\ disk' \in {disk, Written(ExceptFile, Broken)}
  /\ pc' = "failed"
  /\ UNCHANGED <<model, runs, groups, phase, failures, before>>

Again ==
  /\ pc \in {"done", "failed"} /\ runs < MaxRuns
  /\ pc' = "idle"
  /\ UNCHANGED <<model, runs, groups, phase, disk, failures, before>>

Finished == pc \in {"done", "failed"} /\ runs = MaxRuns /\ UNCHANGED vars

Run ==
  \/ Reject \/ Share \/ ShareFails \/ Report \/ ReportFails
  \/ \E k \in DOMAIN phase : Emit(k) \/ EmitFails(k)

Next == Start \/ Run \/ Again \/ Finished

Spec == Init /\ [][Next]_vars
\* A run that was started goes on; nobody has to start one.
FairSpec == Spec /\ WF_vars(Run)

-----------------------------------------------------------------------------
(* Linking the objects of one run (external: the linker) *)

Outputs == (DOMAIN phase \cup {SharedFile}) \cap DOMAIN disk

Clean == pc = "done" /\ failures = 0

\* Where the bytes of an address are: a file and a section.
Holders(a) ==
  UNION {{<<p, s>> : s \in {s \in disk[p].sections : a \in s.holds}} : p \in Outputs}

Place(s, a) == Cardinality({b \in s.holds : b < a})

\* Every definition the linker may take for a symbol used in file p.
Definitions(p, symbol) ==
  LET in(q) == {<<q, d>> : d \in {d \in disk[q].symbols : d.symbol = symbol}}
  IN  IF in(p) # {} THEN in(p)
      ELSE UNION {in(q) : q \in {q \in Outputs : symbol[1] # "label"}}

\* The relocation, linked, gives the place of that address and no other.
Lands(p, r, a) ==
  LET defs == Definitions(p, r.symbol)
  IN  /\ Cardinality(defs) = 1
      /\ \A def \in defs : \E s \in disk[def[1]].sections :
           /\ {def[2].at, a} \subseteq s.holds
           /\ Place(s, def[2].at) + r.addend = Place(s, a)

RelocationsAt(p, a) == {r \in disk[p].relocations : r.at = a}

\* The words of the image that hold an address, in the linker's eyes.
HoldsAddress(w) ==
  \/ w.at - model.shift \in model.base
  \/ [at |-> w.at, target |-> w.value + model.shift] \in model.fixups

TakesFunctions == Emitted(model, groups) # {}

-----------------------------------------------------------------------------
(* Provisions: what nothing in the code checks *)

\* The database is not rebased, its segments are apart, and so are its functions
\* with what lies behind them up to their last tables; the binary has it all.
Orderly(img) ==
  /\ img.shift = 0
  /\ \A s \in img.sections : s.start < s.end
  /\ \A s, t \in img.sections : s # t => ~Overlap(s, t)
  /\ \A f \in img.functions : \E s \in img.sections :
       /\ s.class = "code" /\ s.start <= f.start /\ f.end <= Min({s.end, s.stop})
       /\ \A t \in Tables(img, f) : t.start \in Bytes(s) /\ t.end <= Min({s.end, s.stop})
  /\ \A f, g \in img.functions : f # g => Body(img, f) \cap Body(img, g) = {}

\* Nothing is listed twice without ranges, and a function keeps its tables.
Careful(img, gs) ==
  /\ OneOwner(img, gs)
  /\ \A x \in CodeRanges(gs) : \A f \in img.functions :
       Bytes(x.range) \cap (Body(img, f) \ Bytes(f)) # {} =>
         x.range.start <= f.start /\ EmitEnd(img, f) <= x.range.end

\* IDA has one name for an address, and one for the start of every function; only
\* COFF names get a suffix, so without it no two names are alike.
NamesTrue(img) ==
  /\ \A m, n \in img.names : m.addr = n.addr \/ (~img.coff /\ m.name = n.name) => m = n
  /\ \A n \in img.names : n.addr > 0
  /\ \A f \in img.functions : \E n \in img.names : n.addr = f.start /\ n.name = f.name

\* A field belongs to one branch, word, table entry or dispatch, and entries lie in
\* their table.
FieldsApart(img) ==
  /\ \A b \in img.branches :
       /\ \A c \in img.branches : b.at = c.at => b = c
       /\ \A w \in img.words : w.at # b.at
       /\ \A t \in img.tables : b.at # t.dispatch /\ b.at \notin Bytes(t)
  /\ \A t, u \in img.tables :
       /\ t.start < t.end /\ t.dispatch \notin Bytes(u)
       /\ t.dispatch = u.dispatch => t = u
       /\ \A e \in t.entries : e.at \in Bytes(t) /\ \A g \in t.entries : e.at = g.at => e = g

\* Branches and the cases of a switch go to code the binary has, by a long field, and
\* what they go to has a name or is in a function.
CodeNamed(img, a) ==
  /\ \E s \in img.sections : s.class = "code" /\ a \in s.start..(Min({s.end, s.stop}) - 1)
  /\ (\E n \in img.names : n.addr = a) \/ (\E f \in img.functions : a \in Bytes(f))

TargetsNamed(img) ==
  /\ \A b \in img.branches : ~b.short /\ CodeNamed(img, b.target)
  /\ \A t \in img.tables : \A e \in t.entries : CodeNamed(img, e.target)

\* A word is read once, is no field of a table, and does not lie across the edge
\* of a function or of a range of code.
WordsWhole(img, gs) ==
  \A w \in img.words :
    LET across(set) == LET word == w.at..(w.at + Width - 1)
                       IN  word \cap set # {} /\ ~(word \subseteq set)
    IN  /\ \A v \in img.words : v.at = w.at => v = w
        /\ \A t \in img.tables : w.at # t.dispatch /\ w.at \notin Bytes(t)
        /\ \A f \in img.functions : ~across(Body(img, f))
        /\ \A x \in CodeRanges(gs) : ~across(Bytes(x.range))

\* No range of data begins or ends inside a variable.
KeepsVariables(img, gs) ==
  \A r \in Owned(gs) : \A n \in img.names :
    n.addr < r.end /\ r.start < n.addr + n.size => r.start <= n.addr /\ n.addr + n.size <= r.end

\* What is named in data lies in the first section of its class, and the binary has
\* all of it.
VariablesWhole(img) ==
  /\ \A n \in img.names : \A s \in img.sections :
       s.class # "code" /\ n.addr \in Bytes(s) => n \in Variables(img)
  /\ \A n \in Variables(img) : \E s \in img.sections :
       /\ s.class # "code"
       /\ n.addr..(n.addr + n.size - 1) \subseteq s.start..(Min({s.end, s.stop}) - 1)

\* What a pointer goes to has a name, or is in something that has one.
DataNamed(img, gs, a) ==
  \/ \E n \in img.names : n.addr = a
  \/ \E f \in img.functions : a \in Bytes(f)
  \/ Covering(img, a) # {}
  \/ \E r \in Owned(gs) : a \in Bytes(r)

PointersNamed(img, gs) == \A p \in Pointers(img) : DataNamed(img, gs, p.target)

-----------------------------------------------------------------------------
(* Properties *)

\* The type invariant.
TypeOK ==
  /\ model \in Models
  /\ pc \in {"idle", "grouped", "split", "done", "failed"} /\ runs \in 0..MaxRuns
  /\ \A k \in DOMAIN groups : groups[k] \in Group
  /\ DOMAIN phase \subseteq DOMAIN groups
  /\ \A k \in DOMAIN phase : phase[k] \in {"todo", "ok", "err"} /\ ~Empty(groups[k])
  /\ \A p \in DOMAIN disk \cup DOMAIN before : p[1] \in {"name", "shared", "except"}
  /\ failures \in Nat

\* The objects of a run that reports no failure take the image apart: every
\* byte of its data is in exactly one section of one object, and so is every
\* byte of its code if the grouping takes any function.
EmittedOnce ==
  Clean => \A s \in model.sections : s.class # "code" \/ TakesFunctions =>
             \A a \in s.start..(Min({s.end, s.stop}) - 1) : Cardinality(Holders(a)) = 1

\* No function is torn apart: given to an object or left over, it is in one
\* piece, in order, with its jump tables; the object it was given to has it.
FunctionsWhole ==
  Clean /\ TakesFunctions =>
    /\ \A f \in model.functions : \E h \in Holders(f.start) : Body(model, f) \subseteq h[2].holds
    /\ \A k \in DOMAIN groups : \A f \in Chosen(model, groups, k) :
         \E h \in Holders(f.start) : h[1] = k

\* A pointer in emitted bytes gets one relocation, and it lands on what the
\* pointer pointed to, whichever objects the two are in; a word that is no
\* pointer gets none.
PointersLand ==
  Clean => \A w \in model.words : \A h \in Holders(w.at) :
    /\ Fits(w.at, h[2].holds) /\ h[2].kind # "bss"
    /\ Holders(w.value + model.shift) # {}
    => LET rs == RelocationsAt(h[1], w.at)
       IN  IF HoldsAddress(w)
           THEN Cardinality(rs) = 1 /\ \A r \in rs : Lands(h[1], r, w.value + model.shift)
           ELSE rs = {}

\* A call or jump out of a function an object was given lands on its target.
BranchesLand ==
  Clean => \A f \in Emitted(model, groups), b \in model.branches :
    b.at \in Bytes(f) /\ b.target \notin Body(model, f) =>
      \A h \in Holders(b.at) :
        LET rs == RelocationsAt(h[1], b.at)
        IN  Cardinality(rs) = 1 /\ \A r \in rs : Lands(h[1], r, b.target)

\* The cases of a switch, taken through its dispatch field and its table, stay
\* where they were in the function.
SwitchesLand ==
  Clean => \A f \in Emitted(model, groups) : \A t \in Owns(model, f) :
    \A h \in Holders(f.start) :
      /\ \A r \in RelocationsAt(h[1], t.dispatch) : Lands(h[1], r, t.start)
      /\ \A e \in t.entries :
           /\ Cardinality(RelocationsAt(h[1], e.at)) = 1
           /\ \A r \in RelocationsAt(h[1], e.at) : Lands(h[1], r, e.target)

\* A grouping that is turned down leaves the objects of earlier runs alone.
RejectedTouchesNothing ==
  pc = "failed" /\ ~Accepted(model, groups) => disk = before

\* After a completed run __shared_data is on disk exactly if this run left
\* something over; what an earlier run left over is gone.
SharedIsCurrent ==
  pc = "done" =>
    IF Nothing(SharedObject(model, groups)) THEN SharedFile \notin DOMAIN disk
    ELSE disk[SharedFile] = SharedObject(model, groups)

\* A run that reports no failure has left the object of every group on disk.
SummaryIsTrue ==
  Clean => \A k \in DOMAIN phase :
             k \in DOMAIN disk /\ disk[k] = ObjectOf(model, groups, k)

\* In some order of the objects all code is where it was, relatively.
LayoutKept ==
  LET code(p) == UNION {s.holds : s \in {s \in disk[p].sections : s.kind = "code"}}
  IN  Clean => \A p, q \in Outputs : p # q =>
        \/ \A a \in code(p), b \in code(q) : a < b
        \/ \A a \in code(p), b \in code(q) : b < a

\* A run that was started ends.
RunsEnd == pc = "grouped" ~> pc \in {"done", "failed"}
=============================================================================
