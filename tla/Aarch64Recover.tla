--------------------------- MODULE Aarch64Recover ---------------------------
(***************************************************************************)
(* Recovering the relocations of one AArch64 function (delink-aarch64,     *)
(* recover.rs): a linear scan that remembers which register holds the page *)
(* of which `adrp' and pairs it with the instruction that adds the low     *)
(* twelve bits.                                                            *)
(*                                                                         *)
(* The function is chosen one instruction at a time.  Next to the scan the *)
(* model keeps what the machine really does: the `adrp' instructions whose *)
(* value each register may hold when control arrives at this point.        *)
(* Registers are operands as the disassembler names them, so x0 and w0 are *)
(* two operands over one register.                                         *)
(***************************************************************************)
EXTENDS Integers, Sequences, FiniteSets

CONSTANTS
  Insns,      \* instructions the function may consist of
  Length,     \* bound on the number of instructions
  PageSize,   \* 4096
  Start,      \* the first address of the function itself
  Own,        \* all its addresses
  Entries,    \* the first addresses of known functions, and PLT stubs
  Places,     \* code address -> where it is when the objects are linked again
  Named,      \* data addresses resolve_data finds a name for
  Slots,      \* .got address -> address of the symbol in that slot
  Shift       \* how far data moves when the objects are linked again

\* An operand register: number n, seen as w (32 bits) or x.
Register == [n : Nat, w : BOOLEAN]

\* mnemonic, register operands in order; the memory operand's base, its
\* displacement, whether it is indexed; the immediate (page of an adrp, low
\* bits of an add, target of a branch).  Then what the architecture says of
\* the instruction: the register numbers it writes, the width of its access.
Insn ==
  [m : STRING, regs : Seq(Register), base : Register, mem : BOOLEAN,
   disp : Nat, indexed : BOOLEAN, imm : Nat, hasImm : BOOLEAN,
   writes : SUBSET Nat, width : Nat]

ASSUME RecoverAssumption ==
  /\ \A i \in Insns : i \in Insn
  /\ Length \in Nat /\ PageSize \in Nat \ {0} /\ Shift \in Int

\* The function stays in one piece, as every function of the binary does.
ASSUME PlacesAssumption ==
  /\ Start \in Own \cap Entries /\ Own \cup Entries \subseteq DOMAIN Places
  /\ \A a \in DOMAIN Places : a \in Int /\ Places[a] \in Int
  /\ \A a \in Own : Places[a] = Places[Start] + (a - Start)

VARIABLES
  offset,     \* offset of the next instruction
  tracker,    \* operand register -> the adrp site it is believed to hold
  relocs,     \* the relocations recovered so far
  holds,      \* register number -> what it may really hold; {}: not reached
  jumps,      \* what registers hold at branches to labels further down
  uses,       \* the address-forming instructions the machine ran
  dropped,    \* adrp sites that came past a call or by a branch, not straight down
  called,     \* the direct branches executed and their targets
  unresolved  \* the calls counted as unresolved (bl_unresolved)

vars == <<offset, tracker, relocs, holds, jumps, uses, dropped, called, unresolved>>

Site == [at : Nat, page : Nat]
\* A value that is no adrp's.
Other == [at |-> -1, page |-> 0]

Numbers == UNION {{i.regs[k].n : k \in DOMAIN i.regs} \cup {i.base.n} : i \in Insns}

-----------------------------------------------------------------------------
(* Reading an instruction: the heuristics of recover.rs *)

Stores == {"str", "strb", "strh", "stp", "stnp", "stur", "sturb", "sturh"}

\* Mnemonics that begin with a `b'.
StartsWithB == {"b", "bl", "br", "blr", "b.cond", "bic", "bfi", "bfxil"}

\* write_regs: how many register operands a mnemonic is taken to write.
NumWrites(m) ==
  IF m \in Stores \cup StartsWithB \cup
           {"cmp", "cmn", "tst", "ccmp", "ccmn", "ret", "cbz", "cbnz", "tbz", "tbnz"}
  THEN 0
  ELSE IF m \in {"ldp", "ldnp", "ldaxp", "ldxp"} THEN 2 ELSE 1

WriteRegs(insn) ==
  {insn.regs[k] : k \in {j \in DOMAIN insn.regs : j <= NumWrites(insn.m)}}

IsMem(m) ==
  m \in {"ldr", "ldrb", "ldrh", "ldrsb", "ldrsh", "ldrsw", "ldur", "str", "strb",
         "strh", "stur", "ldp", "stp"}

\* lo_kind_for_mem, as the scale of the LDST<n>_ABS_LO12_NC it selects.
ScaleOf(m) ==
  CASE m \in {"ldrb", "strb", "ldrsb"} -> 1
    [] m \in {"ldrh", "strh", "ldrsh"} -> 2
    [] m = "ldrsw" -> 4
    [] OTHER -> 8

AddImmediate(insn) == insn.m = "add" /\ Len(insn.regs) = 2 /\ insn.hasImm

\* The operand through which an instruction can complete an adrp.
PairBase(insn) ==
  IF AddImmediate(insn) THEN {insn.regs[2]}
  ELSE IF IsMem(insn.m) /\ insn.mem /\ ~insn.indexed THEN {insn.base}
  ELSE {}

\* What the proofs take for granted of the instructions.
AdrpRegisters(insns) == {i.regs[1] : i \in {j \in insns : j.m = "adrp"}}

Leaves == {"bl", "blr", "b", "br", "ret"}

\* An adrp loads one 64-bit register, an address is formed from 64-bit
\* registers, and write_regs tells which registers of an adrp are overwritten.
WritesReported(insns) ==
  \A i \in insns :
    /\ i.m = "add" => i.regs # <<>>
    /\ i.m = "adrp" => i.regs # <<>> /\ ~i.regs[1].w /\ i.writes = {i.regs[1].n}
    /\ \A r \in PairBase(i) : ~r.w
    /\ i.m \notin Leaves =>
         \A r \in AdrpRegisters(insns) : r \in WriteRegs(i) <=> r.n \in i.writes

\* The scale of a relocation is the width of the access it is for.
WidthsTold(insns) ==
  \A i \in insns : PairBase(i) # {} /\ IsMem(i.m) => i.width = ScaleOf(i.m)

\* Direct branches; cbz and tbz are like a conditional b.
Branches == {"bl", "b", "b.cond"}

\* A jump stays in the function or goes to the start of one; calls may go
\* anywhere, into the middle of another function too.
JumpsOfStarts(insns) ==
  \A i \in insns :
    /\ i.m \in Branches => i.imm \in DOMAIN Places
    /\ i.m = "b" => i.imm \in Own \cup Entries
    /\ i.m = "b.cond" => i.imm \in Own

LowBits(insn) == IF AddImmediate(insn) THEN insn.imm ELSE insn.disp

Forget(regs) == [r \in DOMAIN tracker \ regs |-> tracker[r]]

-----------------------------------------------------------------------------
(* Relocations *)

Reloc(kind, at, target, scale, with) ==
  [kind |-> kind, at |-> at, target |-> target, scale |-> scale, with |-> with]

\* Mutant: a GOT slot is referenced like a variable.
PairIgnoringGot(site, insn, a) ==
  LET scale == IF AddImmediate(insn) THEN 1 ELSE ScaleOf(insn.m)
      name  == IF a \in DOMAIN Slots THEN {Slots[a]} ELSE {a} \cap Named
  IN  UNION {{Reloc("page", site.at, t, 1, offset), Reloc("low", offset, t, scale, site.at)} :
               t \in name}

\* emit_adrp_pair: both halves, or none when the address has no name.  A
\* doubleword load from .got keeps its slot; anything else is given the
\* symbol itself.
PairRelocs(site, insn, a) ==
  LET scale == IF AddImmediate(insn) THEN 1 ELSE ScaleOf(insn.m)
      name  == IF a \in DOMAIN Slots /\ scale = 8 THEN {a}
               ELSE IF a \in DOMAIN Slots THEN {Slots[a]}
               ELSE {a} \cap Named
  IN  UNION {{Reloc("page", site.at, t, 1, offset), Reloc("low", offset, t, scale, site.at)} :
               t \in name}

\* Mutant: an address inside a function gets the function's symbol, without
\* the distance from its start.
BranchRelocsToOwner(insn) ==
  {Reloc("branch", offset, e, 1, offset) :
     e \in {f \in Entries : f <= insn.imm /\ \A g \in Entries : g <= insn.imm => g <= f}}

\* handle_branch: only the first address of a function, or a stub, has a name.
BranchRelocs(insn) ==
  IF insn.imm \in Entries THEN {Reloc("branch", offset, insn.imm, 1, offset)} ELSE {}

\* A call without a name is counted; a jump without one is taken for a jump
\* inside the function.
Unnamed(insn) == IF insn.m = "bl" /\ insn.imm \notin Entries THEN {offset} ELSE {}

-----------------------------------------------------------------------------
(* What the machine does *)

Reached == \A n \in Numbers : holds[n] # {}

Holding(n) == holds[n] \ {Other}

RealBases(insn) == {r.n : r \in PairBase(insn)}

\* The instruction forms an address from an adrp; was the adrp still tracked?
UsesOf(insn) ==
  {[at |-> offset, site |-> s, target |-> s.page + LowBits(insn),
    width |-> IF AddImmediate(insn) THEN 1 ELSE insn.width,
    tracked |-> s \notin dropped] : s \in UNION {Holding(n) : n \in RealBases(insn)}}

AfterInsn(insn) ==
  [n \in Numbers |->
     IF n \notin insn.writes THEN holds[n]
     ELSE IF insn.m = "adrp" THEN {[at |-> offset, page |-> insn.imm]} ELSE {Other}]

\* Compiled code: where a register is used to form an address, what it holds
\* does not depend on how control came here, and the address is one of data.
WellFormed(insn) ==
  \A n \in RealBases(insn) :
    /\ Holding(n) # {} => Cardinality(holds[n]) = 1
    /\ \A s \in Holding(n) : s.page + LowBits(insn) \in Named \cup DOMAIN Slots

-----------------------------------------------------------------------------
(* The scan *)

Init ==
  /\ offset = 0 /\ tracker = <<>> /\ relocs = {}
  /\ holds = [n \in Numbers |-> {Other}]
  /\ jumps = {} /\ uses = {} /\ dropped = {} /\ called = {} /\ unresolved = {}

Execute(insn) ==
  /\ offset < Length /\ Reached /\ WellFormed(insn)
  /\ offset' = offset + 1
  /\ uses' = uses \cup UsesOf(insn)
  /\ called' = IF insn.m \in Branches
                THEN called \cup {[at |-> offset, target |-> insn.imm]} ELSE called

Adrp(insn) ==
  /\ insn.m = "adrp" /\ Execute(insn)
  /\ tracker' = [r \in DOMAIN tracker \cup {insn.regs[1]} |->
                   IF r = insn.regs[1] THEN [at |-> offset, page |-> insn.imm]
                   ELSE tracker[r]]
  /\ holds' = AfterInsn(insn)
  /\ UNCHANGED <<relocs, jumps, dropped, unresolved>>

Pairs(insn) ==
  UNION {PairRelocs(tracker[r], insn, tracker[r].page + LowBits(insn)) :
           r \in PairBase(insn) \cap DOMAIN tracker}

\* Mutant: the base register is forgotten with the destination.
AddForgetsBase(insn) ==
  /\ insn.m = "add" /\ Execute(insn)
  /\ relocs' = relocs \cup Pairs(insn)
  /\ tracker' = Forget({insn.regs[1], insn.regs[2]})
  /\ holds' = AfterInsn(insn)
  /\ UNCHANGED <<jumps, dropped, unresolved>>

\* `add' with an immediate or registers only; its destination is clobbered.
Add(insn) ==
  /\ insn.m = "add" /\ Execute(insn)
  /\ relocs' = relocs \cup Pairs(insn)
  /\ tracker' = Forget({insn.regs[1]})
  /\ holds' = AfterInsn(insn)
  /\ UNCHANGED <<jumps, dropped, unresolved>>

\* Mutant: the load leaves the tracker alone.
MemoryKeepsTracker(insn) ==
  /\ IsMem(insn.m) /\ Execute(insn)
  /\ relocs' = relocs \cup Pairs(insn)
  /\ holds' = AfterInsn(insn)
  /\ UNCHANGED <<tracker, jumps, dropped, unresolved>>

Memory(insn) ==
  /\ IsMem(insn.m) /\ Execute(insn)
  /\ relocs' = relocs \cup Pairs(insn)
  /\ tracker' = Forget(WriteRegs(insn))
  /\ holds' = AfterInsn(insn)
  /\ UNCHANGED <<jumps, dropped, unresolved>>

\* Everything the scan knows is forgotten.
ForgetAll ==
  /\ tracker' = <<>>
  /\ dropped' = dropped \cup UNION {Holding(n) : n \in Numbers}

\* A call returns: registers it does not write keep their value.
Call(insn) ==
  /\ insn.m \in {"bl", "blr"} /\ Execute(insn)
  /\ relocs' = IF insn.m = "bl" THEN relocs \cup BranchRelocs(insn) ELSE relocs
  /\ unresolved' = unresolved \cup Unnamed(insn)
  /\ holds' = AfterInsn(insn)
  /\ ForgetAll
  /\ UNCHANGED jumps

\* The next instruction is not reached from here, but a label may be.
Leave(insn) ==
  /\ insn.m \in {"b", "br", "ret"} /\ Execute(insn)
  /\ relocs' = IF insn.m = "b" THEN relocs \cup BranchRelocs(insn) ELSE relocs
  /\ jumps' = IF insn.m = "b" /\ insn.imm \in Own THEN jumps \cup {holds} ELSE jumps
  /\ holds' = [n \in Numbers |-> {}]
  /\ ForgetAll
  /\ UNCHANGED unresolved

\* Every other instruction; conditional branches fall through.
Generic(insn) ==
  /\ ~IsMem(insn.m) /\ insn.m \notin {"adrp", "add", "bl", "blr", "b", "br", "ret"}
  /\ Execute(insn)
  /\ tracker' = Forget(WriteRegs(insn))
  /\ jumps' = IF insn.m = "b.cond" THEN jumps \cup {holds} ELSE jumps
  /\ holds' = AfterInsn(insn)
  /\ UNCHANGED <<relocs, dropped, unresolved>>

\* The next instruction is the target of a branch further up.  The scan does
\* not look at labels.
Label ==
  /\ offset < Length
  /\ \E from \in jumps :
       /\ holds' = [n \in Numbers |-> holds[n] \cup from[n]]
       /\ dropped' = dropped \cup UNION {from[n] \ (holds[n] \cup {Other}) : n \in Numbers}
  /\ UNCHANGED <<offset, tracker, relocs, jumps, uses, called, unresolved>>

Finished ==
  /\ offset = Length \/ (~Reached /\ jumps = {})
  /\ UNCHANGED vars

Next ==
  \/ \E insn \in Insns :
       Adrp(insn) \/ Add(insn) \/ Memory(insn) \/ Call(insn) \/ Leave(insn) \/ Generic(insn)
  \/ Label
  \/ Finished

Spec == Init /\ [][Next]_vars

-----------------------------------------------------------------------------
(* Linking again (external: ld) *)

PageOf(a) == a - (a % PageSize)

\* The address the machine forms once data has moved by Shift: the page half
\* of the adrp, the scaled field of the second instruction.
FormedAddress(use, page, low) ==
  PageOf(page.target + Shift)
    + (((low.target + Shift) % PageSize) \div low.scale) * use.width

\* Where the branch at offset b.at goes: to the symbol of its relocation, or as
\* far from itself as before.
Lands(b) ==
  LET named == {r \in relocs : r.kind = "branch" /\ r.at = b.at}
  IN  IF named # {} THEN {Places[r.target] : r \in named}
      ELSE {(Places[Start] + b.at) + (b.target - (Start + b.at))}

\* What compilers see to.  An adrp serves addresses that stay on one page
\* wherever the data goes, data keeps its alignment, and the linker's slots
\* are read whole.
Compiled ==
  /\ \A u, v \in uses : u.site = v.site => PageOf(u.target + Shift) = PageOf(v.target + Shift)
  /\ \A u \in uses : ((u.target + Shift) % PageSize) % u.width = 0
  /\ \A u \in uses : u.target \in DOMAIN Slots => u.width = 8

-----------------------------------------------------------------------------
(* Properties *)

\* The type invariant.
TypeOK ==
  /\ offset \in 0..Length
  /\ \A r \in DOMAIN tracker : r \in Register /\ tracker[r] \in Site
  /\ \A r \in relocs : r.kind \in {"page", "low", "branch"} /\ r.at \in 0..(offset - 1)
  /\ \A n \in Numbers : holds[n] \subseteq Site \cup {Other}
  /\ \A u \in uses : u.site \in Site

\* Every pair the scan recovers is one the machine executes: the base register
\* really holds the adrp it is paired with.
PairsAreReal ==
  \A l \in relocs : l.kind = "low" =>
    \E u \in uses : u.at = l.at /\ u.site.at = l.with

\* Every address formed from an adrp that came straight down to its use, past
\* no call and by no branch, is recovered.
TrackedPairsFound ==
  \A u \in uses : u.tracked =>
    \E l \in relocs : l.kind = "low" /\ l.at = u.at /\ l.with = u.site.at

\* After linking again every recovered pair forms the address of the data it
\* was written for, at its new place.
RelinkedAddresses ==
  \A u \in uses, page, low \in relocs :
    /\ low.kind = "low" /\ low.at = u.at /\ low.with = u.site.at
    /\ page.kind = "page" /\ page.at = u.site.at
    => FormedAddress(u, page, low) = u.target + Shift

\* After linking again every branch goes where it went, wherever its target is
\* placed; one that does not is a call into the middle of a function, and was
\* counted for the summary of the run.
RelinkedBranches ==
  \A b \in called :
    Lands(b) # {Places[b.target]} => b.target \notin Entries /\ b.at \in unresolved
=============================================================================
