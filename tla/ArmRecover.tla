----------------------------- MODULE ArmRecover -----------------------------
(***************************************************************************)
(* Recovering the relocations of one A32 function (delink-arm, recover.rs) *)
(* and running the function once the linker has moved everything it refers *)
(* to.                                                                     *)
(*                                                                         *)
(* Code and literal pools share the bytes of a function.  A first pass     *)
(* looks for the words that are loaded as literals, up to Rounds times,    *)
(* because what lies behind a pool may only decode once the pool is known. *)
(* A second pass walks the code between the pools and remembers which      *)
(* register holds which literal; the relocation goes on the literal when   *)
(* it meets the instruction that adds the program counter.  Then the       *)
(* machine runs the function, original and relinked at once: the registers *)
(* hold literals, and a literal's old and new contents are both known.     *)
(*                                                                         *)
(* Addresses count words.  The function starts at 0.                       *)
(***************************************************************************)
EXTENDS Integers, Sequences, FiniteSets, FiniteSetsExt

CONSTANTS
  Functions,   \* the functions the scan may be given
  Rounds,      \* how often the first pass is repeated: 3
  FieldBits,   \* width of the displacement of a branch: 24
  CodeBase,    \* address in known code -> the function or stub it belongs to
  DataBase,    \* data address resolve_data finds a name for -> that symbol
  Got,         \* the addresses of .got
  Slots,       \* those that hold the address of a symbol -> the symbol
  NewSlot,     \* symbol -> its slot in the GOT of the relinked image
  Move         \* the distance the linker moves code, other functions and data

PC == 15
Bias == 2      \* PC reads two words ahead

\* What the disassembler makes of a word: mnemonic, register operands, whether
\* it has a memory operand [pc, #disp], the index of [pc, rN], a branch target;
\* and the registers the processor writes.
Insn ==
  [m : STRING, regs : Seq(Nat), lit : BOOLEAN, disp : Int, index : Nat \cup {-1},
   imm : Nat, writes : SUBSET Nat]

\* A word of the image: its contents, the instruction it decodes as (at most
\* one), whether the compiler meant it as data, and the instruction for which
\* it holds a distance (-1: a plain constant).
Word == [value : Int, insn : SUBSET Insn, data : BOOLEAN, use : Nat \cup {-1}]

ASSUME ArmAssumption ==
  /\ Rounds \in Nat \ {0} /\ FieldBits \in Nat \ {0}
  /\ Move \in [{"own", "code", "data"} -> Int]
  /\ DOMAIN Slots \subseteq Got
  /\ \A g \in Functions :
       /\ g.size \in 1..Len(g.words)
       /\ \A k \in DOMAIN g.words : Cardinality(g.words[k].insn) <= 1

VARIABLES
  f,        \* the image and the number of its words that are the function
  phase,    \* "pools", "recover", "run"
  round,    \* repetitions of the first pass so far
  pools,    \* words known to be literals
  todo,     \* instructions the second pass has still to visit
  tracker,  \* register -> the literal it is believed to hold
  relocs,   \* the relocations recovered
  cpu       \* the machine: pc, and register -> the literal it holds

vars == <<f, phase, round, pools, todo, tracker, relocs, cpu>>

-----------------------------------------------------------------------------
(* The image and its disassembly *)

Words(g) == 0..(Len(g.words) - 1)
Own(g) == 0..(g.size - 1)
At(g, a) == g.words[a + 1]
Decodes(g, a) == At(g, a).insn # {}
InsnAt(g, a) == CHOOSE i \in At(g, a).insn : TRUE

LoadsLiteral(i) == i.m \in {"ldr", "ldrd", "vldr"} /\ i.lit
Literal(i, a) == a + Bias + i.disp

\* Mutant: literals are disassembled with the code around them.
RunsAcross(g, known) ==
  {a \in Own(g) : \A b \in 0..a : Decodes(g, b)}

\* code_runs with disasm_all: between two literals the disassembly goes on
\* until the first word that is no instruction.
CodeRuns(g, known) ==
  {a \in Own(g) \ known :
     \A b \in 0..a : (\A c \in b..a : c \notin known) => Decodes(g, b)}

\* scan_pool_words: ldr, vldr and ldrd; the last two mark two words.
ScanPoolWords(g, known) ==
  LET Found(a) ==
        LET i == InsnAt(g, a)
            t == Literal(i, a)
        IN  IF t \notin Own(g) THEN {}
            ELSE {t} \cup (IF i.m = "ldr" THEN {} ELSE {t + 1} \cap Own(g))
  IN  UNION {Found(a) : a \in {b \in CodeRuns(g, known) : LoadsLiteral(InsnAt(g, b))}}

-----------------------------------------------------------------------------
(* Reading an instruction *)

\* Stores, comparisons and the like have no destination.
WritesNone == {"str", "cmp"}

\* written_registers: a whole list for ldm and pop, else the first operand.
WrittenRegisters(i) ==
  IF i.m \in WritesNone THEN {}
  ELSE {i.regs[k] : k \in {j \in DOMAIN i.regs : i.m \in {"ldm", "pop"} \/ j = 1}}

\* classify.
Class(i) ==
  CASE i.m = "bl"                                  -> "call"
    [] i.m \in {"b", "bcc"}                        -> "branch"
    [] i.m \in {"bx", "blx"}                       -> "barrier"
    [] i.m \in {"ldm", "pop"} /\ PC \in WrittenRegisters(i) -> "barrier"
    [] i.m = "ldr" /\ i.lit                        -> "pool_load"
    [] i.m = "ldr" /\ i.index # -1                 -> "pc_indexed_load"
    [] i.m = "add" /\ Len(i.regs) = 3 /\ i.regs[2] = PC -> "add_pc"
    [] OTHER                                       -> "other"

\* The register through which an instruction uses a literal.
IndexOf(i) == IF i.m = "add" THEN i.regs[3] ELSE i.index

-----------------------------------------------------------------------------
(* Relocations *)

Reloc(kind, at, sym, addend, pc) ==
  [kind |-> kind, at |-> at, sym |-> sym, addend |-> addend, pc |-> pc]

\* handle_branch: the start of a function or stub, or a function and a distance.
HandleBranch(kind, a, target) ==
  IF target \in DOMAIN CodeBase
  THEN {Reloc(kind, a, CodeBase[target], target - CodeBase[target] - Bias, a)}
  ELSE {}

\* Mutant: the distance from the literal to the instruction is left out.
PcRelUnbiased(p, a, target) ==
  IF target \in DOMAIN DataBase
  THEN {Reloc("rel32", p, DataBase[target], target - DataBase[target], a)}
  ELSE {}

\* emit_pcrel.
EmitPcRel(p, a, target) ==
  IF target \in DOMAIN DataBase
  THEN {Reloc("rel32", p, DataBase[target],
              p - (a + Bias) + target - DataBase[target], a)}
  ELSE {}

\* emit_got: the slot is named by its symbol.
EmitGot(p, a, slot) ==
  IF slot \in DOMAIN Slots
  THEN {Reloc("got", p, Slots[slot], p - (a + Bias), a)}
  ELSE {}

\* push_pool_reloc: the word must lie in the function, the first claim stays.
PushPoolReloc(new) ==
  relocs \cup {r \in new : r.at \in Own(f) /\ \A s \in relocs : s.at # r.at}

\* The literal a register is tracked to hold, used at a.
UseRelocs(i, a) ==
  IF IndexOf(i) \notin DOMAIN tracker THEN {}
  ELSE LET p == tracker[IndexOf(i)]
           target == a + Bias + At(f, p).value
       IN  IF Class(i) = "pc_indexed_load" /\ target \in Got
           THEN EmitGot(p, a, target) ELSE EmitPcRel(p, a, target)

-----------------------------------------------------------------------------
(* The machine (external: an ARM processor).  A register holds a literal,  *)
(* or -1 for anything else; "straight" are the registers whose literal     *)
(* came down to this instruction without a call or a taken branch.         *)

Registers(g) == UNION {UNION {i.writes \cup {i.regs[k] : k \in DOMAIN i.regs} \cup {i.index} :
                                i \in At(g, a).insn} : a \in Words(g)}

Start(g) == [pc |-> 0, regs |-> [r \in Registers(g) |-> -1], straight |-> {}]

\* What the instruction leaves in a register it writes.
Loaded(g, i, a, r) ==
  IF ~LoadsLiteral(i) THEN -1
  ELSE IF r = i.regs[1] THEN Literal(i, a) ELSE Literal(i, a) + 1

\* The configurations one instruction can lead to; none when control leaves
\* the function for good.
Successors(g, c) ==
  LET i     == InsnAt(g, c.pc)
      after == [r \in DOMAIN c.regs |->
                  IF r \in i.writes THEN Loaded(g, i, c.pc, r) ELSE c.regs[r]]
      next  == [pc |-> c.pc + 1, regs |-> after,
                straight |-> IF i.m \in {"bl", "blx"} THEN {}
                             ELSE IF i.m = "ldr" /\ i.lit THEN c.straight \cup i.writes
                             ELSE c.straight \ i.writes]
      jump  == [next EXCEPT !.pc = i.imm, !.straight = {}]
  IN  (IF i.m \in {"b", "bx"} \/ PC \in i.writes THEN {} ELSE {next})
        \cup (IF i.m \in {"b", "bcc"} /\ i.imm \in Own(g) THEN {jump} ELSE {})

\* The instruction forms an address from the literal in a register.
Uses(g, c) ==
  LET i == InsnAt(g, c.pc)
  IN  IF Class(i) \in {"add_pc", "pc_indexed_load"} THEN {c.regs[IndexOf(i)]} ELSE {}

\* The instruction looks at the value in a register as it is.
Reads(g, c) ==
  LET i == InsnAt(g, c.pc)
  IN  IF i.m \in WritesNone THEN {c.regs[i.regs[1]]} \ {-1} ELSE {}

\* Every configuration of the function after at most n instructions.
Reachable(g, n) ==
  LET R[k \in 0..n] ==
        IF k = 0 THEN {Start(g)}
        ELSE LET S == R[k - 1] IN
             S \cup UNION {Successors(g, c) : c \in {d \in S : d.pc \in Own(g) /\ Decodes(g, d.pc)}}
  IN  R[n]

\* Compiled code runs instructions only; it adds the program counter to the
\* distance computed for that very place, to an address of data or, for a
\* load, to a slot of the GOT; it reads other literals as they are.
WellFormed(g) ==
  \A c \in Reachable(g, Len(g.words) + 2) :
    /\ c.pc \in Own(g) /\ ~At(g, c.pc).data
    /\ \A p \in Uses(g, c) :
         /\ p # -1
         /\ At(g, p).data /\ At(g, p).use = c.pc
         /\ Class(InsnAt(g, c.pc)) = "add_pc"
              => c.pc + Bias + At(g, p).value \notin Got
    /\ \A p \in Reads(g, c) : At(g, p).data /\ At(g, p).use = -1

-----------------------------------------------------------------------------
(* The two passes *)

Init ==
  /\ f \in Functions
  /\ phase = "pools" /\ round = 0 /\ pools = {} /\ todo = {}
  /\ tracker = <<>> /\ relocs = {} /\ cpu = Start(f)

\* One round of the first pass; the last one, or one that finds nothing new,
\* leads to the second pass.
ScanPools ==
  LET grown == pools \cup ScanPoolWords(f, pools)
  IN  /\ phase = "pools"
      /\ pools' = grown /\ round' = round + 1
      /\ IF grown = pools \/ round' = Rounds
         THEN phase' = "recover" /\ todo' = CodeRuns(f, grown)
         ELSE UNCHANGED <<phase, todo>>
      /\ UNCHANGED <<f, tracker, relocs, cpu>>

Visit(class) ==
  /\ phase = "recover" /\ todo # {}
  /\ Class(InsnAt(f, Min(todo))) = class
  /\ todo' = todo \ {Min(todo)}
  /\ UNCHANGED <<f, phase, round, pools, cpu>>

Here == Min(todo)
Current == InsnAt(f, Here)

Forget(regs) == [r \in DOMAIN tracker \ regs |-> tracker[r]]

Call ==
  /\ Visit("call")
  /\ relocs' = relocs \cup HandleBranch("call", Here, Current.imm)
  /\ tracker' = <<>>

\* Branches inside the function keep their displacement, and the tracker goes
\* on past them, an unconditional one included.
Branch ==
  /\ Visit("branch")
  /\ relocs' = IF Current.imm \in Own(f) THEN relocs
               ELSE relocs \cup HandleBranch("jump24", Here, Current.imm)
  /\ UNCHANGED tracker

PoolLoad ==
  LET rd == Current.regs[1]
      p  == Literal(Current, Here)
  IN  /\ Visit("pool_load")
      /\ tracker' = IF p \in Words(f)
                    THEN [r \in DOMAIN tracker \cup {rd} |-> IF r = rd THEN p ELSE tracker[r]]
                    ELSE Forget({rd})
      /\ UNCHANGED relocs

AddPc ==
  /\ Visit("add_pc")
  /\ relocs' = PushPoolReloc(UseRelocs(Current, Here))
  /\ tracker' = Forget({Current.regs[1]})

PcIndexedLoad ==
  /\ Visit("pc_indexed_load")
  /\ relocs' = PushPoolReloc(UseRelocs(Current, Here))
  /\ tracker' = Forget({Current.regs[1]})

Other ==
  /\ Visit("other")
  /\ tracker' = Forget(WrittenRegisters(Current))
  /\ UNCHANGED relocs

Barrier ==
  /\ Visit("barrier")
  /\ tracker' = <<>>
  /\ UNCHANGED relocs

\* The object is written and linked.
Link ==
  /\ phase = "recover" /\ todo = {} /\ phase' = "run"
  /\ UNCHANGED <<f, round, pools, todo, tracker, relocs, cpu>>

Execute ==
  /\ phase = "run"
  /\ cpu' \in Successors(f, cpu)
  /\ UNCHANGED <<f, phase, round, pools, todo, tracker, relocs>>

Returned ==
  /\ phase = "run" /\ Successors(f, cpu) = {}
  /\ UNCHANGED vars

Next ==
  \/ ScanPools
  \/ Call \/ Branch \/ PoolLoad \/ AddPc \/ PcIndexedLoad \/ Other \/ Barrier
  \/ Link \/ Execute \/ Returned

Spec == Init /\ [][Next]_vars

-----------------------------------------------------------------------------
(* Linking again.  ARM objects keep the addend in the relocated field.     *)

\* Mutant: the addend is not written into the branch.
FieldUntouched(r) == InsnAt(f, r.at).imm - r.at - Bias

\* apply_addend for a branch, and what the linker reads back from the field.
BranchField(r) ==
  LET half == 2 ^ (FieldBits - 1)
      field == r.addend % (2 * half)
  IN  IF field >= half THEN field - 2 * half ELSE field

\* External: where the linker puts an address.
Moved(a) ==
  a + (IF a \in Words(f) THEN Move["own"]
       ELSE IF a \in DOMAIN CodeBase THEN Move["code"] ELSE Move["data"])

\* External: the relinked contents of a literal.
LinkedWord(p) ==
  LET of == {r \in relocs : r.at = p /\ r.kind \in {"rel32", "got"}}
  IN  IF of = {} THEN At(f, p).value
      ELSE LET r == CHOOSE x \in of : TRUE
           IN  (IF r.kind = "got" THEN NewSlot[r.sym] ELSE Moved(r.sym))
                 + r.addend - Moved(p)

\* External: where a relinked branch goes.
LinkedTarget(a) ==
  LET of == {r \in relocs : r.at = a /\ r.kind \in {"call", "jump24"}}
  IN  IF of = {} THEN InsnAt(f, a).imm + Move["own"]
      ELSE LET r == CHOOSE x \in of : TRUE
           IN  Moved(r.sym) + BranchField(r) + Bias

\* What an address is the address of: slots are told apart by their symbol.
Meaning(a) == IF a \in Got THEN IF a \in DOMAIN Slots THEN NewSlot[Slots[a]] ELSE a
              ELSE Moved(a)

-----------------------------------------------------------------------------
(* Properties *)

Relocated(p) == \E r \in relocs : r.at = p

\* Whatever path the machine takes, an address formed from a relocated literal
\* is the moved address of what the original function addressed, and a literal
\* read as it is has kept its value: no relocation was put on the wrong word,
\* of the wrong kind or with the wrong addend (recover, emit_pcrel, emit_got,
\* push_pool_reloc).
LiteralsRelinked ==
  phase = "run" =>
    /\ \A p \in Uses(f, cpu) : Relocated(p) =>
         Moved(cpu.pc) + Bias + LinkedWord(p) = Meaning(cpu.pc + Bias + At(f, p).value)
    /\ \A p \in Reads(f, cpu) : LinkedWord(p) = At(f, p).value
    /\ \A p \in Uses(f, cpu) \cup Reads(f, cpu), r \in relocs :
         r.at = p => r.kind \in {"rel32", "got"}

\* A literal that came straight down to its use, lies in the function and
\* stands for something with a name is relocated: the scan loses none, and no
\* pool hides the instructions behind it (scan_pool_words, code_runs).
StraightUsesRelocated ==
  phase = "run" =>
    \A p \in Uses(f, cpu) :
      /\ IndexOf(InsnAt(f, cpu.pc)) \in cpu.straight
      /\ p \in Own(f)
      /\ cpu.pc + Bias + At(f, p).value \in DOMAIN DataBase \cup DOMAIN Slots
      => Relocated(p)

\* Every branch the machine takes to known code arrives at its new place, and
\* no relocation has overwritten an instruction (handle_branch, apply_addend).
BranchesArrive ==
  phase = "run" =>
    LET i == InsnAt(f, cpu.pc)
    IN  /\ i.m \in {"bl", "b", "bcc"} /\ i.imm \in Own(f) \cup DOMAIN CodeBase
             => LinkedTarget(cpu.pc) = Moved(i.imm)
        /\ \A r \in relocs : r.at = cpu.pc => r.kind \in {"call", "jump24"}
=============================================================================
