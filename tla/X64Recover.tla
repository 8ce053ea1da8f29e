----------------------------- MODULE X64Recover -----------------------------
(***************************************************************************)
(* Recovering the relocations of one x86-64 function of a PE image         *)
(* (delink-x86_64, recover.rs) and what the linker makes of them           *)
(* (delink-pe, emit.rs).  A linear scan relocates near branches and        *)
(* rip-relative operands, remembers which registers hold __ImageBase, and  *)
(* through them finds the jump tables behind the code; offsets of          *)
(* thread-local variables are relocated if the function turns out to       *)
(* access thread-local storage.                                            *)
(*                                                                         *)
(* The code is chosen one instruction at a time, the tables behind it      *)
(* beforehand.  Next to the scan the model keeps what the processor does:  *)
(* which registers hold the image base when control arrives, and the       *)
(* fields of the function that designate an address.                       *)
(***************************************************************************)
EXTENDS Integers, Sequences, FiniteSets, FiniteSetsExt

CONSTANTS
  Insns,      \* instructions the code may consist of
  Junk,       \* what the bytes behind the code may decode as
  Length,     \* bound on the number of instructions of the code
  Tails,      \* what may follow the code: sequences of 4-byte words
  Own,        \* the address of the function
  CodeSize,   \* bytes of code; the words of the tail follow
  Base,       \* the image base
  Symbols,    \* the other symbols: address -> size
  Code,       \* the functions among them
  Secrel,     \* offsets of thread-local variables in .tls
  Placed,     \* where the linker puts each symbol, Own and Base
  PlacedTls,  \* and each thread-local variable
  Volatile,   \* registers a called function may change
  Admitted    \* shapes of compiled code the function may have, see WellFormed

\* What the instruction is and its length; its memory operand, the absolute
\* target or the displacement, where that is in the instruction and how many
\* bytes of immediate follow it; the register a `lea' loads; whether it reads
\* gs:[0x58], whether its immediate is the offset of a thread-local variable;
\* the registers iced-x86 reports as written and as updated (read too, or
\* written on a condition); the registers it really changes.
Insn ==
  [m : {"call", "jmp", "jcc", "jmpreg", "lea", "movimm", "other", "ret", "invalid"},
   len : 1..15, mem : {"none", "rip", "reg"}, base : Nat, target : Nat, at : Nat,
   imm : Nat, dst : Nat, gs : BOOLEAN, tls : BOOLEAN,
   sets : SUBSET Nat, updates : SUBSET Nat, writes : SUBSET Nat]

Loads(insn) == insn.m = "lea" /\ insn.mem = "rip" /\ insn.target = Base
IsBranch(insn) == insn.m \in {"call", "jmp", "jcc"}

\* The registers the code loads the image base into.
BaseRegisters == {i.dst : i \in {j \in Insns : Loads(j)}}

ASSUME RecoverAssumption ==
  /\ Own \in Nat \ {0} /\ CodeSize \in Nat /\ Base \in Nat /\ Length \in Nat
  /\ \A t \in Tails : t \in Seq(Nat)
  /\ \A i \in Insns \cup Junk : i \in Insn /\ (i.m = "movimm" => i.mem = "none")

\* iced-x86 reports every register an instruction changes.
ASSUME ReportAssumption ==
  \A i \in Insns : i.writes \subseteq i.sets \cup i.updates

\* What the bytes of the tables decode as has no operand of its own.
ASSUME JunkAssumption ==
  \A i \in Junk : ~IsBranch(i) /\ i.m # "movimm" /\ i.mem # "rip" /\ ~i.gs
                  /\ (i.mem = "reg" => i.base \notin BaseRegisters)

VARIABLES
  tail,        \* the words behind the code; 0: bytes that are no table entry
  offset,      \* offset of the next instruction
  count,       \* instructions of the code so far
  imgbase,     \* registers believed to hold the image base
  tlsContext,  \* gs:[0x58] was seen
  candidates,  \* relocations of thread-local offsets, not yet committed
  relocs,      \* the relocations recovered so far
  done,        \* recover has returned
  written,     \* registers whose last write in the text loaded the base
  holds,       \* register -> whether it may hold the base; {}: not reached
  jumps,       \* registers at the branches to labels further down
  fields       \* the fields that designate an address

vars == <<tail, offset, count, imgbase, tlsContext, candidates, relocs, done,
          written, holds, jumps, fields>>

FnSize == CodeSize + 4 * Len(tail)
Intra(a) == a >= Own /\ a < Own + FnSize
Registers == UNION {i.sets \cup i.updates \cup {i.base, i.dst} : i \in Insns \cup Junk}

-----------------------------------------------------------------------------
(* The resolver (PeGlobalSymbols): what an address resolves to, at most one *)

Covering(a, names) ==
  {[sym |-> s, addend |-> a - s] : s \in {t \in names : t <= a /\ a < t + Symbols[t]}}

ResolveCode(a) ==
  IF Intra(a) THEN {[sym |-> Own, addend |-> a - Own]} ELSE Covering(a, Code)

ResolveData(a) ==
  IF a = Base THEN {[sym |-> Base, addend |-> 0]}
  ELSE IF Intra(a) THEN {[sym |-> Own, addend |-> a - Own]}
  ELSE Covering(a, DOMAIN Symbols)

-----------------------------------------------------------------------------
(* One instruction of the scan *)

\* The relocations of one field; `by' tells apart those that different
\* instructions ask for.
Relocs(kind, at, resolved, trailing) ==
  {[kind |-> kind, at |-> at, sym |-> r.sym, addend |-> r.addend, trailing |-> trailing,
    by |-> offset] : r \in resolved}

BranchRelocs(insn) ==
  IF insn.len >= 5 /\ ~Intra(insn.target)
  THEN Relocs("rel", offset + insn.len - 4, ResolveCode(insn.target), 0) ELSE {}

\* Mutant: the immediate behind the displacement is not counted.
RipWithoutTrailing(insn) ==
  Relocs("rel", offset + insn.at, ResolveData(insn.target), 0)

RipRelocs(insn) ==
  Relocs("rel", offset + insn.at, ResolveData(insn.target), insn.imm)

\* Word k of the tail, and the bytes it takes.
At(k) == CodeSize + 4 * (k - 1)

\* The words from offset `table' on that are entries: addresses of the
\* function in front of the table.
Entries(table) ==
  {k \in 1..Len(tail) :
     /\ At(k) >= table
     /\ \A j \in 1..k : At(j) >= table => tail[j] >= Own /\ tail[j] < Own + table}

\* A table's own symbol is the function at an offset.
TableRelocs(insn, table) ==
  IF Entries(table) = {} THEN {}
  ELSE (UNION {Relocs("rva", At(k), ResolveCode(tail[k]), 0) : k \in Entries(table)})
       \cup Relocs("rva", offset + insn.at, {[sym |-> Own, addend |-> table]}, 0)

BaseRelocs(insn) ==
  LET a == Base + insn.target
  IN  IF Intra(a) THEN TableRelocs(insn, a - Own)
      ELSE Relocs("rva", offset + insn.at, ResolveData(a), 0)

\* Mutant: a register that is also read keeps its mark.
ClearedIfOnlyWritten(insn) == imgbase \ insn.sets

\* The registers still believed to hold the base when the operands are read.
Cleared(insn) == imgbase \ (insn.sets \cup insn.updates)

MemoryRelocs(insn) ==
  IF insn.mem = "rip" THEN RipRelocs(insn)
  ELSE IF insn.mem = "reg" /\ insn.base \in Cleared(insn) THEN BaseRelocs(insn)
  ELSE {}

ThreadLocal(insn) ==
  IF insn.m = "movimm" /\ insn.target \in Secrel
  THEN Relocs("secrel", offset + insn.at, {[sym |-> insn.target, addend |-> 0]}, 0) ELSE {}

\* The body of the loop; bytes that are no instruction are passed over.
Scan(insn) ==
  /\ offset' = offset + insn.len
  /\ IF insn.m = "invalid" THEN UNCHANGED <<imgbase, tlsContext, candidates, relocs>>
     ELSE /\ tlsContext' = (tlsContext \/ insn.gs)
          /\ candidates' = candidates \cup ThreadLocal(insn)
          /\ relocs' = relocs \cup (IF IsBranch(insn) THEN BranchRelocs(insn)
                                    ELSE MemoryRelocs(insn))
          /\ imgbase' = Cleared(insn) \cup (IF Loads(insn) THEN {insn.dst} ELSE {})

-----------------------------------------------------------------------------
(* What the processor does *)

Reached == \A n \in Registers : holds[n] # {}

AfterInsn(insn) ==
  [n \in Registers |->
     IF Loads(insn) /\ n = insn.dst THEN {TRUE}
     ELSE IF n \in insn.writes \/ (insn.m = "call" /\ n \in Volatile) THEN {FALSE}
     ELSE holds[n]]

Field(kind, at, to, imm) == [kind |-> kind, at |-> at, to |-> to, imm |-> imm]

\* The entries of the table at an offset: the words up to the next that is none.
TableFields(table) ==
  {Field("rva", At(k), tail[k], 0) :
     k \in {n \in 1..Len(tail) : At(n) >= table
              /\ \A j \in 1..n : At(j) >= table => tail[j] # 0}}

\* An operand that goes through the image base, and the table it reads.
BaseFields(insn) ==
  LET a == Base + insn.target
  IN  {Field("rva", offset + insn.at, a, 0)}
      \cup (IF Intra(a) THEN TableFields(a - Own) ELSE {})

\* The fields through which the program designates an address here, or a
\* constant that looks like a thread-local offset.
FieldsOf(insn) ==
  IF IsBranch(insn)
  THEN IF insn.len >= 5 THEN {Field("rel", offset + insn.len - 4, insn.target, 0)} ELSE {}
  ELSE IF insn.mem = "rip" THEN {Field("rel", offset + insn.at, insn.target, insn.imm)}
  ELSE IF insn.mem = "reg" THEN IF holds[insn.base] = {TRUE} THEN BaseFields(insn) ELSE {}
  ELSE IF insn.m = "movimm"
  THEN {Field(IF insn.tls THEN "secrel" ELSE "const", offset + insn.at, insn.target, 0)}
  ELSE {}

\* Compiled code: what an operand reads does not depend on how control came
\* here, and what is read through the base is an object or a jump table.  If
\* not admitted otherwise, a register read as a pointer does not hold the base
\* in the lines above (reuse), a table is read once (reread) and is one of
\* addresses (index), and the base survives the reading (overwrite).
WellFormed(insn) ==
  /\ insn.m # "invalid"
  /\ insn.mem = "reg" =>
       /\ Cardinality(holds[insn.base]) = 1
       /\ "reuse" \in Admitted \/ holds[insn.base] = {insn.base \in written}
  /\ insn.mem = "reg" /\ holds[insn.base] = {TRUE} =>
       LET a == Base + insn.target
       IN  /\ "overwrite" \in Admitted \/ insn.base \notin insn.sets \cup insn.updates
           /\ Intra(a) =>
                /\ \E k \in 1..Len(tail) :
                     a = Own + At(k) /\ (tail[k] # 0 \/ "index" \in Admitted)
                /\ "reread" \in Admitted \/ \A f \in fields : f.kind = "rva" => f.to # a
           /\ ~Intra(a) => Covering(a, DOMAIN Symbols) # {}

-----------------------------------------------------------------------------

Init ==
  /\ tail \in Tails
  /\ offset = 0 /\ count = 0 /\ imgbase = {} /\ tlsContext = FALSE
  /\ candidates = {} /\ relocs = {} /\ done = FALSE
  /\ written = {} /\ holds = [n \in Registers |-> {FALSE}]
  /\ jumps = {} /\ fields = {}

\* The next instruction of the code.
Visit(insn) ==
  /\ ~done /\ count < Length /\ Reached /\ WellFormed(insn)
  /\ offset + insn.len <= CodeSize
  /\ count' = count + 1
  /\ Scan(insn)
  /\ written' = (written \ insn.writes) \cup (IF Loads(insn) THEN {insn.dst} ELSE {})
  /\ fields' = fields \cup FieldsOf(insn)
  /\ jumps' = IF insn.m = "jmpreg" \/ (insn.m \in {"jmp", "jcc"} /\ Intra(insn.target))
              THEN jumps \cup {holds} ELSE jumps
  /\ holds' = IF insn.m \in {"jmp", "jmpreg", "ret"} THEN [n \in Registers |-> {}]
              ELSE AfterInsn(insn)
  /\ UNCHANGED <<tail, done>>

\* The next instruction is a label some branch further up goes to.
Label ==
  /\ ~done /\ count < Length
  /\ \E from \in jumps : holds' = [n \in Registers |-> holds[n] \cup from[n]]
  /\ UNCHANGED <<tail, offset, count, imgbase, tlsContext, candidates, relocs, done,
                 written, jumps, fields>>

\* The code has ended and is padded up to the tables.
Pad ==
  /\ ~done /\ count > 0 /\ offset < CodeSize
  /\ offset' = CodeSize /\ count' = Length
  /\ UNCHANGED <<tail, imgbase, tlsContext, candidates, relocs, done, written, holds,
                 jumps, fields>>

\* The decoder goes on through the tables.
VisitJunk(insn) ==
  /\ ~done /\ CodeSize <= offset /\ offset + insn.len <= FnSize
  /\ Scan(insn)
  /\ UNCHANGED <<tail, count, done, written, holds, jumps, fields>>

\* Mutant: thread-local offsets are committed whether or not the access was seen.
CommitAll == relocs \cup candidates

Committed == IF tlsContext THEN relocs \cup candidates ELSE relocs

Return ==
  /\ ~done /\ offset = FnSize
  /\ relocs' = Committed /\ candidates' = {} /\ done' = TRUE
  /\ UNCHANGED <<tail, offset, count, imgbase, tlsContext, written, holds, jumps, fields>>

Finished == done /\ UNCHANGED vars

Next ==
  \/ \E insn \in Insns : Visit(insn)
  \/ \E insn \in Junk : VisitJunk(insn)
  \/ Label \/ Pad \/ Return \/ Finished

Spec == Init /\ [][Next]_vars

-----------------------------------------------------------------------------
(* Linking again (external: link.exe) *)

\* Where the object an address belongs to went.
Moved(a) ==
  IF Intra(a) THEN Placed[Own] + (a - Own)
  ELSE IF a = Base THEN Placed[Base]
  ELSE LET s == CHOOSE t \in DOMAIN Symbols : t <= a /\ a < t + Symbols[t]
       IN  Placed[s] + (a - s)

\* A function that accesses thread-local storage, or has constants that look
\* like offsets in it, but not both.
Compiled ==
  /\ tlsContext <=> \E f \in fields : f.kind = "secrel"
  /\ tlsContext => \A f \in fields : f.kind = "const" => f.to \notin Secrel

\* What the linker adds to a cleared field for a relocation, as the address it
\* means: a pc-relative one counts from the end of the instruction, wherever
\* the relocation believes that to be.
Contribution(r, f) ==
  CASE r.kind = "rel"    -> Placed[r.sym] + r.addend + (f.imm - r.trailing)
    [] r.kind = "rva"    -> Placed[r.sym] + r.addend - Placed[Base]
    [] r.kind = "secrel" -> PlacedTls[r.sym] + r.addend

\* What a field without a relocation comes to mean.
Left(f) ==
  CASE f.kind = "rel" -> f.to - Own + Placed[Own]
    [] f.kind = "rva" -> f.to - Base + Placed[Base]
    [] OTHER          -> f.to

\* Relocated fields were cleared, and every relocation at one adds to it.
Designates(f) ==
  LET here == {r \in relocs : r.at = f.at}
  IN  IF here = {} THEN Left(f)
      ELSE MapThenSumSet(LAMBDA r : Contribution(r, f), here)
           + (IF f.kind = "rva" THEN Placed[Base] ELSE 0)

Means(f) ==
  CASE f.kind = "const"  -> f.to
    [] f.kind = "secrel" -> PlacedTls[f.to]
    [] OTHER             -> Moved(f.to)

-----------------------------------------------------------------------------
(* Provisions: functions that link again as they were                       *)

\* The names lie apart from each other, from the function and from the base,
\* and the linker places them all.
SymbolsApart ==
  /\ Code \subseteq DOMAIN Symbols /\ DOMAIN Symbols \subseteq Nat
  /\ \A s \in DOMAIN Symbols : Symbols[s] \in Nat
  /\ \A s, t \in DOMAIN Symbols : s < t => s + Symbols[s] <= t
  /\ Base < Own /\ Covering(Base, DOMAIN Symbols) = {}
  /\ \A s \in {Own, Base} \cup DOMAIN Symbols : Placed[s] \in Int
  /\ \A s \in Secrel : PlacedTls[s] \in Int

\* A branch with a field goes to a function, an operand to something named,
\* and what is used as an offset in .tls is that of a variable.
TargetsNamed ==
  \A i \in Insns :
    LET inside == Own <= i.target /\ i.target < Own + CodeSize
    IN  /\ IsBranch(i) /\ i.len >= 5 => inside \/ Covering(i.target, Code) # {}
        /\ i.mem = "rip" =>
             inside \/ i.target = Base \/ Covering(i.target, DOMAIN Symbols) # {}
        /\ i.tls => i.target \in Secrel

\* A field lies in its instruction, and iced-x86 reports no register as
\* changed that stays.
Encoded ==
  \A i \in Insns :
    /\ i.mem # "none" \/ i.m = "movimm" => i.at < i.len
    /\ i.sets \cup i.updates \subseteq i.writes

\* The entries of a table are addresses of the code, and a table that is read
\* does not follow an entry of another one.
TablesApart ==
  \A t \in Tails :
    /\ \A k \in 1..Len(t) : t[k] # 0 => Own <= t[k] /\ t[k] < Own + CodeSize
    /\ \A i \in Insns, k \in 2..Len(t) :
         i.mem = "reg" /\ Base + i.target = Own + At(k) => t[k - 1] = 0

-----------------------------------------------------------------------------
(* Properties *)

\* Every relocation lies on a field that designates what a relocation of its
\* kind restores: the scan never takes a pointer for the image base, and never
\* a constant of a function without thread-local storage for an offset.
FieldsReal ==
  Compiled => \A r \in relocs : \E f \in fields : f.at = r.at /\ f.kind = r.kind

\* When the function has been recovered and linked at other addresses, every
\* branch, operand and table entry designates what it did, at its new place.
FieldsReach ==
  done /\ Compiled => \A f \in fields : Designates(f) = Means(f)
=============================================================================
