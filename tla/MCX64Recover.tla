---------------------------- MODULE MCX64Recover ----------------------------
(* Functions of a few instructions over rax, rcx and rdx (0, 1, 2), at 1000, *)
(* with 36 bytes of code; another function at 2000, data at 3000.            *)
EXTENDS X64Recover

Plain(m, len) ==
  [m |-> m, len |-> len, mem |-> "none", base |-> 0, target |-> 0, at |-> 0, imm |-> 0,
   dst |-> 0, gs |-> FALSE, tls |-> FALSE, sets |-> {}, updates |-> {}, writes |-> {}]

Writes(insn, regs) == [insn EXCEPT !.sets = regs, !.writes = regs]
Updates(insn, regs) == [insn EXCEPT !.updates = regs, !.writes = regs]
To(m, len, target) == [Plain(m, len) EXCEPT !.target = target]
Rip(m, len, at, imm, target) ==
  [Plain(m, len) EXCEPT !.mem = "rip", !.at = at, !.imm = imm, !.target = target]
Mem(len, at, base, disp) ==
  [Plain("other", len) EXCEPT !.mem = "reg", !.at = at, !.base = base, !.target = disp]
MovImm(value, tls) ==
  Writes([To("movimm", 5, value) EXCEPT !.at = 1, !.tls = tls], {0})

MCOwn == 1000
MCBase == 100
MCSymbols == [a \in {2000, 3000} |-> 16]
MCPlaced == [a \in {100, 1000, 2000, 3000} |->
               CASE a = 100 -> 64 [] a = 1000 -> 5000 [] a = 2000 -> 4000 [] a = 3000 -> 9000]
MCPlacedTls == [a \in {8} |-> 24]

\* lea rdx, [rip+__ImageBase]; mov ecx, [rdx+rax*4+rva]; add rcx, rdx; jmp rcx.
\* The first table is at 1036, another one at 1048.
Common ==
  { Writes([Rip("lea", 7, 3, 0, 100) EXCEPT !.dst = 2], {2}),
    Writes(Mem(7, 3, 2, 1036 - 100), {1}),
    Writes(Mem(7, 3, 2, 1048 - 100), {1}),
    Writes(Mem(7, 3, 2, 3004 - 100), {0}),
    Updates(Plain("other", 3), {1}),
    Updates(Plain("other", 3), {2}),
    Writes(Mem(2, 0, 2, 0), {0}),
    Plain("jmpreg", 2),
    Rip("other", 7, 2, 1, 3008),
    To("jcc", 6, 1020),
    To("jcc", 2, 1020),
    To("jmp", 5, 2000),
    To("call", 5, 2000),
    Writes([Plain("other", 9) EXCEPT !.gs = TRUE], {0}),
    MovImm(8, TRUE),
    MovImm(8, FALSE) }

\* The shapes the passing run leaves out also need mov edx, [rdx+rax*4+rva]
\* (overwrite) and movzx eax, byte ptr [rdx+rax+rva] of the index table at 1044.
ShapeInsns ==
  Common \cup { Writes(Mem(7, 3, 2, 3004 - 100), {2}), Writes(Mem(7, 3, 2, 1044 - 100), {0}) }

\* add [rax], al; xor al, imm8 and a prefix; bytes that decode as nothing.
MCJunk ==
  { Mem(4, 0, 0, 0),
    Updates(Plain("other", 4), {0}),
    Plain("invalid", 4) }

\* A table of two entries; the bytes of an index table; a table of one entry.
MCTails == { <<>>, <<1010, 1020, 0, 1030>> }

\* Two tables one behind the other.
AdjacentTails == { <<1010, 1020, 1015, 1030>> }

\* The functions of the passing run are ones that link again as they were.
ASSUME MCProvisions ==
  Admitted = {} => SymbolsApart /\ TargetsNamed /\ Encoded /\ (Tails = MCTails => TablesApart)
=============================================================================
