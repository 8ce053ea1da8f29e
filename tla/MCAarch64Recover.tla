-------------------------- MODULE MCAarch64Recover --------------------------
(* Functions of a few instructions over x0, x1 and x2, in pages of 64 bytes: *)
(* the data page 128 and the .got page 192.                                  *)
EXTENDS Aarch64Recover

X(n) == [n |-> n, w |-> FALSE]
W(n) == [n |-> n, w |-> TRUE]

Plain(m, regs, writes) ==
  [m |-> m, regs |-> regs, base |-> X(0), mem |-> FALSE, disp |-> 0, indexed |-> FALSE,
   imm |-> 0, hasImm |-> FALSE, writes |-> writes, width |-> 1]

Imm(m, regs, imm, writes) == [Plain(m, regs, writes) EXCEPT !.imm = imm, !.hasImm = TRUE]

Mem(m, regs, base, disp, width, writes) ==
  [Plain(m, regs, writes) EXCEPT !.mem = TRUE, !.base = base, !.disp = disp, !.width = width]

\* 320 is the function itself, 400 another one, 500 a PLT stub, 408 an entry
\* point folded into the function at 400.  Linked again, the stub comes first
\* and the other function is further away.
MCOwn     == 320..327
MCEntries == {320, 400, 500}
MCPlaces  ==
  [a \in MCOwn \cup {400, 408, 500} |->
     IF a \in MCOwn THEN a + 80 ELSE IF a = 500 THEN 360 ELSE a + 200]
\* One object aligned to 16 bytes, which is why one adrp may serve several
\* addresses; it moves by a multiple of 16.
MCNamed     == {144, 146, 152}
MCSlots     == [a \in {200} |-> 216]

Common ==
  { Imm("adrp", <<X(0)>>, 128, {0}),
    Imm("adrp", <<X(1)>>, 128, {1}),
    Imm("adrp", <<X(1)>>, 192, {1}),
    Imm("add", <<X(0), X(0)>>, 16, {0}),
    Imm("add", <<X(1), X(0)>>, 24, {1}),
    Plain("add", <<X(0), X(1), X(2)>>, {0}),
    Mem("ldr", <<X(1)>>, X(1), 8, 8, {1}),
    Mem("ldr", <<X(0)>>, X(1), 24, 8, {0}),
    Mem("str", <<X(0)>>, X(1), 16, 8, {}),
    Mem("ldp", <<X(0), X(1)>>, X(2), 16, 8, {0, 1}),
    Plain("mov", <<X(0), X(2)>>, {0}),
    Imm("b.cond", <<>>, 324, {}),
    Imm("b", <<>>, 324, {}),
    Imm("bl", <<>>, 500, {0, 2}),
    Plain("ret", <<>>, {}) }

\* Byte accesses go through a 32-bit register no adrp is ever in.  The second
\* call is of the folded entry point.
SafeInsns ==
  Common \cup
  { Mem("ldrb", <<W(2)>>, X(0), 18, 1, {2}),
    Imm("bl", <<>>, 408, {0, 2}),
    Imm("b", <<>>, 400, {}) }

ASSUME SafeAssumption ==
  WritesReported(SafeInsns) /\ WidthsTold(SafeInsns) /\ JumpsOfStarts(SafeInsns)

-----------------------------------------------------------------------------
(* Instructions on which a documented claim fails *)

\* `ldr w2, [x0, #24]' reads a word.
WordInsns == Common \cup { Mem("ldr", <<W(2)>>, X(0), 24, 4, {2}) }

\* `bic x0, x0, x2' begins with a b and writes x0.
StaleInsns == Common \cup { Plain("bic", <<X(0), X(0), X(2)>>, {0}) }

\* A jump to an entry point that was folded into the function around it, or
\* from the cold part of a function back into the other.
IntoInsns == Common \cup { Imm("b", <<>>, 408, {}) }
=============================================================================
