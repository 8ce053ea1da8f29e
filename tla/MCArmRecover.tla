---------------------------- MODULE MCArmRecover ----------------------------
(* Functions of a few instructions over r0 to r3 with a pool of two words, and *)
(* longer ones with three pools.  Data lies at 40 to 45, the GOT at 50 and 51, *)
(* another function at 60 and 61, a PLT stub at 70.                            *)
EXTENDS ArmRecover

MCCodeBase == [a \in {0, 60, 61, 70} |-> IF a = 61 THEN 60 ELSE a]
MCDataBase == [a \in 40..45 |-> IF a = 45 THEN 45 ELSE 40]
MCGot      == {50, 51}
MCSlots    == [a \in {50} |-> 40]
MCNewSlot  == [a \in {40} |-> 90]
MCMove     == [own |-> 1, code |-> 7, data |-> 13]

-----------------------------------------------------------------------------
(* Instructions *)

Plain(m, regs, writes) ==
  [m |-> m, regs |-> regs, lit |-> FALSE, disp |-> 0, index |-> -1, imm |-> 0,
   writes |-> writes]

\* A load at a of the literal at p.
Lit(m, regs, a, p, writes) ==
  [Plain(m, regs, writes) EXCEPT !.lit = TRUE, !.disp = p - (a + Bias)]

Jump(m, target, writes) == [Plain(m, <<>>, writes) EXCEPT !.imm = target]

AddPcI(rd, rn) == Plain("add", <<rd, PC, rn>>, {rd})
LdrPc(rd, rn)  == [Plain("ldr", <<rd>>, {rd}) EXCEPT !.index = rn]

CodeWord(i) == [value |-> 0, insn |-> {i}, data |-> FALSE, use |-> -1]
DataWord(v, q, garbage) == [value |-> v, insn |-> garbage, data |-> TRUE, use |-> q]

\* The distance from the instruction at q to t, and a plain constant that would
\* name data if it were taken for a distance.
Distances(q) == {[value |-> t - (q + Bias), use |-> q] : t \in {41, 45, 50, 51, 80}}
Constant     == [value |-> 39, use |-> -1]

-----------------------------------------------------------------------------
(* Four instructions, a return, two literals, and a literal of the next *)
(* function                                                              *)

A == 5  B == 6  Outside == 7

Loads(a) ==
  { Lit("ldr", <<0>>, a, A, {0}), Lit("ldr", <<0>>, a, B, {0}),
    Lit("ldr", <<0>>, a, Outside, {0}), Lit("vldr", <<>>, a, A, {}),
    Lit("ldrd", <<2, 3>>, a, A, {2, 3}) }

Addresses == { AddPcI(0, 0), AddPcI(1, 0), LdrPc(0, 0), LdrPc(2, 1) }

Clobbers ==
  { Plain("mov", <<0, 2>>, {0}), Plain("pop", <<1, 0>>, {0, 1}),
    Plain("blx", <<3>>, {0, 1, 2, 3}) }

Reading == { Plain("str", <<0, 2>>, {}), Plain("str", <<3, 2>>, {}) }

Bodies ==
  {<<i1, i2, i3, i4>> :
     i1 \in Loads(0),
     i2 \in {Jump("bcc", 3, {}), Jump("bcc", 61, {}), Lit("ldr", <<1>>, 1, B, {1})}
            \cup Addresses \cup Clobbers \cup Reading,
     i3 \in {Lit("ldr", <<0>>, 2, A, {0}), Lit("ldr", <<0>>, 2, B, {0}), Jump("bl", 60, {0, 1, 2, 3}),
             Plain("pop", <<2, PC>>, {2, PC})} \cup Addresses \cup Clobbers,
     i4 \in {Jump("bl", 0, {0, 1, 2, 3}), Jump("b", 70, {})} \cup Addresses \cup Reading}

Garbage == {Jump("bl", 60, {})}

Assemble(body, a, b, c) ==
  [words |-> [k \in 1..4 |-> CodeWord(body[k])]
             \o << CodeWord(Plain("bx", <<14>>, {})), DataWord(a.value, a.use, {}),
                   DataWord(b.value, b.use, Garbage), DataWord(c.value, c.use, {}) >>,
   size  |-> 7]

\* What a literal may hold: nothing but a constant if it is not used, and the
\* distance from its use if there is one such place.
Contents(uses, p, targets) ==
  LET at == {u[2] : u \in {v \in uses : v[1] = p}}
  IN  IF at = {} THEN {Constant}
      ELSE {d \in UNION {Distances(q) : q \in at} :
              Cardinality(at) = 1 /\ d.value + d.use + Bias \in targets}

Filled(body) ==
  LET g    == Assemble(body, Constant, Constant, Constant)
      cs   == {c \in Reachable(g, 5) : c.pc < 5}
      uses == UNION {{<<p, c.pc>> : p \in Uses(g, c)} : c \in cs}
  IN  {Assemble(body, a, b, c) : a \in Contents(uses, A, {41, 50, 51, 80}),
                                 b \in Contents(uses, B, {45, 50}),
                                 c \in Contents(uses, Outside, {41})}

Short == {g \in UNION {Filled(body) : body \in Bodies} : WellFormed(g)}

-----------------------------------------------------------------------------
(* Three times a load, its use and a jump over the pool *)

Block(n, garbage) ==
  LET s == 4 * n IN
  << CodeWord(Lit("ldr", <<0>>, s, s + 3, {0})), CodeWord(AddPcI(1, 0)),
     CodeWord(Jump("b", s + 4, {})), DataWord(41 - (s + 1 + Bias), s + 1, garbage) >>

Long ==
  {[words |-> Block(0, g0) \o Block(1, g1) \o Block(2, g2)
              \o << CodeWord(Jump("bl", 60, {0, 1, 2, 3})), CodeWord(Plain("bx", <<14>>, {})) >>,
    size |-> 14] : g0, g1, g2 \in {{}, Garbage, {Plain("mov", <<0, 2>>, {0})}}}

MCFunctions == Short \cup Long

-----------------------------------------------------------------------------
(* Functions on which a documented claim fails *)

\* The literal at 7 is stored, then control leaves; the instruction at 5 is
\* reached from the top only, with the literal at 8.
PastBranch ==
  {[words |-> << CodeWord(Lit("ldr", <<0>>, 0, 8, {0})), CodeWord(Jump("bcc", 5, {})),
                 CodeWord(Lit("ldr", <<0>>, 2, 7, {0})), CodeWord(Plain("str", <<0, 2>>, {})),
                 CodeWord(Jump("b", 70, {})), CodeWord(AddPcI(1, 0)),
                 CodeWord(Plain("bx", <<14>>, {})),
                 DataWord(36, -1, {}), DataWord(41 - 7, 5, {}) >>,
    size |-> 9]}

\* A single-precision constant between two instructions.
SingleFloat ==
  {[words |-> << CodeWord(Lit("vldr", <<>>, 0, 2, {})), CodeWord(Jump("b", 3, {})),
                 DataWord(36, -1, {}), CodeWord(Jump("bl", 60, {0, 1, 2, 3})),
                 CodeWord(Plain("bx", <<14>>, {})) >>,
    size |-> 5]}

\* A constant that looks like a load of the word three further on.
LooksLikeLoad ==
  {[words |-> << CodeWord(Lit("ldr", <<0>>, 0, 2, {0})), CodeWord(Jump("b", 3, {})),
                 DataWord(36, -1, {Lit("ldr", <<0>>, 2, 3, {0})}),
                 CodeWord(Jump("bl", 60, {0, 1, 2, 3})), CodeWord(Plain("bx", <<14>>, {})) >>,
    size |-> 5]}
=============================================================================
