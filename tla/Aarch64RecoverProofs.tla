------------------------- MODULE Aarch64RecoverProofs -------------------------
(***************************************************************************)
(* The pairs the linear scan finds and those it should find, for functions *)
(* of any length with any number of labels, over any instructions whose    *)
(* destinations the scan reads off correctly; what those pairs mean once   *)
(* the data has moved; and where the branches go then.                     *)
(***************************************************************************)
EXTENDS Aarch64Recover, TLAPS

X(n) == [n |-> n, w |-> FALSE]

TypeInv ==
  /\ offset \in Nat
  /\ DOMAIN tracker \subseteq AdrpRegisters(Insns)
  /\ \A r \in DOMAIN tracker : tracker[r] \in Site

\* What the scan believes of a register is among what it may hold.
TrackerIsTrue == \A r \in DOMAIN tracker : tracker[r] \in holds[r.n]

\* What a register holds is tracked, unless it came past a call or by a branch.
TrackerIsComplete ==
  \A n \in Numbers : \A s \in Holding(n) \ dropped :
    X(n) \in DOMAIN tracker /\ tracker[X(n)] = s

IInv == TypeInv /\ TrackerIsTrue /\ TrackerIsComplete /\ PairsAreReal /\ TrackedPairsFound

-----------------------------------------------------------------------------
(* Registers *)

\* Every register of an instruction has a number, and those of an adrp or of an
\* address are seen in full.
LEMMA RegisterNumbers ==
  ASSUME WritesReported(Insns)
  PROVE  /\ \A r \in AdrpRegisters(Insns) : r = X(r.n) /\ r.n \in Numbers
         /\ \A i \in Insns : \A r \in PairBase(i) : r = X(r.n) /\ r.n \in Numbers
<1>1. \A i \in Insns : i.regs \in Seq(Register) /\ i.base \in Register
  BY RecoverAssumption DEF Insn
<1>2. \A i \in Insns : \A k \in DOMAIN i.regs : i.regs[k] \in Register /\ i.regs[k].n \in Numbers
  BY <1>1 DEF Numbers
<1>3. \A i \in Insns : i.base.n \in Numbers
  BY DEF Numbers
<1>4. \A r \in Register : ~r.w => r = X(r.n)
  BY DEF Register, X
<1>5. ASSUME NEW r \in AdrpRegisters(Insns) PROVE r = X(r.n) /\ r.n \in Numbers
  <2>1. PICK i \in Insns : i.m = "adrp" /\ r = i.regs[1]
    BY DEF AdrpRegisters
  <2>2. i.regs # <<>> /\ ~r.w
    BY <2>1 DEF WritesReported
  <2>3. 1 \in DOMAIN i.regs
    BY <1>1, <2>2
  <2> QED
    BY <1>2, <1>4, <2>1, <2>2, <2>3
<1>6. ASSUME NEW i \in Insns, NEW r \in PairBase(i) PROVE r = X(r.n) /\ r.n \in Numbers
  <2>1. ~r.w
    BY DEF WritesReported
  <2>2. r \in Register /\ r.n \in Numbers
    <3>1. CASE AddImmediate(i)
      <4>1. r = i.regs[2] /\ 2 \in DOMAIN i.regs
        BY <1>1, <3>1 DEF PairBase, AddImmediate
      <4> QED
        BY <1>2, <4>1
    <3>2. CASE ~AddImmediate(i)
      <4>1. r = i.base
        BY <3>2 DEF PairBase
      <4> QED
        BY <1>1, <1>3, <4>1
    <3> QED
      BY <3>1, <3>2
  <2> QED
    BY <1>4, <2>1, <2>2
<1> QED
  BY <1>5, <1>6

\* An addition writes its first operand.
LEMMA AddWrites ==
  ASSUME NEW insn \in Insns, insn.m = "add", insn.regs # <<>>
  PROVE  WriteRegs(insn) = {insn.regs[1]}
<1>1. insn.regs \in Seq(Register)
  BY RecoverAssumption DEF Insn
<1>2. NumWrites(insn.m) = 1
  BY DEF NumWrites, Stores, StartsWithB
<1>3. {j \in DOMAIN insn.regs : j <= 1} = {1}
  BY <1>1
<1> QED
  BY <1>2, <1>3 DEF WriteRegs

-----------------------------------------------------------------------------
(* Relocations and uses of one instruction *)

\* A pair of the scan is one the machine executes.
LEMMA PairUsed ==
  ASSUME WritesReported(Insns), TypeInv, TrackerIsTrue,
         NEW insn \in Insns, NEW l \in Pairs(insn), l.kind = "low"
  PROVE  \E u \in UsesOf(insn) : u.at = l.at /\ u.site.at = l.with
<1>1. PICK r \in PairBase(insn) \cap DOMAIN tracker :
        l \in PairRelocs(tracker[r], insn, tracker[r].page + LowBits(insn))
  BY DEF Pairs
<1>2. l.at = offset /\ l.with = tracker[r].at
  BY <1>1 DEF PairRelocs, Reloc
<1>3. tracker[r] \in Holding(r.n) /\ r.n \in RealBases(insn)
  <2>1. tracker[r] \in holds[r.n] /\ tracker[r] \in Site
    BY <1>1 DEF TrackerIsTrue, TypeInv
  <2>2. tracker[r] # Other
    BY <2>1 DEF Site, Other
  <2> QED
    BY <1>1, <2>1, <2>2 DEF Holding, RealBases
<1> DEFINE u == [at |-> offset, site |-> tracker[r], target |-> tracker[r].page + LowBits(insn),
                 width |-> IF AddImmediate(insn) THEN 1 ELSE insn.width,
                 tracked |-> tracker[r] \notin dropped]
<1>4. u \in UsesOf(insn)
  <2>1. tracker[r] \in UNION {Holding(n) : n \in RealBases(insn)}
    BY <1>3
  <2> QED
    BY <2>1 DEF UsesOf
<1> QED
  BY <1>2, <1>4

\* A use of a tracked adrp is found.
LEMMA UseFound ==
  ASSUME WritesReported(Insns), TypeInv, TrackerIsComplete,
         NEW insn \in Insns, WellFormed(insn), NEW u \in UsesOf(insn), u.tracked
  PROVE  \E l \in Pairs(insn) : l.kind = "low" /\ l.at = u.at /\ l.with = u.site.at
<1>1. PICK n \in RealBases(insn) :
        u.site \in Holding(n) /\ u.at = offset /\ u.site \notin dropped
  <2>1. PICK n \in RealBases(insn) : \E s \in Holding(n) :
          u = [at |-> offset, site |-> s, target |-> s.page + LowBits(insn),
               width |-> IF AddImmediate(insn) THEN 1 ELSE insn.width,
               tracked |-> s \notin dropped]
    BY DEF UsesOf
  <2>2. PICK s \in Holding(n) :
          u = [at |-> offset, site |-> s, target |-> s.page + LowBits(insn),
               width |-> IF AddImmediate(insn) THEN 1 ELSE insn.width,
               tracked |-> s \notin dropped]
    BY <2>1, Zenon
  <2>3. u.site = s /\ u.at = offset
    BY <2>2
  <2>4. u.tracked = (s \notin dropped)
    BY <2>2, Zenon
  <2>5. s \notin dropped
    BY <2>4, Zenon
  <2> QED
    BY <2>3, <2>5
<1>2. PICK r \in PairBase(insn) : n = r.n
  BY DEF RealBases
<1>3. r \in DOMAIN tracker /\ tracker[r] = u.site
  BY <1>1, <1>2, RegisterNumbers DEF TrackerIsComplete
<1> DEFINE a == u.site.page + LowBits(insn)
<1>4. a \in Named \cup DOMAIN Slots
  BY <1>1 DEF WellFormed
<1>5. \E l \in PairRelocs(u.site, insn, a) :
        l.kind = "low" /\ l.at = offset /\ l.with = u.site.at
  <2> DEFINE scale == IF AddImmediate(insn) THEN 1 ELSE ScaleOf(insn.m)
             name  == IF a \in DOMAIN Slots /\ scale = 8 THEN {a}
                      ELSE IF a \in DOMAIN Slots THEN {Slots[a]} ELSE {a} \cap Named
  <2> HIDE DEF a, scale
  <2>1. PICK t : t \in name
    BY <1>4
  <2> DEFINE low == Reloc("low", offset, t, scale, u.site.at)
  <2>2. low \in PairRelocs(u.site, insn, a)
    BY <2>1 DEF PairRelocs, scale
  <2>3. low.kind = "low" /\ low.at = offset /\ low.with = u.site.at
    BY DEF Reloc
  <2> QED
    BY <2>2, <2>3
<1> QED
  BY <1>1, <1>2, <1>3, <1>5 DEF Pairs

\* Only additions and memory accesses form addresses.
LEMMA OthersFormNone ==
  ASSUME NEW insn, insn.m # "add", ~IsMem(insn.m)
  PROVE  UsesOf(insn) = {}
BY DEF UsesOf, RealBases, PairBase, AddImmediate

\* The relocations and uses, once a step has added its own.
LEMMA PairsKept ==
  ASSUME WritesReported(Insns), IInv, NEW insn \in Insns, Execute(insn),
         \/ relocs' = relocs \cup Pairs(insn)
         \/ /\ UsesOf(insn) = {} /\ relocs \subseteq relocs'
            /\ \A l \in relocs' \ relocs : l.kind # "low"
  PROVE  PairsAreReal' /\ TrackedPairsFound'
<1>1. uses' = uses \cup UsesOf(insn) /\ WellFormed(insn)
  BY DEF Execute
<1>2. ASSUME NEW l \in relocs', l.kind = "low"
      PROVE  \E u \in uses' : u.at = l.at /\ u.site.at = l.with
  <2>1. CASE l \in relocs
    BY <1>1, <1>2, <2>1 DEF IInv, PairsAreReal
  <2>2. CASE l \notin relocs
    <3>1. l \in Pairs(insn)
      BY <1>2, <2>2
    <3> QED
      BY <1>1, <1>2, <3>1, PairUsed DEF IInv
  <2> QED
    BY <2>1, <2>2
<1>3. ASSUME NEW u \in uses', u.tracked
      PROVE  \E l \in relocs' : l.kind = "low" /\ l.at = u.at /\ l.with = u.site.at
  <2>1. CASE u \in uses
    BY <1>3, <2>1 DEF IInv, TrackedPairsFound
  <2>2. CASE u \notin uses
    <3>1. u \in UsesOf(insn)
      BY <1>1, <2>2
    <3>2. relocs' = relocs \cup Pairs(insn)
      BY <3>1
    <3> QED
      BY <1>1, <1>3, <3>1, <3>2, UseFound DEF IInv
  <2> QED
    BY <2>1, <2>2
<1> QED
  BY <1>2, <1>3 DEF PairsAreReal, TrackedPairsFound

-----------------------------------------------------------------------------
(* The tracker *)

\* An instruction that forgets what it writes.
LEMMA TrackerKept ==
  ASSUME WritesReported(Insns), IInv, NEW insn \in Insns, Execute(insn),
         insn.m \notin Leaves \cup {"adrp"},
         tracker' = Forget(WriteRegs(insn)), holds' = AfterInsn(insn), dropped' = dropped
  PROVE  TypeInv' /\ TrackerIsTrue' /\ TrackerIsComplete'
<1>1. /\ DOMAIN tracker' = DOMAIN tracker \ WriteRegs(insn)
      /\ \A r \in DOMAIN tracker' : tracker'[r] = tracker[r]
  BY DEF Forget
<1>2. \A n \in Numbers : holds'[n] = IF n \in insn.writes THEN {Other} ELSE holds[n]
  BY DEF AfterInsn
<1>3. \A r \in AdrpRegisters(Insns) : r \in WriteRegs(insn) <=> r.n \in insn.writes
  BY DEF WritesReported
<1>4. TypeInv'
  BY <1>1 DEF IInv, TypeInv, Execute
<1>5. TrackerIsTrue'
  BY <1>1, <1>2, <1>3, RegisterNumbers DEF IInv, TypeInv, TrackerIsTrue
<1>6. ASSUME NEW n \in Numbers, NEW s \in Holding(n)' \ dropped'
      PROVE  X(n) \in DOMAIN tracker' /\ tracker'[X(n)] = s
  <2>1. n \notin insn.writes /\ s \in Holding(n) \ dropped
    BY <1>2, <1>6 DEF Holding
  <2>2. X(n) \in DOMAIN tracker /\ tracker[X(n)] = s
    BY <2>1 DEF IInv, TrackerIsComplete
  <2>3. X(n).n = n
    BY DEF X
  <2> QED
    BY <1>1, <1>3, <2>1, <2>2, <2>3 DEF IInv, TypeInv
<1> QED
  BY <1>4, <1>5, <1>6 DEF TrackerIsComplete

LEMMA AdrpInv ==
  ASSUME WritesReported(Insns), IInv, NEW insn \in Insns, Adrp(insn)
  PROVE  IInv'
<1> DEFINE d    == insn.regs[1]
           site == [at |-> offset, page |-> insn.imm]
<1>1. /\ DOMAIN tracker' = DOMAIN tracker \cup {d} /\ tracker'[d] = site
      /\ \A r \in DOMAIN tracker : r # d => tracker'[r] = tracker[r]
  BY DEF Adrp
<1>2. d \in AdrpRegisters(Insns) /\ d = X(d.n) /\ d.n \in Numbers /\ insn.writes = {d.n}
  BY RegisterNumbers DEF Adrp, AdrpRegisters, WritesReported
<1>3. \A n \in Numbers : holds'[n] = IF n = d.n THEN {site} ELSE holds[n]
  BY <1>2 DEF Adrp, AfterInsn
<1>4. site \in Site
  BY RecoverAssumption DEF Insn, Site, IInv, TypeInv
<1> HIDE DEF d, site
<1>5. TypeInv'
  BY <1>1, <1>2, <1>4 DEF IInv, TypeInv, Adrp, Execute
<1>6. TrackerIsTrue'
  <2>1. \A r \in DOMAIN tracker : r # d => r.n # d.n /\ r.n \in Numbers
    BY <1>2, RegisterNumbers DEF IInv, TypeInv
  <2> QED
    BY <1>1, <1>2, <1>3, <2>1 DEF IInv, TrackerIsTrue
<1>7. ASSUME NEW n \in Numbers, NEW s \in Holding(n)' \ dropped'
      PROVE  X(n) \in DOMAIN tracker' /\ tracker'[X(n)] = s
  <2>1. CASE n = d.n
    BY <1>1, <1>2, <1>3, <2>1 DEF Holding
  <2>2. CASE n # d.n
    <3>1. s \in Holding(n) \ dropped
      BY <1>3, <2>2 DEF Holding, Adrp
    <3>2. X(n) \in DOMAIN tracker /\ tracker[X(n)] = s
      BY <3>1 DEF IInv, TrackerIsComplete
    <3>3. X(n).n = n
      BY DEF X
    <3> QED
      BY <1>1, <2>2, <3>2, <3>3
  <2> QED
    BY <2>1, <2>2
<1>8. PairsAreReal' /\ TrackedPairsFound'
  <2>1. UsesOf(insn) = {}
    BY OthersFormNone DEF Adrp, IsMem
  <2> QED
    BY <2>1, PairsKept DEF Adrp
<1> QED
  BY <1>5, <1>6, <1>7, <1>8 DEF IInv, TrackerIsComplete

\* Past a call or a jump nothing is tracked, and nothing has to be.
LEMMA LeavesInv ==
  ASSUME WritesReported(Insns), IInv, NEW insn \in Insns, Call(insn) \/ Leave(insn)
  PROVE  IInv'
<1>1. /\ Execute(insn) /\ insn.m \in Leaves
      /\ DOMAIN tracker' = {} /\ dropped' = dropped \cup UNION {Holding(n) : n \in Numbers}
  BY DEF Call, Leave, ForgetAll, Leaves
<1>2. \A n \in Numbers : holds'[n] \subseteq holds[n] \cup {Other}
  <2>1. CASE Call(insn)
    BY <2>1 DEF Call, AfterInsn, Leaves
  <2>2. CASE Leave(insn)
    BY <2>2 DEF Leave
  <2> QED
    BY <2>1, <2>2
<1>3. \A n \in Numbers : Holding(n)' \subseteq dropped'
  BY <1>1, <1>2 DEF Holding
<1>4. PairsAreReal' /\ TrackedPairsFound'
  <2>1. UsesOf(insn) = {}
    BY <1>1, OthersFormNone DEF Leaves, IsMem
  <2>2. relocs \subseteq relocs' /\ \A l \in relocs' \ relocs : l.kind # "low"
    BY DEF Call, Leave, BranchRelocs, Reloc
  <2> QED
    BY <1>1, <2>1, <2>2, PairsKept
<1> QED
  BY <1>1, <1>3, <1>4
  DEF IInv, TypeInv, TrackerIsTrue, TrackerIsComplete, Execute

\* A label adds to what registers may hold; what comes by the branch only need
\* not be tracked.
LEMMA LabelInv ==
  ASSUME WritesReported(Insns), IInv, Label
  PROVE  IInv'
<1>1. PICK from \in jumps :
        /\ holds' = [n \in Numbers |-> holds[n] \cup from[n]]
        /\ dropped' = dropped \cup UNION {from[n] \ (holds[n] \cup {Other}) : n \in Numbers}
  BY DEF Label
<1>2. UNCHANGED <<offset, tracker, relocs, uses>>
  BY DEF Label
<1>3. TrackerIsTrue'
  BY <1>1, <1>2, RegisterNumbers DEF IInv, TypeInv, TrackerIsTrue
<1>4. \A n \in Numbers : Holding(n)' \ dropped' \subseteq Holding(n) \ dropped
  BY <1>1 DEF Holding
<1> QED
  BY <1>2, <1>3, <1>4
  DEF IInv, TypeInv, TrackerIsComplete, PairsAreReal, TrackedPairsFound

-----------------------------------------------------------------------------

LEMMA InitInv == Init => IInv
<1> SUFFICES ASSUME Init PROVE IInv
  OBVIOUS
<1>1. DOMAIN <<>> = {}
  OBVIOUS
<1> QED
  BY <1>1 DEF Init, IInv, TypeInv, TrackerIsTrue, TrackerIsComplete, Holding,
              PairsAreReal, TrackedPairsFound

LEMMA StepInv ==
  ASSUME WritesReported(Insns), IInv, [Next]_vars
  PROVE  IInv'
<1>1. ASSUME NEW insn \in Insns, Add(insn) \/ Memory(insn) \/ Generic(insn)
      PROVE  IInv'
  <2>1. /\ Execute(insn) /\ insn.m \notin Leaves \cup {"adrp"}
        /\ holds' = AfterInsn(insn) /\ dropped' = dropped
    BY <1>1 DEF Add, Memory, Generic, IsMem, Leaves
  <2>2. tracker' = Forget(WriteRegs(insn))
    <3>1. CASE Add(insn)
      BY <3>1, AddWrites DEF Add, WritesReported
    <3>2. CASE Memory(insn) \/ Generic(insn)
      BY <3>2 DEF Memory, Generic
    <3> QED
      BY <1>1, <3>1, <3>2
  <2>3. \/ relocs' = relocs \cup Pairs(insn)
        \/ UsesOf(insn) = {} /\ relocs' = relocs
    BY <1>1, OthersFormNone DEF Add, Memory, Generic
  <2> QED
    BY <2>1, <2>2, <2>3, TrackerKept, PairsKept DEF IInv
<1>2. CASE Label
  BY <1>2, LabelInv
<1>3. CASE UNCHANGED vars
  BY <1>3 DEF vars, IInv, TypeInv, TrackerIsTrue, TrackerIsComplete, Holding,
     PairsAreReal, TrackedPairsFound
<1> QED
  BY <1>1, <1>2, <1>3, AdrpInv, LeavesInv DEF Next, Finished

-----------------------------------------------------------------------------

\* However long a function is and however many labels it has, a pair the scan
\* relocates is one the machine executes.
THEOREM PairsReal == WritesReported(Insns) => (Spec => []PairsAreReal)
<1>1. WritesReported(Insns) /\ IInv /\ [Next]_vars => IInv'
  BY StepInv
<1>2. IInv => PairsAreReal
  BY DEF IInv
<1> SUFFICES ASSUME WritesReported(Insns) PROVE Spec => []PairsAreReal
  OBVIOUS
<1> QED
  BY <1>1, <1>2, InitInv, PTL DEF Spec

\* And it relocates every pair whose adrp came straight down to its use.
THEOREM PairsFound == WritesReported(Insns) => (Spec => []TrackedPairsFound)
<1>1. WritesReported(Insns) /\ IInv /\ [Next]_vars => IInv'
  BY StepInv
<1>2. IInv => TrackedPairsFound
  BY DEF IInv
<1> SUFFICES ASSUME WritesReported(Insns) PROVE Spec => []TrackedPairsFound
  OBVIOUS
<1> QED
  BY <1>1, <1>2, InitInv, PTL DEF Spec

-----------------------------------------------------------------------------
(* What the relocations say of an address *)

\* Every adrp the machine has met.
Known ==
  (UNION {holds[n] : n \in Numbers})
    \cup (UNION {UNION {from[n] : n \in Numbers} : from \in jumps})
    \cup {u.site : u \in uses}

\* Of each there is one at its place.
SitesApart ==
  \A s \in Known \ {Other} :
    /\ s \in Site /\ s.at < offset
    /\ \A t \in Known \ {Other} : s.at = t.at => s = t

UsesTrue ==
  \A u \in uses :
    /\ u.site \in Site /\ u.target \in Nat /\ u.width \in Nat \ {0}
    /\ u.at \in Nat /\ u.at < offset
    /\ \A v \in uses : u.at = v.at /\ u.site = v.site => u = v

\* The symbol of a relocation is the one the address belongs to, unless a slot
\* is not read whole.
Describes(target, u) == target = u.target \/ (u.target \in DOMAIN Slots /\ u.width # 8)

RelocsTrue ==
  /\ \A l \in relocs : l.kind = "low" =>
       \E u \in uses :
         u.at = l.at /\ u.site.at = l.with /\ l.scale = u.width /\ Describes(l.target, u)
  /\ \A l \in relocs : l.kind = "page" => \E u \in uses : u.site.at = l.at /\ Describes(l.target, u)

AddressInv == IInv /\ SitesApart /\ UsesTrue /\ RelocsTrue

\* Nothing new is met but the adrp of this instruction.
LEMMA SitesKept ==
  ASSUME offset \in Nat, SitesApart, NEW site, site \in Site, site.at = offset,
         offset' = offset + 1, Known' \subseteq Known \cup {Other, site}
  PROVE  SitesApart'
BY DEF SitesApart, Site

LEMMA SitesStay ==
  ASSUME offset \in Nat, SitesApart, offset' \in {offset, offset + 1},
         Known' \subseteq Known \cup {Other}
  PROVE  SitesApart'
BY DEF SitesApart, Site

\* What an instruction uses.
LEMMA UseTyped ==
  ASSUME WritesReported(Insns), WidthsTold(Insns), IInv, SitesApart,
         NEW insn \in Insns, NEW u \in UsesOf(insn)
  PROVE  /\ u.at = offset /\ u.site \in Site /\ u.site \in Known
         /\ u.target = u.site.page + LowBits(insn)
         /\ u.target \in Nat /\ u.width \in Nat \ {0}
         /\ u.width = IF AddImmediate(insn) THEN 1 ELSE ScaleOf(insn.m)
         /\ \A v \in UsesOf(insn) : u.site = v.site => u = v
<1> DEFINE use(s) == [at |-> offset, site |-> s, target |-> s.page + LowBits(insn),
                      width |-> IF AddImmediate(insn) THEN 1 ELSE insn.width,
                      tracked |-> s \notin dropped]
<1>1. PICK n \in RealBases(insn) : \E s \in Holding(n) : u = use(s)
  BY DEF UsesOf
<1>2. PICK s \in Holding(n) : u = use(s)
  BY <1>1
<1>3. u.at = offset /\ u.site = s /\ u.target = s.page + LowBits(insn)
      /\ u.width = IF AddImmediate(insn) THEN 1 ELSE insn.width
  BY <1>2
<1>4. \A v \in UsesOf(insn) : v = use(v.site)
  BY DEF UsesOf
<1>5. n \in Numbers
  BY RegisterNumbers DEF RealBases
<1>6. s \in Known \ {Other} /\ s \in Site
  BY <1>5 DEF Holding, Known, SitesApart
<1>7. LowBits(insn) \in Nat /\ s.page \in Nat
  BY <1>6, RecoverAssumption DEF Insn, LowBits, Site
<1>8. u.width = IF AddImmediate(insn) THEN 1 ELSE ScaleOf(insn.m)
  BY <1>1, <1>3 DEF RealBases, PairBase, WidthsTold
<1>9. ScaleOf(insn.m) \in Nat \ {0}
  BY DEF ScaleOf
<1>10. \A v \in UsesOf(insn) : u.site = v.site => u = v
  BY <1>2, <1>3, <1>4
<1> HIDE DEF use
<1> QED
  BY <1>3, <1>6, <1>7, <1>8, <1>9, <1>10

\* What the scan adds for an instruction describes a use of it.
LEMMA PairDescribed ==
  ASSUME WritesReported(Insns), WidthsTold(Insns), IInv, SitesApart,
         NEW insn \in Insns, NEW l \in Pairs(insn)
  PROVE  \E u \in UsesOf(insn) :
           /\ l.kind \in {"page", "low"} /\ Describes(l.target, u)
           /\ l.kind = "low"  => u.at = l.at /\ u.site.at = l.with /\ l.scale = u.width
           /\ l.kind = "page" => u.site.at = l.at
<1>1. PICK r \in PairBase(insn) \cap DOMAIN tracker :
        l \in PairRelocs(tracker[r], insn, tracker[r].page + LowBits(insn))
  BY DEF Pairs
<1> DEFINE s == tracker[r]
           a == s.page + LowBits(insn)
           scale == IF AddImmediate(insn) THEN 1 ELSE ScaleOf(insn.m)
           u == [at |-> offset, site |-> s, target |-> a,
                 width |-> IF AddImmediate(insn) THEN 1 ELSE insn.width,
                 tracked |-> s \notin dropped]
<1>2. u \in UsesOf(insn)
  <2>1. s \in holds[r.n] /\ s \in Site
    BY <1>1 DEF IInv, TrackerIsTrue, TypeInv
  <2>2. s # Other
    BY <2>1 DEF Site, Other
  <2>3. s \in UNION {Holding(n) : n \in RealBases(insn)}
    BY <1>1, <2>1, <2>2 DEF Holding, RealBases
  <2> QED
    BY <2>3 DEF UsesOf
<1>3. u.at = offset /\ u.site = s /\ u.target = a
  OBVIOUS
<1>4. u.width = scale
  BY <1>2, UseTyped
<1> HIDE DEF u
<1>5. \E t : /\ l = Reloc("page", s.at, t, 1, offset) \/ l = Reloc("low", offset, t, scale, s.at)
             /\ t = a \/ (a \in DOMAIN Slots /\ scale # 8)
  BY <1>1 DEF PairRelocs
<1> HIDE DEF s, a, scale
<1>6. PICK t : /\ l = Reloc("page", s.at, t, 1, offset) \/ l = Reloc("low", offset, t, scale, s.at)
               /\ t = a \/ (a \in DOMAIN Slots /\ scale # 8)
  BY <1>5
<1>7. Describes(t, u)
  BY <1>3, <1>4, <1>6 DEF Describes
<1>8. CASE l = Reloc("page", s.at, t, 1, offset)
  BY <1>2, <1>3, <1>7, <1>8 DEF Reloc
<1>9. CASE l = Reloc("low", offset, t, scale, s.at)
  BY <1>2, <1>3, <1>4, <1>7, <1>9 DEF Reloc
<1> QED
  BY <1>6, <1>8, <1>9

\* The uses and relocations of a step that runs an instruction.
LEMMA DescribedKept ==
  ASSUME WritesReported(Insns), WidthsTold(Insns), AddressInv,
         NEW insn \in Insns, Execute(insn),
         \A l \in relocs' \ relocs : l \in Pairs(insn) \/ l.kind = "branch"
  PROVE  UsesTrue' /\ RelocsTrue'
<1>1. /\ uses' = uses \cup UsesOf(insn) /\ offset' = offset + 1 /\ offset \in Nat
      /\ IInv /\ SitesApart
  BY DEF Execute, AddressInv, IInv, TypeInv
<1>2. ASSUME NEW u \in uses'
      PROVE  /\ u.site \in Site /\ u.target \in Nat /\ u.width \in Nat \ {0}
             /\ u.at \in Nat /\ u.at < offset'
             /\ \A v \in uses' : u.at = v.at /\ u.site = v.site => u = v
  <2>1. \A v \in uses : v.at # offset
    BY <1>1 DEF AddressInv, UsesTrue
  <2>2. CASE u \in uses
    <3>1. \A v \in UsesOf(insn) : u.at # v.at
      BY <1>1, <2>1, <2>2, UseTyped
    <3>2. u.at < offset'
      BY <1>1, <2>2 DEF AddressInv, UsesTrue
    <3> QED
      BY <1>1, <2>2, <3>1, <3>2 DEF AddressInv, UsesTrue
  <2>3. CASE u \in UsesOf(insn)
    <3>1. u.at = offset
      BY <1>1, <2>3, UseTyped
    <3> QED
      BY <1>1, <2>1, <2>3, <3>1, UseTyped
  <2> QED
    BY <1>1, <2>2, <2>3
<1>3. ASSUME NEW l \in relocs'
      PROVE  /\ l.kind = "low" => \E u \in uses' :
                  u.at = l.at /\ u.site.at = l.with /\ l.scale = u.width /\ Describes(l.target, u)
             /\ l.kind = "page" => \E u \in uses' : u.site.at = l.at /\ Describes(l.target, u)
  <2>1. CASE l \in relocs
    BY <1>1, <2>1 DEF AddressInv, RelocsTrue
  <2>2. CASE l \in Pairs(insn)
    BY <1>1, <2>2, PairDescribed
  <2>3. CASE l.kind = "branch"
    BY <2>3
  <2> QED
    BY <2>1, <2>2, <2>3
<1>4. \A target, u : Describes(target, u)' = Describes(target, u)
  BY DEF Describes
<1> QED
  BY <1>2, <1>3, <1>4 DEF UsesTrue, RelocsTrue

\* The adrp a step may meet.
LEMMA KnownAfter ==
  ASSUME WritesReported(Insns), WidthsTold(Insns), AddressInv, NEW insn \in Insns, Execute(insn),
         holds' = AfterInsn(insn) \/ holds' = [n \in Numbers |-> {}],
         jumps' \subseteq jumps \cup {holds}
  PROVE  /\ Known' \subseteq Known \cup {Other, [at |-> offset, page |-> insn.imm]}
         /\ insn.m # "adrp" => Known' \subseteq Known \cup {Other}
<1> DEFINE site == [at |-> offset, page |-> insn.imm]
           New  == IF insn.m = "adrp" THEN {site, Other} ELSE {Other}
<1>1. \A n \in Numbers : holds'[n] \subseteq holds[n] \cup New
  BY DEF AfterInsn
<1>2. uses' = uses \cup UsesOf(insn)
  BY DEF Execute
<1>3. \A u \in UsesOf(insn) : u.site \in Known
  BY UseTyped DEF AddressInv
<1>4. UNION {holds'[n] : n \in Numbers} \subseteq (UNION {holds[n] : n \in Numbers}) \cup New
  BY <1>1
<1>5. UNION {UNION {from[n] : n \in Numbers} : from \in jumps'}
        \subseteq (UNION {UNION {from[n] : n \in Numbers} : from \in jumps})
                    \cup (UNION {holds[n] : n \in Numbers})
  OBVIOUS
<1>6. Known' = (UNION {holds'[n] : n \in Numbers})
                 \cup (UNION {UNION {from[n] : n \in Numbers} : from \in jumps'})
                 \cup {u.site : u \in uses'}
  BY DEF Known
<1>7. {u.site : u \in uses'} \subseteq Known
  BY <1>2, <1>3 DEF Known
<1>8. Known' \subseteq Known \cup New
  BY <1>4, <1>5, <1>6, <1>7 DEF Known
<1> QED
  BY <1>8

LEMMA AddressStep ==
  ASSUME WritesReported(Insns), WidthsTold(Insns), AddressInv, [Next]_vars
  PROVE  AddressInv'
<1>1. IInv'
  BY StepInv DEF AddressInv
<1>2. offset \in Nat
  BY DEF AddressInv, IInv, TypeInv
<1>3. ASSUME NEW insn \in Insns,
             Adrp(insn) \/ Add(insn) \/ Memory(insn) \/ Call(insn) \/ Leave(insn) \/ Generic(insn)
      PROVE  SitesApart' /\ UsesTrue' /\ RelocsTrue'
  <2>1. /\ Execute(insn) /\ offset' = offset + 1
        /\ holds' = AfterInsn(insn) \/ holds' = [n \in Numbers |-> {}]
        /\ jumps' \subseteq jumps \cup {holds}
        /\ \A l \in relocs' \ relocs : l \in Pairs(insn) \/ l.kind = "branch"
    BY <1>3 DEF Adrp, Add, Memory, Call, Leave, Generic, BranchRelocs, Reloc, Execute
  <2>2. UsesTrue' /\ RelocsTrue'
    BY <2>1, DescribedKept
  <2>3. SitesApart'
    <3>1. CASE insn.m # "adrp"
      BY <1>2, <2>1, <3>1, KnownAfter, SitesStay DEF AddressInv
    <3>2. CASE insn.m = "adrp"
      <4> DEFINE site == [at |-> offset, page |-> insn.imm]
      <4>1. Known' \subseteq Known \cup {Other, site}
        BY <2>1, KnownAfter
      <4>2. site \in Site /\ site.at = offset
        BY <1>2, RecoverAssumption DEF Insn, Site
      <4> HIDE DEF site
      <4> QED
        BY <1>2, <2>1, <4>1, <4>2, SitesKept DEF AddressInv
    <3> QED
      BY <3>1, <3>2
  <2> QED
    BY <2>2, <2>3
<1>4. CASE Label
  <2>1. PICK from \in jumps : holds' = [n \in Numbers |-> holds[n] \cup from[n]]
    BY <1>4 DEF Label
  <2>2. UNCHANGED <<offset, relocs, jumps, uses>>
    BY <1>4 DEF Label
  <2>3. Known' \subseteq Known
    BY <2>1, <2>2 DEF Known
  <2>4. SitesApart'
    BY <1>2, <2>2, <2>3, SitesStay DEF AddressInv
  <2> QED
    BY <1>1, <2>2, <2>4 DEF AddressInv, UsesTrue, RelocsTrue, Describes
<1>5. CASE UNCHANGED vars
  BY <1>1, <1>5 DEF vars, AddressInv, SitesApart, Known, UsesTrue, RelocsTrue, Describes
<1> QED
  BY <1>1, <1>3, <1>4, <1>5 DEF Next, Finished, AddressInv

-----------------------------------------------------------------------------
(* Linking again *)

\* A page and an aligned distance into it.
LEMMA PageAndRest ==
  ASSUME NEW x \in Int, NEW p \in Nat \ {0}, NEW w \in Nat \ {0}, (x % p) % w = 0
  PROVE  (x - (x % p)) + ((x % p) \div w) * w = x
<1>1. x % p \in Nat
  OBVIOUS
<1>2. \A y \in Nat : y % w = 0 => (y \div w) * w = y
  OBVIOUS
<1>3. ((x % p) \div w) * w = x % p
  BY <1>1, <1>2
<1> QED
  BY <1>1, <1>3

LEMMA RelinkedByInv ==
  ASSUME AddressInv, Compiled
  PROVE  RelinkedAddresses
<1> SUFFICES ASSUME NEW u \in uses, NEW page \in relocs, NEW low \in relocs,
                    low.kind = "low", low.at = u.at, low.with = u.site.at,
                    page.kind = "page", page.at = u.site.at
             PROVE  FormedAddress(u, page, low) = u.target + Shift
  BY DEF RelinkedAddresses
<1>1. PICK v \in uses : /\ v.at = low.at /\ v.site.at = low.with /\ low.scale = v.width
                        /\ Describes(low.target, v)
  BY DEF AddressInv, RelocsTrue
<1>2. PICK w \in uses : w.site.at = page.at /\ Describes(page.target, w)
  BY DEF AddressInv, RelocsTrue
<1>3. \A x, y \in uses : x.site.at = y.site.at => x.site = y.site
  <2>1. \A x \in uses : x.site \in Known \ {Other}
    BY DEF AddressInv, UsesTrue, Known, Site, Other
  <2> QED
    BY <2>1 DEF AddressInv, SitesApart
<1>4. v = u
  BY <1>1, <1>3 DEF AddressInv, UsesTrue
<1>5. low.target = u.target /\ low.scale = u.width
  BY <1>1, <1>4 DEF Describes, Compiled
<1>6. page.target = w.target /\ w.site = u.site
  BY <1>2, <1>3 DEF Describes, Compiled
<1>7. PageOf(page.target + Shift) = PageOf(u.target + Shift)
  BY <1>6 DEF Compiled
<1>8. /\ u.target + Shift \in Int /\ u.width \in Nat \ {0} /\ PageSize \in Nat \ {0}
      /\ ((u.target + Shift) % PageSize) % u.width = 0
  BY RecoverAssumption DEF AddressInv, UsesTrue, Compiled
<1> DEFINE t == u.target + Shift
<1>9. (t - (t % PageSize)) + ((t % PageSize) \div u.width) * u.width = t
  <2> HIDE DEF t
  <2>1. /\ t \in Int /\ u.width \in Nat \ {0} /\ PageSize \in Nat \ {0}
        /\ (t % PageSize) % u.width = 0
    BY <1>8 DEF t
  <2> QED
    BY <2>1, PageAndRest
<1>10. FormedAddress(u, page, low) = PageOf(t) + ((t % PageSize) \div u.width) * u.width
  <2>1. FormedAddress(u, page, low)
        = PageOf(page.target + Shift)
          + (((low.target + Shift) % PageSize) \div low.scale) * u.width
    BY Zenon DEF FormedAddress
  <2> QED
    BY <1>5, <1>7, <2>1, Zenon
<1>11. PageOf(t) = t - (t % PageSize)
  BY Zenon DEF PageOf
<1> HIDE DEF t
<1>12. FormedAddress(u, page, low) = t
  BY <1>9, <1>10, <1>11, Zenon
<1> QED
  BY <1>12 DEF t

\* Wherever the linker moves the data, every pair the scan relocates forms the
\* address it formed, moved as far, as long as the code is compiled the way
\* compilers do and the scale of a relocation is the width of its access.
THEOREM AddressesRelinked ==
  ASSUME WritesReported(Insns), WidthsTold(Insns)
  PROVE  Spec => [](Compiled => RelinkedAddresses)
<1>1. Init => AddressInv
  <2>1. DOMAIN <<>> = {}
    OBVIOUS
  <2> QED
    BY <2>1, InitInv DEF Init, AddressInv, SitesApart, Known, UsesTrue, RelocsTrue
<1>2. AddressInv /\ [Next]_vars => AddressInv'
  BY AddressStep
<1>3. AddressInv => (Compiled => RelinkedAddresses)
  BY RelinkedByInv
<1> QED
  BY <1>1, <1>2, <1>3, PTL DEF Spec

-----------------------------------------------------------------------------
(* Branches *)

\* A relocation is that of the one branch at its place; a branch without one
\* stays in the function, or is a call that was counted.
BranchInv ==
  /\ offset \in Nat
  /\ \A a, b \in called : a.at = b.at => a = b
  /\ \A r \in relocs : r.kind = "branch" =>
       r.at \in 0..(offset - 1) /\ \E b \in called : b.at = r.at /\ b.target = r.target
  /\ \A b \in called :
       /\ b.at \in 0..(offset - 1) /\ b.target \in DOMAIN Places
       /\ b.target \in Entries \ Own => \E r \in relocs : r.kind = "branch" /\ r.at = b.at
       /\ b.target \notin Own \cup Entries => b.at \in unresolved

\* What a branch adds.
LEMMA BranchAdds ==
  ASSUME JumpsOfStarts(Insns), BranchInv, NEW insn \in Insns, insn.m \in Branches,
         Call(insn) \/ Leave(insn) \/ Generic(insn)
  PROVE  BranchInv'
<1> DEFINE b == [at |-> offset, target |-> insn.imm]
<1>1. /\ offset \in Nat /\ offset' = offset + 1
      /\ called' = called \cup {b}
  BY DEF BranchInv, Call, Leave, Generic, Execute
<1>2. /\ b.target \in DOMAIN Places
      /\ insn.m = "b" => b.target \in Own \cup Entries
      /\ insn.m = "b.cond" => b.target \in Own
  BY DEF JumpsOfStarts
<1>3. relocs \subseteq relocs' /\ unresolved \subseteq unresolved'
  BY DEF Call, Leave, Generic
<1>4. ASSUME NEW r \in relocs' \ relocs PROVE r.at = b.at /\ r.target = b.target
  BY <1>4 DEF Call, Leave, Generic, BranchRelocs, Reloc
<1>5. b.target \in Entries \ Own => \E r \in relocs' : r.kind = "branch" /\ r.at = b.at
  <2> SUFFICES ASSUME b.target \in Entries \ Own
               PROVE  \E r \in relocs' : r.kind = "branch" /\ r.at = b.at
    OBVIOUS
  <2>1. insn.m \in {"bl", "b"}
    BY <1>2 DEF Branches
  <2>2. relocs' = relocs \cup BranchRelocs(insn)
    BY <2>1 DEF Call, Leave, Generic
  <2>3. Reloc("branch", offset, insn.imm, 1, offset) \in relocs'
    BY <2>2 DEF BranchRelocs
  <2> QED
    BY <2>3 DEF Reloc
<1>6. b.target \notin Own \cup Entries => b.at \in unresolved'
  <2> SUFFICES ASSUME b.target \notin Own \cup Entries PROVE b.at \in unresolved'
    OBVIOUS
  <2>1. insn.m = "bl"
    BY <1>2 DEF Branches
  <2>2. unresolved' = unresolved \cup Unnamed(insn)
    BY <2>1 DEF Call, Leave, Generic
  <2> QED
    BY <2>1, <2>2 DEF Unnamed
<1>7. \A c \in called : c.at < b.at
  BY <1>1 DEF BranchInv
<1>8. \A c, d \in called' : c.at = d.at => c = d
  BY <1>1, <1>7 DEF BranchInv
<1>9. ASSUME NEW r \in relocs', r.kind = "branch"
      PROVE  r.at \in 0..(offset' - 1) /\ \E c \in called' : c.at = r.at /\ c.target = r.target
  <2>1. CASE r \in relocs
    BY <1>1, <1>9, <2>1 DEF BranchInv
  <2>2. CASE r \notin relocs
    <3>1. r.at = b.at /\ r.target = b.target /\ b \in called'
      BY <1>1, <1>4, <1>9, <2>2
    <3>2. b.at \in 0..(offset' - 1)
      BY <1>1
    <3> HIDE DEF b
    <3> QED
      BY <3>1, <3>2
  <2> QED
    BY <2>1, <2>2
<1>10. ASSUME NEW c \in called'
       PROVE  /\ c.at \in 0..(offset' - 1) /\ c.target \in DOMAIN Places
              /\ c.target \in Entries \ Own => \E r \in relocs' : r.kind = "branch" /\ r.at = c.at
              /\ c.target \notin Own \cup Entries => c.at \in unresolved'
  <2>1. CASE c \in called
    BY <1>1, <1>3, <2>1 DEF BranchInv
  <2>2. CASE c = b
    BY <1>1, <1>2, <1>5, <1>6, <2>2
  <2> QED
    BY <1>1, <2>1, <2>2
<1> QED
  BY <1>1, <1>8, <1>9, <1>10 DEF BranchInv

LEMMA BranchStep ==
  ASSUME JumpsOfStarts(Insns), BranchInv, [Next]_vars
  PROVE  BranchInv'
<1>1. ASSUME NEW insn \in Insns, insn.m \notin Branches,
             Adrp(insn) \/ Add(insn) \/ Memory(insn) \/ Call(insn) \/ Leave(insn) \/ Generic(insn)
      PROVE  BranchInv'
  <2>1. offset' = offset + 1 /\ called' = called
    BY <1>1 DEF Adrp, Add, Memory, Call, Leave, Generic, Execute
  <2>2. /\ relocs \subseteq relocs' /\ unresolved \subseteq unresolved'
        /\ \A r \in relocs' \ relocs : r.kind # "branch"
    BY <1>1 DEF Adrp, Add, Memory, Call, Leave, Generic, Pairs, PairRelocs, Reloc, Branches
  <2> QED
    BY <2>1, <2>2 DEF BranchInv
<1>2. ASSUME NEW insn \in Insns, insn.m \in Branches, Adrp(insn) \/ Add(insn) \/ Memory(insn)
      PROVE  FALSE
  BY <1>2 DEF Adrp, Add, Memory, IsMem, Branches
<1>3. CASE UNCHANGED <<offset, relocs, called, unresolved>>
  BY <1>3 DEF BranchInv
<1> QED
  BY <1>1, <1>2, <1>3, BranchAdds DEF Next, Label, Finished, vars

\* Wherever the linker places the functions and stubs, every branch of the
\* function goes where it went, or is a call into the middle of another one
\* and was counted; jumps must go to starts or stay in the function.
THEOREM BranchesFollow ==
  ASSUME JumpsOfStarts(Insns)
  PROVE  Spec => []RelinkedBranches
<1>1. Init => BranchInv
  BY DEF Init, BranchInv
<1>2. BranchInv /\ [Next]_vars => BranchInv'
  BY BranchStep
<1>3. ASSUME BranchInv PROVE RelinkedBranches
  <2> SUFFICES ASSUME NEW b \in called, ~(b.target \notin Entries /\ b.at \in unresolved)
               PROVE  Lands(b) = {Places[b.target]}
    BY DEF RelinkedBranches
  <2> DEFINE named == {r \in relocs : r.kind = "branch" /\ r.at = b.at}
  <2>1. \A r \in named : r.target = b.target
    BY <1>3 DEF BranchInv
  <2>2. CASE named # {}
    BY <2>1, <2>2 DEF Lands
  <2>3. CASE named = {}
    <3>1. b.target \in Own
      BY <1>3, <2>3 DEF BranchInv
    <3>2. /\ Start \in Int /\ b.at \in Int /\ b.target \in Int /\ Places[Start] \in Int
          /\ Places[b.target] = Places[Start] + (b.target - Start)
      BY <1>3, <3>1, PlacesAssumption DEF BranchInv
    <3>3. Lands(b) = {(Places[Start] + b.at) + (b.target - (Start + b.at))}
      BY <2>3 DEF Lands
    <3> QED
      BY <3>2, <3>3
  <2> QED
    BY <2>2, <2>3
<1> QED
  BY <1>1, <1>2, <1>3, PTL DEF Spec
=============================================================================
