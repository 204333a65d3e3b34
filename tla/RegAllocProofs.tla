--------------------------- MODULE RegAllocProofs ---------------------------
(***************************************************************************)
(* Proofs about RegAlloc for every function over any finite set of         *)
(* registers, any palettes and any limits on the rounds: allocated code    *)
(* never loses a callee-saved register that the prologue does not save;    *)
(* what the interference graph is built from is the least solution of the  *)
(* dataflow equations, although the number of passes is limited; the graph *)
(* that is coloured is the graph of the code; and once everything has been *)
(* spilled the next colouring succeeds.                                    *)
(***************************************************************************)
EXTENDS RegAlloc, FiniteSetTheorems, SequenceTheorems, TLAPS

----------------------------------------------------------------------------
(* The members of a finite set of numbers can be ordered: how many members *)
(* are not greater than a given one tells the members apart, and so takes  *)
(* every value from 1 to their number.                                     *)

LEMMA Ordered ==
  ASSUME NEW K \in SUBSET Int, IsFiniteSet(K)
  PROVE  /\ Cardinality(K) \in Nat
         /\ Order(K) \in [1..Cardinality(K) -> K]
         /\ \A k \in K : \E i \in 1..Cardinality(K) : Order(K)[i] = k
         /\ \A i \in 1..Cardinality(K) :
              Cardinality({j \in K : j <= Order(K)[i]}) = i
<1> DEFINE below(k) == {j \in K : j <= k}
           n == Cardinality(K)
           rank == [k \in K |-> Cardinality(below(k))]
<1>1. n \in Nat
  BY FS_CardinalityType
<1>2. ASSUME NEW k \in K PROVE IsFiniteSet(below(k)) /\ rank[k] \in 1..n
  <2>1. below(k) \in SUBSET K /\ k \in below(k)
    OBVIOUS
  <2>2. IsFiniteSet(below(k)) /\ Cardinality(below(k)) <= n
    BY <2>1, FS_Subset
  <2>3. Cardinality(below(k)) \in Nat /\ Cardinality(below(k)) # 0
    BY <2>1, <2>2, FS_CardinalityType, FS_EmptySet
  <2> QED
    BY <1>1, <2>2, <2>3
<1>3. ASSUME NEW k \in K, NEW l \in K, k < l PROVE rank[k] # rank[l]
  <2>1. below(k) \in SUBSET below(l) /\ below(k) # below(l)
    <3>1. \A j \in K : j \in Int
      OBVIOUS
    <3>2. \A j \in K : j <= k => j <= l
      BY <1>3, <3>1
    <3>3. l \in below(l) /\ l \notin below(k)
      BY <1>3, <3>1
    <3> QED
      BY <3>2, <3>3
  <2>2. Cardinality(below(l)) # Cardinality(below(k))
    BY <1>2, <2>1, FS_Subset
  <2> QED
    BY <2>2
<1>4. rank \in Injection(K, 1..n)
  <2>1. ASSUME NEW k \in K, NEW l \in K, rank[k] = rank[l] PROVE k = l
    <3>1. k \in Int /\ l \in Int
      OBVIOUS
    <3>2. ~(k < l) /\ ~(l < k)
      BY <1>3, <2>1
    <3> QED
      BY <3>1, <3>2
  <2>2. rank \in [K -> 1..n]
    BY <1>2
  <2> HIDE DEF rank
  <2> QED
    BY <2>1, <2>2 DEF Injection, IsInjective
<1>5. IsFiniteSet(1..n) /\ Cardinality(1..n) = n
  BY <1>1, FS_Interval
<1>6. rank \in Surjection(K, 1..n)
  <2> HIDE DEF rank
  <2> QED
    BY <1>4, <1>5, FS_Injection
<1>7. \A i \in 1..n : \E k \in K : rank[k] = i
  <2> HIDE DEF rank
  <2> QED
    BY <1>6 DEF Surjection
<1>8. ASSUME NEW i \in 1..n
      PROVE  Order(K)[i] \in K /\ Cardinality(below(Order(K)[i])) = i
  <2>1. Order(K)[i] = CHOOSE k \in K : Cardinality({j \in K : j <= k}) = i
    BY DEF Order
  <2>2. \E k \in K : Cardinality({j \in K : j <= k}) = i
    BY <1>7
  <2> QED
    BY <2>1, <2>2
<1>9. ASSUME NEW k \in K PROVE \E i \in 1..n : Order(K)[i] = k
  <2>1. rank[k] \in 1..n
    BY <1>2
  <2>2. Order(K)[rank[k]] \in K /\ rank[Order(K)[rank[k]]] = rank[k]
    BY <1>8, <2>1
  <2>3. Order(K)[rank[k]] = k
    <3> HIDE DEF rank
    <3> QED
      BY <1>4, <2>2 DEF Injection, IsInjective
  <2> QED
    BY <2>1, <2>3
<1>10. Order(K) = [i \in 1..n |-> Order(K)[i]]
  BY SMTT(30) DEF Order
<1> QED
  BY <1>1, <1>8, <1>9, <1>10

(* What Picked keeps: as many members as places, all of them and no more.  *)
LEMMA PickedFacts ==
  ASSUME NEW S, NEW s \in Seq(S), NEW K \in SUBSET DOMAIN s
  PROVE  /\ Picked(s, K) \in Seq(S)
         /\ \A k \in K : \E i \in DOMAIN Picked(s, K) : Picked(s, K)[i] = s[k]
         /\ \A i \in DOMAIN Picked(s, K) : \E k \in K : Picked(s, K)[i] = s[k]
<1>1. DOMAIN s = 1..Len(s) /\ Len(s) \in Nat
  OBVIOUS
<1>2. K \in SUBSET Int /\ IsFiniteSet(K)
  <2>1. IsFiniteSet(1..Len(s))
    BY <1>1, FS_Interval
  <2>2. K \in SUBSET (1..Len(s))
    BY <1>1
  <2> QED
    BY <2>1, <2>2, FS_Subset
<1> DEFINE n == Cardinality(K)
<1>3. /\ n \in Nat
      /\ Order(K) \in [1..n -> K]
      /\ \A k \in K : \E i \in 1..n : Order(K)[i] = k
  BY <1>2, Ordered
<1>4. Picked(s, K) = [i \in 1..n |-> s[Order(K)[i]]]
  BY DEF Picked
<1>5. \A i \in 1..n : Order(K)[i] \in K /\ s[Order(K)[i]] \in S
  BY <1>3
<1> HIDE DEF n
<1>6. Picked(s, K) \in Seq(S)
  <2>1. Picked(s, K) \in [1..n -> S]
    BY <1>4, <1>5
  <2> QED
    BY <1>3, <2>1, SeqDef
<1>7. DOMAIN Picked(s, K) = 1..n /\ \A i \in 1..n : Picked(s, K)[i] = s[Order(K)[i]]
  BY <1>4
<1>8. ASSUME NEW k \in K
      PROVE  \E i \in DOMAIN Picked(s, K) : Picked(s, K)[i] = s[k]
  <2>1. PICK i \in 1..n : Order(K)[i] = k
    BY <1>3
  <2> QED
    BY <2>1, <1>7
<1>9. ASSUME NEW i \in DOMAIN Picked(s, K)
      PROVE  \E k \in K : Picked(s, K)[i] = s[k]
  BY <1>5, <1>7
<1> QED
  BY <1>6, <1>8, <1>9

(* A finite set of numbers has a greatest one.                             *)
LEMMA Greatest ==
  ASSUME NEW K \in SUBSET Int, IsFiniteSet(K), K # {}
  PROVE  Max(K) \in K /\ \A y \in K : y <= Max(K)
<1> DEFINE n == Cardinality(K)
           x == Order(K)[n]
<1>1. n \in Nat /\ n # 0
  BY FS_CardinalityType, FS_EmptySet
<1>2. x \in K /\ Cardinality({j \in K : j <= x}) = n
  BY <1>1, Ordered
<1>3. {j \in K : j <= x} = K
  BY <1>2, FS_Subset
<1>4. \A y \in K : x >= y
  BY <1>2, <1>3
<1> QED
  BY <1>2, <1>4 DEF Max

(* A sequence rewritten place by place.                                    *)
LEMMA Mapped ==
  ASSUME NEW S, NEW T, NEW c \in Seq(S), NEW d \in [DOMAIN c -> T]
  PROVE  d \in Seq(T) /\ Len(d) = Len(c) /\ DOMAIN d = DOMAIN c
<1>1. DOMAIN c = 1..Len(c) /\ Len(c) \in Nat
  OBVIOUS
<1>2. d \in [1..Len(c) -> T]
  BY <1>1
<1>3. d \in Seq(T)
  BY <1>1, <1>2, SeqDef
<1>4. DOMAIN d = 1..Len(d) /\ Len(d) \in Nat
  BY <1>3
<1> QED
  BY <1>1, <1>2, <1>3, <1>4

----------------------------------------------------------------------------
(* Machine functions over the registers D.                                 *)

(* What executes these defines a register.                                 *)
Defining == {"Li", "Op", "Lw", "Entry", "Move", "SpillLw"}

(* The instructions of a function of n blocks.                             *)
Instructions(D, n) ==
  {m \in [op : Ops, dst : D \cup {NoReg}, use : Seq(D), imm : Int] :
     /\ m.op \in Defining => m.dst \in D
     /\ IsJump(m) => m.imm \in 1..n}

IsProgram(g, D) == g \in Seq(Seq(Instructions(D, Len(g)))) /\ Len(g) > 0

LEMMA ProgramFacts ==
  ASSUME NEW D, NEW g, IsProgram(g, D)
  PROVE  /\ Len(g) \in Nat /\ Len(g) > 0 /\ DOMAIN g = 1..Len(g)
         /\ \A b \in DOMAIN g : /\ g[b] \in Seq(Instructions(D, Len(g)))
                                 /\ DOMAIN g[b] = 1..Len(g[b])
                                 /\ Len(g[b]) \in Nat
         /\ \A b \in DOMAIN g : \A k \in DOMAIN g[b] :
              /\ g[b][k] \in Insts(g) /\ g[b][k] \in Instructions(D, Len(g))
              /\ Uses(g[b][k]) \cup Defs(g[b][k]) \subseteq VRegs(g)
<1>1. g \in Seq(Seq(Instructions(D, Len(g)))) /\ Len(g) > 0
  BY DEF IsProgram
<1>2. \A b \in DOMAIN g : \A k \in DOMAIN g[b] : g[b][k] \in Insts(g)
  BY DEF Insts, Blocks, Range
<1>3. \A m \in Insts(g) : Uses(m) \cup Defs(m) \subseteq VRegs(g)
  BY DEF VRegs
<1>4. \A b \in DOMAIN g : /\ g[b] \in Seq(Instructions(D, Len(g)))
                          /\ DOMAIN g[b] = 1..Len(g[b])
                          /\ Len(g[b]) \in Nat
  BY <1>1
<1>5. \A b \in DOMAIN g : \A k \in DOMAIN g[b] : g[b][k] \in Instructions(D, Len(g))
  BY <1>4
<1>6. Len(g) \in Nat /\ Len(g) > 0 /\ DOMAIN g = 1..Len(g)
  BY <1>1
<1> QED
  BY <1>2, <1>3, <1>4, <1>5, <1>6

(* A function rewritten block by block.                                    *)
LEMMA Rewritten ==
  ASSUME NEW D, NEW E, NEW g, IsProgram(g, D),
         NEW h \in [DOMAIN g -> Seq(Instructions(E, Len(g)))]
  PROVE  IsProgram(h, E) /\ Len(h) = Len(g) /\ DOMAIN h = DOMAIN g
<1>1. g \in Seq(Seq(Instructions(D, Len(g)))) /\ Len(g) > 0
  BY DEF IsProgram
<1>2. h \in Seq(Seq(Instructions(E, Len(g)))) /\ Len(h) = Len(g) /\ DOMAIN h = DOMAIN g
  BY <1>1, Mapped
<1> QED
  BY <1>1, <1>2 DEF IsProgram

(* Registers are added, never taken away.                                  *)
LEMMA Wider ==
  ASSUME NEW D, NEW E, D \subseteq E, NEW n
  PROVE  Instructions(D, n) \subseteq Instructions(E, n)
<1>1. Seq(D) \subseteq Seq(E)
  BY SeqMonotonic
<1> QED
  BY <1>1 DEF Instructions

LEMMA WiderProgram ==
  ASSUME NEW D, NEW E, D \subseteq E, NEW g, IsProgram(g, D)
  PROVE  IsProgram(g, E)
<1>1. Instructions(D, Len(g)) \subseteq Instructions(E, Len(g))
  BY Wider
<1>2. \A b \in DOMAIN g : g[b] \in Seq(Instructions(E, Len(g)))
  BY <1>1, ProgramFacts, SeqMonotonic
<1>3. g \in [DOMAIN g -> Seq(Instructions(E, Len(g)))]
  BY <1>2, ProgramFacts DEF IsProgram
<1> QED
  BY <1>3, Rewritten

(* What an instruction over D reads and defines.                           *)
LEMMA Operands ==
  ASSUME NEW D, NEW n, NEW m \in Instructions(D, n)
  PROVE  /\ Uses(m) \subseteq D /\ \A k \in DOMAIN m.use : m.use[k] \in D
         /\ Defs(m) \subseteq D
<1>1. m.use \in Seq(D) /\ m.dst \in D \cup {NoReg}
  BY DEF Instructions
<1>2. \A k \in DOMAIN m.use : m.use[k] \in D
  BY <1>1
<1> QED
  BY <1>1, <1>2 DEF Uses, Defs, Range

LEMMA InstsOf ==
  ASSUME NEW D, NEW g, IsProgram(g, D), NEW m \in Insts(g)
  PROVE  m \in Instructions(D, Len(g))
<1>1. PICK b \in DOMAIN g : m \in Range(g[b])
  BY DEF Insts, Blocks
<1>2. PICK k \in DOMAIN g[b] : m = g[b][k]
  BY <1>1 DEF Range
<1> QED
  BY <1>2, ProgramFacts

LEMMA RegistersOf ==
  ASSUME NEW D, NEW g, IsProgram(g, D)
  PROVE  VRegs(g) \subseteq D
<1>1. \A m \in Insts(g) : m \in Instructions(D, Len(g))
  BY InstsOf
<1>2. \A m \in Insts(g) : Uses(m) \cup Defs(m) \subseteq D
  BY <1>1, Operands
<1> QED
  BY <1>2 DEF VRegs

(* A function is one over its own registers.                               *)
LEMMA OwnRegisters ==
  ASSUME NEW D, NEW g, IsProgram(g, D), NoReg \notin D
  PROVE  IsProgram(g, VRegs(g))
<1> DEFINE E == VRegs(g)
           n == Len(g)
<1>1. ASSUME NEW b \in DOMAIN g, NEW k \in DOMAIN g[b]
      PROVE  g[b][k] \in Instructions(E, n)
  <2> DEFINE m == g[b][k]
  <2>1. m \in Instructions(D, n) /\ Uses(m) \subseteq E /\ Defs(m) \subseteq E
    BY ProgramFacts
  <2>2. m.use \in Seq(D) /\ m.dst \in D \cup {NoReg}
    BY <2>1 DEF Instructions
  <2>3. \A i \in DOMAIN m.use : m.use[i] \in E
    BY <2>1 DEF Uses, Range
  <2>4. m.use \in Seq(E)
    <3>1. m.use \in [1..Len(m.use) -> E] /\ Len(m.use) \in Nat
      BY <2>2, <2>3
    <3> QED
      BY <3>1, SeqDef
  <2>5. m.dst \in E \/ m.dst = NoReg
    BY <2>1, <2>2 DEF Defs
  <2> HIDE DEF E, n, m
  <2>6. m.op \in Defining => m.dst \in E
    BY <2>1, <2>5 DEF Instructions
  <2>7. m \in Instructions(E, n)
    BY <2>1, <2>4, <2>5, <2>6 DEF Instructions
  <2> QED
    BY <2>7 DEF m
<1>2. ASSUME NEW b \in DOMAIN g PROVE g[b] \in Seq(Instructions(E, n))
  <2>1. g[b] \in [1..Len(g[b]) -> Instructions(E, n)] /\ Len(g[b]) \in Nat
    BY <1>1, ProgramFacts
  <2> QED
    BY <2>1, SeqDef
<1> HIDE DEF E, n
<1>3. g \in [DOMAIN g -> Seq(Instructions(E, n))]
  BY <1>2 DEF IsProgram
<1> QED
  BY <1>3, Rewritten DEF E, n

(* One past the greatest register is a number.                             *)
LEMMA MaxRegType ==
  ASSUME NEW g, VRegs(g) \in SUBSET Nat, IsFiniteSet(VRegs(g))
  PROVE  maxReg(g) \in Nat
<1> DEFINE K == VRegs(g) \cup {NoReg}
<1>1. K \in SUBSET Int /\ K # {}
  BY DEF NoReg
<1>2. IsFiniteSet(K)
  BY FS_AddElement
<1>3. Max(K) \in K
  <2> HIDE DEF K
  <2> QED
    BY <1>1, <1>2, Greatest
<1> QED
  BY <1>3 DEF maxReg, NoReg

----------------------------------------------------------------------------
(* The inductive invariant.                                                *)

(* The code is a function of as many blocks as ever over the registers     *)
(* that orig knows, and orig leads to the registers of the input.          *)
CodeOK ==
  /\ DOMAIN orig \in SUBSET Nat /\ IsFiniteSet(DOMAIN orig)
  /\ orig \in [DOMAIN orig -> Nat]
  /\ IsProgram(code, DOMAIN orig)
  /\ spillCount \in Nat

(* A spill round in progress: what is copied is an instruction, what is    *)
(* stored has a slot, and what has been written so far is code.            *)
SpillOK ==
  stage = "spill" =>
    /\ sp = [remat |-> sp.remat, slot |-> sp.slot, b |-> sp.b, k |-> sp.k,
             out |-> sp.out, nreg |-> sp.nreg]
    /\ \A r \in DOMAIN sp.remat :
         sp.remat[r] \in Instructions(DOMAIN orig, Len(code)) /\ sp.remat[r].op = "Li"
    /\ DOMAIN sp.slot \subseteq Nat /\ sp.slot \in [DOMAIN sp.slot -> Nat]
    /\ sp.b \in Nat \ {0} /\ sp.k \in Nat \ {0} /\ sp.nreg \in Nat
    /\ sp.out \in Seq(Instructions(DOMAIN orig, Len(code)))

(* The registers coloured are those of the code.                           *)
ColorOK ==
  stage = "color" =>
    in.nodes = VRegs(code) /\ color \in [VRegs(code) -> Phys \cup {NoReg}]

Unsaved == Range(CalleePhys) \ saved.usedCS

(* Execution begins in the first block, with every callee-saved register   *)
(* holding what the caller left in it; when it runs, every register has a  *)
(* colour, and those not saved are the ones without a register of the code.*)
RunOK ==
  /\ DOMAIN regs = Phys
  /\ pc \in [b : 1..Len(code), k : Nat \ {0}]
  /\ stage \notin {"run", "stop"} => \A p \in Range(CalleePhys) : -p \in regs[p]
  /\ stage = "run" =>
       /\ color \in [VRegs(code) -> Phys]
       /\ saved.usedCS = usedCalleeSaved
       /\ saved.hasCall <=> \E m \in Insts(code) : m.op = "Call"
       /\ \A p \in Unsaved : -p \in regs[p]

IInv == CodeOK /\ SpillOK /\ ColorOK /\ RunOK

----------------------------------------------------------------------------
(* The stages of allocate.                                                 *)

LEMMA InitIInv ==
  ASSUME NEW R \in SUBSET Nat, IsFiniteSet(R), NEW f, IsProgram(f, R), StartWith(f)
  PROVE  IInv
<1>1. /\ stage = "trim" /\ code = f /\ spillCount = 0
      /\ orig = [r \in VRegs(f) |-> r]
      /\ pc = [b |-> 1, k |-> 1]
      /\ regs = [p \in Phys |-> IF p \in Range(ArgRegs) \cup Range(CalleePhys)
                              THEN {-p} ELSE {}]
  BY DEF StartWith
<1>2. VRegs(f) \in SUBSET Nat /\ IsFiniteSet(VRegs(f))
  BY RegistersOf, FS_Subset
<1>3. IsProgram(f, VRegs(f))
  BY OwnRegisters DEF NoReg
<1>4. CodeOK
  <2>1. DOMAIN orig = VRegs(f) /\ orig \in [VRegs(f) -> Nat]
    BY <1>1, <1>2
  <2> QED
    BY <1>1, <1>2, <1>3, <2>1 DEF CodeOK
<1>5. SpillOK /\ ColorOK
  BY <1>1 DEF SpillOK, ColorOK
<1>6. RunOK
  <2>1. 1 \in 1..Len(code)
    BY <1>1, ProgramFacts
  <2>2. \A p \in Range(CalleePhys) : p \in Phys /\ -p \in regs[p]
    BY <1>1 DEF Phys
  <2>3. DOMAIN regs = Phys /\ pc \in [b : 1..Len(code), k : Nat \ {0}]
    BY <1>1, <2>1
  <2> QED
    BY <1>1, <2>2, <2>3 DEF RunOK
<1> QED
  BY <1>4, <1>5, <1>6 DEF IInv

(* A pass of trimDead leaves a function of as many blocks.                 *)
LEMMA TrimPassIInv == ASSUME IInv, TrimPass PROVE IInv'
<1> DEFINE D == DOMAIN orig
           n == Len(code)
<1>1. /\ stage = "trim" /\ code' = Trimmed
      /\ UNCHANGED <<stage, orig, spillCount, saved, lv, sp, colorVars, runVars>>
  BY DEF TrimPass
<1>2. IsProgram(code, D)
  BY DEF IInv, CodeOK
<1>3. ASSUME NEW b \in DOMAIN code PROVE TrimBlock(code[b]) \in Seq(Instructions(D, n))
  <2> DEFINE kept == Picked(code[b], {k \in DOMAIN code[b] : ~IsDead(code[b][k])})
             cut(m) == IF m.op = "Call" /\ m.dst \notin UsedRegs
                       THEN [m EXCEPT !.dst = NoReg] ELSE m
  <2>1. code[b] \in Seq(Instructions(D, n))
    BY <1>2, ProgramFacts
  <2>2. kept \in Seq(Instructions(D, n))
    BY <2>1, PickedFacts
  <2>3. ASSUME NEW m \in Instructions(D, n) PROVE cut(m) \in Instructions(D, n)
    BY DEF Instructions, Defining, IsJump
  <2>4. TrimBlock(code[b]) = [k \in DOMAIN kept |-> cut(kept[k])]
    BY DEF TrimBlock
  <2> HIDE DEF kept, cut, D, n
  <2>5. TrimBlock(code[b]) \in [DOMAIN kept -> Instructions(D, n)]
    BY <2>2, <2>3, <2>4
  <2> QED
    BY <2>2, <2>5, Mapped
<1>4. IsProgram(code', D) /\ Len(code') = n
  <2>1. code' \in [DOMAIN code -> Seq(Instructions(D, n))]
    BY <1>1, <1>3 DEF Trimmed, Blocks
  <2> QED
    BY <1>2, <2>1, Rewritten
<1>5. CodeOK'
  BY <1>1, <1>4 DEF IInv, CodeOK
<1>6. SpillOK' /\ ColorOK'
  BY <1>1 DEF SpillOK, ColorOK
<1>7. RunOK'
  BY <1>1, <1>4 DEF IInv, RunOK, runVars
<1> QED
  BY <1>5, <1>6, <1>7 DEF IInv

LEMMA QuietIInv ==
  ASSUME IInv, TrimEnds \/ VisitBlock \/ NextPass
  PROVE  IInv'
<1>1. /\ stage \in {"trim", "live"} /\ stage' \in {"trim", "live"}
      /\ UNCHANGED <<code, orig, spillCount, saved, runVars>>
  BY DEF TrimEnds, VisitBlock, NextPass, allocVars
<1>2. CodeOK'
  BY <1>1 DEF IInv, CodeOK
<1>3. SpillOK' /\ ColorOK'
  BY <1>1 DEF SpillOK, ColorOK
<1>4. RunOK'
  BY <1>1 DEF IInv, RunOK, runVars
<1> QED
  BY <1>2, <1>3, <1>4 DEF IInv

LEMMA BeginColoringIInv == ASSUME IInv, BeginColoring PROVE IInv'
<1>1. /\ stage = "live" /\ stage' = "color"
      /\ in' = ColorInput /\ color' = [r \in VRegs(code) |-> NoReg]
      /\ UNCHANGED <<code, orig, spillCount, saved, runVars>>
  BY DEF BeginColoring
<1>2. CodeOK'
  BY <1>1 DEF IInv, CodeOK
<1>3. SpillOK'
  BY <1>1 DEF SpillOK
<1>4. ColorOK'
  <2>1. in'.nodes = VRegs(code)
    BY <1>1 DEF ColorInput
  <2> QED
    BY <1>1, <2>1 DEF ColorOK
<1>5. RunOK'
  BY <1>1 DEF IInv, RunOK, runVars
<1> QED
  BY <1>2, <1>3, <1>4, <1>5 DEF IInv

(* No step of the colouring takes a colour from outside the palettes.      *)
LEMMA ColorStepIInv == ASSUME IInv, ColorStep PROVE IInv'
<1>1. stage = "color" /\ CF!Next /\ UNCHANGED <<allocVars, lv, sp, runVars>>
  BY DEF ColorStep
<1>2. in' = in /\ (color' = color \/ \E i, c : c \in Phys /\ color' = [color EXCEPT ![i] = c])
  <2>1. CASE CF!Select
    <3> DEFINE i == stack[Len(stack)]
    <3>1. PICK c \in CF!Legal(i) : CF!AssignColor(i, c)
      BY <2>1 DEF CF!Select
    <3>2. c \in Phys
      BY <3>1 DEF CF!Legal, CF!Palette, Phys, Range, CF!Range
    <3> QED
      BY <2>1, <3>1, <3>2 DEF CF!Select, CF!AssignColor
  <2>2. CASE CF!Simplify \/ CF!SpillCandidate \/ CF!EndSimplify
    BY <2>2 DEF CF!Simplify, CF!SpillCandidate, CF!EndSimplify
  <2>3. CASE CF!SelectFails \/ CF!EndSelect
    BY <2>3 DEF CF!SelectFails, CF!EndSelect
  <2> QED
    BY <1>1, <2>1, <2>2, <2>3 DEF CF!Next
<1>3. CodeOK' /\ SpillOK' /\ RunOK'
  BY <1>1 DEF IInv, CodeOK, SpillOK, RunOK, allocVars, runVars
<1>4. ColorOK'
  BY <1>1, <1>2 DEF IInv, ColorOK, allocVars
<1> QED
  BY <1>3, <1>4 DEF IInv

LEMMA BakeIInv == ASSUME IInv, Bake PROVE IInv'
<1>1. /\ stage = "color" /\ Uncolored = {} /\ stage' = "run"
      /\ saved' = [usedCS  |-> usedCalleeSaved,
                   hasCall |-> \E m \in Insts(code) : m.op = "Call"]
      /\ UNCHANGED <<code, orig, spillCount, color, pc, regs>>
  BY DEF Bake, colorVars
<1>2. CodeOK'
  BY <1>1 DEF IInv, CodeOK
<1>3. SpillOK' /\ ColorOK'
  BY <1>1 DEF SpillOK, ColorOK
<1>4. color \in [VRegs(code) -> Phys]
  <2>1. in.nodes = VRegs(code) /\ color \in [VRegs(code) -> Phys \cup {NoReg}]
    BY <1>1 DEF IInv, ColorOK
  <2>2. \A r \in VRegs(code) : color[r] # NoReg
    BY <1>1, <2>1 DEF Uncolored
  <2> QED
    BY <2>1, <2>2
<1>5. RunOK'
  <2>1. saved'.usedCS = usedCalleeSaved' /\ usedCalleeSaved' = usedCalleeSaved
    BY <1>1 DEF usedCalleeSaved
  <2>2. saved'.hasCall <=> \E m \in Insts(code) : m.op = "Call"
    BY <1>1
  <2>3. \A p \in Range(CalleePhys) : -p \in regs[p]
    BY <1>1 DEF IInv, RunOK
  <2> QED
    BY <1>1, <1>4, <2>1, <2>2, <2>3 DEF IInv, RunOK, Unsaved
<1> QED
  BY <1>2, <1>3, <1>5 DEF IInv

----------------------------------------------------------------------------
(* Spill rounds.                                                           *)

LEMMA BeginSpillingIInv ==
  ASSUME IInv, stage = "color", NEW spilled \in SUBSET Nat, IsFiniteSet(spilled),
         NEW remat \in SUBSET rematCandidates, BeginSpilling(spilled, remat),
         UNCHANGED <<code, orig, saved, lv, colorVars, runVars>>
  PROVE  IInv'
<1> DEFINE D == DOMAIN orig
           n == Len(code)
           kept == spilled \ remat
<1>1. /\ sp' = [remat |-> [r \in remat |-> CHOOSE m \in Insts(code) : IsDefByLi(m, r)],
                slot |-> SlotsFor(kept),
                b |-> 1, k |-> 1, out |-> <<>>, nreg |-> maxReg(code)]
      /\ spillCount' = spillCount + Cardinality(kept)
      /\ stage' = "spill"
  BY DEF BeginSpilling
<1>2. D \in SUBSET Nat /\ IsFiniteSet(D) /\ IsProgram(code, D) /\ spillCount \in Nat
  BY DEF IInv, CodeOK
<1>3. IsFiniteSet(kept) /\ \A T \in SUBSET kept : Cardinality(T) \in Nat
  BY FS_Subset, FS_CardinalityType
<1>4. CodeOK'
  BY <1>1, <1>2, <1>3 DEF IInv, CodeOK
<1>5. ASSUME NEW r \in remat
      PROVE  /\ sp'.remat[r] \in Instructions(D, n)
             /\ sp'.remat[r].op = "Li"
  <2>1. \E m \in Insts(code) : IsDefByLi(m, r)
    BY DEF rematCandidates
  <2>2. PICK m \in Insts(code) : m = sp'.remat[r] /\ IsDefByLi(m, r)
    BY <1>1, <2>1
  <2>3. m \in Instructions(D, n)
    BY <1>2, InstsOf
  <2> QED
    BY <2>2, <2>3 DEF IsDefByLi
<1>6. DOMAIN sp'.remat = remat
  BY <1>1
<1>7. sp'.slot \in [kept -> Nat]
  <2>1. \A r \in kept : spillCount + Cardinality({s \in kept : s < r}) \in Nat
    BY <1>2, <1>3
  <2> QED
    BY <1>1, <2>1 DEF SlotsFor
<1>8. maxReg(code) \in Nat
  <2>1. VRegs(code) \in SUBSET Nat /\ IsFiniteSet(VRegs(code))
    BY <1>2, RegistersOf, FS_Subset
  <2> QED
    BY <2>1, MaxRegType
<1>9. SpillOK'
  <2>1. sp' = [remat |-> sp'.remat, slot |-> sp'.slot, b |-> 1, k |-> 1,
               out |-> <<>>, nreg |-> maxReg(code)]
    BY <1>1
  <2>2. DOMAIN sp'.slot = kept /\ kept \subseteq Nat
    BY <1>7
  <2>3. DOMAIN orig' = D /\ Len(code') = n /\ <<>> \in Seq(Instructions(D, n))
    OBVIOUS
  <2> HIDE DEF D, n, kept
  <2> QED
    BY <1>1, <1>5, <1>6, <1>7, <1>8, <2>1, <2>2, <2>3 DEF SpillOK
<1>10. ColorOK'
  BY <1>1 DEF ColorOK
<1>11. RunOK'
  BY <1>1 DEF IInv, RunOK, runVars
<1> QED
  BY <1>4, <1>9, <1>10, <1>11 DEF IInv

(* The operands of an instruction that have to be loaded.                  *)
LEMMA GoneFacts ==
  ASSUME IInv, stage = "spill", NEW m \in Instructions(DOMAIN orig, Len(code))
  PROVE  /\ GoneFrom(m) \in Seq(DOMAIN orig)
         /\ \A i \in DOMAIN GoneFrom(m) :
              GoneFrom(m)[i] \in DOMAIN sp.remat \cup DOMAIN sp.slot
<1> DEFINE K == {k \in DOMAIN m.use :
                   /\ m.use[k] \in DOMAIN sp.remat \cup DOMAIN sp.slot
                   /\ \A j \in 1..(k - 1) : m.use[j] # m.use[k]}
<1>1. m.use \in Seq(DOMAIN orig)
  BY DEF Instructions
<1>2. K \in SUBSET DOMAIN m.use
  OBVIOUS
<1>3. \A k \in K : m.use[k] \in DOMAIN sp.remat \cup DOMAIN sp.slot
  OBVIOUS
<1>4. GoneFrom(m) = Picked(m.use, K)
  BY DEF GoneFrom
<1> HIDE DEF K
<1> QED
  BY <1>1, <1>2, <1>3, <1>4, PickedFacts

LEMMA SpillInstIInv == ASSUME IInv, SpillInst PROVE IInv'
<1> DEFINE D == DOMAIN orig
           n == Len(code)
           m == code[sp.b][sp.k]
           gone == GoneFrom(m)
           tmp(r) == sp.nreg + (CHOOSE i \in DOMAIN gone : gone[i] = r) - 1
           last == sp.nreg + Len(gone)
           stored == m.dst \in DOMAIN sp.slot
           body == [m EXCEPT
                      !.use = [k \in DOMAIN m.use |->
                                 IF m.use[k] \in Range(gone) THEN tmp(m.use[k])
                                 ELSE m.use[k]],
                      !.dst = IF stored THEN last ELSE @]
           store == IF stored
                    THEN <<Inst("SpillSw", NoReg, <<last>>, sp.slot[m.dst])>>
                    ELSE <<>>
           next == IF stored THEN last + 1 ELSE last
           loads == [i \in DOMAIN gone |-> Loaded(gone[i], i)]
           E == D \cup sp.nreg..(next - 1)
<1>1. /\ stage = "spill" /\ sp.b <= n /\ sp.k <= Len(code[sp.b])
      /\ sp' = [sp EXCEPT !.k = @ + 1, !.nreg = next,
                          !.out = @ \o loads \o <<body>> \o store]
      /\ orig' = [r \in E |->
                    IF r \notin sp.nreg..(next - 1) THEN orig[r]
                    ELSE IF r < last THEN orig[gone[r - sp.nreg + 1]]
                    ELSE orig[m.dst]]
      /\ UNCHANGED <<stage, code, spillCount, saved, tries, lv, colorVars, runVars>>
  BY DEF SpillInst
<1>2. /\ D \in SUBSET Nat /\ IsFiniteSet(D) /\ orig \in [D -> Nat]
      /\ IsProgram(code, D) /\ spillCount \in Nat
  BY DEF IInv, CodeOK
<1>3. /\ sp = [remat |-> sp.remat, slot |-> sp.slot, b |-> sp.b, k |-> sp.k,
               out |-> sp.out, nreg |-> sp.nreg]
      /\ \A r \in DOMAIN sp.remat :
           sp.remat[r] \in Instructions(D, n) /\ sp.remat[r].op = "Li"
      /\ DOMAIN sp.slot \subseteq Nat /\ sp.slot \in [DOMAIN sp.slot -> Nat]
      /\ sp.b \in Nat \ {0} /\ sp.k \in Nat \ {0} /\ sp.nreg \in Nat
      /\ sp.out \in Seq(Instructions(D, n))
  BY <1>1 DEF IInv, SpillOK
<1>4. m \in Instructions(D, n)
  <2> DEFINE b == sp.b
             k == sp.k
  <2>1. b \in Nat \ {0} /\ b <= Len(code) /\ k \in Nat \ {0} /\ k <= Len(code[b])
    BY <1>1, <1>3
  <2>2. DOMAIN code = 1..Len(code) /\ Len(code) \in Nat
    BY <1>2, ProgramFacts
  <2> HIDE DEF b, k
  <2>3. b \in DOMAIN code
    BY <2>1, <2>2
  <2>4. k \in DOMAIN code[b]
    <3>1. DOMAIN code[b] = 1..Len(code[b]) /\ Len(code[b]) \in Nat
      BY <1>2, <2>3, ProgramFacts
    <3> QED
      BY <2>1, <3>1
  <2> QED
    BY <1>2, <2>3, <2>4, ProgramFacts DEF b, k
<1>5. /\ gone \in Seq(D) /\ DOMAIN gone = 1..Len(gone) /\ Len(gone) \in Nat
      /\ \A i \in DOMAIN gone : /\ gone[i] \in DOMAIN sp.remat \cup DOMAIN sp.slot
                                /\ gone[i] \in D
  <2>1. gone \in Seq(D) /\ \A i \in DOMAIN gone :
                              gone[i] \in DOMAIN sp.remat \cup DOMAIN sp.slot
    BY <1>1, <1>4, GoneFacts
  <2> HIDE DEF gone, D
  <2> QED
    BY <2>1
<1>6. m.use \in Seq(D) /\ m.dst \in D \cup {NoReg}
  BY <1>4 DEF Instructions
<1>7. last \in Nat /\ next \in Nat /\ sp.nreg <= last /\ last <= next
      /\ (stored => next = last + 1) /\ (~stored => next = last)
  BY <1>3, <1>5
<1>8. stored => m.dst \in D
  BY <1>3, <1>6 DEF NoReg
<1>9. D \subseteq E /\ E \in SUBSET Nat /\ IsFiniteSet(E)
  <2>1. sp.nreg..(next - 1) \in SUBSET Nat /\ IsFiniteSet(sp.nreg..(next - 1))
    <3>1. sp.nreg \in Nat /\ next - 1 \in Int
      BY <1>3, <1>7
    <3> HIDE DEF next
    <3>2. sp.nreg..(next - 1) \in SUBSET Nat
      BY <3>1
    <3> QED
      BY <3>1, <3>2, FS_Interval
  <2> QED
    BY <1>2, <2>1, FS_Union
<1>10. /\ Instructions(D, n) \subseteq Instructions(E, n)
       /\ Seq(Instructions(D, n)) \subseteq Seq(Instructions(E, n))
  <2>1. Instructions(D, n) \subseteq Instructions(E, n)
    BY <1>9, Wider
  <2> QED
    BY <2>1, SeqMonotonic
<1>11. \A i \in DOMAIN gone : sp.nreg + i - 1 \in E
  BY <1>3, <1>5, <1>7, SMTT(30)
<1>12. loads \in Seq(Instructions(E, n))
  <2>1. ASSUME NEW i \in DOMAIN gone PROVE Loaded(gone[i], i) \in Instructions(E, n)
    <3> DEFINE t == sp.nreg + i - 1
    <3>1. t \in E
      BY <1>11
    <3> HIDE DEF t, gone, E, n, D
    <3>2. CASE gone[i] \in DOMAIN sp.remat
      <4>1. /\ sp.remat[gone[i]] \in Instructions(E, n)
            /\ sp.remat[gone[i]].op = "Li"
        BY <1>3, <1>10, <3>2
      <4>2. [sp.remat[gone[i]] EXCEPT !.dst = t] \in Instructions(E, n)
        BY <3>1, <4>1 DEF Instructions, IsJump
      <4> QED
        BY <3>2, <4>2 DEF Loaded, t
    <3>3. CASE gone[i] \notin DOMAIN sp.remat
      <4>1. sp.slot[gone[i]] \in Nat
        BY <1>3, <1>5, <3>3
      <4>2. Inst("SpillLw", t, <<>>, sp.slot[gone[i]]) \in Instructions(E, n)
        BY <3>1, <4>1 DEF Instructions, Inst, IsJump, Ops
      <4> QED
        BY <3>3, <4>2 DEF Loaded, t
    <3> QED
      BY <3>2, <3>3
  <2>2. loads \in [DOMAIN gone -> Instructions(E, n)]
    BY <2>1
  <2> HIDE DEF loads, gone, E, n, D
  <2> QED
    BY <1>5, <2>2, Mapped
<1>13. body \in Instructions(E, n)
  <2> DEFINE u == [k \in DOMAIN m.use |->
                     IF m.use[k] \in Range(gone) THEN tmp(m.use[k]) ELSE m.use[k]]
             d == IF stored THEN last ELSE m.dst
  <2>1. ASSUME NEW k \in DOMAIN m.use PROVE u[k] \in E
    <3>1. m.use[k] \in D
      BY <1>6
    <3>2. CASE m.use[k] \in Range(gone)
      <4>1. \E i \in DOMAIN gone : gone[i] = m.use[k]
        BY <3>2 DEF Range
      <4>2. PICK i \in DOMAIN gone : tmp(m.use[k]) = sp.nreg + i - 1
        BY <4>1
      <4> QED
        BY <1>11, <3>2, <4>2
    <3> QED
      BY <1>9, <3>1, <3>2
  <2>2. u \in Seq(E)
    <3>1. u \in [DOMAIN m.use -> E]
      BY <2>1
    <3> HIDE DEF u, E, m, D
    <3> QED
      BY <1>6, <3>1, Mapped
  <2>3. d \in E \cup {NoReg} /\ (m.dst \in D => d \in E)
    <3>1. stored => last \in E
      BY <1>3, <1>7
    <3> QED
      BY <1>6, <1>9, <3>1
  <2>4. body = [m EXCEPT !.use = u, !.dst = d]
    BY <1>4 DEF Instructions
  <2> HIDE DEF u, d, body, m, E, D, n
  <2>5. [m EXCEPT !.use = u, !.dst = d] \in Instructions(E, n)
    BY <1>4, <2>2, <2>3 DEF Instructions, IsJump
  <2> QED
    BY <2>4, <2>5
<1>14. store \in Seq(Instructions(E, n))
  <2>1. CASE stored
    <3>1. last \in E /\ sp.slot[m.dst] \in Nat
      BY <1>3, <1>7, <2>1
    <3> DEFINE i == Inst("SpillSw", NoReg, <<last>>, sp.slot[m.dst])
    <3> HIDE DEF E, last, n, m
    <3>2. i \in Instructions(E, n)
      BY <3>1 DEF Instructions, Inst, IsJump, Defining, Ops
    <3>3. store = <<i>>
      BY <2>1
    <3> HIDE DEF i, store
    <3> QED
      BY <3>2, <3>3
  <2>2. CASE ~stored
    <3>1. store = <<>>
      BY <2>2
    <3> QED
      BY <3>1
  <2> QED
    BY <2>1, <2>2
<1>15. sp.out \o loads \o <<body>> \o store \in Seq(Instructions(E, n))
  <2> DEFINE I == Instructions(E, n)
  <2>1. sp.out \in Seq(I)
    BY <1>3, <1>10
  <2> HIDE DEF I, loads, body, store
  <2>2. <<body>> \in Seq(I)
    BY <1>13 DEF I
  <2>3. sp.out \o loads \in Seq(I)
    BY <1>12, <2>1, ConcatProperties DEF I
  <2>4. sp.out \o loads \o <<body>> \in Seq(I)
    BY <2>2, <2>3, ConcatProperties
  <2>5. sp.out \o loads \o <<body>> \o store \in Seq(I)
    BY <1>14, <2>4, ConcatProperties DEF I
  <2> QED
    BY <2>5 DEF I
<1>16. DOMAIN orig' = E /\ orig' \in [E -> Nat]
  <2>1. ASSUME NEW r \in E
        PROVE (IF r \notin sp.nreg..(next - 1) THEN orig[r]
               ELSE IF r < last THEN orig[gone[r - sp.nreg + 1]]
               ELSE orig[m.dst]) \in Nat
    <3>1. CASE r \notin sp.nreg..(next - 1)
      BY <1>2, <3>1
    <3>2. CASE r \in sp.nreg..(next - 1) /\ r < last
      <4>1. r - sp.nreg + 1 \in DOMAIN gone
        BY <1>3, <1>5, <1>7, <3>2, SMTT(30)
      <4>2. gone[r - sp.nreg + 1] \in D
        BY <1>5, <4>1
      <4> HIDE DEF gone, D
      <4> QED
        BY <1>2, <3>2, <4>2 DEF D
    <3>3. CASE r \in sp.nreg..(next - 1) /\ ~(r < last)
      <4>1. stored
        BY <1>3, <1>7, <3>3
      <4>2. orig[m.dst] \in Nat
        BY <1>2, <1>8, <4>1
      <4> QED
        BY <3>3, <4>2
    <3> QED
      BY <3>1, <3>2, <3>3
  <2> HIDE DEF E, gone, last, next, m
  <2> QED
    BY <1>1, <2>1
<1>17. IsProgram(code, E)
  BY <1>2, <1>9, WiderProgram
<1>18. CodeOK'
  BY <1>1, <1>2, <1>9, <1>16, <1>17 DEF CodeOK
<1>19. SpillOK'
  <2>1. sp' = [remat |-> sp.remat, slot |-> sp.slot, b |-> sp.b, k |-> sp.k + 1,
               out |-> sp.out \o loads \o <<body>> \o store, nreg |-> next]
    <3> HIDE DEF loads, body, store, next
    <3> QED
      BY <1>1, <1>3
  <2>2. DOMAIN orig' = E /\ Len(code') = n
    BY <1>1, <1>16
  <2> HIDE DEF loads, body, store, next, E, D, n
  <2>3. \A r \in DOMAIN sp.remat :
          sp.remat[r] \in Instructions(E, n) /\ sp.remat[r].op = "Li"
    BY <1>3, <1>10
  <2>4. sp.k + 1 \in Nat \ {0}
    BY <1>3
  <2> QED
    BY <1>3, <1>7, <1>15, <2>1, <2>2, <2>3, <2>4 DEF SpillOK
<1>20. ColorOK'
  BY <1>1, ZenonT(60) DEF ColorOK
<1>21. RunOK'
  BY <1>1 DEF IInv, RunOK, runVars
<1> QED
  BY <1>18, <1>19, <1>20, <1>21 DEF IInv

LEMMA SpillNextBlockIInv == ASSUME IInv, SpillNextBlock PROVE IInv'
<1> DEFINE D == DOMAIN orig
           n == Len(code)
<1>1. /\ stage = "spill" /\ sp.b <= n
      /\ code' = [code EXCEPT ![sp.b] = sp.out]
      /\ sp' = [sp EXCEPT !.b = @ + 1, !.k = 1, !.out = <<>>]
      /\ UNCHANGED <<stage, orig, spillCount, saved, tries, lv, colorVars, runVars>>
  BY DEF SpillNextBlock
<1>2. IsProgram(code, D)
  BY DEF IInv, CodeOK
<1>3. SpillOK
  BY DEF IInv
<1>4. IsProgram(code', D) /\ Len(code') = n
  <2>1. sp.out \in Seq(Instructions(D, n))
    BY <1>1, <1>3 DEF SpillOK
  <2>2. \A b \in DOMAIN code : code[b] \in Seq(Instructions(D, n))
    BY <1>2, ProgramFacts
  <2>3. code = [b \in DOMAIN code |-> code[b]]
    BY <1>2 DEF IsProgram
  <2>4. code' \in [DOMAIN code -> Seq(Instructions(D, n))]
    <3> HIDE DEF D, n
    <3> QED
      BY <1>1, <2>1, <2>2, <2>3
  <2> QED
    BY <1>2, <2>4, Rewritten
<1>5. CodeOK'
  BY <1>1, <1>4 DEF IInv, CodeOK
<1>6. SpillOK'
  <2>1. sp' = [remat |-> sp.remat, slot |-> sp.slot, b |-> sp.b + 1, k |-> 1,
               out |-> <<>>, nreg |-> sp.nreg]
    BY <1>1, <1>3 DEF SpillOK
  <2>2. /\ \A r \in DOMAIN sp.remat :
             sp.remat[r] \in Instructions(D, n) /\ sp.remat[r].op = "Li"
        /\ DOMAIN sp.slot \subseteq Nat /\ sp.slot \in [DOMAIN sp.slot -> Nat]
        /\ sp.b + 1 \in Nat \ {0} /\ sp.nreg \in Nat
    BY <1>1, <1>3 DEF SpillOK
  <2>3. DOMAIN orig' = D /\ Len(code') = n
    BY <1>1, <1>4
  <2>4. <<>> \in Seq(Instructions(D, n))
    OBVIOUS
  <2> HIDE DEF D, n
  <2> QED
    BY <2>1, <2>2, <2>3, <2>4 DEF SpillOK
<1>7. ColorOK'
  BY <1>1 DEF ColorOK
<1>8. RunOK'
  BY <1>1, <1>4 DEF IInv, RunOK, runVars
<1> QED
  BY <1>5, <1>6, <1>7, <1>8 DEF IInv

LEMMA SpillEndsIInv == ASSUME IInv, SpillEnds PROVE IInv'
<1> DEFINE D == DOMAIN orig
           n == Len(code)
<1>1. /\ stage = "spill" /\ stage' \in {"live", "failed"}
      /\ code' = [b \in DOMAIN code |-> Erased(code[b])]
      /\ UNCHANGED <<orig, spillCount, saved, tries, colorVars, runVars>>
  BY DEF SpillEnds, Blocks
<1>2. IsProgram(code, D)
  BY DEF IInv, CodeOK
<1>3. ASSUME NEW b \in DOMAIN code PROVE Erased(code[b]) \in Seq(Instructions(D, n))
  <2>1. code[b] \in Seq(Instructions(D, n))
    BY <1>2, ProgramFacts
  <2> DEFINE K == {k \in DOMAIN code[b] : code[b][k].dst \notin DOMAIN sp.remat}
  <2>2. Erased(code[b]) = Picked(code[b], K) /\ K \in SUBSET DOMAIN code[b]
    BY DEF Erased
  <2> HIDE DEF K
  <2> QED
    BY <2>1, <2>2, PickedFacts
<1>4. IsProgram(code', D) /\ Len(code') = n
  <2>1. code' \in [DOMAIN code -> Seq(Instructions(D, n))]
    BY <1>1, <1>3
  <2> QED
    BY <1>2, <2>1, Rewritten
<1>5. CodeOK'
  BY <1>1, <1>4 DEF IInv, CodeOK
<1>6. SpillOK' /\ ColorOK'
  BY <1>1 DEF SpillOK, ColorOK
<1>7. RunOK'
  BY <1>1, <1>4 DEF IInv, RunOK, runVars
<1> QED
  BY <1>5, <1>6, <1>7 DEF IInv

----------------------------------------------------------------------------
(* Execution.                                                              *)

(* The instruction about to execute is one of the code.                    *)
LEMMA Fetched ==
  ASSUME IInv, NEW ops, AtInst(ops)
  PROVE  /\ stage = "run" /\ This.op \in ops
         /\ This \in Insts(code) /\ This \in Instructions(DOMAIN orig, Len(code))
         /\ Defs(This) \subseteq VRegs(code)
<1>1. stage = "run" /\ pc.k <= Len(code[pc.b]) /\ This.op \in ops
  BY DEF AtInst, Running
<1>2. IsProgram(code, DOMAIN orig) /\ pc \in [b : 1..Len(code), k : Nat \ {0}]
  BY DEF IInv, CodeOK, RunOK
<1> DEFINE b == pc.b
           k == pc.k
<1>3. b \in 1..Len(code) /\ k \in Nat \ {0} /\ k <= Len(code[b])
  BY <1>1, <1>2
<1> HIDE DEF b, k
<1>4. b \in DOMAIN code
  BY <1>2, <1>3, ProgramFacts
<1>5. DOMAIN code[b] = 1..Len(code[b]) /\ Len(code[b]) \in Nat
  BY <1>2, <1>4, ProgramFacts
<1>6. k \in DOMAIN code[b]
  BY <1>3, <1>5
<1>7. /\ code[b][k] \in Insts(code) /\ code[b][k] \in Instructions(DOMAIN orig, Len(code))
      /\ Defs(code[b][k]) \subseteq VRegs(code)
  BY <1>2, <1>4, <1>6, ProgramFacts
<1> QED
  BY <1>1, <1>7 DEF This, b, k

(* No register of the code lives in a register that is not saved, and no   *)
(* register is taken for what the caller left there.                       *)
LEMMA UnsavedIsFree ==
  ASSUME IInv, stage = "run", NEW p \in Unsaved
  PROVE  /\ p \in Phys /\ -p \in regs[p]
         /\ \A r \in VRegs(code) : color[r] # p /\ orig[r] # -p
<1>1. p \in Range(CalleePhys) /\ p \notin usedCalleeSaved /\ -p \in regs[p]
  BY DEF IInv, RunOK, Unsaved
<1>2. p \in Nat \ {0}
  BY <1>1, CalleeSavedAssumption
<1>3. ASSUME NEW r \in VRegs(code) PROVE orig[r] # -p
  <2>1. r \in DOMAIN orig /\ orig \in [DOMAIN orig -> Nat]
    BY RegistersOf DEF IInv, CodeOK
  <2>2. orig[r] \in Nat
    BY <2>1
  <2> QED
    BY <1>2, <2>2
<1> QED
  BY <1>1, <1>3 DEF usedCalleeSaved, Phys

(* What defines a register defines one of the code's.                      *)
LEMMA DefinesRegister ==
  ASSUME IInv, NEW ops \in SUBSET Defining, AtInst(ops)
  PROVE  This.dst \in VRegs(code)
<1>1. /\ This.op \in Defining /\ This \in Instructions(DOMAIN orig, Len(code))
      /\ Defs(This) \subseteq VRegs(code)
  BY Fetched
<1>2. This.dst \in Nat
  BY <1>1 DEF Instructions, IInv, CodeOK
<1> QED
  BY <1>1, <1>2 DEF Defs, NoReg

(* A value written to the register of one of the code's registers.         *)
LEMMA WriteKeeps ==
  ASSUME IInv, stage = "run", NEW files, NEW r \in VRegs(code),
         \A p \in Unsaved : -p \in files[p],
         Write(files, color[r], orig[r])
  PROVE  DOMAIN regs' = Phys /\ \A p \in Unsaved : -p \in regs'[p]
<1>1. regs' = [p \in Phys |-> IF p = color[r] THEN {orig[r]} ELSE files[p] \ {orig[r]}]
  BY DEF Write
<1>2. ASSUME NEW p \in Unsaved PROVE -p \in regs'[p]
  <2>1. p \in Phys /\ color[r] # p /\ orig[r] # -p
    BY UnsavedIsFree
  <2> QED
    BY <1>1, <2>1
<1> QED
  BY <1>1, <1>2

(* What every step of the execution comes to.                              *)
LEMMA ExecuteFacts ==
  ASSUME IInv, Execute
  PROVE  /\ stage = "run" /\ DOMAIN regs' = Phys
         /\ pc' \in [b : 1..Len(code), k : Nat \ {0}]
         /\ \A p \in Unsaved : -p \in regs'[p]
<1>1. /\ IsProgram(code, DOMAIN orig) /\ DOMAIN orig \in SUBSET Nat
      /\ DOMAIN regs = Phys
      /\ pc \in [b : 1..Len(code), k : Nat \ {0}]
  BY DEF IInv, CodeOK, RunOK
<1>2. GoOn => pc' \in [b : 1..Len(code), k : Nat \ {0}]
  BY <1>1 DEF GoOn
<1>3. /\ {"Li", "Op", "Lw", "Entry"} \in SUBSET Defining
      /\ {"Move"} \in SUBSET Defining /\ {"SpillLw"} \in SUBSET Defining
  BY DEF Defining
<1>4. stage = "run" => \A p \in Unsaved : -p \in regs[p]
  BY UnsavedIsFree
<1>5. CASE Compute
  <2>1. /\ AtInst({"Li", "Op", "Lw", "Entry"}) /\ GoOn
        /\ Write(regs, color[This.dst], orig[This.dst])
    BY <1>5 DEF Compute
  <2>2. stage = "run" /\ This.dst \in VRegs(code)
    BY <1>3, <2>1, Fetched, DefinesRegister
  <2> QED
    BY <1>2, <1>4, <2>1, <2>2, WriteKeeps
<1>6. CASE StoreWord
  <2>1. AtInst({"Sw"}) /\ GoOn /\ UNCHANGED regs
    BY <1>6 DEF StoreWord
  <2>2. stage = "run"
    BY <2>1, Fetched
  <2> QED
    BY <1>1, <1>2, <1>4, <2>1, <2>2 DEF Unsaved
<1>7. CASE Copy
  <2> DEFINE from == orig[This.use[1]]
             d == orig[This.dst]
             copied(h) == IF from \in h THEN h \cup {d} ELSE h \ {d}
  <2>1. /\ AtInst({"Move"}) /\ GoOn
        /\ regs' = [p \in Phys |->
                      IF p = color[This.dst] THEN copied(regs[color[This.use[1]]])
                      ELSE copied(regs[p])]
    BY <1>7 DEF Copy
  <2>2. stage = "run" /\ This.dst \in VRegs(code)
    BY <1>3, <2>1, Fetched, DefinesRegister
  <2>3. ASSUME NEW p \in Unsaved PROVE -p \in regs'[p]
    <3>1. p \in Phys /\ -p \in regs[p] /\ color[This.dst] # p /\ d # -p
      BY <2>2, UnsavedIsFree
    <3>2. regs'[p] = copied(regs[p])
      BY <2>1, <3>1
    <3> QED
      BY <3>1, <3>2
  <2>4. DOMAIN regs' = Phys
    BY <2>1
  <2> QED
    BY <1>2, <2>1, <2>2, <2>3, <2>4
<1>8. CASE CallReturns
  <2> DEFINE kept == [p \in Phys |-> IF p \in Range(CalleePhys) THEN regs[p] ELSE {}]
  <2>1. /\ AtInst({"Call"}) /\ GoOn
        /\ IF This.dst = NoReg THEN regs' = kept
           ELSE Write(kept, color[This.dst], orig[This.dst])
    BY <1>8 DEF CallReturns
  <2>2. stage = "run" /\ Defs(This) \subseteq VRegs(code)
    BY <2>1, Fetched
  <2>3. \A p \in Unsaved : -p \in kept[p]
    BY <1>4, <2>2 DEF Unsaved, Phys
  <2>4. DOMAIN kept = Phys
    OBVIOUS
  <2> HIDE DEF kept
  <2>5. CASE This.dst = NoReg
    BY <1>2, <2>1, <2>2, <2>3, <2>4, <2>5
  <2>6. CASE This.dst # NoReg
    <3>1. This.dst \in VRegs(code)
      BY <2>2, <2>6 DEF Defs
    <3> QED
      BY <1>2, <2>1, <2>2, <2>3, <2>6, <3>1, WriteKeeps
  <2> QED
    BY <2>5, <2>6
<1>9. CASE Spill
  <2>1. AtInst({"SpillSw"}) /\ GoOn /\ UNCHANGED regs
    BY <1>9 DEF Spill
  <2>2. stage = "run"
    BY <2>1, Fetched
  <2> QED
    BY <1>1, <1>2, <1>4, <2>1, <2>2 DEF Unsaved
<1>10. CASE Reload
  <2>1. /\ AtInst({"SpillLw"}) /\ GoOn
        /\ regs' = [regs EXCEPT ![color[This.dst]] = mem[This.imm]]
    BY <1>10 DEF Reload
  <2>2. stage = "run" /\ This.dst \in VRegs(code)
    BY <1>3, <2>1, Fetched, DefinesRegister
  <2>3. ASSUME NEW p \in Unsaved PROVE -p \in regs'[p]
    <3>1. p \in Phys /\ -p \in regs[p] /\ color[This.dst] # p
      BY <2>2, UnsavedIsFree
    <3> QED
      BY <1>1, <2>1, <3>1
  <2>4. DOMAIN regs' = Phys
    BY <1>1, <2>1
  <2> QED
    BY <1>2, <2>1, <2>2, <2>3, <2>4
<1>11. CASE Branch
  <2>1. AtInst({"Br", "Jmp"}) /\ UNCHANGED regs
        /\ (pc' = [b |-> This.imm, k |-> 1] \/ GoOn)
    BY <1>11 DEF Branch
  <2>2. stage = "run" /\ This.imm \in 1..Len(code)
    BY <2>1, Fetched DEF Instructions, IsJump
  <2>3. pc' \in [b : 1..Len(code), k : Nat \ {0}]
    BY <1>2, <2>1, <2>2
  <2> QED
    BY <1>1, <1>4, <2>1, <2>2, <2>3 DEF Unsaved
<1>12. CASE FallThrough
  <2>1. /\ stage = "run" /\ pc.b < Len(code) /\ UNCHANGED regs
        /\ pc' = [b |-> pc.b + 1, k |-> 1]
    BY <1>12 DEF FallThrough, Running
  <2>2. pc' \in [b : 1..Len(code), k : Nat \ {0}]
    <3>1. pc.b \in 1..Len(code) /\ Len(code) \in Nat
      BY <1>1, ProgramFacts
    <3>2. pc.b + 1 \in 1..Len(code)
      BY <2>1, <3>1
    <3> QED
      BY <2>1, <3>2
  <2> QED
    BY <1>1, <1>4, <2>1, <2>2 DEF Unsaved
<1> QED
  BY <1>5, <1>6, <1>7, <1>8, <1>9, <1>10, <1>11, <1>12 DEF Execute

LEMMA ExecuteIInv == ASSUME IInv, Execute PROVE IInv'
<1>1. /\ stage = "run" /\ DOMAIN regs' = Phys
      /\ pc' \in [b : 1..Len(code), k : Nat \ {0}]
      /\ \A p \in Unsaved : -p \in regs'[p]
  BY ExecuteFacts
<1>2. UNCHANGED <<allocVars, lv, sp, colorVars>>
  BY DEF Execute
<1>3. UNCHANGED <<stage, code, orig, spillCount, saved, color>>
  BY <1>2 DEF allocVars, colorVars
<1>4. CodeOK' /\ SpillOK' /\ ColorOK'
  BY <1>1, <1>3 DEF IInv, CodeOK, SpillOK, ColorOK
<1>5. Unsaved' = Unsaved /\ usedCalleeSaved' = usedCalleeSaved
  BY <1>3 DEF Unsaved, usedCalleeSaved
<1>6. RunOK'
  BY <1>1, <1>3, <1>5 DEF IInv, RunOK
<1> QED
  BY <1>4, <1>6 DEF IInv

LEMMA ReturnIInv == ASSUME IInv, Return PROVE IInv'
<1>1. /\ stage = "run" /\ stage' = "stop"
      /\ UNCHANGED <<code, orig, spillCount, saved, runVars>>
  BY Fetched DEF Return
<1>2. CodeOK' /\ SpillOK' /\ ColorOK'
  BY <1>1 DEF IInv, CodeOK, SpillOK, ColorOK
<1>3. RunOK'
  BY <1>1 DEF IInv, RunOK, runVars
<1> QED
  BY <1>2, <1>3 DEF IInv

----------------------------------------------------------------------------
(* The theorem.                                                            *)

LEMMA NextIInv == IInv /\ [Next]_vars => IInv'
<1> SUFFICES ASSUME IInv, [Next]_vars PROVE IInv'
  OBVIOUS
<1>1. CASE SpillAndRetry
  <2>1. /\ stage = "color"
        /\ BeginSpilling(Uncolored, rematCandidates \cap Uncolored)
        /\ UNCHANGED <<code, orig, saved, lv, colorVars, runVars>>
    BY <1>1 DEF SpillAndRetry
  <2>2. Uncolored \in SUBSET Nat /\ IsFiniteSet(Uncolored)
    <3>1. VRegs(code) \in SUBSET Nat /\ IsFiniteSet(VRegs(code))
      BY RegistersOf, FS_Subset DEF IInv, CodeOK
    <3>2. Uncolored \in SUBSET VRegs(code)
      BY <2>1 DEF IInv, ColorOK, Uncolored
    <3> QED
      BY <3>1, <3>2, FS_Subset
  <2> QED
    BY <2>1, <2>2, BeginSpillingIInv
<1>2. CASE SpillEverything
  <2> DEFINE all == 0..(maxReg(code) - 1)
  <2>1. /\ stage = "color" /\ BeginSpilling(all, {})
        /\ UNCHANGED <<code, orig, saved, lv, colorVars, runVars>>
    BY <1>2 DEF SpillEverything
  <2>2. maxReg(code) \in Nat
    <3>1. VRegs(code) \in SUBSET Nat /\ IsFiniteSet(VRegs(code))
      BY RegistersOf, FS_Subset DEF IInv, CodeOK
    <3> QED
      BY <3>1, MaxRegType
  <2>3. all \in SUBSET Nat /\ IsFiniteSet(all)
    BY <2>2, FS_Interval
  <2> HIDE DEF all
  <2> QED
    BY <2>1, <2>3, BeginSpillingIInv
<1>3. CASE TrimPass
  BY <1>3, TrimPassIInv
<1>4. CASE TrimEnds \/ VisitBlock \/ NextPass
  BY <1>4, QuietIInv
<1>5. CASE BeginColoring
  BY <1>5, BeginColoringIInv
<1>6. CASE ColorStep
  BY <1>6, ColorStepIInv
<1>7. CASE Bake
  BY <1>7, BakeIInv
<1>8. CASE SpillInst
  BY <1>8, SpillInstIInv
<1>9. CASE SpillNextBlock
  BY <1>9, SpillNextBlockIInv
<1>10. CASE SpillEnds
  BY <1>10, SpillEndsIInv
<1>11. CASE Execute
  BY <1>11, ExecuteIInv
<1>12. CASE Return
  BY <1>12, ReturnIInv
<1>13. CASE UNCHANGED vars
  BY <1>13 DEF IInv, CodeOK, SpillOK, ColorOK, RunOK, Unsaved, usedCalleeSaved,
               vars, allocVars, colorVars, runVars
<1> QED
  BY <1>1, <1>2, <1>3, <1>4, <1>5, <1>6, <1>7, <1>8, <1>9, <1>10, <1>11, <1>12,
     <1>13 DEF Next

(* A callee-saved register that the list given to the prologue leaves out  *)
(* still holds the caller's value whenever allocated code runs, and code   *)
(* that calls is reported to have a call: after any number of spill rounds *)
(* and forced rounds, with any colours, copies, spills and reloads.        *)
THEOREM UnsavedRegistersSurvive ==
  ASSUME NEW R \in SUBSET Nat, IsFiniteSet(R), NEW f, IsProgram(f, R)
  PROVE  StartWith(f) /\ [][Next]_vars => []UnsavedKept
<1>1. StartWith(f) => IInv
  BY InitIInv
<1>2. IInv /\ [Next]_vars => IInv'
  BY NextIInv
<1>3. IInv => UnsavedKept
  <2> SUFFICES ASSUME IInv, Running PROVE
        /\ \A p \in Range(CalleePhys) \ saved.usedCS : -p \in regs[p]
        /\ AtInst({"Call"}) => saved.hasCall
    BY DEF UnsavedKept
  <2>1. stage = "run"
    BY DEF Running
  <2>2. AtInst({"Call"}) => saved.hasCall
    BY <2>1, Fetched DEF IInv, RunOK
  <2> QED
    BY <2>1, <2>2 DEF IInv, RunOK, Unsaved
<1> QED
  BY <1>1, <1>2, <1>3, PTL

----------------------------------------------------------------------------
(* Liveness.                                                               *)

LEMMA LiveUnfold ==
  ASSUME NEW blk, Len(blk) \in Nat, NEW out, NEW i \in 1..(Len(blk) + 1)
  PROVE  LiveBefore(blk, out)[i] =
           (out \ Written(blk, i, Len(blk) + 1))
             \cup UNION {Uses(blk[j]) \ Written(blk, i, j) : j \in i..Len(blk)}
  BY DEF LiveBefore

(* Whether a register is live before an instruction depends on what is     *)
(* live out of the block only as far as that register goes.                *)
LEMMA LiveSeparates ==
  ASSUME NEW blk, Len(blk) \in Nat, NEW out, NEW more,
         NEW i \in 1..(Len(blk) + 1), NEW r, r \in out => r \in more,
         r \in LiveBefore(blk, out)[i]
  PROVE  r \in LiveBefore(blk, more)[i]
<1> DEFINE read == UNION {Uses(blk[j]) \ Written(blk, i, j) : j \in i..Len(blk)}
           w == Written(blk, i, Len(blk) + 1)
<1>1. /\ LiveBefore(blk, out)[i] = (out \ w) \cup read
      /\ LiveBefore(blk, more)[i] = (more \ w) \cup read
  BY LiveUnfold
<1> HIDE DEF read, w
<1> QED
  BY <1>1

(* What is live is live out or read.                                       *)
LEMMA LiveIsNamed ==
  ASSUME NEW blk, Len(blk) \in Nat, NEW out, NEW V,
         out \subseteq V, \A j \in 1..Len(blk) : Uses(blk[j]) \subseteq V,
         NEW i \in 1..(Len(blk) + 1)
  PROVE  LiveBefore(blk, out)[i] \subseteq V
<1>1. \A j \in i..Len(blk) : Uses(blk[j]) \subseteq V
  OBVIOUS
<1> DEFINE read == UNION {Uses(blk[j]) \ Written(blk, i, j) : j \in i..Len(blk)}
           w == Written(blk, i, Len(blk) + 1)
<1>2. read \subseteq V
  BY <1>1
<1>3. LiveBefore(blk, out)[i] = (out \ w) \cup read
  BY LiveUnfold
<1> HIDE DEF read, w
<1> QED
  BY <1>2, <1>3

LEMMA SuccsAreBlocks ==
  ASSUME NEW g, Len(g) \in Nat, DOMAIN g = 1..Len(g), NEW b \in DOMAIN g
  PROVE  Succs(g, b) \subseteq DOMAIN g
<1>1. FallsThrough(g, b) => b + 1 \in DOMAIN g
  BY DEF FallsThrough
<1> QED
  BY <1>1 DEF Succs, Blocks

----------------------------------------------------------------------------
(* The invariant of computeLiveness.                                       *)

(* The blocks r has been found to be live into, what the successors of a   *)
(* block now need, and what the block needs itself.                        *)
Reach(r) == {b \in DOMAIN code : r \in lv.in[b]}
Flow(b) == UNION {lv.in[s] : s \in Succs(code, b)}
Wanted(b) == LiveBefore(code[b], Flow(b))[1]
Lacking(r) == {b \in DOMAIN code : r \in Wanted(b) \ lv.in[b]}

LvTyped ==
  /\ lv = [bi |-> lv.bi, guard |-> lv.guard, changed |-> lv.changed,
           in |-> lv.in, out |-> lv.out]
  /\ lv.bi \in 0..Len(code) /\ lv.guard \in Nat \ {0} /\ lv.changed \in BOOLEAN
  /\ lv.in \in [DOMAIN code -> SUBSET VRegs(code)]
  /\ lv.out \in [DOMAIN code -> SUBSET VRegs(code)]

(* Nothing is live that the equations do not ask for.                      *)
Supported == \A b \in DOMAIN code : lv.in[b] \subseteq Wanted(b)

Least ==
  \A r \in VRegs(code) : \A F \in SUBSET DOMAIN code :
    Carries(code, r, F) => Reach(r) \subseteq F

(* A register whose blocks are not all found gains one in every pass.      *)
Progress ==
  \A r \in VRegs(code) :
    \/ Cardinality(Reach(r)) >= lv.guard
    \/ Lacking(r) = {}
    \/ /\ Cardinality(Reach(r)) >= lv.guard - 1
       /\ \A b \in Lacking(r) : b <= lv.bi

Solved(b) == lv.out[b] = Flow(b) /\ lv.in[b] = Wanted(b)

Settled ==
  ~lv.changed \/ lv.guard >= Len(code) + 2 =>
    \A b \in DOMAIN code : b > lv.bi => Solved(b)

LiveOK ==
  /\ stage = "live" => LvTyped /\ Supported /\ Least /\ Progress /\ Settled
  /\ stage \in {"color", "run"} =>
       LvTyped /\ Least /\ \A b \in DOMAIN code : Solved(b)

----------------------------------------------------------------------------
(* The code as the liveness proofs use it.                                 *)
LEMMA CodeFacts ==
  ASSUME CodeOK
  PROVE  /\ Len(code) \in Nat /\ Len(code) > 0 /\ DOMAIN code = 1..Len(code)
         /\ \A b \in DOMAIN code : Len(code[b]) \in Nat /\ DOMAIN code[b] = 1..Len(code[b])
         /\ \A b \in DOMAIN code : \A k \in DOMAIN code[b] :
              Uses(code[b][k]) \cup Defs(code[b][k]) \subseteq VRegs(code)
         /\ \A b \in DOMAIN code : Succs(code, b) \subseteq DOMAIN code
         /\ VRegs(code) \in SUBSET Nat /\ IsFiniteSet(VRegs(code))
<1>1. IsProgram(code, DOMAIN orig) /\ DOMAIN orig \in SUBSET Nat /\ IsFiniteSet(DOMAIN orig)
  BY DEF CodeOK
<1>2. VRegs(code) \subseteq DOMAIN orig
  BY <1>1, RegistersOf
<1>3. VRegs(code) \in SUBSET Nat /\ IsFiniteSet(VRegs(code))
  BY <1>1, <1>2, FS_Subset
<1> QED
  BY <1>1, <1>3, ProgramFacts, SuccsAreBlocks

LEMMA WantedNamed ==
  ASSUME CodeOK, LvTyped, NEW b \in DOMAIN code
  PROVE  Flow(b) \subseteq VRegs(code) /\ Wanted(b) \subseteq VRegs(code)
<1>1. Flow(b) \subseteq VRegs(code)
  BY CodeFacts DEF LvTyped, Flow
<1>2. 1 \in 1..(Len(code[b]) + 1) /\ Len(code[b]) \in Nat
      /\ \A j \in 1..Len(code[b]) : Uses(code[b][j]) \subseteq VRegs(code)
  BY CodeFacts
<1> QED
  BY <1>1, <1>2, LiveIsNamed DEF Wanted

LEMMA ReachBounded ==
  ASSUME CodeOK, NEW r
  PROVE  /\ IsFiniteSet(Reach(r)) /\ Cardinality(Reach(r)) \in Nat
         /\ Cardinality(Reach(r)) <= Len(code)
<1> DEFINE n == Len(code)
<1>1. n \in Nat /\ DOMAIN code = 1..n
  BY CodeFacts
<1>2. Reach(r) \in SUBSET (1..n)
  BY <1>1 DEF Reach
<1> HIDE DEF n
<1>3. IsFiniteSet(1..n) /\ Cardinality(1..n) = n
  BY <1>1, FS_Interval
<1>4. Cardinality(Reach(r)) <= n
  BY <1>2, <1>3, FS_Subset
<1> QED
  BY <1>2, <1>3, <1>4, FS_Subset, FS_CardinalityType DEF n

LEMMA BeginLivenessOK ==
  ASSUME CodeOK', BeginLiveness
  PROVE  (LvTyped /\ Supported /\ Least /\ Progress /\ Settled)'
<1>1. /\ lv' = [bi |-> Len(code'), guard |-> 1, changed |-> FALSE,
                in |-> [b \in DOMAIN code' |-> {}],
                out |-> [b \in DOMAIN code' |-> {}]]
  BY DEF BeginLiveness, Blocks
<1>2. Len(code)' \in Nat /\ DOMAIN code' = 1..Len(code')
  <2>1. (Len(code) \in Nat /\ DOMAIN code = 1..Len(code))'
    BY CodeFacts
  <2> QED
    BY <2>1
<1>3. LvTyped'
  BY <1>1, <1>2 DEF LvTyped
<1>4. Supported' /\ Least'
  BY <1>1 DEF Supported, Least, Reach
<1>5. Progress'
  <2> SUFFICES ASSUME NEW r \in VRegs(code')
               PROVE  /\ Cardinality(Reach(r)') >= 0
                      /\ \A b \in Lacking(r)' : b <= Len(code')
    BY <1>1 DEF Progress
  <2>1. Reach(r)' = {}
    BY <1>1 DEF Reach
  <2>2. Cardinality(Reach(r)') = 0
    BY <2>1, FS_EmptySet
  <2> QED
    BY <1>2, <2>2 DEF Lacking
<1>6. Settled'
  BY <1>1, <1>2 DEF Settled
<1> QED
  BY <1>3, <1>4, <1>5, <1>6

(* A visit adds to what is live into one block, and takes nothing away.    *)
LEMMA VisitFacts ==
  ASSUME CodeOK, stage = "live", LiveOK, VisitBlock
  PROVE  /\ lv.bi \in DOMAIN code /\ code' = code /\ stage' = "live"
         /\ lv' = [bi |-> lv.bi - 1, guard |-> lv.guard,
                   changed |-> \/ lv.changed
                               \/ Flow(lv.bi) # lv.out[lv.bi]
                               \/ Wanted(lv.bi) # lv.in[lv.bi],
                   in |-> [lv.in EXCEPT ![lv.bi] = Wanted(lv.bi)],
                   out |-> [lv.out EXCEPT ![lv.bi] = Flow(lv.bi)]]
         /\ \A b \in DOMAIN code : /\ lv.in[b] \subseteq lv'.in[b]
                                   /\ Flow(b) \subseteq Flow(b)'
                                   /\ Wanted(b) \subseteq Wanted(b)'
         /\ LvTyped'
<1>1. stage = "live" /\ lv.bi > 0 /\ code' = code /\ stage' = "live"
  BY DEF VisitBlock, allocVars
<1>2. LvTyped /\ Supported
  BY DEF LiveOK
<1>3. lv.bi \in DOMAIN code
  BY <1>1, <1>2, CodeFacts DEF LvTyped
<1>4. lv' = [bi |-> lv.bi - 1, guard |-> lv.guard,
             changed |-> \/ lv.changed
                         \/ Flow(lv.bi) # lv.out[lv.bi]
                         \/ Wanted(lv.bi) # lv.in[lv.bi],
             in |-> [lv.in EXCEPT ![lv.bi] = Wanted(lv.bi)],
             out |-> [lv.out EXCEPT ![lv.bi] = Flow(lv.bi)]]
  <2> DEFINE b == lv.bi
             outs == UNION {lv.in[s] : s \in Succs(code, b)}
             ins == LiveBefore(code[b], outs)[1]
  <2>1. lv' = [lv EXCEPT !.bi = b - 1, !.in[b] = ins, !.out[b] = outs,
                 !.changed = @ \/ outs # lv.out[b] \/ ins # lv.in[b]]
    BY DEF VisitBlock
  <2>2. outs = Flow(b) /\ ins = Wanted(b)
    BY DEF Flow, Wanted
  <2> HIDE DEF outs, ins
  <2> QED
    BY <1>2, <2>1, <2>2 DEF LvTyped
<1>5. \A b \in DOMAIN code : lv.in[b] \subseteq lv'.in[b]
  <2>1. lv'.in = [lv.in EXCEPT ![lv.bi] = Wanted(lv.bi)]
    BY <1>4
  <2>2. lv.in[lv.bi] \subseteq Wanted(lv.bi) /\ DOMAIN lv.in = DOMAIN code
    BY <1>2, <1>3 DEF Supported, LvTyped
  <2> QED
    BY <2>1, <2>2
<1>6. ASSUME NEW b \in DOMAIN code PROVE Flow(b) \subseteq Flow(b)'
  <2>1. Succs(code, b) \subseteq DOMAIN code
    BY CodeFacts
  <2> QED
    BY <1>1, <1>5, <2>1 DEF Flow
<1>7. ASSUME NEW b \in DOMAIN code PROVE Wanted(b) \subseteq Wanted(b)'
  <2>1. Len(code[b]) \in Nat /\ 1 \in 1..(Len(code[b]) + 1)
    BY CodeFacts
  <2> DEFINE o == Flow(b)
             p == Flow(b)'
  <2>2. Wanted(b) = LiveBefore(code[b], o)[1] /\ Wanted(b)' = LiveBefore(code[b], p)[1]
    BY <1>1 DEF Wanted
  <2>3. o \subseteq p
    BY <1>6
  <2> HIDE DEF o, p
  <2> QED
    BY <2>1, <2>2, <2>3, LiveSeparates
<1>8. LvTyped'
  <2>1. /\ Wanted(lv.bi) \subseteq VRegs(code) /\ Flow(lv.bi) \subseteq VRegs(code)
    BY <1>2, <1>3, WantedNamed
  <2>2. /\ lv'.in = [lv.in EXCEPT ![lv.bi] = Wanted(lv.bi)]
        /\ lv'.out = [lv.out EXCEPT ![lv.bi] = Flow(lv.bi)]
        /\ lv'.bi = lv.bi - 1 /\ lv'.guard = lv.guard /\ lv'.changed \in BOOLEAN
        /\ lv' = [bi |-> lv'.bi, guard |-> lv'.guard, changed |-> lv'.changed,
                  in |-> lv'.in, out |-> lv'.out]
    BY <1>2, <1>4 DEF LvTyped
  <2>3. /\ lv'.in \in [DOMAIN code -> SUBSET VRegs(code)]
        /\ lv'.out \in [DOMAIN code -> SUBSET VRegs(code)]
    BY <1>2, <2>1, <2>2 DEF LvTyped
  <2>4. lv'.bi \in 0..Len(code)
    BY <1>1, <1>2, <2>2, CodeFacts DEF LvTyped
  <2> QED
    BY <1>1, <1>2, <2>2, <2>3, <2>4 DEF LvTyped
<1> QED
  BY <1>1, <1>3, <1>4, <1>5, <1>6, <1>7, <1>8

(* What one visit finds is no more than the least solution has.            *)
LEMMA VisitLeast ==
  ASSUME CodeOK, stage = "live", LiveOK, VisitBlock
  PROVE  Least'
<1> DEFINE b == lv.bi
<1>1. b \in DOMAIN code /\ code' = code
      /\ lv'.in = [lv.in EXCEPT ![b] = Wanted(b)]
  BY VisitFacts
<1>2. LvTyped /\ Least
  BY DEF LiveOK
<1> SUFFICES ASSUME NEW r \in VRegs(code), NEW F \in SUBSET DOMAIN code,
                    Carries(code, r, F), NEW x \in DOMAIN code, r \in lv'.in[x]
             PROVE  x \in F
  BY <1>1 DEF Least, Reach
<1>3. \A y \in DOMAIN code : r \in lv.in[y] => y \in F
  BY <1>2 DEF Least, Reach
<1>4. CASE x # b
  BY <1>1, <1>2, <1>3, <1>4 DEF LvTyped
<1>5. CASE x = b
  <2> DEFINE out == Flow(b)
             more == IF Succs(code, b) \cap F # {} THEN {r} ELSE {}
  <2>1. r \in LiveBefore(code[b], out)[1]
    BY <1>1, <1>2, <1>5 DEF LvTyped, Wanted
  <2>2. r \in out => r \in more
    <3>1. r \in out => \E s \in Succs(code, b) : r \in lv.in[s]
      BY DEF Flow
    <3>2. Succs(code, b) \subseteq DOMAIN code
      BY <1>1, CodeFacts
    <3> QED
      BY <1>3, <3>1, <3>2
  <2>3. Len(code[b]) \in Nat /\ 1 \in 1..(Len(code[b]) + 1)
    BY <1>1, CodeFacts
  <2> HIDE DEF out, more, b
  <2>4. r \in LiveBefore(code[b], more)[1]
    BY <2>1, <2>2, <2>3, LiveSeparates
  <2> QED
    BY <1>1, <1>5, <2>4 DEF Carries, Blocks, more
<1> QED
  BY <1>4, <1>5

LEMMA VisitProgress ==
  ASSUME CodeOK, stage = "live", LiveOK, VisitBlock
  PROVE  Progress'
<1> DEFINE b == lv.bi
<1>1. /\ b \in DOMAIN code /\ code' = code /\ lv'.bi = b - 1 /\ lv'.guard = lv.guard
      /\ lv'.in = [lv.in EXCEPT ![b] = Wanted(b)]
      /\ \A x \in DOMAIN code : lv.in[x] \subseteq lv'.in[x]
  BY VisitFacts
<1>2. LvTyped /\ Progress
  BY DEF LiveOK
<1>3. b \in Int /\ lv.guard \in Nat /\ DOMAIN lv.in = DOMAIN code
      /\ \A x \in DOMAIN code : x \in Int
  BY <1>1, <1>2, CodeFacts DEF LvTyped
<1> SUFFICES ASSUME NEW r \in VRegs(code)
             PROVE  \/ Cardinality(Reach(r)') >= lv.guard
                    \/ Lacking(r)' = {}
                    \/ /\ Cardinality(Reach(r)') >= lv.guard - 1
                       /\ \A x \in Lacking(r)' : x <= b - 1
  BY <1>1 DEF Progress
<1> DEFINE R == Reach(r)
           Q == Reach(r)'
<1>4. IsFiniteSet(R) /\ Cardinality(R) \in Nat
  BY ReachBounded
<1>5. R \subseteq Q /\ Q \subseteq R \cup {b}
  BY <1>1, <1>3 DEF Reach
<1>6. IsFiniteSet(Q) /\ Cardinality(Q) \in Nat /\ Cardinality(R) <= Cardinality(Q)
  <2>1. IsFiniteSet(R \cup {b})
    BY <1>4, FS_AddElement
  <2>2. IsFiniteSet(Q)
    BY <1>5, <2>1, FS_Subset
  <2> QED
    BY <1>5, <2>2, FS_Subset, FS_CardinalityType
<1>7. CASE b \in Lacking(r)
  <2>1. b \notin R /\ b \in Q
    BY <1>1, <1>3, <1>7 DEF Lacking, Reach
  <2>2. Q = R \cup {b}
    BY <1>5, <2>1
  <2>3. Cardinality(Q) = Cardinality(R) + 1
    BY <1>4, <2>1, <2>2, FS_AddElement
  <2>4. Cardinality(R) >= lv.guard - 1
    BY <1>2, <1>3, <1>4, <1>7 DEF Progress
  <2> HIDE DEF R, Q
  <2>5. Cardinality(Q) >= lv.guard
    BY <1>3, <1>4, <2>3, <2>4
  <2> QED
    BY <2>5 DEF Q
<1>8. CASE b \notin Lacking(r)
  <2>1. r \in Wanted(b) => r \in lv.in[b]
    BY <1>1, <1>8 DEF Lacking
  <2>2. \A x \in DOMAIN code : r \in lv'.in[x] <=> r \in lv.in[x]
    BY <1>1, <1>3, <2>1
  <2>3. Q = R
    BY <1>1, <2>2 DEF Reach
  <2>4. \A x \in DOMAIN code : r \in Wanted(x)' => r \in Wanted(x)
    <3> SUFFICES ASSUME NEW x \in DOMAIN code, r \in Wanted(x)' PROVE r \in Wanted(x)
      OBVIOUS
    <3> DEFINE o == Flow(x)
               p == Flow(x)'
    <3>1. Wanted(x) = LiveBefore(code[x], o)[1] /\ Wanted(x)' = LiveBefore(code[x], p)[1]
      BY <1>1 DEF Wanted
    <3>2. r \in p => r \in o
      <4>1. Succs(code, x) \subseteq DOMAIN code
        BY CodeFacts
      <4> QED
        BY <1>1, <2>2, <4>1 DEF Flow
    <3>3. Len(code[x]) \in Nat /\ 1 \in 1..(Len(code[x]) + 1)
      BY CodeFacts
    <3> HIDE DEF o, p
    <3> QED
      BY <3>1, <3>2, <3>3, LiveSeparates
  <2>5. Lacking(r)' \subseteq Lacking(r)
    BY <1>1, <2>2, <2>4 DEF Lacking
  <2>6. \A x \in Lacking(r)' : x <= b => x <= b - 1
    BY <1>1, <1>3, <1>8, <2>5 DEF Lacking
  <2>7. \/ Cardinality(R) >= lv.guard
        \/ Lacking(r) = {}
        \/ /\ Cardinality(R) >= lv.guard - 1
           /\ \A x \in Lacking(r) : x <= b
    BY <1>2 DEF Progress
  <2> HIDE DEF R, Q, b
  <2> QED
    BY <2>3, <2>5, <2>6, <2>7 DEF R, Q
<1> QED
  BY <1>7, <1>8

(* From the pass after the number of blocks on, nothing is found.          *)
LEMMA NothingLacking ==
  ASSUME CodeOK, LvTyped, Supported, Progress, lv.guard >= Len(code) + 2,
         NEW b \in DOMAIN code
  PROVE  lv.in[b] = Wanted(b)
<1>1. Wanted(b) \subseteq VRegs(code)
  BY WantedNamed
<1>2. ASSUME NEW r \in VRegs(code) PROVE Lacking(r) = {}
  <2>1. Cardinality(Reach(r)) \in Nat /\ Cardinality(Reach(r)) <= Len(code)
    BY ReachBounded
  <2>2. lv.guard \in Nat /\ Len(code) \in Nat
    BY CodeFacts DEF LvTyped
  <2> QED
    BY <2>1, <2>2 DEF Progress
<1>3. \A r \in Wanted(b) : r \in lv.in[b]
  BY <1>1, <1>2 DEF Lacking
<1> QED
  BY <1>3 DEF Supported

LEMMA VisitSettled ==
  ASSUME CodeOK, stage = "live", LiveOK, VisitBlock
  PROVE  Settled'
<1> DEFINE b == lv.bi
<1>1. /\ b \in DOMAIN code /\ code' = code /\ lv'.bi = b - 1 /\ lv'.guard = lv.guard
      /\ lv'.in = [lv.in EXCEPT ![b] = Wanted(b)]
      /\ lv'.out = [lv.out EXCEPT ![b] = Flow(b)]
      /\ lv'.changed <=> (lv.changed \/ Flow(b) # lv.out[b] \/ Wanted(b) # lv.in[b])
  <2>1. lv' = [bi |-> lv.bi - 1, guard |-> lv.guard,
                   changed |-> \/ lv.changed
                               \/ Flow(lv.bi) # lv.out[lv.bi]
                               \/ Wanted(lv.bi) # lv.in[lv.bi],
                   in |-> [lv.in EXCEPT ![lv.bi] = Wanted(lv.bi)],
                   out |-> [lv.out EXCEPT ![lv.bi] = Flow(lv.bi)]]
    BY VisitFacts
  <2>2. b \in DOMAIN code /\ code' = code
    BY VisitFacts
  <2> QED
    BY <2>1, <2>2
<1>2. LvTyped /\ Supported /\ Progress /\ Settled
  BY DEF LiveOK
<1>3. /\ DOMAIN lv.in = DOMAIN code /\ DOMAIN lv.out = DOMAIN code
      /\ lv.in = [x \in DOMAIN code |-> lv.in[x]]
      /\ b \in Int /\ \A x \in DOMAIN code : x \in Int
  BY <1>1, <1>2, CodeFacts DEF LvTyped
<1> SUFFICES ASSUME ~lv'.changed \/ lv.guard >= Len(code) + 2,
                    NEW x \in DOMAIN code, x > b - 1
             PROVE  Solved(x)'
  BY <1>1 DEF Settled
<1>4. Wanted(b) = lv.in[b]
  BY <1>1, <1>2, NothingLacking
<1>5. lv'.in = lv.in
  BY <1>1, <1>3, <1>4
<1>6. \A y : Flow(y)' = Flow(y) /\ Wanted(y)' = Wanted(y)
  <2>1. code' = code
    BY <1>1
  <2> QED
    BY <2>1, <1>5 DEF Flow, Wanted
<1>7. CASE x = b
  BY <1>1, <1>3, <1>4, <1>5, <1>6, <1>7 DEF Solved
<1>8. CASE x # b
  <2>1. x > b /\ (~lv.changed \/ lv.guard >= Len(code) + 2)
    BY <1>1, <1>3, <1>8
  <2>2. Solved(x)
    BY <1>2, <2>1 DEF Settled
  <2> QED
    BY <1>1, <1>3, <1>5, <1>6, <1>8, <2>2 DEF Solved
<1> QED
  BY <1>7, <1>8

LEMMA VisitLiveOK ==
  ASSUME CodeOK, LiveOK, VisitBlock
  PROVE  LiveOK'
<1>0. stage = "live"
  BY DEF VisitBlock
<1>1. LvTyped' /\ Least' /\ Progress' /\ Settled'
  BY <1>0, VisitFacts, VisitLeast, VisitProgress, VisitSettled
<1>2. Supported'
  <2>1. /\ lv.bi \in DOMAIN code /\ code' = code
        /\ lv'.in = [lv.in EXCEPT ![lv.bi] = Wanted(lv.bi)]
        /\ \A b \in DOMAIN code : Wanted(b) \subseteq Wanted(b)'
    BY <1>0, VisitFacts
  <2>2. Supported /\ DOMAIN lv.in = DOMAIN code
    BY <1>0 DEF LiveOK, LvTyped
  <2>3. ASSUME NEW b \in DOMAIN code PROVE lv'.in[b] \subseteq Wanted(b)'
    <3>1. lv'.in[b] \subseteq Wanted(b)
      BY <2>1, <2>2 DEF Supported
    <3> QED
      BY <2>1, <3>1
  <2> QED
    BY <2>1, <2>3 DEF Supported
<1>3. stage' = "live"
  BY <1>0, VisitFacts
<1> QED
  BY <1>1, <1>2, <1>3 DEF LiveOK

LEMMA NextPassLiveOK ==
  ASSUME CodeOK, LiveOK, NextPass
  PROVE  LiveOK'
<1>1. /\ stage = "live" /\ lv.bi = 0 /\ stage' = "live" /\ code' = code
      /\ lv' = [lv EXCEPT !.bi = Len(code), !.guard = @ + 1, !.changed = FALSE]
  BY DEF NextPass, allocVars
<1>2. LvTyped /\ Supported /\ Least /\ Progress
  BY <1>1 DEF LiveOK
<1>3. /\ lv' = [bi |-> Len(code), guard |-> lv.guard + 1, changed |-> FALSE,
                in |-> lv.in, out |-> lv.out]
      /\ lv'.in = lv.in /\ lv'.bi = Len(code) /\ lv'.guard = lv.guard + 1
  BY <1>1, <1>2 DEF LvTyped
<1>4. /\ \A b : Flow(b)' = Flow(b) /\ Wanted(b)' = Wanted(b)
      /\ \A r : Reach(r)' = Reach(r) /\ Lacking(r)' = Lacking(r)
  BY <1>1, <1>3 DEF Flow, Wanted, Reach, Lacking
<1>5. LvTyped'
  <2>1. Len(code) \in 0..Len(code) /\ lv.guard + 1 \in Nat \ {0}
    BY <1>2, CodeFacts DEF LvTyped
  <2>2. /\ lv.in \in [DOMAIN code -> SUBSET VRegs(code)]
        /\ lv.out \in [DOMAIN code -> SUBSET VRegs(code)]
    BY <1>2 DEF LvTyped
  <2>3. lv'.out = lv.out /\ lv'.changed = FALSE
        /\ lv' = [bi |-> lv'.bi, guard |-> lv'.guard, changed |-> lv'.changed,
                  in |-> lv'.in, out |-> lv'.out]
    BY <1>3
  <2> QED
    BY <1>1, <1>3, <2>1, <2>2, <2>3 DEF LvTyped
<1>6. Supported' /\ Least'
  BY <1>1, <1>2, <1>3, <1>4 DEF Supported, Least
<1>7. Progress'
  <2> SUFFICES ASSUME NEW r \in VRegs(code)
               PROVE  \/ Lacking(r) = {}
                      \/ /\ Cardinality(Reach(r)) >= lv.guard
                         /\ \A b \in Lacking(r) : b <= Len(code)
    <3>1. lv.guard \in Nat /\ lv'.guard - 1 = lv.guard
      BY <1>2, <1>3 DEF LvTyped
    <3> QED
      BY <1>1, <1>3, <1>4, <3>1 DEF Progress
  <2>1. \A b \in Lacking(r) : b <= Len(code) /\ ~(b <= 0)
    BY CodeFacts DEF Lacking
  <2> QED
    BY <1>1, <1>2, <2>1 DEF Progress
<1>8. Settled'
  BY <1>1, <1>3, CodeFacts DEF Settled
<1> QED
  BY <1>1, <1>5, <1>6, <1>7, <1>8 DEF LiveOK

(* When the iteration ends, by itself or at the limit, it has settled.     *)
LEMMA BeginColoringLiveOK ==
  ASSUME CodeOK, LiveOK, BeginColoring
  PROVE  LiveOK'
<1>1. /\ stage = "live" /\ lv.bi = 0 /\ ~MorePasses /\ stage' = "color"
      /\ UNCHANGED <<code, lv>>
  BY DEF BeginColoring
<1>2. LvTyped /\ Least /\ Settled
  BY <1>1 DEF LiveOK
<1>3. ~lv.changed \/ lv.guard >= Len(code) + 2
  BY <1>1, <1>2, CodeFacts DEF MorePasses, LvTyped
<1>4. \A b \in DOMAIN code : Solved(b)
  BY <1>1, <1>2, <1>3, CodeFacts DEF Settled
<1>5. LvTyped' /\ Least' /\ \A b \in DOMAIN code : Solved(b)'
  BY <1>1, <1>2, <1>4 DEF LvTyped, Least, Reach, Solved, Flow, Wanted
<1> QED
  BY <1>1, <1>5 DEF LiveOK

(* LiveOK speaks of the stage, the code and lv only.                       *)
LEMMA LiveOKKept ==
  ASSUME LiveOK, stage' = stage \/ (stage = "color" /\ stage' = "run"),
         code' = code, lv' = lv
  PROVE  LiveOK'
<1>1. /\ LvTyped' <=> LvTyped
      /\ Supported' <=> Supported
      /\ Least' <=> Least
      /\ Progress' <=> Progress
      /\ Settled' <=> Settled
      /\ \A b \in DOMAIN code : Solved(b)' <=> Solved(b)
  BY DEF LvTyped, Supported, Least, Progress, Settled, Solved, Flow, Wanted,
         Reach, Lacking
<1> QED
  BY <1>1 DEF LiveOK

LEMMA LiveOKAbsent ==
  ASSUME stage' \notin {"live", "color", "run"}
  PROVE  LiveOK'
  BY DEF LiveOK

LEMMA LiveOKStep ==
  ASSUME IInv, IInv', LiveOK, [Next]_vars
  PROVE  LiveOK'
<1>1. CodeOK /\ CodeOK'
  BY DEF IInv
<1>2. CASE VisitBlock
  BY <1>1, <1>2, VisitLiveOK
<1>3. CASE NextPass
  BY <1>1, <1>3, NextPassLiveOK
<1>4. CASE BeginColoring
  BY <1>1, <1>4, BeginColoringLiveOK
<1>5. CASE TrimEnds \/ SpillEnds
  <2>1. BeginLiveness /\ stage' \in {"live", "failed"}
    BY <1>5 DEF TrimEnds, SpillEnds
  <2>2. (LvTyped /\ Supported /\ Least /\ Progress /\ Settled)'
    BY <1>1, <2>1, BeginLivenessOK
  <2> QED
    BY <2>1, <2>2 DEF LiveOK
<1>6. CASE TrimPass \/ SpillAndRetry \/ SpillEverything \/ SpillInst \/ SpillNextBlock
           \/ Return
  <2>1. stage' \in {"trim", "spill", "stop"}
    BY <1>6 DEF TrimPass, SpillAndRetry, SpillEverything, BeginSpilling, SpillInst,
                SpillNextBlock, Return
  <2> QED
    BY <2>1, LiveOKAbsent
<1>7. CASE ColorStep \/ Bake \/ Execute \/ UNCHANGED vars
  <2>1. /\ stage' = stage \/ (stage = "color" /\ stage' = "run")
        /\ code' = code /\ lv' = lv
    BY <1>7 DEF ColorStep, Bake, Execute, vars, allocVars
  <2> QED
    BY <2>1, LiveOKKept
<1> QED
  BY <1>2, <1>3, <1>4, <1>5, <1>6, <1>7 DEF Next

(* What the equations are solved by is the least solution.                 *)
LEMMA SolutionIsLeast ==
  ASSUME CodeOK, LvTyped, Least, \A b \in DOMAIN code : Solved(b)
  PROVE  lv.out = LiveOut(code)
<1>1. ASSUME NEW b \in DOMAIN code
      PROVE  lv.out[b] = {r \in VRegs(code) : \A F \in SUBSET Blocks(code) :
                            Carries(code, r, F) => Succs(code, b) \cap F # {}}
  <2>1. Succs(code, b) \subseteq DOMAIN code /\ lv.out[b] = Flow(b)
        /\ lv.out[b] \subseteq VRegs(code)
    BY CodeFacts DEF LvTyped, Solved
  <2>2. ASSUME NEW r \in lv.out[b], NEW F \in SUBSET DOMAIN code, Carries(code, r, F)
        PROVE  Succs(code, b) \cap F # {}
    <3>1. PICK s \in Succs(code, b) : r \in lv.in[s]
      BY <2>1 DEF Flow
    <3>2. s \in F
      BY <2>1, <2>2, <3>1 DEF Least, Reach
    <3> QED
      BY <3>1, <3>2
  <2>3. ASSUME NEW r \in VRegs(code),
               \A F \in SUBSET DOMAIN code :
                 Carries(code, r, F) => Succs(code, b) \cap F # {}
        PROVE  r \in lv.out[b]
    <3> DEFINE F == Reach(r)
    <3>1. Carries(code, r, F)
      <4> SUFFICES ASSUME NEW x \in DOMAIN code,
                     r \in LiveBefore(code[x],
                             IF Succs(code, x) \cap F # {} THEN {r} ELSE {})[1]
                   PROVE  x \in F
        BY DEF Carries, Blocks
      <4> DEFINE out == IF Succs(code, x) \cap F # {} THEN {r} ELSE {}
                 more == Flow(x)
      <4>1. r \in out => r \in more
        BY DEF Flow, Reach
      <4>2. Len(code[x]) \in Nat /\ 1 \in 1..(Len(code[x]) + 1)
        BY CodeFacts
      <4>3. r \in LiveBefore(code[x], out)[1]
        OBVIOUS
      <4>4. LiveBefore(code[x], more)[1] = Wanted(x)
        BY DEF Wanted
      <4> HIDE DEF out, more
      <4>5. r \in Wanted(x)
        BY <4>1, <4>2, <4>3, <4>4, LiveSeparates
      <4> QED
        BY <4>5 DEF Solved, Reach
    <3>2. F \in SUBSET DOMAIN code
      BY DEF Reach
    <3>3. Succs(code, b) \cap F # {}
      BY <2>3, <3>1, <3>2
    <3> QED
      BY <2>1, <3>3 DEF Flow, Reach
  <2> QED
    BY <2>1, <2>2, <2>3 DEF Blocks
<1>2. lv.out = [b \in DOMAIN code |-> lv.out[b]]
  BY DEF LvTyped
<1> QED
  BY <1>1, <1>2 DEF LiveOut, Blocks

(* Whenever colouring begins, after any number of spill rounds, the limit  *)
(* on the passes of computeLiveness has not cut the iteration short: the   *)
(* live sets are the least solution of the dataflow equations.             *)
THEOREM LivenessIsSolved ==
  ASSUME NEW R \in SUBSET Nat, IsFiniteSet(R), NEW f, IsProgram(f, R)
  PROVE  StartWith(f) /\ [][Next]_vars => []LivenessSolved
<1>1. StartWith(f) => IInv /\ LiveOK
  <2>1. StartWith(f) => IInv
    BY InitIInv
  <2>2. StartWith(f) => LiveOK
    BY DEF StartWith, LiveOK
  <2> QED
    BY <2>1, <2>2
<1>2. IInv /\ LiveOK /\ [Next]_vars => (IInv /\ LiveOK)'
  BY NextIInv, LiveOKStep
<1>3. IInv /\ LiveOK => LivenessSolved
  <2> SUFFICES ASSUME IInv, LiveOK, stage = "color"
               PROVE  /\ lv.out = LiveOut(code)
                      /\ \A b \in Blocks(code) :
                           lv.in[b] = LiveBefore(code[b], lv.out[b])[1]
    BY DEF LivenessSolved
  <2>1. CodeOK /\ LvTyped /\ Least /\ \A b \in DOMAIN code : Solved(b)
    BY DEF IInv, LiveOK
  <2>2. lv.out = LiveOut(code)
    BY <2>1, SolutionIsLeast
  <2> QED
    BY <2>1, <2>2 DEF Solved, Wanted, Blocks
<1> QED
  BY <1>1, <1>2, <1>3, PTL

----------------------------------------------------------------------------
(* The colouring in the place where the allocator calls it.                *)

CFP == INSTANCE ColorFileProofs WITH Inputs <- {}

(* What the colouring has to respect is the graph of the code as it is.    *)
GraphOfCode ==
  /\ in.nodes = VRegs(code) /\ in.adj = buildGraph(lv.out)
  /\ in.crossing = Crossing(lv.out) /\ in.forbid = entryForbid

PaintOK == stage \in {"color", "run"} => CFP!Working /\ GraphOfCode

LEMMA SameCounting ==
  /\ \A S : CF!Cardinality(S) = Cardinality(S)
  /\ \A S : CFP!Cardinality(S) = Cardinality(S)
  /\ \A S : CFP!IsFiniteSet(S) = IsFiniteSet(S)
<1>1. \A S : CF!Cardinality(S) = Cardinality(S)
  BY DEF CF!Cardinality, Cardinality
<1>2. \A S : CFP!Cardinality(S) = Cardinality(S)
  BY DEF CFP!Cardinality, Cardinality
<1>3. \A S : CFP!IsFiniteSet(S) = IsFiniteSet(S)
  BY DEF CFP!IsFiniteSet, IsFiniteSet
<1> QED
  BY <1>1, <1>2, <1>3

LEMMA SamePalettes == CFP!PaletteAssumption /\ CFP!Phys = Phys
<1>1. CFP!PaletteAssumption
  BY PaletteAssumption DEF CFP!PaletteAssumption, CFP!Injective, IsInjective
<1>2. CFP!Phys = Phys
  BY DEF CFP!Phys, Phys, CFP!Range, Range
<1> QED
  BY <1>1, <1>2

(* The step of the colouring that the allocator takes is the step the      *)
(* proofs about ColorFile speak of.                                        *)
LEMMA SameStep == CF!Next => CFP!Next
  BY DEF CF!Next, CF!Simplify, CF!SpillCandidate, CF!EndSimplify, CF!Select,
     CF!SelectFails, CF!EndSelect, CF!Push, CF!Pop, CF!Left, CF!Removed,
     CF!Simplifiable, CF!degree, CF!Kof, CF!Palette, CF!Legal, CF!Used,
     CF!Prefers, CF!Before, CF!AssignColor, CF!IsSpillChoice, CF!BetterSpill,
     CF!Cheaper, CF!Range, CF!NoReg, CF!Cardinality,
     CFP!Next, CFP!Simplify, CFP!SpillCandidate, CFP!EndSimplify, CFP!Select,
     CFP!SelectFails, CFP!EndSelect, CFP!Push, CFP!Pop, CFP!Left, CFP!Removed,
     CFP!Simplifiable, CFP!degree, CFP!Kof, CFP!Palette, CFP!Legal, CFP!Used,
     CFP!Prefers, CFP!Before, CFP!AssignColor, CFP!IsSpillChoice, CFP!BetterSpill,
     CFP!Cheaper, CFP!Range, CFP!NoReg, CFP!Cardinality

(* buildGraph, Crossing and entryForbid make a graph as colorFile wants it.*)
LEMMA GraphIsGraph ==
  ASSUME CodeOK, NEW out \in [DOMAIN code -> SUBSET VRegs(code)]
  PROVE  /\ buildGraph(out) \in [VRegs(code) -> SUBSET VRegs(code)]
         /\ \A r, s \in VRegs(code) :
              s \in buildGraph(out)[r] => r \in buildGraph(out)[s] /\ r # s
         /\ Crossing(out) \in SUBSET VRegs(code)
         /\ entryForbid \in [VRegs(code) -> SUBSET Phys]
<1> DEFINE V == VRegs(code)
           edges == UNION {UNION {Conflicts(code[b][k],
                                            LiveBefore(code[b], out[b])[k + 1]) :
                                    k \in DOMAIN code[b]} : b \in Blocks(code)}
<1>1. buildGraph(out) = [r \in V |-> {s \in V : <<r, s>> \in edges \/ <<s, r>> \in edges}]
  BY DEF buildGraph
<1>2. ASSUME NEW m, NEW after, NEW r, <<r, r>> \in Conflicts(m, after)
      PROVE  FALSE
  <2>1. <<r, r>> \in Uses(m) \X Uses(m) => <<r, r>> \in {<<x, x>> : x \in Uses(m)}
    OBVIOUS
  <2>2. <<r, r>> \in Defs(m) \X ((after \ Defs(m)) \ CopySource(m)) => FALSE
    BY DEF Defs
  <2> QED
    BY <1>2, <2>1, <2>2 DEF Conflicts
<1>3. ASSUME NEW r, <<r, r>> \in edges PROVE FALSE
  <2>1. PICK b \in Blocks(code) :
          <<r, r>> \in UNION {Conflicts(code[b][k],
                                       LiveBefore(code[b], out[b])[k + 1]) :
                                k \in DOMAIN code[b]}
    BY <1>3
  <2>2. PICK k \in DOMAIN code[b] :
          <<r, r>> \in Conflicts(code[b][k], LiveBefore(code[b], out[b])[k + 1])
    BY <2>1
  <2> QED
    BY <1>2, <2>2
<1> HIDE DEF edges
<1>4. buildGraph(out) \in [V -> SUBSET V]
  BY <1>1
<1>5. \A r, s \in V : s \in buildGraph(out)[r] => r \in buildGraph(out)[s] /\ r # s
  BY <1>1, <1>3
<1>6. Crossing(out) \in SUBSET V
  <2> SUFFICES ASSUME NEW b \in DOMAIN code, NEW k \in DOMAIN code[b]
               PROVE  LiveBefore(code[b], out[b])[k + 1] \subseteq V
    BY DEF Crossing, Blocks
  <2>1. k + 1 \in 1..(Len(code[b]) + 1) /\ Len(code[b]) \in Nat
        /\ \A j \in 1..Len(code[b]) : Uses(code[b][j]) \subseteq V
    BY CodeFacts
  <2>2. out[b] \subseteq V
    OBVIOUS
  <2> HIDE DEF V
  <2> QED
    BY <2>1, <2>2, LiveIsNamed
<1>7. entryForbid \in [V -> SUBSET Phys]
  BY DEF entryForbid
<1> QED
  BY <1>4, <1>5, <1>6, <1>7

LEMMA StartPainted == CFP!IsGraph(in) /\ CFP!StartWith(in) => CFP!Working
  BY CFP!StartWorking, SamePalettes

(* The graph is a matter of the code and of what is live.                  *)
LEMMA SameGraph ==
  ASSUME UNCHANGED <<code, lv>>
  PROVE  /\ VRegs(code)' = VRegs(code) /\ buildGraph(lv.out)' = buildGraph(lv.out)
         /\ Crossing(lv.out)' = Crossing(lv.out) /\ entryForbid' = entryForbid
<1>1. VRegs(code)' = VRegs(code) /\ Blocks(code)' = Blocks(code)
  OBVIOUS
<1>2. buildGraph(lv.out)' = buildGraph(lv.out)
  BY DEF buildGraph
<1>3. Crossing(lv.out)' = Crossing(lv.out)
  BY DEF Crossing
<1>5. entryForbid' = entryForbid
  BY DEF entryForbid
<1> QED
  BY <1>1, <1>2, <1>3, <1>5

LEMMA BeginColoringPaint ==
  ASSUME CodeOK, LiveOK, LiveOK', BeginColoring
  PROVE  PaintOK'
<1>1. /\ stage' = "color" /\ in' = ColorInput
      /\ phase' = "simplify" /\ stack' = <<>> /\ cand' = {}
      /\ color' = [r \in VRegs(code) |-> NoReg]
      /\ UNCHANGED <<code, lv, orig>>
  BY DEF BeginColoring
<1>2. lv.out \in [DOMAIN code -> SUBSET VRegs(code)]
  BY DEF BeginColoring, LiveOK, LvTyped
<1>3. /\ in'.nodes = VRegs(code) /\ in'.adj = buildGraph(lv.out)
      /\ in'.crossing = Crossing(lv.out) /\ in'.forbid = entryForbid
  BY <1>1 DEF ColorInput
<1>4. GraphOfCode'
  BY <1>1, <1>3, SameGraph DEF GraphOfCode
<1>5. CFP!IsGraph(in)'
  BY <1>2, <1>3, GraphIsGraph, CodeFacts, SameCounting, SamePalettes DEF CFP!IsGraph
<1>6. CFP!StartWith(in)'
  BY <1>1, <1>3 DEF CFP!StartWith, CFP!NoReg, NoReg
<1>7. CFP!Working'
  BY <1>5, <1>6, StartPainted, PTL
<1> QED
  BY <1>4, <1>7 DEF PaintOK

(* GraphOfCode and the state of the colouring stay as they are.            *)
LEMMA PaintKept ==
  ASSUME PaintOK, stage' = stage \/ (stage = "color" /\ stage' = "run"),
         UNCHANGED <<code, lv, colorVars>>
  PROVE  PaintOK'
<1>1. CFP!Working' <=> CFP!Working
  BY DEF CFP!Working, CFP!Shape, CFP!IsGraph, CFP!ProperColoring,
     CFP!PoppedOrStacked, CFP!Roomy, CFP!Later, CFP!EasyRemoved, CFP!Easy,
     CFP!Kof, CFP!Palette, colorVars
<1>2. GraphOfCode' <=> GraphOfCode
  BY SameGraph DEF GraphOfCode, colorVars
<1> QED
  BY <1>1, <1>2 DEF PaintOK

LEMMA PaintStep ==
  ASSUME IInv, IInv', LiveOK, LiveOK', PaintOK, [Next]_vars
  PROVE  PaintOK'
<1>1. CodeOK /\ CodeOK'
  BY DEF IInv
<1>2. CASE BeginColoring
  BY <1>1, <1>2, BeginColoringPaint
<1>3. CASE ColorStep
  <2>1. stage = "color" /\ stage' = "color" /\ CF!Next /\ UNCHANGED <<code, lv>>
    BY <1>3 DEF ColorStep, allocVars
  <2>2. CFP!Working'
    BY <2>1, SameStep, SamePalettes, CFP!NextWorking DEF PaintOK
  <2>3. in' = in
    BY <2>1 DEF CF!Next, CF!Simplify, CF!SpillCandidate, CF!EndSimplify, CF!Select,
       CF!SelectFails, CF!EndSelect
  <2>4. GraphOfCode'
    BY <2>1, <2>3, SameGraph DEF PaintOK, GraphOfCode
  <2> QED
    BY <2>2, <2>4 DEF PaintOK
<1>4. CASE Bake \/ Execute \/ UNCHANGED vars
  <2>1. /\ stage' = stage \/ (stage = "color" /\ stage' = "run")
        /\ UNCHANGED <<code, lv, colorVars>>
    BY <1>4 DEF Bake, Execute, vars, allocVars
  <2> QED
    BY <2>1, PaintKept
<1>5. CASE TrimEnds \/ VisitBlock \/ NextPass \/ SpillEnds
  <2>1. stage' \in {"live", "failed"}
    BY <1>5 DEF TrimEnds, VisitBlock, NextPass, SpillEnds, allocVars
  <2> QED
    BY <2>1 DEF PaintOK
<1>6. CASE TrimPass \/ SpillAndRetry \/ SpillEverything \/ SpillInst \/ SpillNextBlock
           \/ Return
  <2>1. stage' \in {"trim", "spill", "stop"}
    BY <1>6 DEF TrimPass, SpillAndRetry, SpillEverything, BeginSpilling, SpillInst,
                SpillNextBlock, Return
  <2> QED
    BY <2>1 DEF PaintOK
<1> QED
  BY <1>2, <1>3, <1>4, <1>5, <1>6 DEF Next

----------------------------------------------------------------------------
(* What a spill round writes for one instruction.                          *)

(* A non-empty finite set of numbers has a smallest one.                   *)
LEMMA Smallest ==
  ASSUME NEW K \in SUBSET Int, IsFiniteSet(K), K # {}
  PROVE  \E x \in K : \A y \in K : x <= y
<1> DEFINE x == Order(K)[1]
           low == {j \in K : j <= x}
<1>1. Cardinality(K) \in Nat /\ Cardinality(K) # 0
  BY FS_CardinalityType, FS_EmptySet
<1>2. x \in K /\ Cardinality(low) = 1
  BY <1>1, Ordered
<1>3. IsFiniteSet(low) /\ x \in low
  <2>1. low \in SUBSET K /\ \A y \in K : y \in Int
    OBVIOUS
  <2>2. x \in low
    <3> HIDE DEF x
    <3> QED
      BY <1>2, <2>1
  <2> HIDE DEF low
  <2> QED
    BY <2>1, <2>2, FS_Subset
<1> HIDE DEF x, low
<1>4. \A y \in low : y = x
  BY <1>2, <1>3, FS_Singleton
<1>5. ASSUME NEW y \in K PROVE x <= y
  BY <1>2, <1>4 DEF low
<1> QED
  BY <1>2, <1>5

(* The instruction in hand, its operands that have to be loaded, what      *)
(* becomes of it, and how far the temporaries go.                          *)
Old == code[sp.b][sp.k]
Gone == GoneFrom(Old)
Past == sp.nreg + Len(Gone)
Stored == Old.dst \in DOMAIN sp.slot
Temp(r) == sp.nreg + (CHOOSE i \in DOMAIN Gone : Gone[i] = r) - 1
NewUse ==
  [k \in DOMAIN Old.use |->
     IF Old.use[k] \in Range(Gone) THEN Temp(Old.use[k]) ELSE Old.use[k]]
NewDst == IF Stored THEN Past ELSE Old.dst
Body == [Old EXCEPT !.use = NewUse, !.dst = NewDst]
Loads == [i \in DOMAIN Gone |-> Loaded(Gone[i], i)]
Store ==
  IF Stored THEN <<Inst("SpillSw", NoReg, <<Past>>, sp.slot[Old.dst])>> ELSE <<>>
Group == Loads \o <<Body>> \o Store
Total == IF Stored THEN Past + 1 ELSE Past

LEMMA InHand ==
  ASSUME IInv, SpillInst
  PROVE  /\ stage = "spill" /\ sp.b \in DOMAIN code /\ sp.k \in DOMAIN code[sp.b]
         /\ Old \in Instructions(DOMAIN orig, Len(code)) /\ Old \in Insts(code)
         /\ Old = [op |-> Old.op, dst |-> Old.dst, use |-> Old.use, imm |-> Old.imm]
         /\ Old.use \in Seq(DOMAIN orig)
<1> DEFINE b == sp.b
           k == sp.k
<1>1. /\ stage = "spill" /\ b <= Len(code) /\ k <= Len(code[b])
  BY DEF SpillInst
<1>2. IsProgram(code, DOMAIN orig) /\ b \in Nat \ {0} /\ k \in Nat \ {0}
  BY <1>1 DEF IInv, CodeOK, SpillOK
<1>3. DOMAIN code = 1..Len(code) /\ Len(code) \in Nat
  BY <1>2, ProgramFacts
<1> HIDE DEF b, k
<1>4. b \in DOMAIN code
  BY <1>1, <1>2, <1>3
<1>5. DOMAIN code[b] = 1..Len(code[b]) /\ Len(code[b]) \in Nat
  BY <1>2, <1>4, ProgramFacts
<1>6. k \in DOMAIN code[b]
  BY <1>1, <1>2, <1>5
<1>7. Old \in Instructions(DOMAIN orig, Len(code)) /\ Old \in Insts(code)
  BY <1>2, <1>4, <1>6, ProgramFacts DEF Old, b, k
<1> QED
  BY <1>1, <1>4, <1>6, <1>7 DEF Instructions, b, k

(* Every operand that is gone is loaded once.                              *)
LEMMA LoadedOnce ==
  ASSUME IInv, SpillInst
  PROVE  /\ Gone \in Seq(DOMAIN orig) /\ Len(Gone) \in Nat /\ DOMAIN Gone = 1..Len(Gone)
         /\ Range(Gone) = Uses(Old) \cap (DOMAIN sp.remat \cup DOMAIN sp.slot)
         /\ \A i, j \in 1..Len(Gone) : Gone[i] = Gone[j] => i = j
         /\ \A i \in 1..Len(Gone) : Temp(Gone[i]) = sp.nreg + i - 1
<1> DEFINE u == Old.use
           G == DOMAIN sp.remat \cup DOMAIN sp.slot
           K == {k \in DOMAIN u : u[k] \in G /\ \A j \in 1..(k - 1) : u[j] # u[k]}
           n == Cardinality(K)
<1>1. u \in Seq(DOMAIN orig)
  BY InHand
<1>2. Gone = Picked(u, K)
  BY DEF Gone, GoneFrom
<1> HIDE DEF u, G
<1>3. DOMAIN u = 1..Len(u) /\ Len(u) \in Nat
  BY <1>1
<1>4. K \in SUBSET Int /\ IsFiniteSet(K) /\ K \in SUBSET DOMAIN u
  <2>1. IsFiniteSet(1..Len(u)) /\ K \in SUBSET (1..Len(u))
    BY <1>3, FS_Interval
  <2> QED
    BY <1>3, <2>1, FS_Subset
<1>5. \A k \in K : u[k] \in G /\ \A j \in 1..(k - 1) : u[j] # u[k]
  OBVIOUS
<1>6. ASSUME NEW k \in DOMAIN u, u[k] \in G
      PROVE  \E i \in K : u[i] = u[k]
  <2> DEFINE same == {i \in DOMAIN u : u[i] = u[k]}
  <2>1. same \in SUBSET Int /\ IsFiniteSet(same) /\ same # {}
    <3>1. IsFiniteSet(1..Len(u)) /\ same \in SUBSET (1..Len(u))
      BY <1>3, FS_Interval
    <3> QED
      BY <1>3, <3>1, FS_Subset
  <2>2. PICK x \in same : \A y \in same : x <= y
    <3> HIDE DEF same
    <3> QED
      BY <2>1, Smallest
  <2>3. \A j \in 1..(x - 1) : u[j] # u[x]
    <3> SUFFICES ASSUME NEW j \in 1..(x - 1), u[j] = u[x] PROVE FALSE
      OBVIOUS
    <3>1. j \in same /\ j < x
      BY <1>3, <2>2
    <3> QED
      BY <1>3, <2>2, <3>1
  <2> QED
    BY <1>6, <2>2, <2>3
<1> HIDE DEF K
<1>7. /\ n \in Nat /\ Order(K) \in [1..n -> K]
      /\ \A k \in K : \E i \in 1..n : Order(K)[i] = k
      /\ \A i \in 1..n : Cardinality({j \in K : j <= Order(K)[i]}) = i
  BY <1>4, Ordered
<1>8. Gone \in Seq(DOMAIN orig)
  BY <1>1, <1>2, <1>4, PickedFacts
<1>9. Gone = [i \in 1..n |-> u[Order(K)[i]]]
  BY <1>2 DEF Picked
<1> HIDE DEF n
<1>10. Len(Gone) = n /\ DOMAIN Gone = 1..n
  BY <1>7, <1>8, <1>9
<1>11. Range(Gone) = Uses(Old) \cap G
  <2>1. ASSUME NEW r \in Range(Gone) PROVE r \in Uses(Old) \cap G
    <3>1. PICK i \in 1..n : r = u[Order(K)[i]]
      BY <1>9 DEF Range
    <3>2. Order(K)[i] \in K
      BY <1>7
    <3> QED
      BY <1>4, <1>5, <3>1, <3>2 DEF Uses, Range, u
  <2>2. ASSUME NEW r \in Uses(Old) \cap G PROVE r \in Range(Gone)
    <3>1. PICK k \in DOMAIN u : r = u[k]
      BY DEF Uses, Range, u
    <3>2. PICK x \in K : u[x] = r
      BY <1>6, <3>1
    <3>3. PICK i \in 1..n : Order(K)[i] = x
      BY <1>7
    <3> QED
      BY <1>9, <3>2, <3>3 DEF Range
  <2> QED
    BY <2>1, <2>2
<1>12. ASSUME NEW i \in 1..n, NEW j \in 1..n, Gone[i] = Gone[j] PROVE i = j
  <2> DEFINE x == Order(K)[i]
             y == Order(K)[j]
  <2>1. x \in K /\ y \in K /\ u[x] = u[y] /\ x \in Int /\ y \in Int
        /\ x \in 1..Len(u) /\ y \in 1..Len(u)
    BY <1>3, <1>4, <1>7, <1>9, <1>12
  <2>2. i = Cardinality({k \in K : k <= x}) /\ j = Cardinality({k \in K : k <= y})
    BY <1>7
  <2> HIDE DEF x, y
  <2>3. ~(x < y) /\ ~(y < x)
    BY <1>5, <2>1
  <2>4. x = y
    BY <2>1, <2>3
  <2> QED
    BY <2>2, <2>4
<1>13. ASSUME NEW i \in 1..n PROVE Temp(Gone[i]) = sp.nreg + i - 1
  <2> DEFINE c == CHOOSE j \in DOMAIN Gone : Gone[j] = Gone[i]
  <2>1. c \in DOMAIN Gone /\ Gone[c] = Gone[i]
    BY <1>10
  <2>2. c = i
    BY <1>10, <1>12, <2>1
  <2> QED
    BY <2>2 DEF Temp
<1> QED
  BY <1>7, <1>8, <1>10, <1>11, <1>12, <1>13 DEF G

(* One sequence after another.                                             *)
LEMMA Joined ==
  ASSUME NEW S, NEW s \in Seq(S), NEW t \in Seq(S)
  PROVE  /\ s \o t \in Seq(S) /\ Len(s \o t) = Len(s) + Len(t)
         /\ Len(s) \in Nat /\ Len(t) \in Nat
         /\ DOMAIN (s \o t) = 1..(Len(s) + Len(t))
         /\ \A i \in 1..Len(s) : (s \o t)[i] = s[i]
         /\ \A j \in 1..Len(t) : (s \o t)[Len(s) + j] = t[j]
<1>1. /\ s \o t \in Seq(S) /\ Len(s \o t) = Len(s) + Len(t)
      /\ \A i \in 1..(Len(s) + Len(t)) :
           (s \o t)[i] = IF i <= Len(s) THEN s[i] ELSE t[i - Len(s)]
  BY ConcatProperties
<1>2. Len(s) \in Nat /\ Len(t) \in Nat
  OBVIOUS
<1> DEFINE n == Len(s)
           l == Len(t)
           c == s \o t
<1>3. DOMAIN c = 1..(n + l)
  BY <1>1
<1> HIDE DEF n, l, c
<1>4. \A i \in 1..(n + l) : c[i] = IF i <= n THEN s[i] ELSE t[i - n]
  BY <1>1 DEF n, l, c
<1>5. \A i \in 1..n : i \in 1..(n + l) /\ i <= n
  BY <1>2 DEF n, l
<1>6. \A j \in 1..l : n + j \in 1..(n + l) /\ ~(n + j <= n) /\ (n + j) - n = j
  BY <1>2 DEF n, l
<1>7. \A i \in 1..n : c[i] = s[i]
  BY <1>4, <1>5
<1>8. \A j \in 1..l : c[n + j] = t[j]
  BY <1>4, <1>6
<1> QED
  BY <1>1, <1>2, <1>3, <1>7, <1>8 DEF n, l, c

LEMMA Replaced ==
  ASSUME NEW D, NEW n, NEW m \in Instructions(D, n), NEW u, NEW d
  PROVE  [m EXCEPT !.use = u, !.dst = d]
           = [op |-> m.op, dst |-> d, use |-> u, imm |-> m.imm]
<1> DEFINE x == [m EXCEPT !.use = u, !.dst = d]
<1>1. m \in [op : Ops, dst : D \cup {NoReg}, use : Seq(D), imm : Int]
  BY DEF Instructions
<1>2. x \in [op : Ops, dst : {d}, use : {u}, imm : Int]
  BY <1>1
<1>3. x.op = m.op /\ x.imm = m.imm
  BY <1>1
<1> HIDE DEF x
<1>4. x.dst = d /\ x.use = u
  BY <1>2
<1>5. x = [op |-> x.op, dst |-> x.dst, use |-> x.use, imm |-> x.imm]
  BY <1>2
<1> QED
  BY <1>3, <1>4, <1>5 DEF x

(* The instruction that stands for the one in hand.                        *)
LEMMA BodyFacts ==
  ASSUME IInv, SpillInst
  PROVE  /\ Body = [op |-> Old.op, dst |-> NewDst, use |-> NewUse, imm |-> Old.imm]
         /\ Len(NewUse) = Len(Old.use) /\ DOMAIN NewUse = DOMAIN Old.use
         /\ Uses(Body) = (Uses(Old) \ Range(Gone)) \cup sp.nreg..(Past - 1)
<1>1. /\ Old = [op |-> Old.op, dst |-> Old.dst, use |-> Old.use, imm |-> Old.imm]
      /\ Old.use \in Seq(DOMAIN orig)
  BY InHand
<1>2. Body = [op |-> Old.op, dst |-> NewDst, use |-> NewUse, imm |-> Old.imm]
  BY InHand, Replaced DEF Body
<1>3. Len(NewUse) = Len(Old.use) /\ DOMAIN NewUse = DOMAIN Old.use
  <2>1. NewUse \in [DOMAIN Old.use -> Range(NewUse)]
    BY DEF NewUse, Range
  <2> QED
    BY <1>1, <2>1, Mapped
<1>4. /\ Gone \in Seq(DOMAIN orig) /\ Len(Gone) \in Nat /\ DOMAIN Gone = 1..Len(Gone)
      /\ Range(Gone) \subseteq Uses(Old)
      /\ \A i \in 1..Len(Gone) : Temp(Gone[i]) = sp.nreg + i - 1
  BY LoadedOnce
<1>5. sp.nreg \in Nat
  BY InHand DEF IInv, SpillOK
<1>6. Uses(Body) = Range(NewUse)
  BY <1>2 DEF Uses
<1>7. ASSUME NEW r \in Range(NewUse)
      PROVE  r \in (Uses(Old) \ Range(Gone)) \cup sp.nreg..(Past - 1)
  <2>1. PICK k \in DOMAIN Old.use : r = NewUse[k]
    BY <1>3 DEF Range
  <2>2. CASE Old.use[k] \in Range(Gone)
    <3>1. PICK i \in 1..Len(Gone) : Old.use[k] = Gone[i]
      BY <1>4, <2>2 DEF Range
    <3>2. r = sp.nreg + i - 1
      BY <1>4, <2>1, <2>2, <3>1 DEF NewUse
    <3>3. r \in sp.nreg..(Past - 1)
      BY <1>4, <1>5, <3>2 DEF Past
    <3> QED
      BY <3>3
  <2>3. CASE Old.use[k] \notin Range(Gone)
    BY <2>1, <2>3 DEF NewUse, Uses, Range
  <2> QED
    BY <2>2, <2>3
<1>8. ASSUME NEW r \in Uses(Old) \ Range(Gone) PROVE r \in Range(NewUse)
  <2>1. PICK k \in DOMAIN Old.use : r = Old.use[k]
    BY DEF Uses, Range
  <2>2. NewUse[k] = r
    BY <1>8, <2>1 DEF NewUse
  <2> QED
    BY <1>3, <2>2 DEF Range
<1>9. ASSUME NEW r \in sp.nreg..(Past - 1) PROVE r \in Range(NewUse)
  <2> DEFINE i == r - sp.nreg + 1
  <2>1. i \in 1..Len(Gone) /\ sp.nreg + i - 1 = r
    BY <1>4, <1>5 DEF Past
  <2> HIDE DEF i
  <2>2. Gone[i] \in Range(Gone) /\ Gone[i] \in Uses(Old)
    BY <1>4, <2>1 DEF Range
  <2>3. PICK k \in DOMAIN Old.use : Gone[i] = Old.use[k]
    BY <2>2 DEF Uses, Range
  <2>4. NewUse[k] = r
    BY <1>4, <2>1, <2>2, <2>3 DEF NewUse
  <2> QED
    BY <1>3, <2>4 DEF Range
<1> QED
  BY <1>2, <1>3, <1>6, <1>7, <1>8, <1>9

(* The loads, the instruction, the store, in this order.                   *)
LEMMA GroupFacts ==
  ASSUME IInv, SpillInst
  PROVE  /\ Group \in Seq(Range(Group))
         /\ Len(Group) = Len(Gone) + 1 + (IF Stored THEN 1 ELSE 0)
         /\ Len(Group) \in Nat /\ DOMAIN Group = 1..Len(Group)
         /\ \A i \in 1..Len(Gone) : Group[i] = Loaded(Gone[i], i)
         /\ Group[Len(Gone) + 1] = Body
         /\ Stored => Group[Len(Gone) + 2]
                        = Inst("SpillSw", NoReg, <<Past>>, sp.slot[Old.dst])
<1>1. Gone \in Seq(DOMAIN orig) /\ Len(Gone) \in Nat /\ DOMAIN Gone = 1..Len(Gone)
  BY LoadedOnce
<1> DEFINE L == Loads
           B == <<Body>>
           T == Store
           S == {L[i] : i \in DOMAIN L} \cup {Body} \cup {T[i] : i \in DOMAIN T}
           n == Len(Gone)
<1>2. L \in Seq(S) /\ Len(L) = n /\ \A i \in 1..n : L[i] = Loaded(Gone[i], i)
  <2>1. DOMAIN L = DOMAIN Gone /\ \A i \in 1..n : L[i] = Loaded(Gone[i], i)
    BY <1>1 DEF Loads
  <2>2. L \in [DOMAIN Gone -> S]
    BY <2>1 DEF Loads
  <2> HIDE DEF L, S
  <2> QED
    BY <1>1, <2>1, <2>2, Mapped
<1>3. T \in Seq(S) /\ Len(T) = (IF Stored THEN 1 ELSE 0)
      /\ (Stored => T[1] = Inst("SpillSw", NoReg, <<Past>>, sp.slot[Old.dst]))
  <2>1. CASE Stored
    <3> DEFINE w == Inst("SpillSw", NoReg, <<Past>>, sp.slot[Old.dst])
    <3> HIDE DEF w
    <3>1. T = <<w>>
      BY <2>1 DEF Store, w
    <3>2. DOMAIN T = {1} /\ T[1] = w /\ Len(T) = 1
      BY <3>1
    <3>3. w \in S
      BY <3>2
    <3> HIDE DEF S, T
    <3> QED
      BY <2>1, <3>1, <3>2, <3>3 DEF w
  <2>2. CASE ~Stored
    <3>1. T = <<>>
      BY <2>2 DEF Store
    <3> HIDE DEF S, T
    <3> QED
      BY <2>2, <3>1
  <2> QED
    BY <2>1, <2>2
<1>4. B \in Seq(S) /\ Len(B) = 1 /\ B[1] = Body
  <2> DEFINE x == Body
  <2>1. x \in S
    OBVIOUS
  <2> HIDE DEF x, S
  <2>2. <<x>> \in Seq(S) /\ Len(<<x>>) = 1 /\ <<x>>[1] = x
    BY <2>1
  <2> QED
    BY <2>2 DEF x
<1> HIDE DEF L, B, T, S
<1>5. /\ L \o B \in Seq(S) /\ Len(L \o B) = n + 1
      /\ \A i \in 1..n : (L \o B)[i] = L[i]
      /\ (L \o B)[n + 1] = Body
  <2>1. L \in Seq(S) /\ B \in Seq(S) /\ Len(L) = n /\ Len(B) = 1
    BY <1>2, <1>4
  <2>2. L \o B \in Seq(S)
    BY <2>1, Joined
  <2>3. Len(L \o B) = Len(L) + Len(B)
    BY <2>1, Joined
  <2>4. \A i \in 1..Len(L) : (L \o B)[i] = L[i]
    BY <2>1, Joined
  <2>6. L \in Seq(S) /\ B \in Seq(S)
    BY <2>1
  <2>5. \A x \in 1..Len(B) : (L \o B)[Len(L) + x] = B[x]
    <3> HIDE DEF n
    <3> QED
      BY <2>6, Joined
  <2> QED
    BY <1>1, <1>4, <2>1, <2>2, <2>3, <2>4, <2>5
<1> DEFINE LB == L \o B
<1> HIDE DEF LB
<1>6. /\ LB \o T \in Seq(S) /\ Len(LB \o T) = n + 1 + Len(T)
      /\ \A i \in 1..(n + 1) : (LB \o T)[i] = LB[i]
      /\ Len(T) = 1 => (LB \o T)[n + 2] = T[1]
  <2>1. LB \in Seq(S) /\ Len(LB) = n + 1 /\ T \in Seq(S)
    BY <1>3, <1>5 DEF LB
  <2>2. LB \o T \in Seq(S)
    BY <2>1, Joined
  <2>3. Len(LB \o T) = Len(LB) + Len(T)
    BY <2>1, Joined
  <2>4. \A i \in 1..Len(LB) : (LB \o T)[i] = LB[i]
    BY <2>1, Joined
  <2>5. ASSUME NEW j \in 1..Len(T) PROVE (LB \o T)[Len(LB) + j] = T[j]
    BY <2>1, Joined
  <2> QED
    BY <1>1, <2>1, <2>2, <2>3, <2>4, <2>5
<1>7. Group = LB \o T
  BY DEF Group, LB, L, B, T
<1>8. n + 1 \in 1..(n + 1) /\ \A i \in 1..n : i \in 1..(n + 1)
  BY <1>1
<1>9. Group \in Seq(S) /\ Len(Group) = n + 1 + Len(T)
  BY <1>6, <1>7
<1>10. /\ \A i \in 1..n : Group[i] = Loaded(Gone[i], i)
       /\ Group[n + 1] = Body
       /\ Stored => Group[n + 2] = Inst("SpillSw", NoReg, <<Past>>, sp.slot[Old.dst])
  BY <1>2, <1>3, <1>5, <1>6, <1>7, <1>8 DEF LB
<1>11. Len(Group) \in Nat /\ DOMAIN Group = 1..Len(Group)
  BY <1>9
<1>12. Group \in [1..Len(Group) -> Range(Group)]
  BY <1>9, <1>11 DEF Range
<1>13. Group \in Seq(Range(Group))
  BY <1>11, <1>12, SeqDef
<1> QED
  BY <1>3, <1>9, <1>10, <1>11, <1>13

----------------------------------------------------------------------------
(* What every instruction is like.                                         *)

(* Nothing but these and calls has a result; constants, arguments and      *)
(* reloads read no register, copies and spill stores one; and no more are  *)
(* read at once than there are registers.                                  *)
Shaped(m) ==
  /\ m.op \notin Defining \cup {"Call"} => m.dst = NoReg
  /\ m.op \in {"Li", "Entry", "SpillLw"} => m.use = <<>>
  /\ m.op \in {"Move", "SpillSw"} => Len(m.use) = 1
  /\ m.op = "Entry" => m.imm \in Range(ArgRegs)
  /\ Len(m.use) <= Cardinality(Range(FullPhys))

ShapesOK ==
  /\ \A m \in Insts(code) : Shaped(m)
  /\ stage = "spill" => /\ \A k \in DOMAIN sp.out : Shaped(sp.out[k])
                        /\ \A r \in DOMAIN sp.remat : Shaped(sp.remat[r])

(* An input program: no instruction of a spill round is in it.             *)
IsSource(g) == \A m \in Insts(g) : Shaped(m) /\ m.op \notin {"SpillLw", "SpillSw"}

LEMMA InstsAre ==
  ASSUME NEW g, NEW m \in Insts(g)
  PROVE  \E b \in DOMAIN g : \E k \in DOMAIN g[b] : m = g[b][k]
<1>1. PICK b \in DOMAIN g : m \in Range(g[b])
  BY DEF Insts, Blocks
<1>2. PICK k \in DOMAIN g[b] : m = g[b][k]
  BY <1>1 DEF Range
<1> QED
  BY <1>2

LEMMA InstsHave ==
  ASSUME NEW g, NEW b \in DOMAIN g, NEW k \in DOMAIN g[b]
  PROVE  g[b][k] \in Insts(g)
  BY DEF Insts, Blocks, Range

(* A sequence has no more members than places.                             *)
LEMMA RangeBound ==
  ASSUME NEW S, NEW s \in Seq(S)
  PROVE  /\ IsFiniteSet(Range(s)) /\ Cardinality(Range(s)) \in Nat
         /\ Cardinality(Range(s)) <= Len(s)
<1>1. Len(s) \in Nat /\ DOMAIN s = 1..Len(s)
  OBVIOUS
<1>2. s \in Surjection(1..Len(s), Range(s))
  <2>1. s \in [1..Len(s) -> Range(s)]
    BY <1>1 DEF Range
  <2> QED
    BY <1>1, <2>1 DEF Surjection, Range
<1>3. IsFiniteSet(1..Len(s)) /\ Cardinality(1..Len(s)) = Len(s)
  BY <1>1, FS_Interval
<1>4. IsFiniteSet(Range(s)) /\ Cardinality(Range(s)) <= Cardinality(1..Len(s))
  BY <1>2, <1>3, FS_Surjection
<1> QED
  BY <1>3, <1>4, FS_CardinalityType

(* The palette is finite and not empty.                                    *)
LEMMA PaletteSize ==
  /\ IsFiniteSet(Range(FullPhys)) /\ Cardinality(Range(FullPhys)) \in Nat
  /\ Cardinality(Range(FullPhys)) >= 1
<1> DEFINE P == Range(FullPhys)
<1>1. FullPhys \in Seq(Nat) /\ P # {}
  BY PaletteAssumption
<1>2. IsFiniteSet(P)
  BY <1>1, RangeBound
<1> HIDE DEF P
<1>3. Cardinality(P) \in Nat /\ Cardinality(P) # 0
  BY <1>1, <1>2, FS_CardinalityType, FS_EmptySet
<1> QED
  BY <1>2, <1>3 DEF P

LEMMA BodyShaped ==
  ASSUME IInv, SpillInst, Shaped(Old)
  PROVE  Shaped(Body)
<1>1. /\ Body.op = Old.op /\ Body.imm = Old.imm /\ Body.use = NewUse
      /\ Body.dst = NewDst /\ Len(NewUse) = Len(Old.use)
      /\ DOMAIN NewUse = DOMAIN Old.use
  BY BodyFacts
<1>2. Old.dst = NoReg => Body.dst = NoReg
  <2>1. stage = "spill" /\ SpillOK
    BY InHand DEF IInv
  <2>2. NoReg \notin DOMAIN sp.slot
    BY <2>1 DEF SpillOK, NoReg
  <2> QED
    BY <1>1, <2>2 DEF NewDst, Stored
<1>3. Old.use = <<>> => NewUse = <<>>
  BY <1>1 DEF NewUse
<1> QED
  BY <1>1, <1>2, <1>3 DEF Shaped

LEMMA GroupShaped ==
  ASSUME IInv, ShapesOK, SpillInst
  PROVE  \A k \in DOMAIN Group : Shaped(Group[k])
<1>1. /\ Shaped(Old) /\ stage = "spill"
      /\ \A r \in DOMAIN sp.remat : Shaped(sp.remat[r]) /\ sp.remat[r].op = "Li"
                                   /\ sp.remat[r] \in Instructions(DOMAIN orig, Len(code))
  BY InHand DEF ShapesOK, IInv, SpillOK
<1>2. ASSUME NEW i \in 1..Len(Gone) PROVE Shaped(Loaded(Gone[i], i))
  <2>1. CASE Gone[i] \in DOMAIN sp.remat
    <3> DEFINE m == sp.remat[Gone[i]]
               t == sp.nreg + i - 1
    <3>1. Shaped(m) /\ m.op = "Li" /\ m \in Instructions(DOMAIN orig, Len(code))
      BY <1>1, <2>1
    <3>2. Loaded(Gone[i], i) = [m EXCEPT !.dst = t]
      BY <2>1 DEF Loaded
    <3> HIDE DEF m, t
    <3>3. /\ [m EXCEPT !.dst = t].op = "Li" /\ [m EXCEPT !.dst = t].use = m.use
      BY <3>1 DEF Instructions
    <3> QED
      BY <3>1, <3>2, <3>3 DEF Shaped, Defining
  <2>2. CASE Gone[i] \notin DOMAIN sp.remat
    <3> DEFINE m == Loaded(Gone[i], i)
    <3>1. m.op = "SpillLw" /\ m.use = <<>>
      BY <2>2 DEF Loaded, Inst
    <3> HIDE DEF m
    <3>2. Len(<<>>) = 0
      OBVIOUS
    <3>3. Shaped(m)
      BY <3>1, <3>2, PaletteSize DEF Shaped, Defining
    <3> QED
      BY <3>3 DEF m
  <2> QED
    BY <2>1, <2>2
<1>3. Shaped(Body)
  BY <1>1, BodyShaped
<1>4. Stored => Shaped(Inst("SpillSw", NoReg, <<Past>>, sp.slot[Old.dst]))
  <2> DEFINE m == Inst("SpillSw", NoReg, <<Past>>, sp.slot[Old.dst])
  <2>1. m.op = "SpillSw" /\ m.dst = NoReg /\ m.use = <<Past>>
    BY DEF Inst
  <2>2. Len(<<Past>>) = 1
    OBVIOUS
  <2> HIDE DEF m
  <2>3. Shaped(m)
    BY <2>1, <2>2, PaletteSize DEF Shaped
  <2> QED
    BY <2>3 DEF m
<1>5. Len(Gone) \in Nat
  BY LoadedOnce
<1> SUFFICES ASSUME NEW k \in DOMAIN Group PROVE Shaped(Group[k])
  OBVIOUS
<1>6. k \in 1..Len(Gone) \/ k = Len(Gone) + 1 \/ (Stored /\ k = Len(Gone) + 2)
  BY <1>5, GroupFacts
<1> QED
  BY <1>2, <1>3, <1>4, <1>6, GroupFacts

(* The state after a step of a spill round.                                *)
LEMMA SpillInstEffect ==
  ASSUME IInv, SpillInst
  PROVE  /\ sp' = [remat |-> sp.remat, slot |-> sp.slot, b |-> sp.b, k |-> sp.k + 1,
                   out |-> sp.out \o Group, nreg |-> Total]
         /\ sp.out \in Seq(Instructions(DOMAIN orig, Len(code)))
         /\ orig' = [r \in DOMAIN orig \cup sp.nreg..(Total - 1) |->
                       IF r \notin sp.nreg..(Total - 1) THEN orig[r]
                       ELSE IF r < Past THEN orig[Gone[r - sp.nreg + 1]]
                       ELSE orig[Old.dst]]
         /\ UNCHANGED <<stage, code, spillCount, saved, tries, lv, colorVars, runVars>>
<1>1. SpillOK /\ stage = "spill"
  BY InHand DEF IInv
<1>2. sp = [remat |-> sp.remat, slot |-> sp.slot, b |-> sp.b, k |-> sp.k,
            out |-> sp.out, nreg |-> sp.nreg]
      /\ sp.out \in Seq(Instructions(DOMAIN orig, Len(code)))
  BY <1>1 DEF SpillOK
<1>3. /\ sp' = [sp EXCEPT !.k = @ + 1, !.nreg = Total,
                          !.out = @ \o Loads \o <<Body>> \o Store]
      /\ orig' = [r \in DOMAIN orig \cup sp.nreg..(Total - 1) |->
                       IF r \notin sp.nreg..(Total - 1) THEN orig[r]
                       ELSE IF r < Past THEN orig[Gone[r - sp.nreg + 1]]
                       ELSE orig[Old.dst]]
      /\ UNCHANGED <<stage, code, spillCount, saved, tries, lv, colorVars, runVars>>
  BY DEF SpillInst, Total, Loads, Body, Store, Stored, Past, Gone, Old, NewUse, NewDst, Temp
<1>4. sp.out \o Loads \o <<Body>> \o Store = sp.out \o Group
  <2> DEFINE o == sp.out
             L == Loads
             B == <<Body>>
             T == Store
             S == {o[i] : i \in DOMAIN o} \cup {L[i] : i \in DOMAIN L}
                    \cup {Body} \cup {T[i] : i \in DOMAIN T}
  <2>1. o \in Seq(S)
    <3>1. o \in [DOMAIN o -> S] /\ o \in Seq(Instructions(DOMAIN orig, Len(code)))
      BY <1>2
    <3> HIDE DEF o, S
    <3> QED
      BY <3>1, Mapped
  <2>2. L \in Seq(S)
    <3>1. Gone \in Seq(DOMAIN orig) /\ L \in [DOMAIN Gone -> S]
      BY LoadedOnce DEF Loads
    <3> HIDE DEF L, S
    <3> QED
      BY <3>1, Mapped
  <2>3. B \in Seq(S)
    <3> DEFINE x == Body
    <3>1. x \in S
      OBVIOUS
    <3> HIDE DEF x, S
    <3>2. <<x>> \in Seq(S)
      BY <3>1
    <3> QED
      BY <3>2 DEF x
  <2>4. T \in Seq(S)
    <3>1. CASE Stored
      <4> DEFINE w == Inst("SpillSw", NoReg, <<Past>>, sp.slot[Old.dst])
      <4> HIDE DEF w
      <4>1. T = <<w>>
        BY <3>1 DEF Store, w
      <4>2. w \in S
        BY <4>1
      <4> HIDE DEF S, T
      <4> QED
        BY <4>1, <4>2
    <3>2. CASE ~Stored
      <4>1. T = <<>>
        BY <3>2 DEF Store
      <4> HIDE DEF S, T
      <4> QED
        BY <4>1
    <3> QED
      BY <3>1, <3>2
  <2> HIDE DEF o, L, B, T, S
  <2>5. L \o B \in Seq(S)
    BY <2>2, <2>3, Joined
  <2>6. (o \o L) \o B = o \o (L \o B)
    BY <2>1, <2>2, <2>3, ConcatAssociative
  <2>7. (o \o (L \o B)) \o T = o \o ((L \o B) \o T)
    <3> DEFINE M == L \o B
    <3> HIDE DEF M
    <3>1. M \in Seq(S)
      BY <2>5 DEF M
    <3>2. (o \o M) \o T = o \o (M \o T)
      BY <2>1, <2>4, <3>1, ConcatAssociative
    <3> QED
      BY <3>2 DEF M
  <2>8. ((o \o L) \o B) \o T = o \o ((L \o B) \o T)
    BY <2>6, <2>7
  <2> QED
    BY <2>8 DEF o, L, B, T, Group
<1>5. sp' = [remat |-> sp.remat, slot |-> sp.slot, b |-> sp.b, k |-> sp.k + 1,
             out |-> sp.out \o Group, nreg |-> Total]
  <2> DEFINE o == sp.out \o Group
  <2>1. sp' = [sp EXCEPT !.k = @ + 1, !.nreg = Total, !.out = o]
    BY <1>3, <1>4
  <2> HIDE DEF o
  <2> QED
    BY <1>2, <2>1 DEF o
<1> QED
  BY <1>2, <1>3, <1>5

(* One sequence with another behind it has the members of both.            *)
LEMMA JoinedMembers ==
  ASSUME NEW S, NEW T, NEW s \in Seq(S), NEW t \in Seq(T), NEW k \in DOMAIN (s \o t)
  PROVE  \/ \E i \in DOMAIN s : (s \o t)[k] = s[i]
         \/ \E i \in DOMAIN t : (s \o t)[k] = t[i]
<1>1. s \in Seq(S \cup T) /\ t \in Seq(S \cup T)
  <2>1. Seq(S) \subseteq Seq(S \cup T) /\ Seq(T) \subseteq Seq(S \cup T)
    BY SeqMonotonic
  <2> QED
    BY <2>1
<1> DEFINE c == s \o t
<1>2. /\ Len(s) \in Nat /\ Len(t) \in Nat
      /\ DOMAIN c = 1..(Len(s) + Len(t))
      /\ \A i \in 1..Len(s) : c[i] = s[i]
      /\ \A j \in 1..Len(t) : c[Len(s) + j] = t[j]
  BY <1>1, Joined
<1>3. DOMAIN s = 1..Len(s) /\ DOMAIN t = 1..Len(t)
  OBVIOUS
<1>4. k \in 1..(Len(s) + Len(t))
  BY <1>2
<1> HIDE DEF c
<1>5. CASE k <= Len(s)
  <2>1. k \in 1..Len(s)
    BY <1>2, <1>4, <1>5
  <2> QED
    BY <1>2, <1>3, <2>1 DEF c
<1>6. CASE ~(k <= Len(s))
  <2> DEFINE j == k - Len(s)
  <2>1. j \in 1..Len(t) /\ Len(s) + j = k
    BY <1>2, <1>4, <1>6
  <2> HIDE DEF j
  <2> QED
    BY <1>2, <1>3, <2>1 DEF c
<1> QED
  BY <1>5, <1>6

LEMMA TrimPassShapes == ASSUME IInv, ShapesOK, TrimPass PROVE ShapesOK'
<1>1. stage' = "trim" /\ code' = Trimmed
  BY DEF TrimPass
<1>2. IsProgram(code, DOMAIN orig)
  BY DEF IInv, CodeOK
<1>3. ASSUME NEW b \in DOMAIN code, NEW k \in DOMAIN code'[b] PROVE Shaped(code'[b][k])
  <2> DEFINE S == Instructions(DOMAIN orig, Len(code))
             K == {j \in DOMAIN code[b] : ~IsDead(code[b][j])}
             kept == Picked(code[b], K)
             x == kept[k]
  <2>1. code'[b] = [j \in DOMAIN kept |->
                      IF kept[j].op = "Call" /\ kept[j].dst \notin UsedRegs
                      THEN [kept[j] EXCEPT !.dst = NoReg] ELSE kept[j]]
    BY <1>1 DEF Trimmed, TrimBlock, Blocks
  <2>2. k \in DOMAIN kept
    BY <2>1
  <2>3. code[b] \in Seq(S) /\ K \in SUBSET DOMAIN code[b]
    BY <1>2, ProgramFacts
  <2> HIDE DEF K, S
  <2>4. PICK j \in K : x = code[b][j]
    BY <2>2, <2>3, PickedFacts
  <2>5. x \in Instructions(DOMAIN orig, Len(code)) /\ Shaped(x)
    BY <1>2, <2>3, <2>4, ProgramFacts DEF ShapesOK
  <2>6. code'[b][k] = IF x.op = "Call" /\ x.dst \notin UsedRegs
                      THEN [x EXCEPT !.dst = NoReg] ELSE x
    BY <2>1, <2>2
  <2> HIDE DEF kept, x
  <2>7. CASE x.op = "Call" /\ x.dst \notin UsedRegs
    <3> DEFINE y == [x EXCEPT !.dst = NoReg]
    <3>1. y.op = x.op /\ y.use = x.use /\ y.imm = x.imm /\ y.dst = NoReg
      BY <2>5 DEF Instructions
    <3>2. code'[b][k] = y
      BY <2>6, <2>7
    <3> HIDE DEF y
    <3> QED
      BY <2>5, <2>7, <3>1, <3>2 DEF Shaped
  <2> QED
    BY <2>5, <2>6, <2>7
<1>4. DOMAIN code' = DOMAIN code
  BY <1>1 DEF Trimmed, Blocks
<1>5. ASSUME NEW m \in Insts(code') PROVE Shaped(m)
  <2>1. \E b \in DOMAIN code' : \E k \in DOMAIN code'[b] : m = code'[b][k]
    BY InstsAre
  <2> QED
    BY <1>3, <1>4, <2>1
<1> QED
  BY <1>1, <1>5 DEF ShapesOK

LEMMA SpillInstShapes == ASSUME IInv, ShapesOK, SpillInst PROVE ShapesOK'
<1>1. /\ sp'.out = sp.out \o Group /\ sp'.remat = sp.remat
      /\ UNCHANGED <<code, stage>> /\ stage = "spill"
      /\ sp.out \in Seq(Instructions(DOMAIN orig, Len(code)))
  BY SpillInstEffect, InHand
<1>2. Group \in Seq(Range(Group)) /\ \A k \in DOMAIN Group : Shaped(Group[k])
  BY GroupFacts, GroupShaped
<1>3. ASSUME NEW k \in DOMAIN (sp.out \o Group) PROVE Shaped((sp.out \o Group)[k])
  <2>1. \A i \in DOMAIN sp.out : Shaped(sp.out[i])
    BY <1>1 DEF ShapesOK
  <2> DEFINE S == Instructions(DOMAIN orig, Len(code))
             T == Range(Group)
             o == sp.out
             g == Group
  <2>2. o \in Seq(S) /\ g \in Seq(T) /\ k \in DOMAIN (o \o g)
    BY <1>1, <1>2
  <2>3. (\A i \in DOMAIN o : Shaped(o[i])) /\ \A i \in DOMAIN g : Shaped(g[i])
    BY <1>2, <2>1
  <2> HIDE DEF S, T, o, g
  <2>4. \/ \E i \in DOMAIN o : (o \o g)[k] = o[i]
        \/ \E i \in DOMAIN g : (o \o g)[k] = g[i]
    BY <2>2, JoinedMembers
  <2>5. Shaped((o \o g)[k])
    BY <2>3, <2>4
  <2> QED
    BY <2>5 DEF o, g
<1> QED
  BY <1>1, <1>3 DEF ShapesOK

LEMMA ShapesStep == ASSUME IInv, ShapesOK, [Next]_vars PROVE ShapesOK'
<1>1. CASE TrimPass
  BY <1>1, TrimPassShapes
<1>2. CASE SpillInst
  BY <1>2, SpillInstShapes
<1>3. CASE TrimEnds \/ VisitBlock \/ NextPass \/ BeginColoring \/ ColorStep \/ Bake
           \/ Execute \/ Return \/ UNCHANGED vars
  <2>1. code' = code /\ (stage' = "spill" => stage = "spill" /\ sp' = sp)
    BY <1>3 DEF TrimEnds, VisitBlock, NextPass, BeginColoring, ColorStep, Bake, Execute,
                Return, vars, allocVars
  <2> QED
    BY <2>1 DEF ShapesOK
<1>4. CASE SpillAndRetry \/ SpillEverything
  <2>1. PICK remat \in SUBSET rematCandidates :
          sp'.remat = [r \in remat |-> CHOOSE m \in Insts(code) : IsDefByLi(m, r)]
    <3>1. CASE SpillAndRetry
      BY <3>1 DEF SpillAndRetry, BeginSpilling
    <3>2. CASE SpillEverything
      <4>1. sp'.remat = [r \in {} |-> CHOOSE m \in Insts(code) : IsDefByLi(m, r)]
        BY <3>2 DEF SpillEverything, BeginSpilling
      <4> QED
        BY <4>1
    <3> QED
      BY <1>4, <3>1, <3>2
  <2>2. code' = code
    BY <1>4 DEF SpillAndRetry, SpillEverything
  <2>3. sp'.out = <<>>
    BY <1>4 DEF SpillAndRetry, SpillEverything, BeginSpilling
  <2>4. ASSUME NEW r \in remat PROVE Shaped(sp'.remat[r])
    <3>1. \E m \in Insts(code) : IsDefByLi(m, r)
      BY DEF rematCandidates
    <3>2. sp'.remat[r] \in Insts(code)
      BY <2>1, <3>1
    <3> QED
      BY <3>2 DEF ShapesOK
  <2>5. DOMAIN sp'.remat = remat /\ DOMAIN sp'.out = {}
    BY <2>1, <2>3
  <2> QED
    BY <2>2, <2>4, <2>5 DEF ShapesOK
<1>5. CASE SpillNextBlock
  <2>1. /\ stage = "spill" /\ code' = [code EXCEPT ![sp.b] = sp.out]
        /\ sp' = [sp EXCEPT !.b = @ + 1, !.k = 1, !.out = <<>>]
    BY <1>5 DEF SpillNextBlock
  <2>2. sp = [remat |-> sp.remat, slot |-> sp.slot, b |-> sp.b, k |-> sp.k,
              out |-> sp.out, nreg |-> sp.nreg]
    BY <2>1 DEF IInv, SpillOK
  <2>3. sp'.remat = sp.remat /\ sp'.out = <<>>
    BY <2>1, <2>2
  <2>4. DOMAIN code' = DOMAIN code
        /\ \A b \in DOMAIN code : code'[b] = IF b = sp.b THEN sp.out ELSE code[b]
    BY <2>1
  <2>5. ASSUME NEW m \in Insts(code') PROVE Shaped(m)
    <3>1. PICK b \in DOMAIN code' : \E k \in DOMAIN code'[b] : m = code'[b][k]
      BY InstsAre
    <3>2. PICK k \in DOMAIN code'[b] : m = code'[b][k]
      BY <3>1
    <3> QED
      BY <2>1, <2>4, <3>2, InstsHave DEF ShapesOK
  <2>6. DOMAIN sp'.out = {}
    BY <2>3
  <2> QED
    BY <2>1, <2>3, <2>5, <2>6 DEF ShapesOK
<1>6. CASE SpillEnds
  <2>1. stage' # "spill" /\ code' = [b \in DOMAIN code |-> Erased(code[b])]
    BY <1>6 DEF SpillEnds, Blocks
  <2>2. ASSUME NEW m \in Insts(code') PROVE m \in Insts(code)
    <3>1. PICK b \in DOMAIN code' : \E k \in DOMAIN code'[b] : m = code'[b][k]
      BY InstsAre
    <3>2. b \in DOMAIN code /\ code'[b] = Erased(code[b])
      BY <2>1
    <3>3. PICK k \in DOMAIN Erased(code[b]) : m = Erased(code[b])[k]
      BY <3>1, <3>2
    <3>4. code[b] \in Seq(Instructions(DOMAIN orig, Len(code)))
      BY <3>2, ProgramFacts DEF IInv, CodeOK
    <3> DEFINE K == {j \in DOMAIN code[b] : code[b][j].dst \notin DOMAIN sp.remat}
    <3>5. Erased(code[b]) = Picked(code[b], K) /\ K \in SUBSET DOMAIN code[b]
      BY DEF Erased
    <3> HIDE DEF K
    <3>6. PICK j \in K : m = code[b][j]
      BY <3>3, <3>4, <3>5, PickedFacts
    <3> QED
      BY <3>2, <3>5, <3>6, InstsHave
  <2> QED
    BY <2>1, <2>2 DEF ShapesOK
<1> QED
  BY <1>1, <1>2, <1>3, <1>4, <1>5, <1>6 DEF Next

----------------------------------------------------------------------------
(* What a forced round leaves behind.  A block is tidy when every operand  *)
(* has been defined just before it is read, with nothing but reloads in    *)
(* between; when a reload is read by the first instruction behind it that  *)
(* is not one; and when any other result is all that the next instruction  *)
(* reads.                                                                  *)

OnlyLoads(blk, i, j) == \A h \in i..j : blk[h].op = "SpillLw"

Fed(blk, k) ==
  \A r \in Uses(blk[k]) :
    \E i \in 1..(k - 1) : blk[i].dst = r /\ OnlyLoads(blk, i + 1, k - 1)

LoadIsRead(blk, k) ==
  blk[k].op = "SpillLw" =>
    \E j \in (k + 1)..Len(blk) :
      blk[k].dst \in Uses(blk[j]) /\ OnlyLoads(blk, k + 1, j - 1)

ReadNext(blk, k) ==
  blk[k].op # "SpillLw" /\ blk[k].dst # NoReg =>
    k < Len(blk) /\ blk[k + 1].use = <<blk[k].dst>>

Tidy(blk) ==
  \A k \in 1..Len(blk) : Fed(blk, k) /\ LoadIsRead(blk, k) /\ ReadNext(blk, k)

LEMMA TidyJoin ==
  ASSUME NEW S, NEW s \in Seq(S), NEW t \in Seq(S), Tidy(s), Tidy(t)
  PROVE  Tidy(s \o t)
<1> DEFINE c == s \o t
           n == Len(s)
           l == Len(t)
<1>1. /\ n \in Nat /\ l \in Nat /\ Len(c) = n + l
      /\ \A i \in 1..n : c[i] = s[i]
      /\ \A j \in 1..l : c[n + j] = t[j]
  BY Joined
<1>2. \A k \in 1..n : Fed(s, k) /\ LoadIsRead(s, k) /\ ReadNext(s, k)
  BY DEF Tidy
<1>3. \A k \in 1..l : Fed(t, k) /\ LoadIsRead(t, k) /\ ReadNext(t, k)
  BY DEF Tidy
<1>4. \A i \in Int : \A j \in Int :
        1 <= i /\ j <= n /\ OnlyLoads(s, i, j) => OnlyLoads(c, i, j)
  <2> SUFFICES ASSUME NEW i \in Int, NEW j \in Int, 1 <= i, j <= n, OnlyLoads(s, i, j),
                      NEW h \in i..j
               PROVE  c[h].op = "SpillLw"
    BY DEF OnlyLoads
  <2>1. h \in 1..n /\ s[h].op = "SpillLw"
    BY <1>1 DEF OnlyLoads
  <2> HIDE DEF c, n
  <2> QED
    BY <1>1, <2>1
<1>5. \A i \in Int : \A j \in Int :
        1 <= i /\ j <= l /\ OnlyLoads(t, i, j) => OnlyLoads(c, n + i, n + j)
  <2> SUFFICES ASSUME NEW i \in Int, NEW j \in Int, 1 <= i, j <= l, OnlyLoads(t, i, j),
                      NEW h \in (n + i)..(n + j)
               PROVE  c[h].op = "SpillLw"
    BY DEF OnlyLoads
  <2>1. h - n \in 1..l /\ h - n \in i..j /\ n + (h - n) = h
    BY <1>1
  <2>2. t[h - n].op = "SpillLw"
    BY <2>1 DEF OnlyLoads
  <2>3. c[n + (h - n)] = t[h - n]
    BY <1>1, <2>1
  <2> QED
    BY <2>1, <2>2, <2>3
<1> HIDE DEF c, n, l
<1>6. ASSUME NEW k \in 1..n PROVE Fed(c, k) /\ LoadIsRead(c, k) /\ ReadNext(c, k)
  <2>1. c[k] = s[k]
    BY <1>1
  <2>2. Fed(c, k)
    <3> SUFFICES ASSUME NEW r \in Uses(s[k])
                 PROVE  \E i \in 1..(k - 1) : c[i].dst = r /\ OnlyLoads(c, i + 1, k - 1)
      BY <2>1 DEF Fed
    <3>1. PICK i \in 1..(k - 1) : s[i].dst = r /\ OnlyLoads(s, i + 1, k - 1)
      BY <1>2 DEF Fed
    <3>2. i \in 1..n /\ 1 <= i + 1 /\ k - 1 <= n /\ i + 1 \in Int /\ k - 1 \in Int
      BY <1>1
    <3> QED
      BY <1>1, <1>4, <3>1, <3>2
  <2>3. LoadIsRead(c, k)
    <3> SUFFICES ASSUME s[k].op = "SpillLw"
                 PROVE  \E j \in (k + 1)..Len(c) :
                          s[k].dst \in Uses(c[j]) /\ OnlyLoads(c, k + 1, j - 1)
      BY <2>1 DEF LoadIsRead
    <3>1. PICK j \in (k + 1)..n : s[k].dst \in Uses(s[j]) /\ OnlyLoads(s, k + 1, j - 1)
      BY <1>2 DEF LoadIsRead, n
    <3>2. j \in 1..n /\ j \in (k + 1)..Len(c) /\ 1 <= k + 1 /\ j - 1 <= n
          /\ k + 1 \in Int /\ j - 1 \in Int
      BY <1>1
    <3> QED
      BY <1>1, <1>4, <3>1, <3>2
  <2>4. ReadNext(c, k)
    <3> SUFFICES ASSUME s[k].op # "SpillLw", s[k].dst # NoReg
                 PROVE  k < Len(c) /\ c[k + 1].use = <<s[k].dst>>
      BY <2>1 DEF ReadNext
    <3>1. k < n /\ s[k + 1].use = <<s[k].dst>>
      BY <1>2 DEF ReadNext, n
    <3>2. k + 1 \in 1..n /\ k < Len(c)
      BY <1>1, <3>1
    <3> QED
      BY <1>1, <3>1, <3>2
  <2> QED
    BY <2>2, <2>3, <2>4
<1>7. ASSUME NEW q \in 1..l
      PROVE  Fed(c, n + q) /\ LoadIsRead(c, n + q) /\ ReadNext(c, n + q)
  <2>1. c[n + q] = t[q]
    BY <1>1
  <2>2. Fed(c, n + q)
    <3> SUFFICES ASSUME NEW r \in Uses(t[q])
                 PROVE  \E i \in 1..((n + q) - 1) :
                          c[i].dst = r /\ OnlyLoads(c, i + 1, (n + q) - 1)
      BY <2>1 DEF Fed
    <3>1. PICK i \in 1..(q - 1) : t[i].dst = r /\ OnlyLoads(t, i + 1, q - 1)
      BY <1>3 DEF Fed
    <3>2. /\ i \in 1..l /\ 1 <= i + 1 /\ q - 1 <= l /\ i + 1 \in Int /\ q - 1 \in Int
          /\ n + i \in 1..((n + q) - 1) /\ n + (i + 1) = (n + i) + 1
          /\ n + (q - 1) = (n + q) - 1
      BY <1>1
    <3>3. OnlyLoads(c, (n + i) + 1, (n + q) - 1) /\ c[n + i].dst = r
      BY <1>1, <1>5, <3>1, <3>2
    <3> QED
      BY <3>2, <3>3
  <2>3. LoadIsRead(c, n + q)
    <3> SUFFICES ASSUME t[q].op = "SpillLw"
                 PROVE  \E j \in ((n + q) + 1)..Len(c) :
                          t[q].dst \in Uses(c[j]) /\ OnlyLoads(c, (n + q) + 1, j - 1)
      BY <2>1 DEF LoadIsRead
    <3>1. PICK j \in (q + 1)..l : t[q].dst \in Uses(t[j]) /\ OnlyLoads(t, q + 1, j - 1)
      BY <1>3 DEF LoadIsRead, l
    <3>2. /\ j \in 1..l /\ n + j \in ((n + q) + 1)..Len(c) /\ 1 <= q + 1 /\ j - 1 <= l
          /\ q + 1 \in Int /\ j - 1 \in Int
          /\ n + (q + 1) = (n + q) + 1 /\ n + (j - 1) = (n + j) - 1
      BY <1>1
    <3>3. OnlyLoads(c, (n + q) + 1, (n + j) - 1) /\ t[q].dst \in Uses(c[n + j])
      BY <1>1, <1>5, <3>1, <3>2
    <3> QED
      BY <3>2, <3>3
  <2>4. ReadNext(c, n + q)
    <3> SUFFICES ASSUME t[q].op # "SpillLw", t[q].dst # NoReg
                 PROVE  n + q < Len(c) /\ c[(n + q) + 1].use = <<t[q].dst>>
      BY <2>1 DEF ReadNext
    <3>1. q < l /\ t[q + 1].use = <<t[q].dst>>
      BY <1>3 DEF ReadNext, l
    <3>2. q + 1 \in 1..l /\ n + q < Len(c) /\ n + (q + 1) = (n + q) + 1
      BY <1>1, <3>1
    <3>3. c[n + (q + 1)] = t[q + 1]
      BY <1>1, <3>2
    <3> QED
      BY <3>1, <3>2, <3>3
  <2> QED
    BY <2>2, <2>3, <2>4
<1>8. ASSUME NEW k \in 1..Len(c) PROVE Fed(c, k) /\ LoadIsRead(c, k) /\ ReadNext(c, k)
  <2>1. CASE k <= n
    <3>1. k \in 1..n
      BY <1>1, <2>1
    <3> QED
      BY <1>6, <3>1
  <2>2. CASE ~(k <= n)
    <3> DEFINE q == k - n
    <3>1. q \in 1..l /\ n + q = k
      BY <1>1, <2>2
    <3> HIDE DEF q
    <3>2. Fed(c, n + q) /\ LoadIsRead(c, n + q) /\ ReadNext(c, n + q)
      BY <1>7, <3>1
    <3> QED
      BY <3>1, <3>2
  <2> QED
    BY <2>1, <2>2
<1> QED
  BY <1>8 DEF Tidy, c

(* When everything the instruction names has a slot.                       *)
LEMMA TidyGroup ==
  ASSUME IInv, ShapesOK, SpillInst, DOMAIN sp.remat = {},
         Uses(Old) \cup Defs(Old) \subseteq DOMAIN sp.slot
  PROVE  /\ Tidy(Group)
         /\ \A k, j \in DOMAIN Group : Uses(Group[k]) \cap Uses(Group[j]) # {} => k = j
         /\ \A k \in DOMAIN Group : Uses(Group[k]) \subseteq sp.nreg..(Total - 1)
         /\ sp.nreg \in Nat /\ Total \in Nat /\ sp.nreg <= Total
<1> DEFINE n == Len(Gone)
           x == sp.nreg
           u(k) == Uses(Group[k])
<1>1. /\ Len(Group) = n + 1 + (IF Stored THEN 1 ELSE 0)
      /\ DOMAIN Group = 1..Len(Group)
      /\ \A i \in 1..n : Group[i] = Loaded(Gone[i], i)
      /\ Group[n + 1] = Body
      /\ Stored => Group[n + 2] = Inst("SpillSw", NoReg, <<Past>>, sp.slot[Old.dst])
  BY GroupFacts
<1>2. /\ n \in Nat /\ x \in Nat /\ Past = x + n
      /\ Range(Gone) = Uses(Old)
  BY LoadedOnce, InHand DEF IInv, SpillOK, Past
<1>3. ASSUME NEW i \in 1..n
      PROVE  Group[i].op = "SpillLw" /\ Group[i].dst = x + i - 1 /\ u(i) = {}
  <2>1. Group[i] = Inst("SpillLw", x + i - 1, <<>>, sp.slot[Gone[i]])
    BY <1>1 DEF Loaded
  <2>2. Range(<<>>) = {}
    BY DEF Range
  <2> QED
    BY <2>1, <2>2 DEF Inst, Uses
<1>4. /\ Group[n + 1].op = Old.op /\ Group[n + 1].dst = NewDst
      /\ u(n + 1) = x..(Past - 1)
  <2>1. Body.op = Old.op /\ Body.dst = NewDst
    BY BodyFacts
  <2>2. Uses(Body) = x..(Past - 1)
    BY <1>2, BodyFacts
  <2>3. Group[n + 1] = Body
    BY <1>1
  <2> QED
    BY <2>1, <2>2, <2>3
<1>5. Stored => /\ Group[n + 2].op = "SpillSw" /\ Group[n + 2].dst = NoReg
                /\ u(n + 2) = {Past} /\ Group[n + 2].use = <<Past>>
  <2>1. Range(<<Past>>) = {Past}
    BY DEF Range
  <2> QED
    BY <1>1, <2>1 DEF Inst, Uses
<1>6. Old.dst # NoReg => Stored
  BY DEF Defs, Stored
<1>7. Old.op = "SpillLw" => n = 0 /\ Stored
  <2> SUFFICES ASSUME Old.op = "SpillLw" PROVE n = 0 /\ Stored
    OBVIOUS
  <2>1. Old.use = <<>>
    BY InHand DEF ShapesOK, Shaped
  <2>2. Range(Gone) = {}
    BY <1>2, <2>1 DEF Uses, Range
  <2>3. n = 0
    BY <1>2, <2>2, LoadedOnce DEF Range
  <2>4. Old.dst # NoReg
    <3>1. Old.dst \in DOMAIN orig /\ DOMAIN orig \subseteq Nat
      BY InHand DEF Instructions, Defining, IInv, CodeOK
    <3> QED
      BY <3>1 DEF NoReg
  <2> QED
    BY <1>6, <2>3, <2>4
<1>8. NewDst = IF Stored THEN Past ELSE NoReg
  BY <1>6 DEF NewDst
<1> DEFINE l == Len(Group)
           st == Stored
<1>9. l = n + 1 + (IF st THEN 1 ELSE 0) /\ DOMAIN Group = 1..l
  BY <1>1
<1> HIDE DEF n, x, l
<1>10. \A k \in 1..l : k \in 1..n \/ k = n + 1 \/ (st /\ k = n + 2)
  BY <1>2, <1>9
<1>11. \A i \in 1..n : OnlyLoads(Group, i + 1, n)
  BY <1>2, <1>3 DEF OnlyLoads
<1>12. ASSUME NEW k \in 1..l PROVE Fed(Group, k)
  <2>1. CASE k \in 1..n
    BY <1>3, <2>1 DEF Fed
  <2>2. CASE k = n + 1
    <3> SUFFICES ASSUME NEW r \in x..(Past - 1)
                 PROVE  \E i \in 1..n : Group[i].dst = r /\ OnlyLoads(Group, i + 1, n)
      <4>1. k - 1 = n
        BY <1>2, <2>2
      <4> QED
        BY <1>4, <2>2, <4>1 DEF Fed
    <3>1. r - x + 1 \in 1..n /\ x + (r - x + 1) - 1 = r
      BY <1>2
    <3> QED
      BY <1>3, <1>11, <3>1
  <2>3. CASE st /\ k = n + 2
    <3>1. u(k) = {Past} /\ Group[n + 1].dst = Past
      BY <1>4, <1>5, <1>8, <2>3
    <3>2. n + 1 \in 1..(k - 1) /\ OnlyLoads(Group, (n + 1) + 1, k - 1)
      BY <1>2, <2>3 DEF OnlyLoads
    <3> QED
      BY <3>1, <3>2 DEF Fed
  <2> QED
    BY <1>10, <2>1, <2>2, <2>3
<1>13. ASSUME NEW k \in 1..l PROVE LoadIsRead(Group, k)
  <2>1. CASE k \in 1..n
    <3>1. x + k - 1 \in u(n + 1)
      BY <1>2, <1>4, <2>1
    <3>2. n + 1 \in (k + 1)..l /\ (n + 1) - 1 = n
      BY <1>2, <1>9, <2>1
    <3>3. Group[k].dst \in u(n + 1) /\ OnlyLoads(Group, k + 1, (n + 1) - 1)
      BY <1>3, <1>11, <2>1, <3>1, <3>2
    <3> QED
      BY <3>2, <3>3 DEF LoadIsRead, l
  <2>2. CASE k = n + 1
    <3> SUFFICES ASSUME Old.op = "SpillLw"
                 PROVE  \E j \in (k + 1)..Len(Group) :
                          Group[k].dst \in Uses(Group[j]) /\ OnlyLoads(Group, k + 1, j - 1)
      BY <1>4, <2>2 DEF LoadIsRead
    <3>1. st
      BY <1>7
    <3>2. n + 2 \in (k + 1)..l /\ (n + 2) - 1 < k + 1
      BY <1>2, <1>9, <2>2, <3>1
    <3>3. OnlyLoads(Group, k + 1, (n + 2) - 1)
      BY <1>2, <2>2, <3>2 DEF OnlyLoads
    <3>4. Group[k].dst \in u(n + 2)
      BY <1>4, <1>5, <1>8, <2>2, <3>1
    <3> QED
      BY <3>2, <3>3, <3>4 DEF l
  <2>3. CASE st /\ k = n + 2
    BY <1>5, <2>3 DEF LoadIsRead
  <2> QED
    BY <1>10, <2>1, <2>2, <2>3
<1>14. ASSUME NEW k \in 1..l PROVE ReadNext(Group, k)
  <2>1. CASE k \in 1..n
    BY <1>3, <2>1 DEF ReadNext
  <2>2. CASE k = n + 1
    <3>1. CASE st
      <4>1. k < l /\ k + 1 = n + 2
        BY <1>2, <1>9, <2>2, <3>1
      <4> QED
        BY <1>4, <1>5, <1>8, <2>2, <3>1, <4>1 DEF ReadNext, l
    <3>2. CASE ~st
      BY <1>4, <1>8, <2>2, <3>2 DEF ReadNext
    <3> QED
      BY <3>1, <3>2
  <2>3. CASE st /\ k = n + 2
    BY <1>5, <2>3 DEF ReadNext
  <2> QED
    BY <1>10, <2>1, <2>2, <2>3
<1>15. Tidy(Group)
  BY <1>12, <1>13, <1>14 DEF Tidy, l
<1>16. ASSUME NEW k \in 1..l
       PROVE  /\ k # n + 1 /\ k # n + 2 => u(k) = {}
              /\ k = n + 1 => u(k) = x..(Past - 1)
              /\ k = n + 2 => u(k) = {Past} /\ Stored
  <2>1. k = n + 2 => st
    BY <1>2, <1>9
  <2> QED
    BY <1>3, <1>4, <1>5, <1>10, <2>1
<1>17. ASSUME NEW k \in 1..l, NEW j \in 1..l, u(k) \cap u(j) # {} PROVE k = j
  <2>1. Past \notin x..(Past - 1)
    BY <1>2
  <2>2. u(k) # {} /\ u(j) # {}
    BY <1>17
  <2>3. (k = n + 1 \/ k = n + 2) /\ (j = n + 1 \/ j = n + 2)
    BY <1>16, <2>2
  <2>4. CASE k = n + 1 /\ j = n + 2
    <3>1. u(k) = x..(Past - 1) /\ u(j) = {Past}
      BY <1>16, <2>4
    <3> QED
      BY <1>17, <2>1, <3>1
  <2>5. CASE k = n + 2 /\ j = n + 1
    <3>1. u(j) = x..(Past - 1) /\ u(k) = {Past}
      BY <1>16, <2>5
    <3> QED
      BY <1>17, <2>1, <3>1
  <2> QED
    BY <2>3, <2>4, <2>5
<1>18. Total = (IF Stored THEN Past + 1 ELSE Past)
  BY DEF Total
<1>19. ASSUME NEW k \in 1..l PROVE u(k) \subseteq x..(Total - 1)
  <2>1. x..(Past - 1) \subseteq x..(Total - 1) /\ (Stored => Past \in x..(Total - 1))
    BY <1>2, <1>18
  <2>2. /\ k # n + 1 /\ k # n + 2 => u(k) = {}
        /\ k = n + 1 => u(k) = x..(Past - 1)
        /\ k = n + 2 => u(k) = {Past} /\ Stored
    BY <1>16
  <2> HIDE DEF u
  <2> QED
    BY <2>1, <2>2
<1>20. x \in Nat /\ Total \in Nat /\ x <= Total
  BY <1>2, <1>18
<1> QED
  BY <1>9, <1>15, <1>17, <1>19, <1>20 DEF x

----------------------------------------------------------------------------
(* Tidy code needs no more than a few registers.                           *)

(* What is live in a tidy block has been defined before and is about to be *)
(* read.                                                                   *)
LEMMA TidyLive ==
  ASSUME NEW blk, Len(blk) \in Nat, Tidy(blk), NEW i \in 1..(Len(blk) + 1),
         NEW r \in LiveBefore(blk, {})[i], r # NoReg
  PROVE  \E d \in 1..(i - 1) : \E j \in i..Len(blk) :
           blk[d].dst = r /\ r \in Uses(blk[j]) /\ OnlyLoads(blk, d + 1, j - 1)
<1>1. PICK j \in i..Len(blk) : r \in Uses(blk[j]) \ Written(blk, i, j)
  BY LiveUnfold
<1>5. j \in 1..Len(blk)
  OBVIOUS
<1>2. PICK d \in 1..(j - 1) : blk[d].dst = r /\ OnlyLoads(blk, d + 1, j - 1)
  BY <1>1, <1>5 DEF Tidy, Fed
<1>3. ~(d >= i)
  <2> SUFFICES ASSUME d >= i PROVE FALSE
    OBVIOUS
  <2>1. d \in i..(j - 1)
    BY <1>2
  <2>2. r \in Defs(blk[d])
    BY <1>2 DEF Defs
  <2> QED
    BY <1>1, <2>1, <2>2 DEF Written
<1>4. d \in 1..(i - 1)
  BY <1>3
<1> QED
  BY <1>1, <1>2, <1>4

(* Registers that conflict in a tidy block are read by one instruction.    *)
LEMMA TidyEdges ==
  ASSUME NEW blk, Len(blk) \in Nat, Tidy(blk),
         \A h \in 1..Len(blk) : blk[h].op = "SpillLw" => Uses(blk[h]) = {},
         NEW k \in 1..Len(blk), NEW r, NEW s, s # NoReg,
         <<r, s>> \in Conflicts(blk[k], LiveBefore(blk, {})[k + 1])
  PROVE  \E j \in 1..Len(blk) : r \in Uses(blk[j]) /\ s \in Uses(blk[j]) /\ r # s
<1> DEFINE m == blk[k]
           after == LiveBefore(blk, {})[k + 1]
<1>1. \/ <<r, s>> \in (Uses(m) \X Uses(m)) \ {<<x, x>> : x \in Uses(m)}
      \/ <<r, s>> \in Defs(m) \X ((after \ Defs(m)) \ CopySource(m))
  BY DEF Conflicts
<1> HIDE DEF m, after
<1>2. CASE <<r, s>> \in (Uses(m) \X Uses(m)) \ {<<x, x>> : x \in Uses(m)}
  <2>1. r \in Uses(m) /\ s \in Uses(m) /\ r # s
    BY <1>2
  <2> QED
    BY <2>1 DEF m
<1>3. CASE <<r, s>> \in Defs(m) \X ((after \ Defs(m)) \ CopySource(m))
  <2>1. r \in Defs(m) /\ s \in after /\ s \notin Defs(m)
    BY <1>3
  <2>2. m.dst = r /\ r # NoReg /\ s # r
    BY <2>1 DEF Defs
  <2>3. k + 1 \in 1..(Len(blk) + 1) /\ s \in LiveBefore(blk, {})[k + 1]
    BY <2>1 DEF after
  <2>4. PICK d \in 1..((k + 1) - 1) : \E j \in (k + 1)..Len(blk) :
          blk[d].dst = s /\ s \in Uses(blk[j]) /\ OnlyLoads(blk, d + 1, j - 1)
    BY <2>3, TidyLive
  <2>5. PICK j \in (k + 1)..Len(blk) : s \in Uses(blk[j]) /\ OnlyLoads(blk, d + 1, j - 1)
    BY <2>4
  <2>6. \A h \in (k + 1)..(j - 1) : Uses(blk[h]) = {}
    BY <2>4, <2>5 DEF OnlyLoads
  <2>7. CASE m.op = "SpillLw"
    <3>1. PICK q \in (k + 1)..Len(blk) :
            r \in Uses(blk[q]) /\ OnlyLoads(blk, k + 1, q - 1)
      BY <2>2, <2>7 DEF Tidy, LoadIsRead, m
    <3>2. ASSUME q < j PROVE FALSE
      <4>1. q \in (k + 1)..(j - 1)
        BY <3>2
      <4> QED
        BY <2>6, <3>1, <4>1
    <3>3. ASSUME j < q PROVE FALSE
      <4>1. j \in (k + 1)..(q - 1) /\ j \in 1..Len(blk)
        BY <3>3
      <4>2. blk[j].op = "SpillLw"
        BY <3>1, <4>1 DEF OnlyLoads
      <4> QED
        BY <2>5, <4>1, <4>2
    <3>4. j = q
      BY <3>2, <3>3
    <3>5. j \in 1..Len(blk)
      OBVIOUS
    <3> QED
      BY <2>2, <2>5, <3>1, <3>4, <3>5
  <2>8. CASE m.op # "SpillLw"
    <3>1. k < Len(blk) /\ blk[k + 1].use = <<r>>
      BY <2>2, <2>8 DEF Tidy, ReadNext, m
    <3>2. Uses(blk[k + 1]) = {r}
      BY <3>1 DEF Uses, Range
    <3>3. ASSUME k + 1 < j PROVE FALSE
      <4>1. k + 1 \in (k + 1)..(j - 1)
        BY <3>3
      <4> QED
        BY <2>6, <3>2, <4>1
    <3>4. j = k + 1
      BY <3>3
    <3> QED
      BY <2>2, <2>5, <3>2, <3>4
  <2> QED
    BY <2>7, <2>8
<1> QED
  BY <1>1, <1>2, <1>3

(* No register is read in two places.                                      *)
ReadOnce(g) ==
  \A b, c \in DOMAIN g : \A k \in DOMAIN g[b] : \A j \in DOMAIN g[c] :
    Uses(g[b][k]) \cap Uses(g[c][j]) # {} => b = c /\ k = j

AllTidy(g) == ReadOnce(g) /\ \A b \in DOMAIN g : Tidy(g[b])

(* Nothing is live from one block to the next.                             *)
LEMMA TidyFlow ==
  ASSUME CodeOK, LvTyped, Least, \A b \in DOMAIN code : Solved(b), AllTidy(code)
  PROVE  \A b \in DOMAIN code : lv.out[b] = {}
<1>1. NoReg \notin VRegs(code)
  BY CodeFacts, RegistersOf DEF CodeOK, NoReg
<1>2. ASSUME NEW r \in VRegs(code) PROVE Reach(r) = {}
  <2>1. ASSUME NEW b \in DOMAIN code, r \in LiveBefore(code[b], {})[1] PROVE FALSE
    <3>1. Tidy(code[b]) /\ Len(code[b]) \in Nat /\ r # NoReg
          /\ 1 \in 1..(Len(code[b]) + 1)
      BY <1>1, CodeFacts DEF AllTidy
    <3>2. \E d \in 1..(1 - 1) : \E j \in 1..Len(code[b]) :
            /\ code[b][d].dst = r /\ r \in Uses(code[b][j])
            /\ OnlyLoads(code[b], d + 1, j - 1)
      BY <2>1, <3>1, TidyLive
    <3> QED
      BY <3>2
  <2>2. Carries(code, r, {})
    BY <2>1 DEF Carries, Blocks
  <2> QED
    BY <2>2 DEF Least
<1>3. \A b \in DOMAIN code : lv.in[b] = {}
  <2> SUFFICES ASSUME NEW b \in DOMAIN code, NEW r \in lv.in[b] PROVE FALSE
    OBVIOUS
  <2>1. r \in VRegs(code)
    BY DEF LvTyped
  <2> QED
    BY <1>2, <2>1 DEF Reach
<1>4. ASSUME NEW b \in DOMAIN code PROVE lv.out[b] = {}
  <2>1. Succs(code, b) \subseteq DOMAIN code /\ lv.out[b] = Flow(b)
    BY CodeFacts DEF Solved
  <2> QED
    BY <1>3, <2>1 DEF Flow
<1> QED
  BY <1>4

(* So no node of the graph can be left without a register.                 *)
LEMMA TidyIsEasy ==
  ASSUME IInv, LiveOK, PaintOK, ShapesOK, stage = "color", AllTidy(code)
  PROVE  \A r \in in.nodes : CFP!Easy(r)
<1> DEFINE V == VRegs(code)
<1>1. CodeOK /\ LvTyped /\ Least /\ (\A b \in DOMAIN code : Solved(b)) /\ GraphOfCode
  BY DEF IInv, LiveOK, PaintOK
<1>2. \A b \in DOMAIN code : lv.out[b] = {}
  BY <1>1, TidyFlow
<1>3. NoReg \notin V
  BY <1>1, CodeFacts, RegistersOf DEF CodeOK, NoReg
<1>4. \A b \in DOMAIN code : /\ Tidy(code[b]) /\ Len(code[b]) \in Nat
                             /\ DOMAIN code[b] = 1..Len(code[b])
  BY <1>1, CodeFacts DEF AllTidy
<1>5. \A b \in DOMAIN code : \A k \in DOMAIN code[b] :
        /\ Shaped(code[b][k]) /\ code[b][k].use \in Seq(DOMAIN orig)
        /\ Uses(code[b][k]) \subseteq V
  <2> SUFFICES ASSUME NEW b \in DOMAIN code, NEW k \in DOMAIN code[b]
               PROVE  /\ Shaped(code[b][k]) /\ code[b][k].use \in Seq(DOMAIN orig)
                      /\ Uses(code[b][k]) \subseteq V
    OBVIOUS
  <2>1. Shaped(code[b][k])
    BY InstsHave DEF ShapesOK
  <2>2. code[b][k] \in Instructions(DOMAIN orig, Len(code))
    BY <1>1, ProgramFacts DEF CodeOK
  <2> QED
    BY <1>1, <2>1, <2>2, CodeFacts DEF Instructions
<1>6. \A b \in DOMAIN code : \A h \in 1..Len(code[b]) :
        code[b][h].op = "SpillLw" => Uses(code[b][h]) = {}
  <2> SUFFICES ASSUME NEW b \in DOMAIN code, NEW h \in 1..Len(code[b]),
                      code[b][h].op = "SpillLw"
               PROVE  Uses(code[b][h]) = {}
    OBVIOUS
  <2>1. h \in DOMAIN code[b]
    BY <1>4
  <2>2. code[b][h].use = <<>>
    BY <1>5, <2>1 DEF Shaped
  <2> QED
    BY <2>2 DEF Uses, Range
<1>7. in.crossing = {}
  <2> SUFFICES ASSUME NEW b \in DOMAIN code, NEW k \in DOMAIN code[b],
                      code[b][k].op = "Call",
                      NEW r \in LiveBefore(code[b], lv.out[b])[k + 1] \ Defs(code[b][k])
               PROVE  FALSE
    BY <1>1 DEF GraphOfCode, Crossing, Blocks
  <2> DEFINE blk == code[b]
  <2>8. k \in 1..Len(blk) /\ Len(blk) \in Nat /\ Tidy(blk) /\ DOMAIN blk = 1..Len(blk)
    BY <1>4
  <2>9. r \in LiveBefore(blk, {})[k + 1]
    BY <1>2
  <2>1. k \in 1..Len(blk) /\ Len(blk) \in Nat /\ Tidy(blk) /\ k + 1 \in 1..(Len(blk) + 1)
        /\ r \in LiveBefore(blk, {})[k + 1]
    <3> HIDE DEF blk
    <3> QED
      BY <2>8, <2>9
  <2>2. r # NoReg
    <3>1. LiveBefore(blk, {})[k + 1] \subseteq V
      <4>1. \A j \in 1..Len(blk) : Uses(blk[j]) \subseteq V
        BY <1>4, <1>5
      <4>2. {} \subseteq V
        OBVIOUS
      <4> HIDE DEF V, blk
      <4> QED
        BY <2>1, <4>1, <4>2, LiveIsNamed
    <3> QED
      BY <1>3, <2>1, <3>1
  <2> HIDE DEF blk
  <2>3. PICK d \in 1..((k + 1) - 1) : \E j \in (k + 1)..Len(blk) :
          blk[d].dst = r /\ r \in Uses(blk[j]) /\ OnlyLoads(blk, d + 1, j - 1)
    BY <2>1, <2>2, TidyLive
  <2>4. PICK j \in (k + 1)..Len(blk) : OnlyLoads(blk, d + 1, j - 1)
    BY <2>3
  <2>5. CASE d = k
    BY <2>2, <2>3, <2>5 DEF Defs, blk
  <2>6. CASE d < k
    <3>1. k \in (d + 1)..(j - 1)
      BY <2>1, <2>6
    <3> QED
      BY <2>4, <3>1 DEF OnlyLoads, blk
  <2> QED
    BY <2>1, <2>5, <2>6
<1>8. ASSUME NEW r \in V, NEW s \in V, s \in in.adj[r]
      PROVE  \E b \in DOMAIN code : \E j \in DOMAIN code[b] :
               r \in Uses(code[b][j]) /\ s \in Uses(code[b][j]) /\ r # s
  <2> DEFINE C(b, k) == Conflicts(code[b][k], LiveBefore(code[b], lv.out[b])[k + 1])
  <2> DEFINE edges == UNION {UNION {C(b, k) : k \in DOMAIN code[b]} : b \in DOMAIN code}
  <2>9. <<r, s>> \in edges \/ <<s, r>> \in edges
    BY <1>1, <1>8 DEF GraphOfCode, buildGraph, Blocks
  <2>10. PICK b \in DOMAIN code : \E k \in DOMAIN code[b] :
           <<r, s>> \in C(b, k) \/ <<s, r>> \in C(b, k)
    <3> HIDE DEF C
    <3> QED
      BY <2>9
  <2>1. PICK k \in DOMAIN code[b] : <<r, s>> \in C(b, k) \/ <<s, r>> \in C(b, k)
    BY <2>10
  <2> DEFINE blk == code[b]
  <2>2. /\ k \in 1..Len(blk) /\ Len(blk) \in Nat /\ Tidy(blk)
        /\ DOMAIN blk = 1..Len(blk) /\ r # NoReg /\ s # NoReg
        /\ \A h \in 1..Len(blk) : blk[h].op = "SpillLw" => Uses(blk[h]) = {}
    BY <1>3, <1>4, <1>6, <2>1
  <2>3. \/ <<r, s>> \in Conflicts(blk[k], LiveBefore(blk, {})[k + 1])
        \/ <<s, r>> \in Conflicts(blk[k], LiveBefore(blk, {})[k + 1])
    BY <1>2, <2>1
  <2> HIDE DEF blk
  <2>4. \E j \in 1..Len(blk) : r \in Uses(blk[j]) /\ s \in Uses(blk[j]) /\ r # s
    BY <2>2, <2>3, TidyEdges
  <2> QED
    BY <2>1, <2>2, <2>4 DEF blk
<1>9. ASSUME NEW r \in V, NEW b \in DOMAIN code, NEW j \in DOMAIN code[b],
             r \in Uses(code[b][j])
      PROVE  in.adj[r] \subseteq Uses(code[b][j]) \ {r}
  <2> SUFFICES ASSUME NEW s \in in.adj[r] PROVE s \in Uses(code[b][j]) \ {r}
    OBVIOUS
  <2>1. s \in V
    BY <1>1 DEF GraphOfCode, buildGraph
  <2>2. PICK c \in DOMAIN code : \E k \in DOMAIN code[c] :
          r \in Uses(code[c][k]) /\ s \in Uses(code[c][k]) /\ r # s
    BY <1>8, <2>1
  <2>3. PICK k \in DOMAIN code[c] :
          r \in Uses(code[c][k]) /\ s \in Uses(code[c][k]) /\ r # s
    BY <2>2
  <2>4. b = c /\ j = k
    BY <1>9, <2>3 DEF AllTidy, ReadOnce
  <2> QED
    BY <2>3, <2>4
<1>10. ASSUME NEW r \in V, \A b \in DOMAIN code : \A j \in DOMAIN code[b] :
                              r \notin Uses(code[b][j])
       PROVE  in.adj[r] = {}
  <2> SUFFICES ASSUME NEW s \in in.adj[r] PROVE FALSE
    OBVIOUS
  <2>1. s \in V
    BY <1>1 DEF GraphOfCode, buildGraph
  <2> QED
    BY <1>8, <1>10, <2>1
<1>11. ASSUME NEW r \in V, NEW b \in DOMAIN code, NEW k \in DOMAIN code[b],
              code[b][k].op = "Entry", code[b][k].dst = r
       PROVE  in.adj[r] = {}
  <2>1. r # NoReg
    BY <1>3
  <2>2. k \in 1..Len(code[b]) /\ ReadNext(code[b], k) /\ Len(code[b]) \in Nat
        /\ DOMAIN code[b] = 1..Len(code[b])
    BY <1>4 DEF Tidy
  <2>3. k < Len(code[b]) /\ code[b][k + 1].use = <<r>>
    BY <1>11, <2>1, <2>2 DEF ReadNext
  <2>4. k + 1 \in DOMAIN code[b] /\ Uses(code[b][k + 1]) = {r}
    BY <2>2, <2>3 DEF Uses, Range
  <2>5. in.adj[r] \subseteq Uses(code[b][k + 1]) \ {r}
    BY <1>9, <2>4
  <2> QED
    BY <2>4, <2>5
<1>12. ASSUME NEW r \in V
       PROVE  \/ in.forbid[r] = {}
              \/ in.forbid[r] \subseteq Range(ArgRegs) /\ in.adj[r] = {}
  <2> DEFINE At(p) == code[p[1]][p[2]]
             entries == {p \in UNION {{b} \X DOMAIN code[b] : b \in DOMAIN code} :
                           At(p).op = "Entry"}
             sooner(p, q) == p[1] < q[1] \/ (p[1] = q[1] /\ p[2] < q[2])
             late == {e \in entries : \E p \in entries : At(p).dst = r /\ sooner(p, e)}
  <2>1. in.forbid[r] = {At(q).imm : q \in late} \cap Phys
    BY <1>1 DEF GraphOfCode, entryForbid, Blocks
  <2>2. \A p \in entries : /\ p[1] \in DOMAIN code /\ p[2] \in DOMAIN code[p[1]]
                           /\ At(p).op = "Entry"
    OBVIOUS
  <2>3. \A q \in late : q \in entries /\ \E p \in entries : At(p).dst = r
    OBVIOUS
  <2> HIDE DEF late, entries, sooner
  <2>4. ASSUME NEW q \in late PROVE At(q).imm \in Range(ArgRegs)
    BY <1>5, <2>2, <2>3 DEF Shaped
  <2>5. ASSUME NEW q \in late PROVE in.adj[r] = {}
    <3>1. PICK p \in entries : At(p).dst = r
      BY <2>3
    <3> QED
      BY <1>11, <2>2, <3>1
  <2> QED
    BY <2>1, <2>4, <2>5
<1>13. ASSUME NEW r \in V PROVE Cardinality(in.adj[r]) < Cardinality(Range(FullPhys) \ in.forbid[r])
  <2> DEFINE P == Range(FullPhys)
             A == in.adj[r]
             F == in.forbid[r]
  <2>1. IsFiniteSet(P) /\ Cardinality(P) \in Nat /\ Cardinality(P) >= 1
        /\ (\E p \in P : p \notin Range(ArgRegs))
    BY PaletteSize, PaletteAssumption
  <2>2. IsFiniteSet(P \ F) /\ Cardinality(P \ F) \in Nat
    <3> HIDE DEF P, F
    <3> QED
      BY <2>1, FS_Subset, FS_CardinalityType
  <2>3. CASE A = {}
    <3>1. P \ F # {}
      <4>1. F = {} \/ F \subseteq Range(ArgRegs)
        BY <1>12
      <4> HIDE DEF P, F
      <4> QED
        BY <2>1, <4>1
    <3>2. Cardinality(P \ F) # 0
      <4> HIDE DEF P, F
      <4> QED
        BY <2>2, <3>1, FS_EmptySet
    <3>3. Cardinality(A) = 0
      BY <2>3, FS_EmptySet
    <3> HIDE DEF A, P, F
    <3>4. Cardinality(A) < Cardinality(P \ F)
      BY <2>2, <3>2, <3>3
    <3> QED
      BY <3>4 DEF A, P, F
  <2>4. CASE A # {}
    <3>1. PICK b \in DOMAIN code : \E j \in DOMAIN code[b] : r \in Uses(code[b][j])
      BY <1>10, <2>4
    <3>2. PICK j \in DOMAIN code[b] : r \in Uses(code[b][j])
      BY <3>1
    <3> DEFINE U == Uses(code[b][j])
    <3>3. A \subseteq U \ {r}
      BY <1>9, <3>2
    <3>4. /\ IsFiniteSet(U) /\ Cardinality(U) \in Nat
          /\ Cardinality(U) <= Cardinality(P)
      <4> DEFINE u == code[b][j].use
      <4>1. u \in Seq(DOMAIN orig) /\ Len(u) <= Cardinality(P)
        BY <1>5 DEF Shaped
      <4>2. U = Range(u) /\ Len(u) \in Nat
        BY <4>1 DEF Uses
      <4> HIDE DEF u, U, P
      <4>3. /\ IsFiniteSet(Range(u)) /\ Cardinality(Range(u)) \in Nat
            /\ Cardinality(Range(u)) <= Len(u)
        BY <4>1, RangeBound
      <4> QED
        BY <2>1, <4>1, <4>2, <4>3
    <3>5. F = {}
      BY <1>12, <2>4
    <3>6. r \in U
      BY <3>2
    <3> HIDE DEF U, A, P, F
    <3>7. Cardinality(U \ {r}) = Cardinality(U) - 1 /\ IsFiniteSet(U \ {r})
      BY <3>4, <3>6, FS_RemoveElement
    <3>8. Cardinality(A) <= Cardinality(U \ {r}) /\ IsFiniteSet(A)
      BY <3>3, <3>7, FS_Subset
    <3>9. Cardinality(A) \in Nat
      BY <3>8, FS_CardinalityType
    <3>10. P \ F = P
      BY <3>5
    <3>11. Cardinality(A) < Cardinality(P \ F)
      BY <2>1, <3>4, <3>7, <3>8, <3>9, <3>10
    <3> QED
      BY <3>11 DEF A, P, F
  <2> QED
    BY <2>3, <2>4
<1>14. ASSUME NEW r \in V PROVE CFP!Easy(r)
  <2>1. CFP!Range(FullPhys) = Range(FullPhys)
    BY DEF CFP!Range, Range
  <2>2. CFP!Palette(r) = FullPhys
    BY <1>7 DEF CFP!Palette
  <2>3. CFP!Kof(r) = Cardinality(Range(FullPhys) \ in.forbid[r])
    BY <2>1, <2>2, SameCounting DEF CFP!Kof
  <2>4. CFP!Cardinality(in.adj[r]) = Cardinality(in.adj[r])
    BY SameCounting
  <2> QED
    BY <1>13, <2>3, <2>4 DEF CFP!Easy
<1> QED
  BY <1>1, <1>14 DEF GraphOfCode

(* So the colouring of tidy code never fails.                              *)
LEMMA TidySucceeds ==
  ASSUME IInv, LiveOK, PaintOK, ShapesOK, stage = "color", phase = "done", AllTidy(code)
  PROVE  Uncolored = {}
<1>1. CFP!Working
  BY DEF PaintOK
<1>2. \A r \in in.nodes : CFP!Easy(r)
  BY TidyIsEasy
<1>3. \A r \in in.nodes : r \notin cand
  BY <1>1, <1>2 DEF CFP!Working, CFP!EasyRemoved
<1>4. ASSUME NEW r \in in.nodes, color[r] = NoReg PROVE FALSE
  <2>1. stack = <<>> /\ r \in cand \cup CFP!Range(stack)
    BY <1>1, <1>4 DEF CFP!Working, CFP!PoppedOrStacked, CFP!NoReg, NoReg
  <2>2. CFP!Range(stack) = {}
    BY <2>1 DEF CFP!Range
  <2> QED
    BY <1>3, <2>1, <2>2
<1> QED
  BY <1>4 DEF Uncolored

----------------------------------------------------------------------------
(* Everything is spilled at most once.                                     *)

(* What a forced round has written so far.                                 *)
Drafted ==
  [b \in DOMAIN code |->
     IF b < sp.b THEN code[b] ELSE IF b = sp.b THEN sp.out ELSE <<>>]

FallbackOK ==
  /\ tries = [trim |-> tries.trim, round |-> tries.round, forced |-> tries.forced,
              prev |-> tries.prev, degreeRule |-> tries.degreeRule]
  /\ tries.forced \in {0, 1}
  /\ tries.forced = 1 => stage # "trim"
  /\ tries.forced = 1 /\ stage = "spill" =>
       /\ DOMAIN sp.remat = {}
       /\ \A b \in DOMAIN code : b >= sp.b =>
            \A k \in DOMAIN code[b] :
              Uses(code[b][k]) \cup Defs(code[b][k]) \subseteq DOMAIN sp.slot
       /\ AllTidy(Drafted)
       /\ \A b \in DOMAIN Drafted : \A k \in DOMAIN Drafted[b] :
            Uses(Drafted[b][k]) \subseteq 0..(sp.nreg - 1)
  /\ tries.forced = 1 /\ stage \in {"live", "color"} => AllTidy(code)

LEMMA SpillEverythingFallback ==
  ASSUME IInv, LiveOK, PaintOK, ShapesOK, FallbackOK, SpillEverything
  PROVE  FallbackOK'
<1>1. /\ stage = "color" /\ phase = "done" /\ Uncolored # {}
      /\ BeginSpilling(0..(maxReg(code) - 1), {})
      /\ tries' = [tries EXCEPT !.forced = @ + 1] /\ code' = code
  BY DEF SpillEverything
<1>2. tries.forced = 0
  BY <1>1, TidySucceeds DEF FallbackOK
<1>3. tries' = [trim |-> tries.trim, round |-> tries.round, forced |-> 1,
                prev |-> tries.prev, degreeRule |-> tries.degreeRule]
  BY <1>1, <1>2 DEF FallbackOK
<1>4. /\ stage' = "spill" /\ sp'.b = 1 /\ sp'.out = <<>>
      /\ DOMAIN sp'.remat = {} /\ DOMAIN sp'.slot = 0..(maxReg(code) - 1)
  BY <1>1 DEF BeginSpilling, SlotsFor
<1>5. ASSUME NEW b \in DOMAIN code, NEW k \in DOMAIN code[b]
      PROVE  Uses(code[b][k]) \cup Defs(code[b][k]) \subseteq DOMAIN sp'.slot
  <2> DEFINE K == VRegs(code) \cup {NoReg}
  <2>1. VRegs(code) \in SUBSET Nat /\ IsFiniteSet(VRegs(code))
        /\ Uses(code[b][k]) \cup Defs(code[b][k]) \subseteq VRegs(code)
    BY CodeFacts DEF IInv
  <2>2. K \in SUBSET Int /\ IsFiniteSet(K) /\ K # {}
    BY <2>1, FS_AddElement DEF NoReg
  <2>3. Max(K) \in K /\ \A y \in K : y <= Max(K)
    <3> HIDE DEF K
    <3> QED
      BY <2>2, Greatest
  <2>4. maxReg(code) - 1 = Max(K) /\ Max(K) \in Int
    BY <2>2, <2>3 DEF maxReg
  <2>5. \A r \in VRegs(code) : r \in 0..(maxReg(code) - 1)
    BY <2>1, <2>3, <2>4
  <2> QED
    BY <1>4, <2>1, <2>5
<1>6. ASSUME NEW b \in DOMAIN code PROVE Drafted'[b] = <<>>
  <2>1. b \in Nat \ {0}
    BY CodeFacts DEF IInv
  <2>2. ~(b < 1)
    BY <2>1
  <2> QED
    BY <1>1, <1>4, <2>2 DEF Drafted
<1>7. DOMAIN Drafted' = DOMAIN code
  BY <1>1 DEF Drafted
<1>8. Tidy(<<>>)
  BY DEF Tidy
<1>9. AllTidy(Drafted)'
  BY <1>6, <1>7, <1>8 DEF AllTidy, ReadOnce
<1>10. \A b \in DOMAIN Drafted' : DOMAIN Drafted'[b] = {}
  BY <1>6, <1>7
<1> QED
  BY <1>1, <1>3, <1>4, <1>5, <1>9, <1>10 DEF FallbackOK

LEMMA SpillInstFallback ==
  ASSUME IInv, ShapesOK, FallbackOK, SpillInst
  PROVE  FallbackOK'
<1>1. /\ sp' = [remat |-> sp.remat, slot |-> sp.slot, b |-> sp.b, k |-> sp.k + 1,
                out |-> sp.out \o Group, nreg |-> Total]
      /\ sp.out \in Seq(Instructions(DOMAIN orig, Len(code)))
      /\ UNCHANGED <<stage, code, tries>>
  BY SpillInstEffect
<1>2. CASE tries.forced # 1
  BY <1>1, <1>2 DEF FallbackOK
<1>3. CASE tries.forced = 1
  <2>1. /\ stage = "spill" /\ sp.b \in DOMAIN code /\ sp.k \in DOMAIN code[sp.b]
        /\ DOMAIN code \subseteq Int
    BY InHand, CodeFacts DEF IInv
  <2>2. Uses(Old) \cup Defs(Old) \subseteq DOMAIN sp.slot /\ DOMAIN sp.remat = {}
    BY <1>3, <2>1 DEF FallbackOK, Old
  <2>3. /\ Tidy(Group)
        /\ \A k, j \in DOMAIN Group : Uses(Group[k]) \cap Uses(Group[j]) # {} => k = j
        /\ \A k \in DOMAIN Group : Uses(Group[k]) \subseteq sp.nreg..(Total - 1)
        /\ sp.nreg \in Nat /\ Total \in Nat /\ sp.nreg <= Total
    BY <2>2, TidyGroup
  <2> DEFINE o == sp.out
             g == Group
             c == o \o g
             n == Len(o)
             l == Len(g)
  <2>4. /\ n \in Nat /\ l \in Nat /\ DOMAIN o = 1..n /\ DOMAIN g = 1..l
        /\ DOMAIN c = 1..(n + l)
        /\ \A i \in 1..n : c[i] = o[i]
        /\ \A j \in 1..l : c[n + j] = g[j]
        /\ (Tidy(o) /\ Tidy(g) => Tidy(c))
    <3> DEFINE S == Instructions(DOMAIN orig, Len(code)) \cup Range(g)
    <3>1. o \in Seq(Instructions(DOMAIN orig, Len(code))) /\ g \in Seq(Range(g))
      BY <1>1, GroupFacts
    <3>2. /\ Seq(Instructions(DOMAIN orig, Len(code))) \subseteq Seq(S)
          /\ Seq(Range(g)) \subseteq Seq(S)
      BY SeqMonotonic
    <3>3. o \in Seq(S) /\ g \in Seq(S)
      BY <3>1, <3>2
    <3> HIDE DEF S, o, g
    <3>4. DOMAIN o = 1..Len(o) /\ DOMAIN g = 1..Len(g)
      BY <3>3
    <3>5. Tidy(o) /\ Tidy(g) => Tidy(o \o g)
      BY <3>3, TidyJoin
    <3> QED
      BY <3>3, <3>4, <3>5, Joined
  <2>5. Drafted' = [b \in DOMAIN code |-> IF b = sp.b THEN c ELSE Drafted[b]]
    BY <1>1 DEF Drafted
  <2>6. /\ AllTidy(Drafted) /\ DOMAIN Drafted = DOMAIN code /\ Drafted[sp.b] = o
        /\ \A b \in DOMAIN Drafted : \A k \in DOMAIN Drafted[b] :
             Uses(Drafted[b][k]) \subseteq 0..(sp.nreg - 1)
    BY <1>3, <2>1 DEF FallbackOK, Drafted
  <2>7. Tidy(c)
    BY <2>1, <2>3, <2>4, <2>6 DEF AllTidy
  <2> HIDE DEF o, g, c, n, l
  <2>8. ASSUME NEW k \in DOMAIN c
        PROVE  \/ k \in DOMAIN o /\ c[k] = o[k]
               \/ \E j \in DOMAIN g : k = n + j /\ c[k] = g[j]
    <3>1. CASE k <= n
      BY <2>4, <3>1
    <3>2. CASE ~(k <= n)
      <4>1. k - n \in 1..l /\ k = n + (k - n)
        BY <2>4, <3>2
      <4> QED
        BY <2>4, <4>1
    <3> QED
      BY <3>1, <3>2
  <2> DEFINE B == sp.b
             D == Drafted
             E == [b \in DOMAIN code |-> IF b = B THEN c ELSE D[b]]
             x == sp.nreg
  <2> HIDE DEF B, D, x
  <2>9. /\ B \in DOMAIN code /\ DOMAIN D = DOMAIN code /\ D[B] = o /\ AllTidy(D)
        /\ \A b \in DOMAIN D : \A k \in DOMAIN D[b] : Uses(D[b][k]) \subseteq 0..(x - 1)
        /\ \A k, j \in DOMAIN g : Uses(g[k]) \cap Uses(g[j]) # {} => k = j
        /\ \A k \in DOMAIN g : Uses(g[k]) \subseteq x..(Total - 1)
        /\ x \in Nat /\ Total \in Nat /\ x <= Total
        /\ E = Drafted'
    BY <2>1, <2>3, <2>5, <2>6 DEF B, D, x, g
  <2>10. DOMAIN E = DOMAIN code /\ E[B] = c /\ \A b \in DOMAIN code : b # B => E[b] = D[b]
    BY <2>9
  <2> HIDE DEF E
  <2>11. ASSUME NEW b \in DOMAIN E, NEW k \in DOMAIN E[b]
         PROVE  \/ /\ k \in DOMAIN D[b] /\ E[b][k] = D[b][k]
                   /\ Uses(E[b][k]) \subseteq 0..(x - 1)
                \/ /\ b = B
                   /\ \E j \in DOMAIN g : k = n + j /\ E[b][k] = g[j]
                   /\ Uses(E[b][k]) \subseteq x..(Total - 1)
    BY <2>8, <2>9, <2>10
  <2>12. ReadOnce(E)
    <3> SUFFICES ASSUME NEW b \in DOMAIN E, NEW d \in DOMAIN E,
                        NEW k \in DOMAIN E[b], NEW j \in DOMAIN E[d],
                        NEW r \in Uses(E[b][k]) \cap Uses(E[d][j])
                 PROVE  b = d /\ k = j
      BY DEF ReadOnce
    <3>1. CASE r \in 0..(x - 1)
      <4>1. r \notin x..(Total - 1)
        BY <2>9, <3>1
      <4>2. k \in DOMAIN D[b] /\ j \in DOMAIN D[d] /\ r \in Uses(D[b][k]) \cap Uses(D[d][j])
        BY <2>11, <4>1
      <4> QED
        BY <2>9, <2>10, <4>2 DEF AllTidy, ReadOnce
    <3>2. CASE r \notin 0..(x - 1)
      <4>1. b = B /\ d = B
        BY <2>11, <3>2
      <4>2. PICK p \in DOMAIN g : k = n + p /\ E[b][k] = g[p]
        BY <2>11, <3>2
      <4>3. PICK q \in DOMAIN g : j = n + q /\ E[d][j] = g[q]
        BY <2>11, <3>2
      <4>4. p = q
        BY <2>9, <4>2, <4>3
      <4> QED
        BY <4>1, <4>2, <4>3, <4>4
    <3> QED
      BY <3>1, <3>2
  <2>13. AllTidy(E)
    BY <2>7, <2>9, <2>10, <2>12 DEF AllTidy
  <2>14. \A b \in DOMAIN E : \A k \in DOMAIN E[b] : Uses(E[b][k]) \subseteq 0..(Total - 1)
    <3>1. 0..(x - 1) \subseteq 0..(Total - 1) /\ x..(Total - 1) \subseteq 0..(Total - 1)
      BY <2>9
    <3> QED
      BY <2>11, <3>1
  <2>15. AllTidy(Drafted)' /\ \A b \in DOMAIN Drafted' : \A k \in DOMAIN Drafted'[b] :
                                 Uses(Drafted'[b][k]) \subseteq 0..(sp'.nreg - 1)
    BY <1>1, <2>9, <2>13, <2>14 DEF AllTidy, ReadOnce
  <2>16. /\ DOMAIN sp'.remat = {} /\ sp'.slot = sp.slot /\ sp'.b = sp.b
    BY <1>1, <2>2
  <2> QED
    BY <1>1, <1>3, <2>1, <2>15, <2>16 DEF FallbackOK
<1> QED
  BY <1>2, <1>3

LEMMA SpillNextBlockFallback ==
  ASSUME IInv, FallbackOK, SpillNextBlock
  PROVE  FallbackOK'
<1>1. /\ stage = "spill" /\ code' = [code EXCEPT ![sp.b] = sp.out]
      /\ sp' = [sp EXCEPT !.b = @ + 1, !.k = 1, !.out = <<>>]
      /\ UNCHANGED <<stage, tries>>
  BY DEF SpillNextBlock
<1>2. SpillOK /\ sp.b \in Nat
  BY <1>1 DEF IInv, SpillOK
<1>3. sp' = [remat |-> sp.remat, slot |-> sp.slot, b |-> sp.b + 1, k |-> 1,
             out |-> <<>>, nreg |-> sp.nreg]
  BY <1>1, <1>2 DEF SpillOK
<1>4. DOMAIN code' = DOMAIN code /\ DOMAIN code \subseteq Int
      /\ \A b \in DOMAIN code : code'[b] = IF b = sp.b THEN sp.out ELSE code[b]
  BY <1>1, CodeFacts DEF IInv
<1>5. ASSUME NEW b \in DOMAIN code PROVE Drafted'[b] = Drafted[b]
  <2>1. b \in Int
    BY <1>4
  <2>2. Drafted'[b] = IF b < sp.b + 1 THEN code'[b] ELSE <<>>
    <3>1. sp'.b = sp.b + 1 /\ sp'.out = <<>>
      BY <1>3
    <3> QED
      BY <1>4, <3>1 DEF Drafted
  <2> QED
    BY <1>2, <1>4, <2>1, <2>2 DEF Drafted
<1>6. Drafted' = Drafted
  BY <1>4, <1>5 DEF Drafted
<1>7. \A b \in DOMAIN code : b >= sp.b + 1 => b >= sp.b /\ code'[b] = code[b]
  BY <1>2, <1>4
<1>8. sp'.remat = sp.remat /\ sp'.slot = sp.slot /\ sp'.b = sp.b + 1 /\ sp'.nreg = sp.nreg
  BY <1>3
<1>9. AllTidy(Drafted)' <=> AllTidy(Drafted)
  BY <1>6 DEF AllTidy, ReadOnce
<1>10. /\ tries' = tries /\ stage' = stage /\ stage = "spill"
  BY <1>1
<1>11. CASE tries.forced # 1
  BY <1>10, <1>11 DEF FallbackOK
<1>12. CASE tries.forced = 1
  <2>1. /\ DOMAIN sp'.remat = {}
        /\ \A b \in DOMAIN code' : b >= sp'.b =>
             \A k \in DOMAIN code'[b] :
               Uses(code'[b][k]) \cup Defs(code'[b][k]) \subseteq DOMAIN sp'.slot
    BY <1>4, <1>7, <1>8, <1>10, <1>12 DEF FallbackOK
  <2>2. AllTidy(Drafted)'
    BY <1>9, <1>10, <1>12 DEF FallbackOK
  <2>3. \A b \in DOMAIN Drafted' : \A k \in DOMAIN Drafted'[b] :
          Uses(Drafted'[b][k]) \subseteq 0..(sp'.nreg - 1)
    BY <1>6, <1>8, <1>10, <1>12 DEF FallbackOK
  <2> QED
    BY <1>10, <1>12, <2>1, <2>2, <2>3 DEF FallbackOK
<1> QED
  BY <1>11, <1>12

(* Keeping every member keeps the sequence.                                *)
LEMMA PickedAll ==
  ASSUME NEW S, NEW s \in Seq(S)
  PROVE  Picked(s, DOMAIN s) = s
<1> DEFINE n == Len(s)
           K == DOMAIN s
<1>1. n \in Nat /\ K = 1..n
  OBVIOUS
<1> HIDE DEF n, K
<1>2. K \in SUBSET Int /\ IsFiniteSet(K) /\ Cardinality(K) = n
  BY <1>1, FS_Interval
<1>3. ASSUME NEW i \in 1..n PROVE Order(K)[i] = i
  <2> DEFINE x == Order(K)[i]
  <2>1. x \in K /\ Cardinality({j \in K : j <= x}) = i
    BY <1>2, Ordered
  <2> HIDE DEF x
  <2>2. {j \in K : j <= x} = 1..x /\ x \in Nat
    BY <1>1, <2>1
  <2>3. Cardinality(1..x) = x
    BY <2>2, FS_Interval
  <2> QED
    BY <2>1, <2>2, <2>3 DEF x
<1>4. Picked(s, K) = [i \in 1..n |-> s[i]]
  BY <1>2, <1>3 DEF Picked
<1>5. s = [i \in 1..n |-> s[i]]
  BY <1>1 DEF K
<1> QED
  BY <1>4, <1>5 DEF K

LEMMA SpillEndsFallback ==
  ASSUME IInv, FallbackOK, SpillEnds
  PROVE  FallbackOK'
<1>1. /\ stage = "spill" /\ sp.b > Len(code) /\ stage' \in {"live", "failed"}
      /\ code' = [b \in DOMAIN code |-> Erased(code[b])]
      /\ tries' = tries
  BY DEF SpillEnds, Blocks
<1>2. CASE tries.forced # 1
  BY <1>1, <1>2 DEF FallbackOK
<1>3. CASE tries.forced = 1
  <2>1. DOMAIN sp.remat = {} /\ AllTidy(Drafted)
    BY <1>1, <1>3 DEF FallbackOK
  <2>2. IsProgram(code, DOMAIN orig) /\ sp.b \in Nat
    BY <1>1 DEF IInv, CodeOK, SpillOK
  <2>3. ASSUME NEW b \in DOMAIN code PROVE Drafted[b] = code[b]
    <3>1. b < sp.b
      <4>1. DOMAIN code = 1..Len(code) /\ Len(code) \in Nat
        BY <2>2, ProgramFacts
      <4> QED
        BY <1>1, <2>2, <4>1
    <3> QED
      BY <3>1 DEF Drafted
  <2>4. ASSUME NEW b \in DOMAIN code PROVE code'[b] = code[b]
    <3>1. Erased(code[b]) = Picked(code[b], DOMAIN code[b])
      BY <2>1 DEF Erased
    <3>2. code[b] \in Seq(Instructions(DOMAIN orig, Len(code)))
      BY <2>2, ProgramFacts
    <3>3. Picked(code[b], DOMAIN code[b]) = code[b]
      BY <3>2, PickedAll
    <3> QED
      BY <1>1, <3>1, <3>3
  <2>5. DOMAIN code' = DOMAIN code /\ DOMAIN Drafted = DOMAIN code
    BY <1>1 DEF Drafted
  <2>6. AllTidy(code)'
    BY <2>1, <2>3, <2>4, <2>5 DEF AllTidy, ReadOnce
  <2> QED
    BY <1>1, <2>6 DEF FallbackOK
<1> QED
  BY <1>2, <1>3

LEMMA FallbackStep ==
  ASSUME IInv, LiveOK, PaintOK, ShapesOK, FallbackOK, [Next]_vars
  PROVE  FallbackOK'
<1>1. CASE SpillEverything
  BY <1>1, SpillEverythingFallback
<1>2. CASE SpillInst
  BY <1>2, SpillInstFallback
<1>3. CASE SpillNextBlock
  BY <1>3, SpillNextBlockFallback
<1>4. CASE SpillEnds
  BY <1>4, SpillEndsFallback
<1>5. CASE SpillAndRetry
  <2>1. /\ stage = "color" /\ phase = "done" /\ Uncolored # {}
        /\ tries' = [tries EXCEPT
                       !.round = @ + 1, !.prev = Cardinality(Uncolored),
                       !.degreeRule = @ \/ Cardinality(Uncolored) >= tries.prev]
    BY <1>5 DEF SpillAndRetry
  <2>2. tries.forced = 0
    BY <2>1, TidySucceeds DEF FallbackOK
  <2>3. tries' = [trim |-> tries.trim, round |-> tries'.round, forced |-> 0,
                  prev |-> tries'.prev, degreeRule |-> tries'.degreeRule]
    BY <2>1, <2>2 DEF FallbackOK
  <2> QED
    BY <2>3 DEF FallbackOK
<1>6. CASE TrimPass
  <2>1. stage = "trim" /\ tries' = [tries EXCEPT !.trim = @ + 1]
    BY <1>6 DEF TrimPass
  <2>2. tries.forced = 0
    BY <2>1 DEF FallbackOK
  <2>3. tries' = [trim |-> tries'.trim, round |-> tries.round, forced |-> 0,
                  prev |-> tries.prev, degreeRule |-> tries.degreeRule]
    BY <2>1, <2>2 DEF FallbackOK
  <2> QED
    BY <2>3 DEF FallbackOK
<1>7. CASE TrimEnds
  <2>1. stage = "trim" /\ tries' = tries /\ stage' = "live"
    BY <1>7 DEF TrimEnds
  <2> QED
    BY <2>1 DEF FallbackOK
<1>8. CASE VisitBlock \/ NextPass \/ BeginColoring \/ ColorStep \/ Bake \/ Execute \/ Return
  <2>1. /\ UNCHANGED <<code, tries>> /\ stage' \notin {"spill", "trim"}
        /\ stage' \in {"live", "color"} => stage \in {"live", "color"}
    BY <1>8 DEF VisitBlock, NextPass, BeginColoring, ColorStep, Bake, Execute, Return,
       allocVars, Running, Compute, StoreWord, Copy, CallReturns, Spill, Reload, Branch,
       FallThrough, AtInst
  <2>2. AllTidy(code)' <=> AllTidy(code)
    BY <2>1 DEF AllTidy, ReadOnce
  <2> QED
    BY <2>1, <2>2 DEF FallbackOK
<1>9. CASE UNCHANGED vars
  <2>1. UNCHANGED <<code, tries, stage, sp>>
    BY <1>9 DEF vars, allocVars
  <2>2. (AllTidy(code)' <=> AllTidy(code)) /\ Drafted' = Drafted
        /\ (AllTidy(Drafted)' <=> AllTidy(Drafted))
    BY <2>1 DEF AllTidy, ReadOnce, Drafted
  <2> QED
    BY <2>1, <2>2 DEF FallbackOK
<1> QED
  BY <1>1, <1>2, <1>3, <1>4, <1>5, <1>6, <1>7, <1>8, <1>9 DEF Next

(* The invariants of the stages together.                                  *)
AllocInv == IInv /\ LiveOK /\ PaintOK /\ ShapesOK /\ FallbackOK

LEMMA StartAllocInv ==
  ASSUME NEW R \in SUBSET Nat, IsFiniteSet(R), NEW f, IsProgram(f, R), IsSource(f),
         StartWith(f)
  PROVE  AllocInv
<1>1. IInv
  BY InitIInv
<1>2. /\ stage = "trim" /\ code = f
      /\ tries = [trim |-> 0, round |-> 0, forced |-> 0, prev |-> 2147483647,
                  degreeRule |-> FALSE]
  BY DEF StartWith
<1>3. LiveOK /\ PaintOK
  BY <1>2 DEF LiveOK, PaintOK
<1>4. ShapesOK
  BY <1>2 DEF ShapesOK, IsSource
<1>5. FallbackOK
  BY <1>2 DEF FallbackOK
<1> QED
  BY <1>1, <1>3, <1>4, <1>5 DEF AllocInv

LEMMA NextAllocInv == AllocInv /\ [Next]_vars => AllocInv'
<1> SUFFICES ASSUME AllocInv, [Next]_vars PROVE AllocInv'
  OBVIOUS
<1>1. IInv /\ LiveOK /\ PaintOK /\ ShapesOK /\ FallbackOK
  BY DEF AllocInv
<1>2. IInv'
  BY <1>1, NextIInv
<1>3. LiveOK'
  BY <1>1, <1>2, LiveOKStep
<1>4. PaintOK'
  BY <1>1, <1>2, <1>3, PaintStep
<1>5. ShapesOK'
  BY <1>1, ShapesStep
<1>6. FallbackOK'
  BY <1>1, FallbackStep
<1> QED
  BY <1>2, <1>3, <1>4, <1>5, <1>6 DEF AllocInv

(* Whatever the function, the palettes and the number of rounds: once      *)
(* every register has been spilled, the next colouring succeeds, so that   *)
(* allocate never spills everything twice and assert(converged) holds.     *)
THEOREM ForcedRoundSucceeds ==
  ASSUME NEW R \in SUBSET Nat, IsFiniteSet(R), NEW f, IsProgram(f, R), IsSource(f)
  PROVE  StartWith(f) /\ [][Next]_vars => []FallbackSucceeds
<1>1. StartWith(f) => AllocInv
  BY StartAllocInv
<1>2. AllocInv /\ [Next]_vars => AllocInv'
  BY NextAllocInv
<1>3. AllocInv => FallbackSucceeds
  <2> SUFFICES ASSUME AllocInv PROVE FallbackSucceeds
    OBVIOUS
  <2>1. IInv /\ LiveOK /\ PaintOK /\ ShapesOK /\ FallbackOK
    BY DEF AllocInv
  <2>2. tries.forced <= 1
    BY <2>1 DEF FallbackOK
  <2>3. tries.forced = 1 /\ stage = "color" /\ phase = "done" => Uncolored = {}
    BY <2>1, TidySucceeds DEF FallbackOK
  <2> QED
    BY <2>2, <2>3 DEF FallbackSucceeds
<1> QED
  BY <1>1, <1>2, <1>3, PTL
=============================================================================
