----------------------------- MODULE MachineCse -----------------------------
(***************************************************************************)
(* blockLocalCse, licm and globalCse of MachineOptimizer                   *)
(* (src/backend/MachineOpt.cpp) on virtual registers, in the order of      *)
(* RISCVBackend::run: equal computations of a block fold into the first,   *)
(* what does not change in a loop moves to the block before it, constants  *)
(* and addresses fold into one that dominates them, and blocks are looked  *)
(* at once more.  A register is folded or moved only if one instruction    *)
(* defines it.  Two kinds of access stand for all: Lw and Sw through a     *)
(* register, LwG and SwG with the symbol in the instruction (imm is ten    *)
(* times its number plus a displacement).                                  *)
(***************************************************************************)
EXTENDS MIRRun, TLC

CONSTANT HoistRounds   (* 8 in the code *)

VARIABLES
  stage,      (* the pass that is next                                     *)
  changed     (* did a pass change the function?                           *)

isConstMatOp(m) == m.op \in {"Li", "LeaG"}

isPureCseOp(m) == m.op \in {"Li", "LeaG", "Move", "Op"}

isLoadOp(m) == m.op \in {"Lw", "LwG"}

isMemClobberOp(m) == m.op \in {"Sw", "SwG", "Call", "SpillSw"}

isTerminatorOp(m) == m.op \in {"Ret", "Jmp", "Br"}

(* What two instructions must share to compute the same.                   *)
Key(m) ==
  <<m.op, m.imm,
    IF Commutes(m) THEN SortSeq(m.use, LAMBDA r, s : r < s) ELSE m.use>>

(* A sequence defined by its elements, with the elements computed.         *)
Listed(s) == <<>> \o s

(* The registers that one instruction defines.                             *)
SingleDefs(c) ==
  LET flat == FlattenSeq(c)
  IN  {r \in VRegs(c) : Cardinality({k \in DOMAIN flat : flat[k].dst = r}) = 1}

renameUsesIn(m, from, to) ==
  IF from \in Uses(m) THEN [m EXCEPT !.use = Listed(ReplaceAll(@, from, to))] ELSE m

replaceVregUses(c, from, to) ==
  Listed([b \in DOMAIN c |->
            Listed([k \in DOMAIN c[b] |-> renameUsesIn(c[b][k], from, to)])])

----------------------------------------------------------------------------
(* Block-local CSE.  State s: the code, the index k looked at, the known   *)
(* results, the step of the last kept definition of each register.         *)

opsStable(e, m, lastDef) == \A r \in Uses(m) : lastDef[r] <= e.step

Foldable(defs, m) ==
  m.dst \in defs /\ (isLoadOp(m) \/ isPureCseOp(m))

Known(s, m) == IF isMemClobberOp(m) THEN {e \in s.avail : ~e.load} ELSE s.avail

Entry_(s, m) == [key |-> Key(m), reg |-> m.dst, step |-> s.step, load |-> isLoadOp(m)]

FoldInst(s, b, m, known, e) ==
  [s EXCEPT !.code = [replaceVregUses(@, m.dst, e.reg) EXCEPT ![b] = RemoveAt(@, s.k)],
            !.avail = known]

KeepInst(s, m, known) ==
  [s EXCEPT !.avail = known, !.k = @ + 1, !.step = @ + 1,
            !.lastDef = IF m.dst = NoReg THEN @ ELSE [@ EXCEPT ![m.dst] = s.step]]

CseInst(defs, s, b, m) ==
  LET known == Known(s, m)
      same == {e \in known : e.key = Key(m)}
  IN  IF ~Foldable(defs, m) THEN KeepInst(s, m, known)
      ELSE IF \E e \in same : opsStable(e, m, s.lastDef)
      THEN FoldInst(s, b, m, known, CHOOSE e \in same : TRUE)
      ELSE KeepInst(s, m, (known \ same) \cup {Entry_(s, m)})

blockCseBlock(defs, c, b) ==
  FoldLeft(LAMBDA s, n : CseInst(defs, s, b, s.code[b][s.k]),
           [code |-> c, k |-> 1, avail |-> {}, step |-> 0,
            lastDef |-> [r \in VRegs(c) |-> -1]],
           [n \in DOMAIN c[b] |-> n]).code

blockLocalCse(c) ==
  LET defs == SingleDefs(c)
  IN  FoldLeft(LAMBDA d, b : blockCseBlock(defs, d, b), c, [b \in DOMAIN c |-> b])

----------------------------------------------------------------------------
(* The flow graph.                                                         *)
RunStart(blk) == 1 + Max({k \in DOMAIN blk : ~isTerminatorOp(blk[k])} \cup {0})

SuccsOf(blk, b, n) ==
  {blk[k].imm : k \in {k \in RunStart(blk)..Len(blk) : blk[k].op # "Ret"}}
    \cup (IF b = n \/ (blk # <<>> /\ Last(blk).op \in {"Jmp", "Ret"}) THEN {} ELSE {b + 1})

buildCfg(c) == Listed([b \in DOMAIN c |-> SuccsOf(c[b], b, Len(c))])

PredsIn(succ, b) == {p \in DOMAIN succ : b \in succ[p]}

(* dom[b]: the blocks that dominate b; of a block nobody reaches, itself.  *)
computeDom(succ) ==
  LET n == DOMAIN succ
      of(dom, b) ==
        IF b = 1 THEN {1}
        ELSE {b} \cup {a \in n : PredsIn(succ, b) # {} /\ \A p \in PredsIn(succ, b) : a \in dom[p]}
  IN  FoldLeft(LAMBDA dom, i : Listed([b \in n |-> of(dom, b)]),
               [b \in n |-> IF b = 1 THEN {1} ELSE n], [i \in n |-> i])

(* The blocks of the loops back to h.                                      *)
collectLoopNodes(succ, dom, h) ==
  LET grown(in) == in \cup UNION {PredsIn(succ, b) : b \in in \ {h}}
  IN  FoldLeft(LAMBDA in, i : grown(in),
               {h} \cup {b \in PredsIn(succ, h) : h \in dom[b]}, [i \in DOMAIN succ |-> i])

FirstTerminator(blk) ==
  Min({k \in DOMAIN blk : isTerminatorOp(blk[k])} \cup {Len(blk) + 1})

----------------------------------------------------------------------------
(* Loop-invariant code motion.                                             *)
LoopsOf(succ, dom) ==
  LET headers == {h \in DOMAIN succ : \E b \in PredsIn(succ, h) : h \in dom[b]}
      outside(h) == PredsIn(succ, h) \ collectLoopNodes(succ, dom, h)
      loops == {[header |-> h, pre |-> Min(outside(h)),
                 body |-> collectLoopNodes(succ, dom, h)] :
                h \in {h \in headers : outside(h) # {}}}
  IN  SetToSortSeq({l \in loops : l.pre \in dom[l.header]},
        LAMBDA l, k : \/ Cardinality(l.body) < Cardinality(k.body)
                      \/ Cardinality(l.body) = Cardinality(k.body) /\ l.header < k.header)

BodyInsts(c, l) ==
  FlattenSeq([i \in DOMAIN c |-> IF i \in l.body THEN c[i] ELSE <<>>])

loopHasCall(c, l) == \E m \in Range(BodyInsts(c, l)) : m.op = "Call"

(* The preheader with more instructions before its terminator.             *)
Spliced(c, l, ms) ==
  [c EXCEPT ![l.pre] = SubSeq(@, 1, FirstTerminator(@) - 1) \o ms
                         \o SubSeq(@, FirstTerminator(@), Len(@))]

Distinct(s) ==
  FoldLeft(LAMBDA t, x : IF Contains(t, x) THEN t ELSE Append(t, x), <<>>, s)

HasSymbol(m) == m.op \in {"LwG", "SwG"} /\ m.imm % 10 = 0

(* An access that goes through the register of its symbol.                 *)
ThroughAddress(m, addr) ==
  IF ~HasSymbol(m) THEN m
  ELSE [op |-> IF m.op = "LwG" THEN "Lw" ELSE "Sw", dst |-> m.dst,
        use |-> m.use \o <<addr[m.imm]>>, imm |-> 0]

splitGlobals(c, l) ==
  LET uses == SelectSeq(BodyInsts(c, l), HasSymbol)
      syms == Distinct([k \in DOMAIN uses |-> uses[k].imm])
      addr == [s \in Range(syms) |->
                 maxReg(c) + (CHOOSE k \in DOMAIN syms : syms[k] = s) - 1]
  IN  Spliced(Listed([b \in DOMAIN c |->
                 IF b \notin l.body THEN c[b]
                 ELSE Listed([k \in DOMAIN c[b] |-> ThroughAddress(c[b][k], addr)])]),
              l, [k \in DOMAIN syms |-> Inst("LeaG", addr[syms[k]], <<>>, syms[k])])

(* The last block that defines r, 0 if none.                               *)
OwnerOf(c, r) == Max({b \in DOMAIN c : \E m \in Range(c[b]) : m.dst = r} \cup {0})

InvariantOperand(c, defs, dom, pre, r) ==
  r \in defs /\ OwnerOf(c, r) \in dom[pre]

Invariant(c, defs, dom, l, m) ==
  /\ isPureCseOp(m) /\ m.dst \in defs
  /\ \E x \in Insts(c) : m.dst \in Uses(x)
  /\ \A r \in Uses(m) : InvariantOperand(c, defs, dom, l.pre, r)

HoistRound(c, dom, l) ==
  LET defs == SingleDefs(c)
      moved == SelectSeq(BodyInsts(c, l), LAMBDA m : Invariant(c, defs, dom, l, m))
      stays(m) == m \notin Range(moved)
  IN  IF moved = <<>> THEN c
      ELSE Spliced(Listed([b \in DOMAIN c |->
                             IF b \in l.body THEN SelectSeq(c[b], stays) ELSE c[b]]),
                   l, moved)

HoistLoop(c, dom, l) ==
  IF loopHasCall(c, l) THEN c
  ELSE FoldLeft(LAMBDA d, n : HoistRound(d, dom, l), splitGlobals(c, l),
                [n \in 1..HoistRounds |-> n])

licm(c) ==
  LET succ == buildCfg(c)
      dom == computeDom(succ)
  IN  IF Len(c) < 2 THEN c
      ELSE FoldLeft(LAMBDA d, l : HoistLoop(d, dom, l), c, LoopsOf(succ, dom))

----------------------------------------------------------------------------
(* CSE of constants and addresses along the dominator tree.                *)

(* The entry is nobody's immediate dominator: its children are roots.      *)
idom(dom, b) ==
  FoldLeft(LAMBDA best, a :
             IF a # b /\ a \in dom[b] /\ (best = 0 \/ best \in dom[a]) THEN a ELSE best,
           0, [i \in 1..(Cardinality(DOMAIN dom) - 1) |-> i + 1])

Materialises(defs, m) == isConstMatOp(m) /\ m.dst \in defs

(* Block b with the materialisations known above it.                       *)
FoldMats(defs, avail, blk) ==
  FoldLeft(LAMBDA s, m :
             IF ~Materialises(defs, m) THEN s
             ELSE IF Key(m) \in DOMAIN s.avail
             THEN [s EXCEPT !.folds = Append(@, <<m.dst, s.avail[Key(m)]>>)]
             ELSE [s EXCEPT !.avail = @ @@ (Key(m) :> m.dst)],
           [avail |-> avail, folds |-> <<>>], blk)

FoldInto(c, b, folds) ==
  LET dropped == {p[1] : p \in Range(folds)}
      kept(m) == m.dst \notin dropped
  IN  [FoldLeft(LAMBDA d, p : replaceVregUses(d, p[1], p[2]), c, folds)
         EXCEPT ![b] = SelectSeq(@, kept)]

RECURSIVE walk(_, _, _, _, _)
walk(defs, dom, avail, s, b) ==
  IF b \in s.visited THEN s
  ELSE LET f == FoldMats(defs, avail, s.code[b])
           kids == SelectSeq([i \in DOMAIN dom |-> i], LAMBDA k : k > 1 /\ idom(dom, k) = b)
       IN  FoldLeft(LAMBDA t, k : walk(defs, dom, f.avail, t, k),
                    [code |-> FoldInto(s.code, b, f.folds), visited |-> s.visited \cup {b}],
                    kids)

globalCse(c) ==
  LET defs == SingleDefs(c)
      dom == computeDom(buildCfg(c))
  IN  IF Len(c) < 2 THEN c
      ELSE FoldLeft(LAMBDA s, b : walk(defs, dom, <<>>, s, b),
                    [code |-> c, visited |-> {}], [b \in DOMAIN c |-> b]).code

----------------------------------------------------------------------------
Passes == <<"blockcse", "licm", "globalcse", "blockcse2", "over">>

CseStartWith(g) == code = g /\ stage = Passes[1] /\ changed = FALSE

CsePass(p, next, c) ==
  /\ stage = p /\ stage' = next
  /\ code' = c /\ changed' = (changed \/ c # code)

CseNext ==
  \/ CsePass("blockcse", "licm", blockLocalCse(code))
  \/ CsePass("licm", "globalcse", licm(code))
  \/ CsePass("globalcse", "blockcse2", globalCse(code))
  \/ CsePass("blockcse2", "over", blockLocalCse(code))
============================================================================
