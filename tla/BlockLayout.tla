---------------------------- MODULE BlockLayout ----------------------------
(***************************************************************************)
(* What MachineOptimizer does to the order of blocks once registers are    *)
(* allocated (src/backend/MachineOpt.cpp): rotateLoopsByLayout sinks loop  *)
(* headers to their latches, then finalizeBlockLayout makes every fall-    *)
(* through explicit, forwards branch-only blocks, joins chains, places the *)
(* blocks along heavy edges and drops the jumps the new order makes        *)
(* superfluous, again and again while something goes.                      *)
(*                                                                         *)
(* A function is a sequence of blocks [name, ins] in layout order.  What   *)
(* an instruction computes does not matter here: "Ins" and "Call" carry an *)
(* identity, "Br" the identity of its condition, whether it is inverted    *)
(* and the name of its target, "Jmp" a target.                             *)
(***************************************************************************)
EXTENDS Integers, Sequences, FiniteSets, SequencesExt

CONSTANTS
  Oracles,    (* ways conditions may turn out: functions to BOOLEAN        *)
  Horizon     (* executed instructions that are compared                   *)

VARIABLES
  f,          (* the function                                              *)
  stage,      (* which of the loops below is running                       *)
  round,      (* rotations left                                            *)
  before,     (* [blocks, branches] when finalizeBlockLayoutFn was entered *)
  plan,       (* placeMachineBlocks: its tables                           *)
  expected    (* history: what the input executes, for every oracle        *)

vars == <<f, stage, round, before, plan, expected>>

NoPlan == [succ |-> <<>>, depth |-> <<>>, edges |-> <<>>, k |-> 1,
           chains |-> {}, order |-> <<>>]

----------------------------------------------------------------------------
(* Control flow.                                                           *)

Inst(op, id, neg, to) == [op |-> op, id |-> id, neg |-> neg, to |-> to]

Jmp(to) == Inst("Jmp", 0, FALSE, to)

isTerminatorOp(m) == m.op \in {"Ret", "Jmp", "Br"}

Idx(g) == DOMAIN g

At(g, name) == CHOOSE i \in Idx(g) : g[i].name = name

(* Index of the first instruction of the terminator run that ends a block. *)
RunStart(ins) == 1 + Max({k \in DOMAIN ins : ~isTerminatorOp(ins[k])} \cup {0})

blockFallsThrough(g, i) ==
  g[i].ins = <<>> \/ Last(g[i].ins).op \notin {"Jmp", "Ret"}

(* buildCfg: successors in order; one reached by two branches is listed    *)
(* twice, in its predecessors too.                                         *)
Succ(g) ==
  [i \in Idx(g) |->
     LET ins == g[i].ins
         run == SelectSeq(SubSeq(ins, RunStart(ins), Len(ins)),
                          LAMBDA m : m.op # "Ret")
     IN  [k \in DOMAIN run |-> At(g, run[k].to)]
           \o (IF blockFallsThrough(g, i) /\ i < Len(g) THEN <<i + 1>> ELSE <<>>)]

Pred(succ) ==
  [j \in DOMAIN succ |->
     FlattenSeq([i \in DOMAIN succ |->
        [k \in DOMAIN SelectSeq(succ[i], LAMBDA s : s = j) |-> i]])]

(* Everything reached from S along next without entering h.                *)
Around(next, S, h) ==
  LET r[n \in 0..Len(next)] ==
        IF n = 0 THEN S \ {h}
        ELSE LET R == r[n - 1]
             IN  R \cup (UNION {Range(next[x]) : x \in R} \ {h})
  IN  r[Len(next)]

(* The greatest solution of computeDom's equations: h dominates all but    *)
(* what is reached around it from the entry or a block nothing leads to.   *)
Dominated(succ, h) ==
  LET pred  == Pred(succ)
      roots == {1} \cup {i \in DOMAIN succ : pred[i] = <<>>}
  IN  DOMAIN succ \ Around(succ, roots, h)

(* Sources of back edges to each block, and the loop it is the header of.  *)
Latches(succ) ==
  [h \in DOMAIN succ |->
     LET below == Dominated(succ, h)
     IN  SelectSeq(Pred(succ)[h], LAMBDA b : b \in below)]

collectLoopNodes(succ) ==
  LET ls   == Latches(succ)
      pred == Pred(succ)
  IN  [h \in DOMAIN succ |-> {h} \cup Around(pred, Range(ls[h]), h)]

----------------------------------------------------------------------------
(* rotateLoopsByLayout.                                                    *)

(* The two ways out of a header: where its branch goes, and the other.     *)
HeaderExits(g, h) ==
  LET ins == g[h].ins
      k   == RunStart(ins)
  IN  IF k = Len(ins) /\ ins[k].op = "Br" /\ h < Len(g)
        THEN <<At(g, ins[k].to), h + 1>>
      ELSE IF k = Len(ins) - 1 /\ ins[k].op = "Br" /\ ins[k + 1].op = "Jmp"
        THEN <<At(g, ins[k].to), At(g, ins[k + 1].to)>>
      ELSE <<>>

PlainLatch(g, h, L) ==
  /\ g[L].ins # <<>> /\ Last(g[L].ins) = Jmp(g[h].name)
  /\ RunStart(g[L].ins) = Len(g[L].ins)

(* The loops of header h that may be rotated: [L, B, E, k, invert].        *)
Rotations(g, h) ==
  LET ls   == Latches(Succ(g))[h]
      ts   == HeaderExits(g, h)
      body == collectLoopNodes(Succ(g))[h]
  IN  {c \in [L : Range(ls), B : Range(ts), E : Range(ts), invert : BOOLEAN] :
         /\ Len(ls) = 1 /\ c.L \notin {h, h - 1} /\ PlainLatch(g, h, c.L)
         /\ ts # <<>> /\ c.B # c.E
         /\ c.B \in body /\ c.E \notin body
         /\ c.B # h
         /\ c.invert = (ts[1] # c.B)}

(* Mutant: the block before the header is left to fall through.            *)
WithJumpForgotten(g, i, name) == g

(* Block i no longer precedes the block called name.                       *)
WithJump(g, i, name) ==
  IF blockFallsThrough(g, i) THEN [g EXCEPT ![i].ins = Append(@, Jmp(name))]
  ELSE g

(* The header goes behind its latch, continues the loop by a taken branch  *)
(* and leaves it by falling through or by a jump.                          *)
Sink(g, h, c) ==
  LET ins  == g[h].ins
      k    == RunStart(ins)
      exit == g[c.E].name
      next == c.L < Len(g) /\ g[c.L + 1].name = exit
      cond == [ins[k] EXCEPT !.neg = (@ # c.invert), !.to = g[c.B].name]
      head == [g[h] EXCEPT !.ins = SubSeq(ins, 1, k - 1) \o <<cond>>
                                     \o (IF next THEN <<>> ELSE <<Jmp(exit)>>)]
      rest == WithJump([g EXCEPT ![c.L].ins = Front(@)], h - 1, g[h].name)
      pos  == IF c.L > h THEN c.L - 1 ELSE c.L
  IN  InsertAt(RemoveAt(rest, h), pos + 1, head)

Rotatable ==
  IF Len(f) < 4 THEN {} ELSE {h \in 2..Len(f) : Rotations(f, h) # {}}

branchCount(g) ==
  FoldLeft(LAMBDA n, b :
             n + Len(SelectSeq(b.ins, LAMBDA m : m.op \in {"Jmp", "Br"})), 0, g)

Entered(g) == [blocks |-> Len(g), branches |-> branchCount(g)]

Rotate ==
  /\ stage = "rotate" /\ round > 0 /\ Rotatable # {}
  /\ LET h == Min(Rotatable)
     IN  \E c \in Rotations(f, h) : f' = Sink(f, h, c)
  /\ round' = round - 1
  /\ UNCHANGED <<stage, before, plan, expected>>

EndRotate ==
  /\ stage = "rotate" /\ (round = 0 \/ Rotatable = {})
  /\ stage' = "explicit" /\ before' = Entered(f)
  /\ UNCHANGED <<f, round, plan, expected>>

----------------------------------------------------------------------------
(* finalizeBlockLayout.                                                    *)

Explicit ==
  /\ stage = "explicit"
  /\ f' = [i \in Idx(f) |->
             IF i < Len(f) THEN WithJump(f, i, f[i + 1].name)[i] ELSE f[i]]
  /\ stage' = "merge"
  /\ UNCHANGED <<round, before, plan, expected>>

(* A branch-only block that is not an endless loop.                        *)
Forwards(i) ==
  /\ i > 1 /\ Len(f[i].ins) = 1
  /\ f[i].ins[1].op = "Jmp" /\ f[i].ins[1].to # f[i].name

Forwarding == {i \in Idx(f) : Forwards(i)}

Retarget(g, old, new) ==
  [i \in Idx(g) |->
     [g[i] EXCEPT !.ins = [k \in DOMAIN @ |->
        IF @[k].op \in {"Jmp", "Br"} /\ @[k].to = old
        THEN [@[k] EXCEPT !.to = new] ELSE @[k]]]]

(* Mutant: the block is bypassed but stays.                                *)
ForwardKept ==
  /\ stage = "merge" /\ Forwarding # {}
  /\ LET i == Min(Forwarding)
     IN  f' = Retarget(f, f[i].name, f[i].ins[1].to)
  /\ UNCHANGED <<stage, round, before, plan, expected>>

Forward ==
  /\ stage = "merge" /\ Forwarding # {}
  /\ LET i == Min(Forwarding)
     IN  f' = RemoveAt(Retarget(f, f[i].name, f[i].ins[1].to), i)
  /\ UNCHANGED <<stage, round, before, plan, expected>>

(* Block i ends in nothing but a jump to a block only i leads to.          *)
Joins(i) ==
  LET ins == f[i].ins
  IN  /\ ins # <<>> /\ Last(ins).op = "Jmp" /\ RunStart(ins) = Len(ins)
      /\ LET j == At(f, Last(ins).to) IN j \notin {1, i} /\ Pred(Succ(f))[j] = <<i>>

Joining == {i \in Idx(f) : Joins(i)}

Join ==
  /\ stage = "merge" /\ Forwarding = {} /\ Joining # {}
  /\ LET i == Min(Joining)
         j == At(f, Last(f[i].ins).to)
     IN  f' = RemoveAt([f EXCEPT ![i].ins = Front(@) \o f[j].ins], j)
  /\ UNCHANGED <<stage, round, before, plan, expected>>

(* buildCfg and the loop depths, for placeMachineBlocks.                   *)
depth ==
  LET succ  == Succ(f)
      ls    == Latches(succ)
      loops == collectLoopNodes(succ)
  IN  [i \in Idx(f) |->
         Cardinality({h \in Idx(f) : ls[h] # <<>> /\ i \in loops[h]})]

EndMerge ==
  /\ stage = "merge" /\ Forwarding = {} /\ Joining = {}
  /\ IF Len(f) < 3 \/ blockFallsThrough(f, Len(f))
     THEN stage' = "fold" /\ UNCHANGED plan
     ELSE /\ stage' = "weigh"
          /\ plan' = [NoPlan EXCEPT !.succ = Succ(f), !.depth = depth]
  /\ UNCHANGED <<f, round, before, expected>>

----------------------------------------------------------------------------
(* placeMachineBlocks.                                                     *)

frequency(i) == 2 ^ Min({3 * plan.depth[i], 24})

probability(i, j) ==
  LET d == plan.depth
  IN  IF Len(plan.succ[i]) = 1 THEN 100
      ELSE IF \E s \in Range(plan.succ[i]) : d[s] < d[i]
        THEN IF d[j] < d[i] THEN 10 ELSE 90
      ELSE 50

Calls(i) == Len(SelectSeq(f[i].ins, LAMBDA m : m.op = "Call"))

Weight(i, j) ==
  frequency(i) * probability(i, j) * 16
    + (IF j = i + 1 THEN 4 ELSE 0) + Min({2, Calls(i) + Calls(j)})

(* Edges by falling weight, otherwise in block and successor order.        *)
Weigh ==
  /\ stage = "weigh"
  /\ LET of(i) == SelectSeq(plan.succ[i], LAMBDA j : j \notin {1, i})
         all   == FlattenSeq([i \in Idx(f) |->
                    [k \in DOMAIN of(i) |->
                       [from |-> i, to |-> of(i)[k], nr |-> k,
                        w |-> Weight(i, of(i)[k])]]])
         ahead(a, b) == \/ a.w > b.w
                        \/ a.w = b.w /\ a.from < b.from
                        \/ a.w = b.w /\ a.from = b.from /\ a.nr < b.nr
     IN  plan' = [plan EXCEPT !.edges = SortSeq(all, ahead),
                              !.chains = {<<i>> : i \in Idx(f)}]
  /\ stage' = "chain"
  /\ UNCHANGED <<f, round, before, expected>>

(* An edge joins two chains if it leaves the end of one for the start of   *)
(* another.                                                                *)
Chain ==
  /\ stage = "chain" /\ plan.k <= Len(plan.edges)
  /\ LET e == plan.edges[plan.k]
         a == CHOOSE c \in plan.chains : e.from \in Range(c)
         b == CHOOSE c \in plan.chains : e.to \in Range(c)
     IN  plan' = [plan EXCEPT
           !.k = @ + 1,
           !.chains = IF a # b /\ Last(a) = e.from /\ Head(b) = e.to
                      THEN (@ \ {a, b}) \cup {a \o b} ELSE @]
  /\ UNCHANGED <<f, stage, round, before, expected>>

EndChain ==
  /\ stage = "chain" /\ plan.k > Len(plan.edges)
  /\ stage' = "order"
  /\ UNCHANGED <<f, round, before, plan, expected>>

(* The chain of the entry comes first, then always the one an edge leads   *)
(* to from the last block placed, or the one with the lowest block.        *)
PlaceChain ==
  /\ stage = "order" /\ plan.chains # {}
  /\ LET led  == SelectSeq(plan.edges, LAMBDA e :
                    /\ plan.order # <<>> /\ e.from = Last(plan.order)
                    /\ \E c \in plan.chains : Head(c) = e.to)
         next == IF led # <<>> THEN led[1].to
                 ELSE Min(UNION {Range(c) : c \in plan.chains})
         c    == CHOOSE d \in plan.chains : next \in Range(d)
     IN  plan' = [plan EXCEPT !.order = @ \o c, !.chains = @ \ {c}]
  /\ stage' = IF plan'.chains = {} THEN "place" ELSE stage
  /\ UNCHANGED <<f, round, before, expected>>

(* The jumps that would remain under an order, weighted and counted.       *)
Jumping(order, p) ==
  LET ins   == f[order[p]].ins
      to(m) == p < Len(order) /\ At(f, m.to) = order[p + 1]
  IN  /\ ins # <<>> /\ Last(ins).op = "Jmp" /\ ~to(Last(ins))
      /\ ~(Len(ins) > 1 /\ ins[Len(ins) - 1].op = "Br" /\ to(ins[Len(ins) - 1]))

cost(order) ==
  LET ps   == SelectSeq([p \in DOMAIN order |-> p], LAMBDA p : Jumping(order, p))
      w(p) == LET i   == order[p]
                  ins == f[i].ins
              IN  frequency(i) *
                    (IF Len(ins) > 1 /\ ins[Len(ins) - 1].op = "Br"
                     THEN probability(i, At(f, Last(ins).to)) ELSE 100)
  IN  [weighted |-> FoldLeft(LAMBDA n, p : n + w(p), 0, ps), jumps |-> Len(ps)]

(* Mutant: fewer jumps by weight are enough.                               *)
BetterByWeight(new, old) == new.weighted < old.weighted

Better(new, old) == new.weighted < old.weighted /\ new.jumps <= old.jumps

Place ==
  /\ stage = "place"
  /\ f' = IF Better(cost(plan.order), cost([i \in Idx(f) |-> i]))
          THEN [p \in Idx(f) |-> f[plan.order[p]]] ELSE f
  /\ stage' = "fold" /\ plan' = NoPlan
  /\ UNCHANGED <<round, before, expected>>

----------------------------------------------------------------------------
(* The jumps that the order makes superfluous.                             *)

DropJump(ins, next) == IF Last(ins).to = next THEN Front(ins) ELSE ins

FoldBlock(ins, next) ==
  LET n   == Len(ins)
      br  == ins[n - 1]
      two == n >= 2 /\ br.op = "Br"
  IN  IF ins = <<>> \/ Last(ins).op # "Jmp" THEN ins
      ELSE IF two /\ br.to = Last(ins).to
        THEN DropJump(RemoveAt(ins, n - 1), next)
      ELSE IF two /\ br.to = next
        THEN Append(SubSeq(ins, 1, n - 2),
                    [br EXCEPT !.to = Last(ins).to, !.neg = ~@])
      ELSE DropJump(ins, next)

Fold ==
  /\ stage = "fold"
  /\ f' = [i \in Idx(f) |->
             [f[i] EXCEPT !.ins =
                FoldBlock(@, IF i < Len(f) THEN f[i + 1].name ELSE 0)]]
  /\ stage' = "test"
  /\ UNCHANGED <<round, before, plan, expected>>

Test ==
  /\ stage = "test"
  /\ IF branchCount(f) < before.branches \/ Len(f) # before.blocks
     THEN stage' = "explicit" /\ before' = Entered(f)
     ELSE stage' = "done" /\ UNCHANGED before
  /\ UNCHANGED <<f, round, plan, expected>>

----------------------------------------------------------------------------
(* Execution: the identities of the instructions executed, Ret as 0, in at *)
(* most Horizon steps that show.  A condition turns out as the oracle says *)
(* for it and the number of instructions executed so far.                  *)

Step(g, oracle, s) ==
  IF s.i > Len(g) \/ s.over \/ Len(s.out) = Horizon THEN s
  ELSE IF s.k > Len(g[s.i].ins) THEN [s EXCEPT !.i = @ + 1, !.k = 1]
  ELSE LET m == g[s.i].ins[s.k]
           goto == [s EXCEPT !.i = At(g, m.to), !.k = 1]
           on   == [s EXCEPT !.k = @ + 1]
       IN  CASE m.op \in {"Ins", "Call"} -> [on EXCEPT !.out = Append(@, m.id)]
             [] m.op = "Ret" -> [s EXCEPT !.over = TRUE, !.out = Append(@, 0)]
             [] m.op = "Jmp" -> goto
             [] m.op = "Br"  -> IF oracle[(m.id + Len(s.out)) % 3] # m.neg
                                THEN goto ELSE on

(* The state after n steps, as a set of one.                               *)
Run(g, oracle) ==
  LET size == FoldLeft(LAMBDA n, b : n + Len(b.ins) + 1, 0, g)
      after[n \in 0..(size * (Horizon + 1))] ==
        IF n = 0 THEN {[i |-> 1, k |-> 1, out |-> <<>>, over |-> FALSE]}
        ELSE {Step(g, oracle, s) : s \in after[n - 1]}
  IN  {s.out : s \in after[size * (Horizon + 1)]}

StartWith(g) ==
  /\ f = g /\ stage = "rotate" /\ round = Len(g)
  /\ before = Entered(g) /\ plan = NoPlan
  /\ expected = [o \in Oracles |-> Run(g, o)]

Next ==
  \/ Rotate \/ EndRotate
  \/ Explicit \/ Forward \/ Join \/ EndMerge
  \/ Weigh \/ Chain \/ EndChain \/ PlaceChain \/ Place
  \/ Fold \/ Test

----------------------------------------------------------------------------
(* Whichever way the conditions turn out, the function executes the same   *)
(* instructions in the same order as before rotateLoopsByLayout and        *)
(* finalizeBlockLayout touched it, after each of their steps.              *)
SameInstructions == \A o \in Oracles : Run(f, o) = expected[o]

(* A call of finalizeBlockLayoutFn inserts jumps before it removes some;   *)
(* it never returns a function with more branches than it was given.       *)
BranchesNeverGrow == stage = "test" => branchCount(f) <= before.branches

(* The loops of finalizeBlockLayout end: every merge makes the function    *)
(* shorter, no step makes it longer, and another round starts only after   *)
(* one that removed a block or, keeping the blocks, a branch.              *)
Progress ==
  /\ stage = "merge" /\ stage' = "merge" => Len(f') < Len(f)
  /\ Len(f') <= Len(f)
  /\ stage = "test" /\ stage' = "explicit" =>
       \/ Len(f) < before.blocks
       \/ Len(f) = before.blocks /\ branchCount(f) < before.branches

Converges == [][Progress]_vars
============================================================================
