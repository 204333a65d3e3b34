------------------------------- MODULE MemOpt -------------------------------
(***************************************************************************)
(* mem-cse and redundant-store (src/midend/pass/OptMem.cpp): within a run  *)
(* of blocks that follow each other, values and the contents of memory are *)
(* computed and read once, and stores that nobody can see go.  dom-cse     *)
(* (OptDom.cpp) does it for values along the dominator tree; mem2reg       *)
(* (OptPromote.cpp) puts scalar slots into values.                         *)
(***************************************************************************)
EXTENDS Effects

(* What memory an address names: an exact place, or the pointer itself.    *)
memKey(f, v) ==
  LET a == addressOf(f, v)
  IN  IF IsObject(a) /\ a.constOff THEN <<"o", a.root, a.off>> ELSE <<"d", v, 0>>

isPureExprOp(m) ==
  /\ m.op \in {"Not", "Gep", "Select"} \cup Ariths \cup Cmps
  /\ \A j \in DOMAIN m.ops : m.ops[j].k # "glob"

SameExpr(u, m) ==
  /\ u.op = m.op /\ u.to = m.to
  /\ u.ops = m.ops \/ (m.op \in {"Add", "Mul"} /\ u.ops = Reverse(m.ops))

(* What block i of f knows at its start is what the block before it knew   *)
(* at its end: that block jumps to it, nobody else does, no loop ends here.*)
KeepsState(f, i) ==
  LET list == SelectSeq(f, LAMBDA b : b.in = f[i].in)
      flat == SelectSeq(list, LAMBDA b : Term(b).op \in {"Br", "CondBr"})
      k == At(list, f[i].name)
  IN  /\ k > 1 /\ Term(list[k - 1]).op = "Br" /\ Term(list[k - 1]).to[1] = f[i].name
      /\ Cardinality(EdgesInto(flat, f[i].name)) = 1
      /\ \A b \in Range(list) :
           Term(b).op \in {"ScfWhile", "AffineFor"} => Term(b).to[1] # f[i].name

(* A store to v may change the contents known for these keys.              *)
storeKill(f, v, mem) ==
  LET a == addressOf(f, v)
  IN  IF IsObject(a) THEN {e \in mem : e.key[1] = "o" /\ e.key[2] # a.root} ELSE {}

RECURSIVE processBlock(_, _, _, _, _)
(* The j-th instruction of f[i] and those after it; st has the values that *)
(* were computed, and the known contents of memory.                        *)
processBlock(fx, f, i, j, st) ==
  LET m == f[i].ins[j]
      key == memKey(f, IF m.op = "Store" THEN m.ops[2] ELSE m.ops[1])
      known == {e \in st.mem : e.key = key}
      same == {u \in st.exprs : SameExpr(u, m)}
      next(s) == processBlock(fx, f, i, j + 1, s)
      drop(g, s) == processBlock(fx, g, i, j, s)
      learn(mem, v) == [st EXCEPT !.mem = mem \cup {[key |-> key, v |-> v]}]
      value == isPureExprOp(m) \/ (m.op = "Call" /\ callIsValue(fx, m.to[1]))
      kept == IF m.op = "Call" /\ ~callWritesNothing(fx, m.to[1]) THEN [st EXCEPT !.mem = {}] ELSE st
  IN  CASE isTerminator(m) -> [f |-> f, st |-> st]
        [] m.op = "Load" ->
             IF known = {} THEN next(learn(st.mem, Res(m.id)))
             ELSE drop(Replaced(f, m, (CHOOSE e \in known : TRUE).v), st)
        [] m.op = "Store" ->
             LET rest == storeKill(f, m.ops[2], st.mem)
             IN  IF \E e \in known : e.v = m.ops[1]
                 THEN drop(Without(f, {m.id}), [st EXCEPT !.mem = rest])
                 ELSE next(learn(rest, m.ops[1]))
        [] value ->
             IF same = {} THEN next([kept EXCEPT !.exprs = @ \cup {m}])
             ELSE drop(Replaced(f, m, Res((CHOOSE u \in same : TRUE).id)), st)
        [] OTHER -> next(kept)

RECURSIVE CseFrom(_, _, _, _)
CseFrom(fx, f, i, st) ==
  LET r == processBlock(fx, f, i, 1, IF KeepsState(f, i) THEN st ELSE [exprs |-> {}, mem |-> {}])
  IN  IF i > Len(f) THEN f ELSE CseFrom(fx, r.f, i + 1, r.st)

memCse(fx, f) == CseFrom(fx, f, 1, [exprs |-> {}, mem |-> {}])

----------------------------------------------------------------------------
maySameLocation(f, v, w) ==
  LET a == addressOf(f, v)
      b == addressOf(f, w)
  IN  IF a.root = b.root THEN (a.constOff /\ b.constOff) => a.off = b.off
      ELSE ~(IsObject(a) /\ IsObject(b))

(* The k-th instruction stores back what was loaded from there, and        *)
(* nothing between the two may have changed it.                            *)
StoresBack(f, ins, k) ==
  /\ ins[k].op = "Store"
  /\ \E j \in 1..(k - 1) :
       LET v == ins[k].ops[2]
       IN  /\ ins[j].op = "Load" /\ ins[k].ops = <<Res(ins[j].id), ins[j].ops[1]>>
           /\ \A q \in (j + 1)..(k - 1) :
                IF ins[q].op = "Store"
                THEN \/ ~maySameLocation(f, v, ins[q].ops[2])
                     \/ ins[q].ops[1] = Res(ins[j].id) /\ memKey(f, v) = memKey(f, ins[q].ops[2])
                ELSE isPure(ins[q])

(* The k-th instruction stores what a later store overwrites unseen.       *)
Overwritten(f, ins, k) ==
  /\ ins[k].op = "Store"
  /\ \E q \in (k + 1)..Len(ins) :
       /\ ins[q].op = "Store" /\ memKey(f, ins[q].ops[2]) = memKey(f, ins[k].ops[2])
       /\ \A r \in (k + 1)..(q - 1) :
            /\ ins[r].op # "Call"
            /\ ins[r].op = "Load" => ~maySameLocation(f, ins[r].ops[1], ins[k].ops[2])

RECURSIVE DropStoreBacks(_)
DropStoreBacks(f) ==
  LET found == UNION {{f[i].ins[k].id : k \in {k \in DOMAIN f[i].ins : StoresBack(f, f[i].ins, k)}} :
                      i \in DOMAIN f}
  IN  IF found = {} THEN f ELSE DropStoreBacks(Without(f, {Min(found)}))

DropOverwritten(g) ==
  Without(g, UNION {{g[i].ins[k].id : k \in {k \in DOMAIN g[i].ins : Overwritten(g, g[i].ins, k)}} :
                    i \in DOMAIN g})

redundantStore(f) == DropOverwritten(DropStoreBacks(f))

----------------------------------------------------------------------------
(* dom-cse: a value that a dominating block, earlier in the layout, has    *)
(* computed is not computed again.                                         *)

(* The commutative operations of this pass include two comparisons.        *)
SameKey(u, m) ==
  SameExpr(u, m) \/ (m.op \in {"Eq", "Ne"} /\ u.op = m.op /\ u.ops = Reverse(m.ops))

(* The blocks reached from n, each after those it leads to.                *)
RECURSIVE dfs(_, _, _)
dfs(f, n, order) ==
  LET down == FoldLeft(LAMBDA o, s : dfs(f, s, o), [order EXCEPT !.vis = @ \cup {n}],
                       Term(f[At(f, n)]).to)
  IN  IF n \in order.vis THEN order ELSE [down EXCEPT !.post = Append(@, n)]

rpo(f) == Reverse(dfs(f, Entry(f), [vis |-> {}, post |-> <<>>]).post)

(* f[i] from its j-th instruction on; avail has the values known there, as *)
(* they were when met, and the place of their block.                       *)
RECURSIVE foldBlock(_, _, _, _, _)
foldBlock(fx, f, i, j, avail) ==
  LET m == f[i].ins[j]
      cseable == isPureExprOp(m) \/ (m.op = "Call" /\ callIsValue(fx, m.to[1]))
      same == {e \in avail : SameKey(e.m, m)}
      def == CHOOSE e \in same : TRUE
  IN  CASE isTerminator(m) -> [f |-> f, avail |-> avail]
        [] ~cseable -> foldBlock(fx, f, i, j + 1, avail)
        [] same # {} /\ def.at <= i -> foldBlock(fx, Replaced(f, m, Res(def.m.id)), i, j, avail)
        [] OTHER -> foldBlock(fx, f, i, j + 1, (avail \ same) \cup {[m |-> m, at |-> i]})

(* Each block starts with what its immediate dominator ended with.         *)
domCse(fx, f) ==
  LET enter(s, n) ==
        LET r == foldBlock(fx, s.f, At(f, n), 1,
                           IF n = Entry(f) THEN {} ELSE s.avail[Idom(f, n)])
        IN  [f |-> r.f, avail |-> [s.avail EXCEPT ![n] = r.avail]]
  IN  FoldLeft(enter, [f |-> f, avail |-> [n \in Names(f) |-> {}]], rpo(f)).f

----------------------------------------------------------------------------
(* mem2reg (OptPromote.cpp): scalar slots whose address never escapes      *)
(* become SSA values, with phis at the iterated dominance frontier of      *)
(* their stores.                                                           *)

IsLoadOf(m, s) == m.op = "Load" /\ m.ops[1] = Res(s)
IsStoreTo(m, s) == m.op = "Store" /\ m.ops[2] = Res(s)

(* The address of s is used for more than loads and stores.                *)
Escaped(f, s) ==
  \E m \in Range(AllIns(f)), j \in 1..3 :
    /\ j \in DOMAIN m.ops /\ m.ops[j] = Res(s)
    /\ ~(m.op = "Load" /\ j = 1) /\ ~(m.op = "Store" /\ j = 2)

StoresTo(b, s) == \E m \in Range(b.ins) : IsStoreTo(m, s)

(* The blocks that a path without a store may enter.                       *)
MayBeUninitialised(f, s) ==
  LET grow[n \in 0..Len(f)] ==
        IF n = 0 THEN {Entry(f)}
        ELSE LET u == grow[n - 1]
             IN  u \cup UNION {Succs(f[At(f, b)]) : b \in {b \in u : ~StoresTo(f[At(f, b)], s)}}
  IN  grow[Len(f)]

allLoadsInitialized(f, s) ==
  \A b \in MayBeUninitialised(f, s) :
    LET ins == f[At(f, b)].ins
    IN  \A k \in DOMAIN ins :
          IsLoadOf(ins[k], s) => \E j \in 1..(k - 1) : IsStoreTo(ins[j], s)

(* The slots to promote, in layout order.                                  *)
Slots(f) ==
  LET all == SelectSeq(AllIns(f), LAMBDA m :
               /\ m.op = "Alloca" /\ m.ops[1] = Const(1)
               /\ ~Escaped(f, m.id) /\ allLoadsInitialized(f, m.id)
               /\ \E u \in Range(AllIns(f)) : IsLoadOf(u, m.id)
               /\ \E u \in Range(AllIns(f)) : IsStoreTo(u, m.id))
  IN  [k \in DOMAIN all |-> all[k].id]

(* Where the values of s meet.                                             *)
PhiBlocks(f, s) ==
  LET grow[n \in 0..Len(f)] ==
        IF n = 0 THEN {}
        ELSE LET r == grow[n - 1]
                 defs == r \cup {b.name : b \in {b \in Range(f) : StoresTo(b, s)}}
             IN  UNION {DominanceFrontier(f, b) : b \in defs}
  IN  grow[Len(f)]

(* The value that the last store of the instructions wrote to s, else v.   *)
LastStored(ins, s, v) ==
  LET stores == SelectSeq(ins, LAMBDA m : IsStoreTo(m, s))
  IN  IF stores = <<>> THEN v ELSE Last(stores).ops[1]

PhiId(f, b, k) == FreshId(f) + At(f, b) + k * Len(f)

(* The reaching definitions of the k-th slot s at the start of each block  *)
(* and at its end.                                                         *)
StartOf(f, s, k, phis) ==
  LET idom == [b \in Names(f) \ {Entry(f)} |-> Idom(f, b)]
      start[b \in Names(f)] ==
        IF b \in phis THEN Res(PhiId(f, b, k))
        ELSE IF b = Entry(f) THEN Const(0)
        ELSE LastStored(f[At(f, idom[b])].ins, s, start[idom[b]])
  IN  [b \in Names(f) |-> start[b]]

EndOf(f, s, start, b) == LastStored(f[At(f, b)].ins, s, start[b])

(* f with the phis of s, and what each load of s reads.                    *)
promoteSlot(f, orig, s, k) ==
  LET phis == PhiBlocks(orig, s)
      start == StartOf(orig, s, k, phis)
      phi(b) == LET ps == SelectSeq([i \in DOMAIN orig |-> orig[i].name],
                                    LAMBDA p : p \in Preds(orig, b))
                IN  Ins("Phi", PhiId(orig, b, k),
                        [j \in DOMAIN ps |-> EndOf(orig, s, start, ps[j])], ps)
      loads == {m \in Range(AllIns(orig)) : IsLoadOf(m, s)}
      read(m) == LET b == orig[Owner(orig, m.id)]
                     before == SubSeq(b.ins, 1, (CHOOSE j \in DOMAIN b.ins : b.ins[j] = m) - 1)
                 IN  LastStored(before, s, start[b.name])
  IN  [fn |-> [i \in DOMAIN f |->
                 IF f[i].name \notin phis THEN f[i]
                 ELSE LET n == Len(Phis(f[i]))
                      IN  [f[i] EXCEPT !.ins = InsertAt(@, n + 1, phi(f[i].name))]],
       rep |-> {<<Res(m.id), read(m)>> : m \in loads}]

(* Follows replacements to their end.                                      *)
RECURSIVE Chase(_, _)
Chase(rep, v) ==
  LET to == {p \in rep : p[1] = v}
  IN  IF to = {} THEN v ELSE Chase(rep \ to, (CHOOSE p \in to : TRUE)[2])

applyRep(f, rep) ==
  MapIns(f, LAMBDA m : [m EXCEPT !.ops = [j \in DOMAIN @ |-> Chase(rep, @[j])]])

(* A phi all of whose operands are one value, not itself.                  *)
Trivial(m) ==
  /\ m.op = "Phi" /\ Cardinality(Range(m.ops)) = 1
  /\ m.ops[1] # Res(m.id)

RECURSIVE foldPhis(_, _)
foldPhis(f, rep) ==
  LET found == SelectSeq(AllIns(f), Trivial)
      m == found[1]
      gone == [i \in DOMAIN f |-> [f[i] EXCEPT !.ins = SelectSeq(@, LAMBDA u : u # m)]]
  IN  IF found = <<>> THEN applyRep(f, rep)
      ELSE foldPhis(replaceAllUses(gone, Res(m.id), m.ops[1]),
                    {<<p[1], IF p[2] = Res(m.id) THEN m.ops[1] ELSE p[2]>> : p \in rep})

(* s with the slot's phis and replacements added.                          *)
And_(s, one) == [fn |-> one.fn, rep |-> s.rep \cup one.rep]

Promoted(f, slots) ==
  FoldLeft(LAMBDA s, k : And_(s, promoteSlot(s.fn, f, slots[k], k)),
           [fn |-> f, rep |-> {}], [k \in DOMAIN slots |-> k])

(* g without the slots and what reads and writes them.                     *)
Erased(g, slots) ==
  LET gone(m) == \E s \in slots : m.id = s \/ IsLoadOf(m, s) \/ IsStoreTo(m, s)
  IN  [i \in DOMAIN g |-> [g[i] EXCEPT !.ins = SelectSeq(@, LAMBDA m : ~gone(m))]]

Folded(placed) == foldPhis(applyRep(placed.fn, placed.rep), placed.rep)

mem2reg(f) ==
  LET slots == Slots(f)
  IN  IF slots = <<>> \/ Reached(f) # Names(f) THEN f
      ELSE Erased(Folded(Promoted(f, slots)), Range(slots))
=============================================================================
