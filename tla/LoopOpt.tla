------------------------------ MODULE LoopOpt ------------------------------
(***************************************************************************)
(* The passes over loops.  Of structured loops (OptLoop.cpp in             *)
(* src/midend/pass): licm moves what does not change before the loop,      *)
(* loop-unroll repeats the body of loops that count.  Of loops of blocks   *)
(* and branches: loop-rotate (OptLoopRotate.cpp) and licm-cf               *)
(* (OptCfLicm.cpp).                                                        *)
(***************************************************************************)
EXTENDS Effects

CONSTANTS
  PartialFactor,     (* kPartialFactor, 4 in the code                      *)
  MaxTrips,          (* trips that are unrolled fully, 32                  *)
  MaxUnrolled,       (* instructions of a fully unrolled loop, 64          *)
  MinPartialBody,    (* instructions of a body that is unrolled partly, 4  *)
  MaxPartialBody     (* and 14                                             *)

ASSUME UnrollAssumption == PartialFactor \in Nat \ {0}

InsIn(blocks) == UNION {Range(b.ins) : b \in blocks}

----------------------------------------------------------------------------
storeAliases(l, s) ==
  CASE s.constOff /\ l.constOff /\ s.root = l.root -> s.off = l.off
    [] s.root # l.root /\ IsObject(l) /\ IsObject(s) -> FALSE
    [] OTHER -> ~(l.constOff /\ l.kind = "Alloca")

loadMayChange(fx, n, f, v, writers) ==
  LET l == addressOf(f, v)
  IN  \E m \in writers :
        CASE m.op = "AffineFor" -> l.root = m.ops[1]
          [] m.op = "Call" -> callMayWrite(fx, n, m.to[1], l)
          [] OTHER -> storeAliases(l, addressOf(f, m.ops[2]))

callHoistable(fx, m) == callIsValue(fx, m.to[1]) /\ terminates(fx, m.to[1])

Movable(fx, n, f, m, writers) ==
  CASE m.op = "Load" -> ~loadMayChange(fx, n, f, m.ops[1], writers)
    [] m.op = "Call" -> callHoistable(fx, m)
    [] OTHER -> isPure(m) /\ m.op \notin {"Alloca", "Phi"}

(* The candidates that read only each other and what is not among ids.     *)
Settled(candidates, ids) ==
  LET grow[k \in 0..Cardinality(candidates)] ==
        IF k = 0 THEN {}
        ELSE LET inv == {m.id : m \in grow[k - 1]}
             IN  {m \in candidates : \A v \in Range(m.ops) :
                    v.k = "inst" => v.n \in inv \/ v.n \notin ids}
  IN  grow[Cardinality(candidates)]

ReadAmong(top, inv) ==
  LET read == UNION {Range(m.ops) : m \in Range(top)}
  IN  SelectSeq(top, LAMBDA m : m \in inv /\ Res(m.id) \in read)

(* The instructions of top, in order, that compute the same in every       *)
(* iteration of the loop that executes inside, and are read by others.     *)
Invariants(fx, n, f, top, inside) ==
  LET writers == {m \in inside : m.op \in {"Store", "Call", "AffineFor"}}
  IN  ReadAmong(top, Settled({m \in Range(top) : Movable(fx, n, f, m, writers)},
                             {m.id : m \in inside}))

(* The instructions go from where they are to the end of f[i].             *)
MovedTo(f, i, moved) ==
  [Without(f, {m.id : m \in Range(moved)}) EXCEPT ![i].ins = Front(@) \o moved \o <<Last(@)>>]

hoist(fx, n, f, id) ==
  LET top == FlattenSeq([i \in DOMAIN f |-> IF f[i].in[1] = id THEN f[i].ins ELSE <<>>])
  IN  MovedTo(f, Owner(f, id),
              Invariants(fx, n, f, top, InsIn(Inside(f, id)) \cup {InsOf(f, id)}))

RECURSIVE HoistAll(_, _, _, _)
HoistAll(fx, n, f, loops) ==
  IF loops = <<>> THEN f ELSE HoistAll(fx, n, hoist(fx, n, f, Last(loops)), Front(loops))

(* Inner loops first; a loop stands before the loops in its regions.       *)
licm(fx, n, f) ==
  LET loops == SelectSeq(AllIns(f), IsLoop)
  IN  HoistAll(fx, n, f, [k \in DOMAIN loops |-> loops[k].id])

----------------------------------------------------------------------------
(* The body of an affine.for that can be repeated: one block, straight.    *)
BodyBlocks(f, loop) == {b \in Range(f) : b.in[1] = loop.id}
BodyIns(f, loop) == Front((CHOOSE b \in BodyBlocks(f, loop) : TRUE).ins)

collectBody(f, loop) ==
  /\ Cardinality(BodyBlocks(f, loop)) = 1
  /\ Term(CHOOSE b \in BodyBlocks(f, loop) : TRUE).op = "AffineYield"
  /\ BodyIns(f, loop) # <<>>
  /\ \A m \in Range(BodyIns(f, loop)) :
       /\ m.op # "Call"
       /\ m.op = "Store" => addressOf(f, m.ops[2]).root # loop.ops[1]

(* The slope of v in the counter at slot, as a set of at most one; body    *)
(* has the instructions that may depend on it.                             *)
RECURSIVE ivCoeff(_, _, _)
ivCoeff(v, slot, body) ==
  LET m == CHOOSE m \in Range(body) : m.id = v.n
      of(j) == ivCoeff(m.ops[j], slot, body)
      both(G(_, _)) == {G(x, y) : x \in of(1), y \in of(2)}
  IN  CASE v.k # "inst" \/ (\A u \in Range(body) : u.id # v.n) -> {0}
        [] m.op = "Load" -> IF m.ops[1] = slot THEN {1} ELSE {}
        [] m.op = "Add" -> both(LAMBDA x, y : x + y)
        [] m.op = "Sub" -> both(LAMBDA x, y : x - y)
        [] m.op = "Mul" -> IF IsConst(m.ops[1]) THEN {m.ops[1].n * y : y \in of(2)}
                           ELSE IF IsConst(m.ops[2]) THEN {m.ops[2].n * x : x \in of(1)} ELSE {}
        [] OTHER -> IF \A j \in DOMAIN m.ops : of(j) = {0} THEN {0} ELSE {}

ReadsCounter(m, slot) == m.op = "Load" /\ m.ops[1] = slot

(* Copy t of the body, for the counter value iv, delta after copy 0's: a   *)
(* Gep with a slope is copy 0's plus a constant.                           *)
emitUnrolledCopy(body, slot, iv, t, delta, id) ==
  LET cloneId(c, k) == id + c * (Len(body) + 1) + k
      now(v) == LET at == {k \in DOMAIN body : v = Res(body[k].id)}
                IN  IF at = {} THEN v
                    ELSE IF ReadsCounter(body[Min(at)], slot) THEN iv
                    ELSE Res(cloneId(t, Min(at)))
      slope(m) == IF m.op = "Gep" THEN ivCoeff(m.ops[2], slot, body) \ {0} ELSE {}
      clone(k) ==
        LET m == body[k]
        IN  IF delta # 0 /\ slope(m) # {}
            THEN Ins("Gep", cloneId(t, k),
                     <<Res(cloneId(0, k)), Const((CHOOSE c \in slope(m) : TRUE) * delta)>>, <<>>)
            ELSE [m EXCEPT !.id = cloneId(t, k), !.ops = [j \in DOMAIN @ |-> now(@[j])]]
  IN  FlattenSeq([k \in DOMAIN body |->
                    IF ReadsCounter(body[k], slot) THEN <<>> ELSE <<clone(k)>>])

(* A loop with constant bounds, replaced by its iterations and the last    *)
(* value of the counter.                                                   *)
Trips(loop) == 1 + ((loop.ops[3].n - loop.ops[2].n - 1) \div loop.ops[4].n)

FullyUnrollable(f, loop) ==
  /\ loop.op = "AffineFor" /\ IsConst(loop.ops[2]) /\ IsConst(loop.ops[3])
  /\ loop.ops[2].n < loop.ops[3].n /\ Trips(loop) <= MaxTrips
  /\ loop.ops[4].n <= (2 ^ (WordBits - 1) - 1 - loop.ops[2].n) \div Trips(loop)
  /\ collectBody(f, loop) /\ Len(BodyIns(f, loop)) * Trips(loop) <= MaxUnrolled

tryFullUnroll(f, loop) ==
  LET i == Owner(f, loop.id)
      body == BodyIns(f, loop)
      id == FreshId(f)
      step == loop.ops[4].n
      copy(t) == emitUnrolledCopy(body, loop.ops[1], Const(loop.ops[2].n + t * step), t, t * step, id)
      end == id + Trips(loop) * (Len(body) + 1) + 1
      run == FlattenSeq([t \in 1..Trips(loop) |-> copy(t - 1)]) \o
             <<Ins("Store", end, <<Const(loop.ops[2].n + Trips(loop) * step), loop.ops[1]>>, <<>>),
               Ins("Br", end + 1, <<>>, loop.to)>>
      g == [f EXCEPT ![i].ins = Front(@) \o run]
  IN  SelectSeq(g, LAMBDA b : b.in[1] # loop.id)

PartlyUnrollable(f, loop) ==
  /\ loop.op = "AffineFor" /\ loop.ops[4] = Const(1)
  /\ IsConst(loop.ops[2]) /\ IsConst(loop.ops[3]) => Trips(loop) >= PartialFactor
  /\ collectBody(f, loop) /\ Len(BodyIns(f, loop)) \in MinPartialBody..MaxPartialBody

(* The bounds of the main loop and of the rest, computed before the loop;  *)
(* an empty range is clamped, and no difference of bounds overflows.       *)
Remainder(lb, ub, id) ==
  LET k == Const(PartialFactor)
  IN  <<Ins("Lt", id, <<ub, lb>>, <<>>), Ins("Select", id + 1, <<Res(id), lb, ub>>, <<>>),
        Ins("SRem", id + 2, <<Res(id + 1), k>>, <<>>), Ins("SRem", id + 3, <<lb, k>>, <<>>),
        Ins("Sub", id + 4, <<Res(id + 2), Res(id + 3)>>, <<>>),
        Ins("Add", id + 5, <<Res(id + 4), Const(2 * PartialFactor)>>, <<>>),
        Ins("SRem", id + 6, <<Res(id + 5), k>>, <<>>),
        Ins("Sub", id + 7, <<Res(id + 1), Res(id + 6)>>, <<>>)>>

(* The body is repeated PartialFactor times and a loop for the rest        *)
(* follows, unless the trip count is a known multiple.                     *)
tryPartialUnroll(f, loop) ==
  LET i == Owner(f, loop.id)
      body == BodyIns(f, loop)
      whole == IsConst(loop.ops[2]) /\ IsConst(loop.ops[3]) /\ Trips(loop) % PartialFactor = 0
      lb == loop.ops[2]
      id == FreshId(f)
      ubMain == IF whole THEN loop.ops[3] ELSE Res(id + 7)
      rem == FreshName(f)
      slot == loop.ops[1]
      iv == id + 8
      ids == id + 10 + PartialFactor
      copy(t) == (IF t = 0 THEN <<>> ELSE <<Ins("Add", iv + t, <<Res(iv), Const(t)>>, <<>>)>>) \o
                 emitUnrolledCopy(body, slot, Res(iv + t), t, t, ids)
      next == ids + (PartialFactor + 1) * (Len(body) + 1)
      main == <<Ins("Load", iv, <<slot>>, <<>>)>> \o
              FlattenSeq([t \in 1..PartialFactor |-> copy(t - 1)]) \o
              <<Ins("AffineYield", next, <<>>, <<>>)>>
      four == Ins("AffineFor", loop.id, <<slot, lb, ubMain, Const(PartialFactor)>>,
                  IF whole THEN loop.to ELSE <<rem>>)
      rest == Ins("AffineFor", next + 1, <<slot, ubMain, Res(id + 1), Const(1)>>, loop.to)
      old(v) == LET at == {k \in DOMAIN body : v = Res(body[k].id)}
                IN  IF at = {} THEN v ELSE Res(next + 2 + Min(at))
      single == [k \in DOMAIN body |->
                   [body[k] EXCEPT !.id = next + 2 + k, !.ops = [j \in DOMAIN @ |-> old(@[j])]]]
      tail == <<Blk(rem, f[i].in, <<rest>>),
                Blk(rem + 1, <<next + 1, "body">>,
                    Append(single, Ins("AffineYield", next + 2, <<>>, <<>>)))>>
      g == [k \in DOMAIN f |->
              IF k = i THEN [f[k] EXCEPT !.ins = Front(@) \o
                               (IF whole THEN <<>> ELSE Remainder(lb, loop.ops[3], id)) \o <<four>>]
              ELSE IF f[k].in[1] = loop.id THEN [f[k] EXCEPT !.ins = main]
              ELSE f[k]]
  IN  [fn |-> IF whole THEN g ELSE Laid(g \o tail, Root), skip |-> next + 1]

(* Every loop, fully if possible; the loops for the rest are left alone.   *)
RECURSIVE UnrollAll(_, _)
UnrollAll(f, skip) ==
  LET loops == SelectSeq(AllIns(f), IsLoop)
      full == SelectSeq(loops, LAMBDA m : FullyUnrollable(f, m))
      part == SelectSeq(loops, LAMBDA m : m.id \notin skip /\ PartlyUnrollable(f, m))
      p == tryPartialUnroll(f, part[1])
  IN  CASE full # <<>> -> UnrollAll(tryFullUnroll(f, full[1]), skip)
        [] part # <<>> -> UnrollAll(p.fn, skip \cup {p.skip})
        [] OTHER -> f

loopUnroll(f) == UnrollAll(f, {})

----------------------------------------------------------------------------
(* The loops of the flat form.  loop-rotate makes the test of a loop once  *)
(* before it and then at its end; licm-cf moves what does not change in a  *)
(* loop to the block before it, which is made for the purpose where a      *)
(* branch enters the loop.                                                 *)

(* The operand of a phi for the edge from p.                               *)
PhiEdge(phi, p) == phi.ops[CHOOSE j \in DOMAIN phi.to : phi.to[j] = p]

(* Substitutes several values at once; sub is a set of pairs.              *)
Substitute(v, sub) ==
  IF \E p \in sub : p[1] = v THEN (CHOOSE p \in sub : p[1] = v)[2] ELSE v

SubstituteAll(m, sub) == [m EXCEPT !.ops = [j \in DOMAIN @ |-> Substitute(@[j], sub)]]

Latches(f, h) == {b \in Preds(f, h) : Dominates(f, h, b)}

(* The condition: what the header holds beside phis and the branch.        *)
Condition(b) == SelectSeq(Front(b.ins), LAMBDA m : m.op # "Phi")

UsedIn(b, v) == \E m \in Range(b.ins) : v \in Range(m.ops)

(* Everything rotateOne checks of the header f[h]; a latch, a preheader,   *)
(* and in layout order the header, the body, ..., the latch, the exit.     *)
Rotatable(f, h) ==
  LET head == f[h]
      latch == CHOOSE b \in Latches(f, head.name) : TRUE
      l == At(f, latch)
      loop == LoopBlocks(f, head.name, latch)
      outside == Preds(f, head.name) \ loop
      inside == Succs(head) \cap loop
      phis == Range(Phis(head))
  IN  /\ Cardinality(Latches(f, head.name)) = 1 /\ l # h
      /\ Cardinality(outside) = 1 /\ Cardinality(EdgesInto(f, head.name)) = 2
      /\ Term(head).op = "CondBr"
      /\ Cardinality(inside) = 1 /\ Cardinality(Succs(head) \ loop) = 1
      /\ h < Len(f) /\ inside = {f[h + 1].name}
      /\ Cardinality(EdgesInto(f, f[h + 1].name)) = 1 /\ Phis(f[h + 1]) = <<>>
      /\ Term(f[l]).op = "Br"
      /\ l < Len(f) /\ f[l + 1].name \in Succs(head) \ loop /\ Phis(f[l + 1]) = <<>>
      /\ phis # {}
      /\ \A p \in phis : /\ Len(p.to) = 2 /\ Range(p.to) = outside \cup {latch}
                         /\ \A b \in Range(f) : UsedIn(b, Res(p.id)) => b.name \in loop
      /\ \A m \in Range(Condition(head)), b \in Range(f) :
           UsedIn(b, Res(m.id)) => b = head

Rotated(f, h) ==
  LET head == f[h]
      latch == CHOOSE b \in Latches(f, head.name) : TRUE
      l == At(f, latch)
      pre == CHOOSE b \in Preds(f, head.name) \ LoopBlocks(f, head.name, latch) : TRUE
      phis == Phis(head)
      onPre == {<<Res(p.id), PhiEdge(p, pre)>> : p \in Range(phis)}
      onLatch == {<<Res(p.id), PhiEdge(p, latch)>> : p \in Range(phis)}
      body == Condition(head)
      cloneId(k) == FreshId(f) + k
      (* clone k sees the phis' latch values, then the clones before it.   *)
      cloned(k) == {<<Res(body[j].id), Res(cloneId(j))>> : j \in 1..(k - 1)}
      clone(k) == [SubstituteAll(SubstituteAll(body[k], onLatch), cloned(k))
                     EXCEPT !.id = cloneId(k)]
      cond == Term(head).ops[1]
      latchCond == Substitute(Substitute(cond, cloned(Len(body) + 1)), onLatch)
      guard == [k \in DOMAIN body |-> SubstituteAll(body[k], onPre)] \o
               <<SubstituteAll(Term(head), onPre)>>
      test == Ins("CondBr", FreshId(f), <<latchCond>>, <<f[h + 1].name, f[l + 1].name>>)
      moved == [k \in DOMAIN phis |-> ReKeyed(phis[k], pre, head.name)]
      closed == [f EXCEPT ![l].ins = Front(@) \o [k \in DOMAIN body |-> clone(k)] \o <<test>>]
  IN  [closed EXCEPT ![h].ins = guard, ![h + 1].ins = moved \o @]

RECURSIVE loopRotate(_)
loopRotate(f) ==
  LET found == {h \in DOMAIN f : Rotatable(f, h)}
  IN  IF Len(f) < 3 \/ found = {} THEN f ELSE loopRotate(Rotated(f, Min(found)))

----------------------------------------------------------------------------
(* licm-cf.                                                                *)
(* The loop whose header is f[h], of all the edges back to it.             *)
NaturalLoop(f, h) ==
  UNION {LoopBlocks(f, f[h].name, l) : l \in Latches(f, f[h].name)}

Headers(f) == SelectSeq([h \in 1..(Len(f) - 1) |-> h + 1], LAMBDA h : Latches(f, f[h].name) # {})

OutsideOf(f, h) == Preds(f, f[h].name) \ NaturalLoop(f, h)

JumpsTo(f, p, h) == LET t == Term(f[At(f, p)]) IN t.op = "Br" /\ t.to[1] = f[h].name

NeedsSplit(f, h) ==
  LET outside == OutsideOf(f, h)
  IN  outside # {} /\ ~(Cardinality(outside) = 1 /\ \A p \in outside : JumpsTo(f, p, h))

(* Mutant: the new block is the last one.                                  *)
LastBlock(f, h) == Len(f)

(* The new block in front of the loop comes after this one.                *)
Anchor(f, h) == Min({At(f, p) : p \in OutsideOf(f, h)})

(* Each loop that is entered by a branch gets a block in front of it.      *)
splitPreheaders(f) ==
  LET heads == SelectSeq(Headers(f), LAMBDA h : NeedsSplit(f, h))
      name(k) == FreshName(f) + k
      pre(k) == Blk(name(k), Root, <<Ins("Br", FreshId(f) + k, <<>>, <<f[heads[k]].name>>)>>)
      enters(k, b) == b.name \in OutsideOf(f, heads[k])
      retarget(g, k) ==
        [i \in DOMAIN g |->
           LET h == f[heads[k]].name
               b == g[i]
           IN  IF b.name = h
               THEN [b EXCEPT !.ins = [j \in DOMAIN @ |->
                       FoldSet(LAMBDA p, m : ReKeyed(m, p, name(k)), @[j], OutsideOf(f, heads[k]))]]
               ELSE IF enters(k, b)
               THEN [b EXCEPT !.ins[Len(b.ins)].to =
                       [j \in DOMAIN @ |-> IF @[j] = h THEN name(k) ELSE @[j]]]
               ELSE b]
      moved == FoldLeft(retarget, f, [k \in DOMAIN heads |-> k])
      after(i) == SelectSeq([k \in DOMAIN heads |-> k], LAMBDA k : Anchor(f, heads[k]) = i)
      news(i) == [q \in DOMAIN after(i) |-> pre(after(i)[q])]
  IN  IF Len(f) < 3 \/ heads = <<>> THEN f
      ELSE FlattenSeq([i \in DOMAIN f |-> <<moved[i]>> \o news(i)])

(* The block before the loop, as a set of at most one name.                *)
Preheader(f, h) ==
  LET jumps == {p \in OutsideOf(f, h) : JumpsTo(f, p, h)}
  IN  IF Cardinality(jumps) = 1 THEN {p \in jumps : Dominates(f, p, f[h].name)} ELSE {}

(* The order of what moves is that of the layout.                          *)
hoistOutOf(fx, n, f, loop) ==
  LET all == FlattenSeq([i \in DOMAIN f |-> IF f[i].name \in loop.blocks THEN f[i].ins ELSE <<>>])
  IN  MovedTo(f, At(f, loop.pre), Invariants(fx, n, f, all, Range(all)))

(* One round over the loops, the smallest first.                           *)
CfLicmRound(fx, n, f) ==
  LET heads == SelectSeq(Headers(f), LAMBDA h : Preheader(f, h) # {})
      loop(h) == [blocks |-> NaturalLoop(f, h), pre |-> CHOOSE p \in Preheader(f, h) : TRUE]
      size(h) == Cardinality(NaturalLoop(f, h))
      sorted == SortSeq(heads, LAMBDA a, b : size(a) < size(b) \/ (size(a) = size(b) /\ a < b))
  IN  FoldLeft(LAMBDA g, h : hoistOutOf(fx, n, g, loop(h)), f, sorted)

(* Up to k more rounds, as long as the last one changed the old function.  *)
RECURSIVE CfLicmRounds(_, _, _, _, _)
CfLicmRounds(fx, n, old, f, k) ==
  IF k = 0 \/ f = old THEN f ELSE CfLicmRounds(fx, n, f, CfLicmRound(fx, n, f), k - 1)

cfLicm(fx, n, f) == CfLicmRounds(fx, n, <<>>, splitPreheaders(f), 8)
=============================================================================
