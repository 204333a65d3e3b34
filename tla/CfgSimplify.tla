---------------------------- MODULE CfgSimplify ----------------------------
(***************************************************************************)
(* cfg-simplify (src/midend/pass/OptCf.cpp): constant and two-armed equal  *)
(* branches fold, straight jumps merge, empty blocks and unreachable ones  *)
(* go, until nothing changes.  if-convert (src/midend/pass/OptIfConv.cpp): *)
(* a diamond, or a triangle, whose arms are cheap and safe to execute      *)
(* always becomes selects in the block of the condition.                   *)
(***************************************************************************)
EXTENDS IR

(* The terminator of f[i] becomes a jump to n.                             *)
JumpTo(f, i, n) ==
  [f EXCEPT ![i].ins[Len(f[i].ins)] = [@ EXCEPT !.op = "Br", !.ops = <<>>, !.to = <<n>>]]

foldConstBranches(f) ==
  FoldLeft(LAMBDA g, i :
             LET t == Term(g[i])
             IN  IF t.op = "CondBr" /\ IsConst(t.ops[1])
                 THEN pruneStalePhiPred(
                        JumpTo(g, i, t.to[IF t.ops[1].n # 0 THEN 1 ELSE 2]), g[i].name)
                 ELSE g,
           f, [i \in DOMAIN f |-> i])

foldSameTargets(f) ==
  FoldLeft(LAMBDA g, i :
             LET t == Term(g[i])
             IN  IF t.op = "CondBr" /\ t.to[1] = t.to[2] THEN JumpTo(g, i, t.to[1]) ELSE g,
           f, [i \in DOMAIN f |-> i])

(* What f[a] jumps to can be spliced into it: it is entered from there     *)
(* only, has no phi, defines nothing that an earlier block reads, and no   *)
(* phi has entries of both.                                                *)
Mergeable(f, a) ==
  /\ Term(f[a]).op = "Br"
  /\ LET n == Term(f[a]).to[1]
         b == At(f, n)
     IN  /\ b \notin {a, 1} /\ Cardinality(EdgesInto(f, n)) = 1
         /\ Phis(f[b]) = <<>>
         /\ \A i \in 1..(a - 1), m \in Range(f[b].ins) :
              \A u \in Range(f[i].ins) : Res(m.id) \notin Range(u.ops)
         /\ \A m \in Range(AllIns(f)) :
              m.op = "Phi" => ~({n, f[a].name} \subseteq Range(m.to))

mergeJumps(f) ==
  LET found == {a \in DOMAIN f : Mergeable(f, a)}
      a == Min(found)
      b == At(f, Term(f[a]).to[1])
      spliced == [f EXCEPT ![a].ins = Front(@) \o f[b].ins]
  IN  IF found = {} THEN f
      ELSE MapIns(RemoveAt(spliced, b), LAMBDA m : ReKeyed(m, f[b].name, f[a].name))

(* The block whose terminator leads to f[e], if that is an empty block     *)
(* with one predecessor.                                                   *)
ThunkPred(f, e) == (CHOOSE d \in EdgesInto(f, f[e].name) : TRUE)[1]

(* A phi that hears of e and p must hear the same of both.                 *)
Conflict(m, e, p) ==
  /\ m.op = "Phi"
  /\ \E j, k \in DOMAIN m.to : m.to[j] = e /\ m.to[k] = p /\ m.ops[j] # m.ops[k]

Thunk(f, e) ==
  /\ e # 1 /\ Len(f[e].ins) = 1 /\ Term(f[e]).op = "Br"
  /\ Term(f[e]).to[1] # f[e].name
  /\ Cardinality(EdgesInto(f, f[e].name)) = 1
  /\ LET p == f[ThunkPred(f, e)].name
     IN  /\ p \notin {f[e].name, Term(f[e]).to[1]}
         /\ \A m \in Range(AllIns(f)) : ~Conflict(m, f[e].name, p)

dropEmptyThunks(f) ==
  LET found == {e \in DOMAIN f : Thunk(f, e)}
      e == Min(found)
      name == f[e].name
      t == Term(f[e]).to[1]
      i == ThunkPred(f, e)
      p == f[i].name
      rerouted == [f EXCEPT ![i].ins[Len(f[i].ins)].to =
                     [j \in DOMAIN @ |-> IF @[j] = name THEN t ELSE @[j]]]
      heard(m) == IF p \in Range(m.to) THEN WithoutPreds(m, {name}) ELSE ReKeyed(m, name, p)
  IN  IF found = {} THEN f
      ELSE MapIns(RemoveAt(rerouted, e), LAMBDA m : IF m.op = "Phi" THEN heard(m) ELSE m)

dropUnreachable(f) ==
  LET reach == Reached(f)
  IN  MapIns(SelectSeq(f, LAMBDA b : b.name \in reach),
             LAMBDA m : WithoutPreds(m, Names(f) \ reach))

SimplifyRound(f) ==
  dropUnreachable(dropEmptyThunks(mergeJumps(foldSameTargets(foldConstBranches(f)))))

RECURSIVE Simplified(_)
Simplified(f) == LET g == SimplifyRound(f) IN IF g = f THEN f ELSE Simplified(g)

cfgSimplify(f) == IF Len(f) < 2 THEN f ELSE Simplified(f)

----------------------------------------------------------------------------
(* if-convert.                                                             *)
CONSTANT MaxSpeculated   (* kMaxSpeculated, 8 in the code                  *)

(* Mutant: divisions and loads are executed on both paths.                 *)
speculatableMore(m) == m.op \notin {"Store", "Call", "Phi"}

speculatable(m) == m.op \in {"Add", "Sub", "Mul", "Not", "Select", "Gep"} \cup Cmps

SingleSucc(f, i) == IF Cardinality(Succs(f[i])) = 1 THEN Term(f[i]).to[1] ELSE 0

(* The name of the block where the arms a and b of s meet, 0 if none.      *)
Merge(f, s, a, b) ==
  LET sa == SingleSucc(f, At(f, a))
      sb == SingleSucc(f, At(f, b))
      here == f[s].name
  IN  CASE sa # 0 /\ sa = sb /\ sa # here -> sa
        [] sb = a /\ a # here -> a
        [] sa = b /\ b # here -> b
        [] OTHER -> 0

(* v can be read at f[s], once the arms are hoisted there.                 *)
availableAt(f, v, s, m, arms) ==
  \/ IsConst(v) \/ v.k = "glob"
  \/ /\ v.k = "inst" /\ v.n \in Defined(f)
     /\ LET d == f[Owner(f, v.n)].name
        IN  d # m /\ (d \in arms \/ Dominates(f, d, f[s].name))

Hoisted(f, arms) ==
  FlattenSeq([i \in DOMAIN f |-> IF f[i].name \in arms THEN Front(f[i].ins) ELSE <<>>])

(* The operand of a phi for the edge from p.                               *)
FromPred(phi, p) == phi.ops[CHOOSE j \in DOMAIN phi.to : phi.to[j] = p]

(* min and max stay branches.                                              *)
DirectMinMax(f, cond, x, y) ==
  \E m \in Range(AllIns(f)) :
    /\ cond = Res(m.id) /\ m.op \in Cmps \ {"Eq", "Ne"}
    /\ {x, y} = {m.ops[1], m.ops[2]}

(* Everything processFunction checks of the branch of f[s], meeting at m.  *)
Convertible(f, s, m, arms, predT, predF) ==
  LET phis == Range(Phis(f[At(f, m)]))
  IN  /\ m # 0 /\ m # f[s].name
      /\ Cardinality(Preds(f, m)) = 2
      /\ \A a \in arms : Preds(f, a) = {f[s].name}
      /\ Len(Hoisted(f, arms)) <= MaxSpeculated
      /\ \A u \in Range(Hoisted(f, arms)) :
           speculatable(u) /\ \A v \in Range(u.ops) : availableAt(f, v, s, m, arms)
      /\ phis # {}
      /\ \A p \in phis :
           /\ Len(p.to) = 2 /\ Range(p.to) = {predT, predF}
           /\ \A v \in Range(p.ops) : availableAt(f, v, s, m, arms)
      /\ \A p \in phis :
           ~DirectMinMax(f, Term(f[s]).ops[1], FromPred(p, predT), FromPred(p, predF))

(* The arms of the branch of f[s], as a record.                            *)
Shape(f, s) ==
  LET a == Term(f[s]).to[1]
      b == Term(f[s]).to[2]
      m == Merge(f, s, a, b)
  IN  [m |-> m, arms |-> {a, b} \ {m},
       predT |-> IF m = a THEN f[s].name ELSE a,
       predF |-> IF m = b THEN f[s].name ELSE b]

Candidate(f, s) ==
  /\ Term(f[s]).op = "CondBr" /\ Term(f[s]).to[1] # Term(f[s]).to[2]
  /\ LET h == Shape(f, s) IN Convertible(f, s, h.m, h.arms, h.predT, h.predF)

(* The diamond of f[s] collapses, and the merge block joins f[s].          *)
apply(f, s) ==
  LET h == Shape(f, s)
      cond == Term(f[s]).ops[1]
      phis == Phis(f[At(f, h.m)])
      sel(k) == Ins("Select", FreshId(f) + k,
                    <<cond, FromPred(phis[k], h.predT), FromPred(phis[k], h.predF)>>, <<>>)
      rest == SelectSeq(f[At(f, h.m)].ins, LAMBDA u : u.op # "Phi")
      joined == [f EXCEPT ![s].ins =
                   Front(@) \o Hoisted(f, h.arms) \o [k \in DOMAIN phis |-> sel(k)] \o rest]
      kept == SelectSeq(joined, LAMBDA b : b.name \notin h.arms \cup {h.m})
      chosen(g, k) == replaceAllUses(g, Res(phis[k].id), Res(FreshId(f) + k))
  IN  MapIns(FoldLeft(chosen, kept, [k \in DOMAIN phis |-> k]),
             LAMBDA u : ReKeyed(u, h.m, f[s].name))

RECURSIVE ifConvert(_)
ifConvert(f) ==
  LET found == {s \in DOMAIN f : Candidate(f, s)}
  IN  IF Len(f) < 3 \/ found = {} THEN f ELSE ifConvert(apply(f, Min(found)))
=============================================================================
