------------------------------- MODULE Midend -------------------------------
(***************************************************************************)
(* The mid-end: the IR that the builder makes of a program, and the passes *)
(* of -O0 and -O1 over it in the order of src/midend/pass/Pipeline.cpp, as *)
(* PassManager.cpp runs them.  Left out of -O1 are ind-var and, since      *)
(* the programs have no tensors, expand-tensor.                            *)
(***************************************************************************)
EXTENDS IRBuild, Scalar, MemOpt, LoopOpt, CallOpt, CfgSimplify

VARIABLES
  unit,        (* the program                                              *)
  todo,        (* the passes to run, passes_                               *)
  layer,       (* cur                                                      *)
  prog,        (* the module                                               *)
  changed,     (* whether the last pass changed it                         *)
  thrown       (* a pass was not meant for this layer                      *)

vars == <<unit, todo, layer, prog, changed, thrown>>

----------------------------------------------------------------------------
(* The two lowerings (src/midend/pass/Passes.cpp): loops that count become *)
(* loops with a condition, and those become branches between the blocks of *)
(* one flat list.                                                          *)

(* The affine.for at the end of f[i] becomes an scf.while: its slot is set *)
(* to the lower bound before it, a condition region tests it, and a block  *)
(* that its body jumps to instead of yielding counts.                      *)
convertAffineFor(f, i) ==
  LET loop == Term(f[i])
      slot == loop.ops[1]
      id == FreshId(f)
      inc == FreshName(f)
      cond == inc + 1
      count == Blk(inc, <<loop.id, "body">>,
                   <<Ins("Load", id, <<slot>>, <<>>), Ins("Add", id + 1, <<Res(id), loop.ops[4]>>, <<>>),
                     Ins("Store", id + 2, <<Res(id + 1), slot>>, <<>>), Ins("ScfYield", id + 3, <<>>, <<>>)>>)
      test == Blk(cond, <<loop.id, "cond">>,
                  <<Ins("Load", id + 4, <<slot>>, <<>>), Ins("Lt", id + 5, <<Res(id + 4), loop.ops[3]>>, <<>>),
                    Ins("ScfCondition", id + 6, <<Res(id + 5)>>,
                        <<EntryOf(f, loop.id, "body"), loop.to[1]>>)>>)
      jumping(b) == IF b.in # <<loop.id, "body">> THEN b
                    ELSE [b EXCEPT !.ins = [j \in DOMAIN @ |->
                            IF @[j].op = "AffineYield" THEN Ins("Br", @[j].id, <<>>, <<inc>>) ELSE @[j]]]
      while == [f EXCEPT ![i].ins = Front(@) \o <<Ins("Store", id + 7, <<loop.ops[2], slot>>, <<>>),
                                                  Ins("ScfWhile", loop.id, <<>>, loop.to)>>]
  IN  Laid([k \in DOMAIN f |-> jumping(while[k])] \o <<count, test>>, Root)

(* Mutant: one loop of a function is lowered.                              *)
lowerOne(f) ==
  LET found == {i \in DOMAIN f : Term(f[i]).op = "AffineFor"}
  IN  IF found = {} THEN f ELSE convertAffineFor(f, Max(found))

RECURSIVE lowerAffine(_)
lowerAffine(f) ==
  LET found == {i \in DOMAIN f : Term(f[i]).op = "AffineFor"}
  IN  IF found = {} THEN f ELSE lowerAffine(convertAffineFor(f, Max(found)))

(* What the terminator m of a block of region r is in the flat form.       *)
FlatTerm(f, r, m) ==
  LET br(n) == Ins("Br", m.id, <<>>, <<n>>)
  IN  CASE m.op = "ScfWhile" -> br(EntryOf(f, m.id, "cond"))
        [] m.op = "ScfCondition" ->
             IF IsConst(m.ops[1]) THEN br(m.to[IF m.ops[1].n # 0 THEN 1 ELSE 2])
             ELSE [m EXCEPT !.op = "CondBr"]
        [] m.op = "ScfYield" -> br(EntryOf(f, r[1], "cond"))
        [] OTHER -> m

flattenBlocks(f) ==
  [i \in DOMAIN f |-> Blk(f[i].name, Root, Append(Front(f[i].ins), FlatTerm(f, f[i].in, Term(f[i]))))]

opSurvivesToCf(m) == m.op \notin {"AffineFor", "AffineYield", "ScfWhile", "ScfCondition", "ScfYield"}

isCfOnly(f) == \A m \in Range(AllIns(f)) : opSurvivesToCf(m)

----------------------------------------------------------------------------
At_(names, l) == [k \in DOMAIN names |-> [name |-> names[k], in |-> l, out |-> l]]

addCleanupRound(l) ==
  At_(IF l # "cf"
      THEN <<"const-fold", "algebraic", "const-fold", "mem-cse", "redundant-store", "dead-code",
             "const-fold">>
      ELSE <<"const-fold", "normalize-cmp", "reassoc", "algebraic", "const-fold", "mem-cse",
             "add-chain", "redundant-store", "dead-code", "const-fold">>, l)

toScf == [name |-> "lower-affine-to-scf", in |-> "affine", out |-> "scf"]
toCf == [name |-> "canonicalize-to-cf", in |-> "scf", out |-> "cf"]

addOptPipeline(level) ==
  LET opt(passes) == IF level = 0 THEN <<>> ELSE passes
      clean == addCleanupRound("cf")
      cf(names) == At_(names, "cf") \o clean
  IN  opt(addCleanupRound("affine") \o At_(<<"licm", "loop-unroll">>, "affine") \o
          addCleanupRound("affine") \o At_(<<"remove-unused">>, "affine"))
      \o <<toScf>>
      \o opt(addCleanupRound("scf") \o At_(<<"licm">>, "scf") \o addCleanupRound("scf"))
      \o <<toCf>>
      \o opt(clean \o cf(<<"cfg-simplify">>) \o
             cf(<<"inline-small", "tail-rec-elim", "inline-general", "cfg-simplify">>) \o
             cf(<<"mem2reg">>) \o cf(<<"if-convert", "cfg-simplify">>) \o
             cf(<<"licm-cf">>) \o clean \o
             cf(<<"loop-rotate", "cfg-simplify", "dom-cse">>) \o At_(<<"remove-unused">>, "cf"))
      \o At_(<<"verify-cf-only">>, "cf")

(* What the pass makes of the module.                                      *)
Ran(name, p) ==
  LET fx == compute(p)
  IN  CASE name = "remove-unused" -> removeUnused(p)
        [] name = "inline-small" -> inlineSmall(p)
        [] name = "inline-general" -> inlineGeneral(p)
        [] name = "verify-cf-only" -> p
        [] OTHER ->
             [n \in DOMAIN p |->
                CASE name = "const-fold" -> constFold(p[n])
                  [] name = "algebraic" -> algebraic(p[n])
                  [] name = "normalize-cmp" -> normalizeCmp(p[n])
                  [] name = "reassoc" -> reassoc(p[n])
                  [] name = "add-chain" -> addChain(p[n])
                  [] name = "mem-cse" -> memCse(fx, p[n])
                  [] name = "redundant-store" -> redundantStore(p[n])
                  [] name = "dead-code" -> deadCode(p[n])
                  [] name = "licm" -> licm(fx, n, p[n])
                  [] name = "loop-unroll" -> loopUnroll(p[n])
                  [] name = "lower-affine-to-scf" -> lowerAffine(p[n])
                  [] name = "canonicalize-to-cf" -> flattenBlocks(p[n])
                  [] name = "cfg-simplify" -> cfgSimplify(p[n])
                  [] name = "tail-rec-elim" -> tailRecElim(n, p[n])
                  [] name = "mem2reg" -> mem2reg(p[n])
                  [] name = "if-convert" -> ifConvert(p[n])
                  [] name = "loop-rotate" -> loopRotate(p[n])
                  [] name = "licm-cf" -> cfLicm(fx, n, p[n])
                  [] name = "dom-cse" -> domCse(fx, p[n])]

(* The next pass, unless it expects another layer; verify-cf-only throws   *)
(* when a structured operation is left.                                    *)
RunPass ==
  /\ todo # <<>> /\ ~thrown
  /\ LET pass == todo[1]
         ok == pass.in = layer /\
               (pass.name = "verify-cf-only" => \A n \in DOMAIN prog : isCfOnly(prog[n]))
     IN  /\ thrown' = ~ok
         /\ prog' = IF ok THEN Ran(pass.name, prog) ELSE prog
         /\ layer' = IF ok THEN pass.out ELSE layer
  /\ changed' = (prog' # prog)
  /\ todo' = Tail(todo)
  /\ UNCHANGED unit

(* Of each global, the number of its elements.                             *)
Sizes(u) ==
  [k \in {u.globals[x].obj[2] : x \in DOMAIN u.globals} |->
     LET x == CHOOSE x \in DOMAIN u.globals : u.globals[x].obj[2] = k
     IN  Max({1, u.globals[x].size})]

(* The program u, to be compiled at an optimisation level.                 *)
Given(u, level) == unit = u /\ todo = addOptPipeline(level)

Start ==
  /\ layer = "affine"
  /\ prog = Built(unit)
  /\ changed = TRUE
  /\ thrown = FALSE

----------------------------------------------------------------------------
(* The module, and the layer it is at.                                     *)
TypeOK ==
  /\ layer \in {"affine", "scf", "cf"} /\ changed \in BOOLEAN /\ thrown \in BOOLEAN
  /\ "main" \in DOMAIN prog
  /\ \A n \in DOMAIN prog :
       LET f == prog[n]
       IN  /\ Cardinality(Names(f)) = Len(f)
           /\ \A i \in DOMAIN f : hasTerminator(f[i])
           /\ Cardinality(Defined(f)) = Len(AllIns(f))

Means(meaning, outcome) == meaning.st = "done" => outcome = meaning

(* Every pass keeps what the program does: where its meaning is defined    *)
(* and its loops and calls end soon, the module calls the library, returns *)
(* and leaves the globals as the program says, for every input.            *)
SameBehaviour(inputs) ==
  changed => \A inp \in inputs : Means(Meaning(unit, inp), Outcome(prog, Sizes(unit), inp))

(* The operations of a layer are gone once a lowering has left it, however *)
(* deep loops nest and whatever the passes in between made of them; phis   *)
(* are for the last layer only, and no pass is given another layer's IR.   *)
LayersAgree ==
  /\ ~thrown
  /\ changed => \A n \in DOMAIN prog : \A m \in Range(AllIns(prog[n])) :
       CASE m.op \in {"AffineFor", "AffineYield"} -> layer = "affine"
         [] m.op \in {"ScfWhile", "ScfCondition", "ScfYield"} -> layer # "cf"
         [] m.op = "Phi" -> layer = "cf"
         [] OTHER -> TRUE

(* At the last layer the module is in SSA form: a value is read only where *)
(* its definition has been executed on every path, and a phi has an entry  *)
(* for each edge into its block and for nothing else, whatever branches    *)
(* were folded, blocks merged, loops rotated and bodies inlined.           *)
WellFormed ==
  layer = "cf" /\ changed =>
    \A n \in DOMAIN prog :
      LET f == prog[n]
          live == Reached(f)
          place(i, v) == CHOOSE j \in DOMAIN f[i].ins : f[i].ins[j].id = v.n
          defined(v, b) == v.k = "inst" => /\ v.n \in Defined(f)
                                           /\ Dominates(f, f[Owner(f, v.n)].name, b)
      IN  \A i \in {i \in DOMAIN f : f[i].name \in live} : \A k \in DOMAIN f[i].ins :
            LET m == f[i].ins[k]
            IN  IF m.op = "Phi"
                THEN /\ Range(m.to) \cap live = Preds(f, f[i].name) \cap live
                     /\ Cardinality(Range(m.to)) = Len(m.to)
                     /\ \A j \in DOMAIN m.ops : m.to[j] \in live => defined(m.ops[j], m.to[j])
                ELSE \A v \in Range(m.ops) :
                       /\ defined(v, f[i].name)
                       /\ v.k = "inst" /\ Owner(f, v.n) = i => place(i, v) < k

(* Instruction selection binds phis first and then every other value where *)
(* it walks the blocks in their order, and throws at a value that it has   *)
(* not met.  The passes append, merge and drop blocks and fold values      *)
(* across them, and still leave an order in which that never happens.      *)
BoundBeforeUse ==
  todo = <<>> =>
    \A n \in DOMAIN prog :
      LET f == prog[n]
          bound(v, i) == v.k = "inst" => InsOf(f, v.n).op = "Phi" \/ Owner(f, v.n) <= i
      IN  \A i \in DOMAIN f : \A m \in Range(f[i].ins) : \A j \in DOMAIN m.ops :
            bound(m.ops[j], IF m.op = "Phi" THEN At(f, m.to[j]) ELSE i)
=============================================================================
