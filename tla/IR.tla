--------------------------------- MODULE IR ---------------------------------
(***************************************************************************)
(* The mid-end IR (src/midend/ir/IR.h) and what its passes share           *)
(* (src/midend/pass/OptUtil.cpp).  A function is a sequence of blocks, the *)
(* entry first; a block has a name, the region it lies in and its          *)
(* instructions, the last one a terminator.  A region is named by the loop *)
(* instruction that owns it, and its blocks follow the block of that       *)
(* instruction, as the printer shows them.  An instruction has an op, an   *)
(* id, value operands and names: the targets of a branch, for a Phi the    *)
(* predecessor of each operand, for a Call the callee.  ICmp is written as *)
(* its predicate; offsets count elements; types, floats and source lines   *)
(* are left out.                                                           *)
(***************************************************************************)
EXTENDS Integers, Sequences, FiniteSets, SequencesExt

CONSTANT WordBits        (* of an int, 32 in the code                      *)

ASSUME WordAssumption == WordBits \in Nat /\ WordBits > 1

Const(n) == [k |-> "const", n |-> n]
Res(n) == [k |-> "inst", n |-> n]     (* the result of instruction n       *)
Arg(n) == [k |-> "arg", n |-> n]
Glob(n) == [k |-> "glob", n |-> n]

Ins(op, id, ops, to) == [op |-> op, id |-> id, ops |-> ops, to |-> to]

Root == <<0, "root">>

Blk(name, in, ins) == [name |-> name, in |-> in, ins |-> ins]

Cmps == {"Eq", "Ne", "Lt", "Le", "Gt", "Ge"}
Ariths == {"Add", "Sub", "Mul", "SDiv", "SRem"}

isTerminator(m) ==
  m.op \in {"Ret", "Br", "CondBr", "ScfWhile", "ScfCondition", "ScfYield",
            "AffineFor", "AffineYield"}

isPure(m) == m.op \in {"Alloca", "Gep", "Phi", "Not", "Select", "Load"} \cup Ariths \cup Cmps

IsConst(v) == v.k = "const"

Word(x) == ((x + 2 ^ (WordBits - 1)) % (2 ^ WordBits)) - 2 ^ (WordBits - 1)

Abs(x) == IF x < 0 THEN -x ELSE x
Quot(x, y) == IF (x < 0) = (y < 0) THEN Abs(x) \div Abs(y) ELSE -(Abs(x) \div Abs(y))
Truth(p) == IF p THEN 1 ELSE 0

(* What an operation computes; a division by zero is what the machine      *)
(* makes of it, and never folded.                                          *)
Exact(op, x, y) ==
  CASE op = "Add" -> x + y
    [] op = "Sub" -> x - y
    [] op = "Mul" -> x * y
    [] op = "SDiv" -> IF y = 0 THEN -1 ELSE Quot(x, y)
    [] op = "SRem" -> IF y = 0 THEN x ELSE x - y * Quot(x, y)
    [] op = "Eq" -> Truth(x = y)
    [] op = "Ne" -> Truth(x # y)
    [] op = "Lt" -> Truth(x < y)
    [] op = "Le" -> Truth(x <= y)
    [] op = "Gt" -> Truth(x > y)
    [] op = "Ge" -> Truth(x >= y)
    [] op = "Not" -> Truth(x = 0)

foldArith(op, x, y) == Word(Exact(op, x, y))

----------------------------------------------------------------------------
Entry(f) == f[1].name

AllIns(f) == FlattenSeq([i \in DOMAIN f |-> f[i].ins])

Term(b) == Last(b.ins)

Succs(b) == Range(Term(b).to)

At(f, n) == CHOOSE i \in DOMAIN f : f[i].name = n

Names(f) == {b.name : b \in Range(f)}

Preds(f, n) == {b.name : b \in {b \in Range(f) : n \in Succs(b)}}

(* The edges into n: a branch with two equal arms has two.                 *)
EdgesInto(f, n) ==
  UNION {{<<i, j>> : j \in {j \in DOMAIN Term(f[i]).to : Term(f[i]).to[j] = n}} :
         i \in DOMAIN f}

Phis(b) == SelectSeq(b.ins, LAMBDA m : m.op = "Phi")

(* The block of instruction n, as an index.                                *)
Owner(f, n) == CHOOSE i \in DOMAIN f : \E m \in Range(f[i].ins) : m.id = n

InsOf(f, n) == CHOOSE m \in Range(AllIns(f)) : m.id = n

Defined(f) == {m.id : m \in Range(AllIns(f))}

FreshId(f) == 1 + Max({0} \cup Defined(f))

(* The operands that read v.                                               *)
UsesOf(f, v) ==
  UNION {{<<m.id, j>> : j \in {j \in DOMAIN m.ops : m.ops[j] = v}} : m \in Range(AllIns(f))}

(* f with every instruction replaced by what G makes of it.                *)
MapIns(f, G(_)) ==
  [i \in DOMAIN f |-> [f[i] EXCEPT !.ins = [j \in DOMAIN @ |-> G(@[j])]]]

Subst(m, from, to) ==
  [m EXCEPT !.ops = [j \in DOMAIN @ |-> IF @[j] = from THEN to ELSE @[j]]]

replaceAllUses(f, from, to) == MapIns(f, LAMBDA m : Subst(m, from, to))

(* f without the instructions whose id is in S.                            *)
Without(f, S) ==
  [i \in DOMAIN f |-> [f[i] EXCEPT !.ins = SelectSeq(@, LAMBDA m : m.id \notin S)]]

(* Uses of instruction m read v instead, and m goes.                       *)
Replaced(f, m, v) == replaceAllUses(Without(f, {m.id}), Res(m.id), v)

(* m itself is rewritten.                                                  *)
Rewritten(f, m) == MapIns(f, LAMBDA u : IF u.id = m.id THEN m ELSE u)

(* Mutant: entries of edges that are gone stay.                            *)
AllPreds(m, S) == m

(* A phi without the entries whose predecessor is in S.                    *)
WithoutPreds(m, S) ==
  LET kept == SelectSeq([j \in DOMAIN m.ops |-> j], LAMBDA j : m.to[j] \notin S)
  IN  IF m.op # "Phi" THEN m
      ELSE [m EXCEPT !.ops = [j \in DOMAIN kept |-> m.ops[kept[j]]],
                     !.to = [j \in DOMAIN kept |-> m.to[kept[j]]]]

ReKeyed(m, from, to) ==
  IF m.op # "Phi" THEN m
  ELSE [m EXCEPT !.to = [j \in DOMAIN @ |-> IF @[j] = from THEN to ELSE @[j]]]

(* The phi inputs of the edges that the block named p no longer has go.    *)
pruneStalePhiPred(f, p) ==
  [i \in DOMAIN f |->
     IF f[i].name = p \/ f[i].name \in Succs(f[At(f, p)]) THEN f[i]
     ELSE [f[i] EXCEPT !.ins = [j \in DOMAIN @ |-> WithoutPreds(@[j], {p})]]]

(* The loop instruction that owns the region of b, and the first block of  *)
(* one of the regions of loop n.                                           *)
LoopOf(f, b) == InsOf(f, b.in[1])
EntryOf(f, n, r) == SelectSeq(f, LAMBDA c : c.in = <<n, r>>)[1].name

(* Mutant: a new block takes the last block's name.                        *)
LastName(f) == Max(Names(f))

FreshName(f) == 1 + Max(Names(f))

IsLoop(m) == m.op \in {"ScfWhile", "AffineFor"}

(* The blocks of the regions of loop n, nested ones included.              *)
Inside(f, n) ==
  LET grow[k \in 0..Len(f)] ==
        IF k = 0 THEN {b \in Range(f) : b.in[1] = n}
        ELSE LET r == grow[k - 1]
             IN  r \cup {b \in Range(f) : \E c \in r : IsLoop(Term(c)) /\ b.in[1] = Term(c).id}
  IN  grow[Len(f)]

(* The blocks in the order of the nested lists, from an order in which the *)
(* blocks of each list are in theirs.                                      *)
RECURSIVE Laid(_, _)
Laid(f, r) ==
  LET list == SelectSeq(f, LAMBDA b : b.in = r)
      one(b) == <<b>> \o IF ~IsLoop(Term(b)) THEN <<>>
                         ELSE Laid(f, <<Term(b).id, "cond">>) \o Laid(f, <<Term(b).id, "body">>)
  IN  FlattenSeq([i \in DOMAIN list |-> one(list[i])])

(* What a pointer points into: its root object, and the offset if constant.*)
RECURSIVE addressOf(_, _)
addressOf(f, v) ==
  LET m == InsOf(f, v.n)
      at(kind, exact) == [kind |-> kind, root |-> v, off |-> 0, constOff |-> exact]
      base == addressOf(f, m.ops[1])
  IN  CASE v.k = "glob" -> at("Global", TRUE)
        [] v.k = "arg" -> at("Param", TRUE)
        [] v.k = "const" -> at("Other", FALSE)
        [] m.op = "Alloca" -> at("Alloca", TRUE)
        [] m.op = "Gep" -> IF IsConst(m.ops[2]) THEN [base EXCEPT !.off = @ + m.ops[2].n]
                           ELSE [base EXCEPT !.constOff = FALSE]
        [] OTHER -> at("Other", FALSE)

(* A stack slot or a global: distinct ones are disjoint.                   *)
IsObject(a) == a.kind \in {"Alloca", "Global"}

----------------------------------------------------------------------------
(* Reachability and dominance.                                             *)

(* The names reached from the entry without passing through x.             *)
ReachedAvoiding(f, x) ==
  LET grow[n \in 0..Len(f)] ==
        IF n = 0 THEN {Entry(f)} \ {x}
        ELSE LET r == grow[n - 1]
             IN  r \cup (UNION {Succs(f[At(f, b)]) : b \in r} \ {x})
  IN  grow[Len(f)]

Reached(f) == ReachedAvoiding(f, 0)

Dominates(f, x, n) == x = n \/ n \notin ReachedAvoiding(f, x)

(* The strict dominators of n form a chain; the closest comes last.        *)
Idom(f, n) ==
  LET above == {x \in Reached(f) \ {n} : Dominates(f, x, n)}
  IN  CHOOSE x \in above : \A y \in above : Dominates(f, y, x)

DominanceFrontier(f, x) ==
  {y \in Names(f) : /\ \E p \in Preds(f, y) : Dominates(f, x, p)
                    /\ x = y \/ ~Dominates(f, x, y)}

(* The natural loop of the edge from latch to h.                           *)
LoopBlocks(f, h, latch) ==
  LET grow[n \in 0..Len(f)] ==
        IF n = 0 THEN {h, latch}
        ELSE LET r == grow[n - 1] IN r \cup UNION {Preds(f, b) : b \in r \ {h}}
  IN  grow[Len(f)]
=============================================================================
