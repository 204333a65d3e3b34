------------------------------- MODULE Scalar -------------------------------
(***************************************************************************)
(* The passes of a cleanup round that look at one value at a time          *)
(* (src/midend/pass/OptScalar.cpp, OptNorm.cpp, OptReassoc.cpp and         *)
(* OptChain.cpp).  Regions are walked where their loop stands, so that the *)
(* order of a walk is the order of the blocks.                             *)
(***************************************************************************)
EXTENDS IR

Uses(f, m) == Cardinality(UsesOf(f, Res(m.id)))

ConstOps(m) == \A j \in DOMAIN m.ops : IsConst(m.ops[j])

----------------------------------------------------------------------------
(* const-fold, until nothing folds.                                        *)

(* What m is replaced by, as a set of at most one value.                   *)
FoldedTo(m) ==
  CASE m.op = "Gep" /\ m.ops[2] = Const(0) -> {m.ops[1]}
    [] m.op = "Not" /\ ConstOps(m) -> {Const(foldArith("Not", m.ops[1].n, 0))}
    [] m.op \in Ariths \cup Cmps /\ ConstOps(m) ->
         IF m.op \in {"SDiv", "SRem"} /\ m.ops[2].n = 0 THEN {}
         ELSE {Const(foldArith(m.op, m.ops[1].n, m.ops[2].n))}
    [] OTHER -> {}

(* A branch whose condition is known; a loop that is known to go on stays. *)
Decided(m) ==
  /\ m.op \in {"CondBr", "ScfCondition"} /\ IsConst(m.ops[1])
  /\ m.op = "ScfCondition" => m.ops[1].n = 0

(* A loop that counts from its bound or beyond: the jump past it.          *)
ZeroTrip(m) ==
  /\ m.op = "AffineFor" /\ IsConst(m.ops[2]) /\ IsConst(m.ops[3])
  /\ m.ops[2].n >= m.ops[3].n

foldOne(f, m) ==
  IF ZeroTrip(m)
  THEN LET gone == Inside(f, m.id)
       IN  Rewritten(SelectSeq(f, LAMBDA b : b \notin gone), Ins("Br", m.id, <<>>, m.to))
  ELSE IF Decided(m)
  THEN pruneStalePhiPred(
         Rewritten(f, Ins("Br", m.id, <<>>, <<m.to[IF m.ops[1].n # 0 THEN 1 ELSE 2]>>)),
         f[Owner(f, m.id)].name)
  ELSE Replaced(f, m, CHOOSE v \in FoldedTo(m) : TRUE)

RECURSIVE constFold(_)
constFold(f) ==
  LET found == SelectSeq(AllIns(f), LAMBDA m : ZeroTrip(m) \/ Decided(m) \/ FoldedTo(m) # {})
  IN  IF found = <<>> THEN f ELSE constFold(foldOne(f, found[1]))

----------------------------------------------------------------------------
(* algebraic: at most four walks, each after one that replaced something.  *)

invertCond == [Eq |-> "Ne", Ne |-> "Eq", Lt |-> "Ge", Le |-> "Gt", Gt |-> "Le", Ge |-> "Lt"]

(* The value that m simplifies to, as a set of at most one.                *)
SimplifiedTo(f, m) ==
  LET a == m.ops[1]
      b == m.ops[2]
      u == InsOf(f, a.n)
  IN  CASE m.op = "Add" /\ a = Const(0) /\ ~IsConst(b) -> {b}
        [] m.op \in {"Add", "Sub"} /\ b = Const(0) -> {a}
        [] m.op = "Sub" /\ a = b -> {Const(0)}
        [] m.op = "Mul" /\ Const(0) \in {a, b} -> {Const(0)}
        [] m.op = "Mul" /\ a = Const(1) /\ ~IsConst(b) -> {b}
        [] m.op = "Mul" /\ b = Const(1) -> {a}
        [] m.op \in Cmps /\ a = b -> {Const(Truth(m.op \in {"Eq", "Le", "Ge"}))}
        [] m.op = "Not" /\ a.k = "inst" /\ u.op = "Not" -> {u.ops[1]}
        [] m.op = "Select" /\ b = m.ops[3] -> {b}
        [] m.op = "Select" /\ IsConst(a) -> {m.ops[IF a.n # 0 THEN 2 ELSE 3]}
        [] m.op = "Gep" /\ b = Const(0) -> {a}
        [] OTHER -> {}

(* m, rewritten in place where that is simpler.                            *)
InPlace(f, m) ==
  LET a == m.ops[1]
      b == m.ops[2]
      u == InsOf(f, a.n)
      other == IF IsConst(a) THEN b ELSE a
      by(n) == m.op = "Mul" /\ (b = Const(n) \/ (a = Const(n) /\ ~IsConst(b)))
  IN  CASE by(-1) -> [m EXCEPT !.op = "Sub", !.ops = <<Const(0), other>>]
        [] by(2) -> [m EXCEPT !.op = "Add", !.ops = <<other, other>>]
        [] m.op = "Not" /\ a.k = "inst" /\ u.op \in Cmps ->
             [m EXCEPT !.op = invertCond[u.op], !.ops = u.ops]
        [] OTHER -> m

(* One walk, from the k-th instruction on.                                 *)
RECURSIVE AlgebraicWalk(_, _)
AlgebraicWalk(f, k) ==
  LET all == AllIns(f)
      found == {j \in k..Len(all) : SimplifiedTo(f, all[j]) # {} \/ InPlace(f, all[j]) # all[j]}
      j == Min(found)
      to == SimplifiedTo(f, all[j])
  IN  IF found = {} THEN f
      ELSE IF to = {} THEN AlgebraicWalk(Rewritten(f, InPlace(f, all[j])), j + 1)
      ELSE AlgebraicWalk(Replaced(f, all[j], CHOOSE v \in to : TRUE), j)

RECURSIVE AlgebraicRounds(_, _)
AlgebraicRounds(f, n) ==
  LET g == AlgebraicWalk(f, 1)
  IN  IF n = 1 \/ Defined(g) = Defined(f) THEN g ELSE AlgebraicRounds(g, n - 1)

algebraic(f) == AlgebraicRounds(f, 4)

----------------------------------------------------------------------------
(* normalize-cmp: comparisons read < or <=, constants stand on the right,  *)
(* and x + c1 < c2 becomes x < c2 - c1.                                    *)

swapDir == [Eq |-> "Eq", Ne |-> "Ne", Lt |-> "Gt", Le |-> "Ge", Gt |-> "Lt", Ge |-> "Le"]

Swapped(m) == [m EXCEPT !.op = IF @ \in Cmps THEN swapDir[@] ELSE @, !.ops = Reverse(@)]

(* v is x + c, c + x or x - c: the set of [var, c], c to be subtracted.    *)
matchAddSub(f, v) ==
  IF v.k # "inst" THEN {}
  ELSE LET d == InsOf(f, v.n)
       IN  CASE d.op = "Add" /\ IsConst(d.ops[1]) /\ ~IsConst(d.ops[2]) ->
                  {[var |-> d.ops[2], c |-> d.ops[1].n]}
             [] d.op = "Add" /\ IsConst(d.ops[2]) /\ ~IsConst(d.ops[1]) ->
                  {[var |-> d.ops[1], c |-> d.ops[2].n]}
             [] d.op = "Sub" /\ IsConst(d.ops[2]) /\ ~IsConst(d.ops[1]) ->
                  {[var |-> d.ops[1], c |-> -d.ops[2].n]}
             [] OTHER -> {}

(* The bound moves to the constant side, at the width of an int.           *)
Adjusted(f, m) ==
  LET s == IF IsConst(m.ops[1]) THEN Swapped(m) ELSE m
      e == matchAddSub(f, s.ops[1])
      x == CHOOSE x \in e : TRUE
  IN  IF ConstOps(m) \/ ~IsConst(s.ops[2]) \/ e = {} THEN m
      ELSE [s EXCEPT !.ops = <<x.var, Const(Word(s.ops[2].n - x.c))>>]

normalizeOne(f, m) ==
  LET leftConst(u) == IsConst(u.ops[1]) /\ ~IsConst(u.ops[2])
      u == Adjusted(f, m)
  IN  CASE m.op \in {"Add", "Mul"} -> IF leftConst(m) THEN Swapped(m) ELSE m
        [] m.op \in Cmps -> IF u.op \in {"Gt", "Ge"} \/ (u.op \in {"Eq", "Ne"} /\ leftConst(u))
                            THEN Swapped(u) ELSE u
        [] OTHER -> m

(* One walk; a comparison reads additions that are already normalised or   *)
(* not, which makes no difference to what it finds.                        *)
normalizeCmp(f) == MapIns(f, LAMBDA m : normalizeOne(f, m))

----------------------------------------------------------------------------
(* reassoc: a tree of additions as a sum of multiples of its leaves, where *)
(* that takes fewer instructions.  The code gives up on trees far larger   *)
(* than those of any instance, and a multiple up to 32 costs 1.            *)

addTerm(t, v, sign) ==
  LET at == {k \in DOMAIN t.items : t.items[k][1] = v}
  IN  IF at = {} THEN [t EXCEPT !.items = Append(@, <<v, sign>>)]
      ELSE [t EXCEPT !.items[Min(at)][2] = @ + sign]

RECURSIVE collect(_, _, _, _, _)
collect(f, v, sign, t, path) ==
  LET d == InsOf(f, v.n)
      opened == [t EXCEPT !.nodes = @ + 1, !.extra = @ + Uses(f, d) - 1]
      l == collect(f, d.ops[1], sign, opened, path \cup {d.id})
  IN  CASE IsConst(v) -> [t EXCEPT !.constant = @ + sign * v.n]
        [] v.k = "inst" /\ d.op \in {"Add", "Sub"} /\ d.id \notin path /\ Uses(f, d) <= 4 ->
             collect(f, d.ops[2], IF d.op = "Add" THEN sign ELSE -sign, l, path \cup {d.id})
        [] OTHER -> addTerm(t, v, sign)

TermsOf(f, root) ==
  LET none == [items |-> <<>>, constant |-> 0, nodes |-> 1, extra |-> 0]
      l == collect(f, root.ops[1], 1, none, {root.id})
  IN  collect(f, root.ops[2], IF root.op = "Add" THEN 1 ELSE -1, l, {root.id})

Live(t) == SelectSeq(t.items, LAMBDA p : p[2] # 0)

cost(t) ==
  LET live == Live(t)
      scaled == {k \in DOMAIN live : live[k][2] # 1}
  IN  IF live = <<>> THEN 1
      ELSE Cardinality(scaled) + (Len(live) - 1) + Truth(t.constant # 0)

(* The instructions of the sum, in order; the last one is the sum.         *)
SumOf(f, t) ==
  LET scaled(v, c, id) == IF c = -1 THEN Ins("Sub", id, <<Const(0), v>>, <<>>)
                          ELSE Ins("Mul", id, <<v, Const(c)>>, <<>>)
      live == Live(t)
      id == FreshId(f)
      leaf(k) == IF live[k][2] = 1 THEN live[k][1] ELSE Res(id + 2 * k)
      sum(k) == IF k = 1 THEN leaf(1) ELSE Res(id + 2 * k + 1)
      step(k) == (IF live[k][2] = 1 THEN <<>> ELSE <<scaled(live[k][1], live[k][2], id + 2 * k)>>)
                 \o (IF k = 1 THEN <<>> ELSE <<Ins("Add", id + 2 * k + 1, <<sum(k - 1), leaf(k)>>, <<>>)>>)
      n == Len(live)
      last == Ins("Add", id, <<sum(n), Const(t.constant)>>, <<>>)
      terms == FlattenSeq([k \in DOMAIN live |-> step(k)])
  IN  CASE n = 0 -> [pre |-> <<>>, v |-> Const(t.constant)]
        [] t.constant = 0 -> [pre |-> terms, v |-> sum(n)]
        [] OTHER -> [pre |-> Append(terms, last), v |-> Res(id)]

Cheaper(f, m) ==
  /\ m.op \in {"Add", "Sub"} /\ Uses(f, m) > 0
  /\ LET t == TermsOf(f, m)
     IN  t.nodes > 1 /\ t.constant = Word(t.constant) /\ cost(t) + t.extra < t.nodes

(* The sum s goes before m, which is left without uses.                    *)
Summed(f, m, s) ==
  LET before(ins) == SelectInSeq(ins, LAMBDA u : u = m) - 1
  IN  replaceAllUses([f EXCEPT ![Owner(f, m.id)].ins =
                        SubSeq(@, 1, before(@)) \o s.pre \o SubSeq(@, before(@) + 1, Len(@))],
                     Res(m.id), s.v)

SummedFirst(f, found) ==
  IF found = <<>> THEN f ELSE Summed(f, found[1], SumOf(f, TermsOf(f, found[1])))

(* Up to a function that has none left.                                    *)
RECURSIVE SumsFrom(_, _)
SumsFrom(old, f) ==
  IF f = old THEN f ELSE SumsFrom(f, SummedFirst(f, SelectSeq(AllIns(f), LAMBDA m : Cheaper(f, m))))

reassoc(f) == SumsFrom(<<>>, f)

----------------------------------------------------------------------------
(* add-chain: (x + c1) + c2 is x + (c1 + c2), where x + c1 is read once,   *)
(* for chains shorter than 16.                                             *)

ConstAdd(m) == m.op = "Add" /\ (IsConst(m.ops[1]) \/ IsConst(m.ops[2]))
Addend(m) == IF IsConst(m.ops[1]) THEN m.ops[1].n ELSE m.ops[2].n
Base(m) == IF IsConst(m.ops[1]) THEN m.ops[2] ELSE m.ops[1]

(* The additions of the chain whose head is m.                             *)
RECURSIVE ChainFrom(_, _)
ChainFrom(f, m) ==
  LET d == InsOf(f, Base(m).n)
  IN  IF Base(m).k = "inst" /\ ConstAdd(d) /\ Uses(f, d) = 1 THEN <<m>> \o ChainFrom(f, d) ELSE <<m>>

(* The chain is handled where its head is reached.                         *)
Interior(f, m) ==
  /\ Uses(f, m) = 1
  /\ \E u \in Range(AllIns(f)) : Res(m.id) \in Range(u.ops) /\ ConstAdd(u)

RECURSIVE addChain(_)
addChain(f) ==
  LET heads == SelectSeq(AllIns(f), LAMBDA m :
                 ConstAdd(m) /\ ~Interior(f, m) /\ Len(ChainFrom(f, m)) > 1)
      m == heads[1]
      chain == ChainFrom(f, m)
      total == FoldLeft(LAMBDA n, a : n + Addend(a), 0, chain)
      base == Base(Last(chain))
      rest == Without(f, {chain[k].id : k \in 2..Len(chain)})
  IN  IF heads = <<>> THEN f
      ELSE IF total = 0 THEN addChain(Replaced(rest, m, base))
      ELSE addChain(Rewritten(rest, [m EXCEPT !.ops = <<base, Const(Word(total))>>]))

----------------------------------------------------------------------------
(* dead-code: values nobody reads, phis that only phis read, and slots     *)
(* that are only written.                                                  *)

Unread(f) ==
  LET all == Range(AllIns(f))
      read == UNION {Range(m.ops) : m \in all}
  IN  {m.id : m \in {m \in all : isPure(m) /\ Res(m.id) \notin read}}

(* The phis that some other instruction reads, through phis or not.        *)
LivePhis(f) ==
  LET all == Range(AllIns(f))
      phis == {m \in all : m.op = "Phi"}
      read(ms) == UNION {Range(m.ops) : m \in ms}
      grow[n \in 0..Cardinality(phis)] ==
        IF n = 0 THEN {m \in phis : Res(m.id) \in read(all \ phis)}
        ELSE LET r == grow[n - 1]
             IN  r \cup {m \in phis : Res(m.id) \in read(r)}
  IN  grow[Cardinality(phis)]

dropDeadPhiCycles(f) == {m.id : m \in {m \in Range(AllIns(f)) \ LivePhis(f) : m.op = "Phi"}}

RECURSIVE dropDeadInstructions(_)
dropDeadInstructions(f) ==
  LET dead == Unread(f) \cup dropDeadPhiCycles(f)
  IN  IF dead = {} THEN f ELSE dropDeadInstructions(Without(f, dead))

(* Memory operations on the slot a.                                        *)
AddressOp(m) == IF m.op = "Store" THEN m.ops[2] ELSE m.ops[1]
Rooted(f, a) ==
  {m \in Range(AllIns(f)) : m.op \in {"Load", "Store", "Gep"} /\ addressOf(f, AddressOp(m)).root = Res(a)}

WriteOnly(f, a) ==
  LET rooted == Rooted(f, a)
      ids == {m.id : m \in rooted}
  IN  /\ \A m \in rooted : m.op # "Load"
      /\ \A m \in Range(AllIns(f)), v \in {Res(n) : n \in ids \cup {a}} :
           v \in Range(m.ops) => IF v = Res(a) THEN m.op \in {"Load", "Store", "Gep"} ELSE m \in rooted

RECURSIVE dropWriteOnlyAllocas(_)
dropWriteOnlyAllocas(f) ==
  LET slots == {m.id : m \in {m \in Range(AllIns(f)) : m.op = "Alloca" /\ WriteOnly(f, m.id)}}
      dead == slots \cup UNION {{m.id : m \in Rooted(f, a)} : a \in slots}
  IN  IF slots = {} THEN f ELSE dropWriteOnlyAllocas(Without(f, dead))

deadCode(f) == dropDeadInstructions(dropWriteOnlyAllocas(dropDeadInstructions(f)))

(* remove-unused: functions that main does not reach through calls.        *)
removeUnused(prog) ==
  LET calls(n) == UNION {IF m.op = "Call" THEN Range(m.to) ELSE {} : m \in Range(AllIns(prog[n]))}
      grow[n \in 0..Cardinality(DOMAIN prog)] ==
        IF n = 0 THEN {"main"}
        ELSE LET r == grow[n - 1] IN r \cup (UNION {calls(c) : c \in r} \cap DOMAIN prog)
      reach == grow[Cardinality(DOMAIN prog)]
  IN  [n \in reach |-> prog[n]]
=============================================================================
