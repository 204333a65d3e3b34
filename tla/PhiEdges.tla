------------------------------ MODULE PhiEdges ------------------------------
(***************************************************************************)
(* Where phi copies go (lowerTerminator, src/backend/ISel.cpp).  A block   *)
(* that ends in a conditional branch executes the copies of BOTH targets   *)
(* before the branch, speculatively, unless needsEdge finds that the other *)
(* arm still needs the old value of a phi; then the copies get an edge     *)
(* block of their own.                                                     *)
(*                                                                         *)
(* The lowered function runs in lockstep with the SSA semantics, in which  *)
(* phis are assigned only on the edge that is taken.  good[v] says that    *)
(* reading v in the lowered code gives v's SSA value.  The copies of one   *)
(* edge are one parallel assignment, which is what module PhiCopies shows. *)
(***************************************************************************)
EXTENDS Integers, Sequences, FiniteSets

(* A function: blocks 1..n in layout order, block 1 the entry;             *)
(*   term[b]  op, condition, the two targets                               *)
(*   phi[p]   the block it belongs to and its value per predecessor        *)
(*   ins[i]   block, operands, and whether it is a pointer expression,     *)
(*            which has no register and is recomputed at each use          *)
Const == "const"

VARIABLES
  f,       (* the function                                                *)
  blk,     (* the block control is in                                     *)
  pc,      (* the part of its lowered code                                *)
  taken,   (* the truth value of the condition in this visit              *)
  goal,    (* the block SSA control flow has reached                      *)
  good     (* value -> the lowered code would read its SSA value          *)

edgeVars == <<f, blk, pc, taken, goal, good>>

----------------------------------------------------------------------------
(* The function under translation.                                         *)
Blocks == DOMAIN f.term
Phis == DOMAIN f.phi
Ins == DOMAIN f.ins
Values == Phis \cup Ins
PhisOf(b) == {p \in Phis : f.phi[p].home = b}
InsOf(b) == {i \in Ins : f.ins[i].home = b}

Succs(b) ==
  CASE f.term[b].op = "condbr" -> {f.term[b].thenB, f.term[b].elseB}
    [] f.term[b].op = "br" -> {f.term[b].thenB}
    [] OTHER -> {}

Incoming(p, b) == f.phi[p].inc[b]

(* Operands of the instructions of a block: phis, body and terminator.     *)
OperandsIn(b) ==
  UNION {{f.phi[p].inc[x] : x \in DOMAIN f.phi[p].inc} : p \in PhisOf(b)}
  \cup UNION {f.ins[i].ops : i \in InsOf(b)}
  \cup (IF f.term[b].op = "condbr" THEN {f.term[b].cond} ELSE {})

(* The worklist of readsOld: operands, transitively.                       *)
Ops(v) ==
  IF v \in Phis THEN {f.phi[v].inc[x] : x \in DOMAIN f.phi[v].inc}
  ELSE IF v \in Ins THEN f.ins[v].ops ELSE {}

Trace(v) ==
  LET seen[k \in 0..Cardinality(Values)] ==
        IF k = 0 THEN {v} ELSE seen[k-1] \cup UNION {Ops(w) : w \in seen[k-1]}
  IN  seen[Cardinality(Values)]

IsPointer(v) == v \in Ins /\ f.ins[v].lazy

(* Mutant: pointer expressions over the phi are not followed.              *)
readsOldDirectly(p, v) == v = p

readsOld(p, v) == v = p \/ (IsPointer(v) /\ p \in Trace(v))

(* The blocks needsEdge scans: those reachable from the other arm without  *)
(* entering the target.                                                    *)
Scanned(target, other) ==
  LET seen[k \in 0..Cardinality(Blocks)] ==
        IF k = 0 THEN {other}
        ELSE seen[k-1] \cup UNION {Succs(b) \ {target} : b \in seen[k-1]}
  IN  seen[Cardinality(Blocks)]

(* Phis of the target that a copy from b really changes.                   *)
Moved(b, target) == {p \in PhisOf(target) : Incoming(p, b) # p}

needsEdge(b, target, other) ==
  \E p \in Moved(b, target) :
    \/ f.term[b].cond = p
    \/ \E x \in Scanned(target, other) : \E v \in OperandsIn(x) : readsOld(p, v)

(* Labels: a block's own number, or a number for a new edge block that is  *)
(* none of a block, nor that of the place behind the last one.             *)
EdgeLabel(b, arm) == Len(f.term) + (2 * b) + (IF arm THEN 1 ELSE 0)

armLabel(b, arm) ==
  LET t == IF arm THEN f.term[b].thenB ELSE f.term[b].elseB
      o == IF arm THEN f.term[b].elseB ELSE f.term[b].thenB
  IN  IF needsEdge(b, t, o) THEN EdgeLabel(b, arm) ELSE t

Split(b, arm) == armLabel(b, arm) = EdgeLabel(b, arm)

(* Mutant: no jump behind the branch when neither label comes next.        *)
BranchOnly(b, nonzero) ==
  LET nextL == b + 1
      thenL == armLabel(b, TRUE)
      elseL == armLabel(b, FALSE)
  IN  IF thenL = nextL /\ ~nonzero THEN elseL
      ELSE IF nonzero THEN thenL ELSE nextL

(* The branch instructions, and where they lead: a branch to the next      *)
(* block in the layout is left out and control falls through.              *)
BranchTo(b, nonzero) ==
  LET nextL == b + 1
      thenL == armLabel(b, TRUE)
      elseL == armLabel(b, FALSE)
  IN  CASE thenL = nextL -> IF ~nonzero THEN elseL ELSE nextL
        [] thenL # nextL /\ elseL = nextL -> IF nonzero THEN thenL ELSE nextL
        [] OTHER -> IF nonzero THEN thenL ELSE elseL

(* A constant condition, or one target for both arms, needs no branch.     *)
(* The constant is true: a false one is the same branch with its targets   *)
(* exchanged.                                                              *)
HasConstCond(b) == f.term[b].op = "condbr" /\ f.term[b].cond = Const

IsJump(b) ==
  \/ f.term[b].op = "br" \/ HasConstCond(b)
  \/ f.term[b].op = "condbr" /\ f.term[b].thenB = f.term[b].elseB

Target(b, arm) == IF arm THEN f.term[b].thenB ELSE f.term[b].elseB

----------------------------------------------------------------------------
(* The copies for the phis of a target, executed in block b.  When the     *)
(* edge is the one taken each phi gets its new value; otherwise the old    *)
(* value is gone.  Pointer expressions over a phi change with it.          *)
Stale(changed) ==
  {v \in Ins : f.ins[v].lazy /\ f.ins[v].ops \cap changed # {}}

GoodValue(v) == v = Const \/ (v \in Values /\ good[v])

PhiCopies(b, target, real) ==
  LET changed == Moved(b, target)
  IN  good' = [v \in Values |->
                 IF v \in changed THEN real /\ GoodValue(Incoming(v, b))
                 ELSE good[v] /\ v \notin Stale(changed)]

EdgesStartWith(g) ==
  /\ f = g
  /\ blk = 1 /\ goal = 1
  /\ pc = "body"
  /\ taken = TRUE
  /\ good = [v \in Values |-> FALSE]

BodyReads(b) == UNION {f.ins[i].ops : i \in {j \in InsOf(b) : ~f.ins[j].lazy}}

(* The instructions of a block define their values.                        *)
Body ==
  /\ pc = "body"
  /\ LET redefined == {i \in InsOf(blk) : ~f.ins[i].lazy}
     IN  good' = [v \in Values |->
                    IF v \in redefined THEN TRUE
                    ELSE IF v \in InsOf(blk)
                      THEN \A o \in f.ins[v].ops : o \in redefined \/ GoodValue(o)
                    ELSE good[v] /\ v \notin Stale(redefined)]
  /\ \E t \in BOOLEAN :
       /\ taken' = t /\ (HasConstCond(blk) => t)
       /\ IF f.term[blk].op = "ret"
            THEN goal' = goal /\ pc' = "returned"
            ELSE /\ goal' = Target(blk, t)
                 /\ pc' = IF IsJump(blk) THEN "jump" ELSE "then"
  /\ UNCHANGED <<f, blk>>

(* An unconditional branch: the copies, then the jump.                     *)
Jump ==
  /\ pc = "jump"
  /\ PhiCopies(blk, f.term[blk].thenB, TRUE)
  /\ blk' = f.term[blk].thenB
  /\ pc' = "body"
  /\ UNCHANGED <<f, taken, goal>>

(* The two arms of a conditional branch, the then arm first.               *)
Arm(at, arm, to) ==
  /\ pc = at
  /\ IF Split(blk, arm)
       THEN UNCHANGED good
       ELSE PhiCopies(blk, Target(blk, arm), taken = arm)
  /\ pc' = to
  /\ UNCHANGED <<f, blk, taken, goal>>

ThenArm == Arm("then", TRUE, "else")
ElseArm == Arm("else", FALSE, "branch")

Branch ==
  /\ pc = "branch"
  /\ LET to == BranchTo(blk, taken)
     IN  IF to \in Blocks
           THEN blk' = to /\ pc' = "body"
           ELSE blk' = blk
                /\ pc' = IF to = EdgeLabel(blk, TRUE) THEN "edge1" ELSE "edge0"
  /\ UNCHANGED <<f, taken, goal, good>>

(* An edge block: the copies of one arm and a jump to its target.          *)
EdgeBlock ==
  /\ pc \in {"edge1", "edge0"}
  /\ LET arm == pc = "edge1"
     IN  /\ PhiCopies(blk, Target(blk, arm), taken = arm)
         /\ blk' = Target(blk, arm)
  /\ pc' = "body"
  /\ UNCHANGED <<f, taken, goal>>

EdgesNext == Body \/ Jump \/ ThenArm \/ ElseArm \/ Branch \/ EdgeBlock

(* The lowered code of one function, executed.                             *)
EdgesSpec(g) == EdgesStartWith(g) /\ [][EdgesNext]_edgeVars

----------------------------------------------------------------------------
(* An instruction or a branch condition never reads a phi that a copy for  *)
(* the edge not taken has overwritten, nor a pointer whose base has moved  *)
(* on: on every path the lowered code computes with the SSA values.        *)
ReadsSSAValues ==
  /\ pc = "body" =>
       \A v \in BodyReads(blk) : GoodValue(v) \/ v \in InsOf(blk)
  /\ pc = "branch" => GoodValue(f.term[blk].cond)

(* The emitted branches, with their fall-throughs and edge blocks, follow  *)
(* the control flow of the function.                                       *)
ControlFollows == pc = "body" => blk = goal
============================================================================
