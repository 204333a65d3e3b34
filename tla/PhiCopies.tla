----------------------------- MODULE PhiCopies -----------------------------
(***************************************************************************)
(* emitPhiCopies (lowerTerminator, src/backend/ISel.cpp): the phis of a    *)
(* branch target execute simultaneously on an edge, and are lowered to a   *)
(* sequence of moves.  A move is executed when it is emitted.              *)
(*                                                                         *)
(* A virtual register initially holds its own name; a constant stands for  *)
(* itself, and is no register.                                             *)
(***************************************************************************)
EXTENDS Integers, Sequences, FiniteSets

CONSTANTS
  Vregs,     (* virtual registers before the copies                       *)
  Consts,    (* constants phis may receive                                *)
  PhiLists,  (* sequences of [dst, src]: the phis of the target, in order *)
  FirstTmp   (* the next fresh virtual register when the copies start     *)

(* Each phi has a register of its own (L.phiRegs), so destinations differ. *)
IsPhiList(l) ==
  /\ l \in Seq([dst : Vregs, src : Vregs \cup Consts])
  /\ \A i, j \in DOMAIN l : l[i].dst = l[j].dst => i = j

ASSUME VregsAssumption ==
  /\ FirstTmp \in Nat /\ Vregs \subseteq 0..(FirstTmp - 1)
  /\ Consts \cap Nat = {}

ASSUME PhiListsAssumption == \A l \in PhiLists : IsPhiList(l)

VARIABLES
  phase,    (* "collect" while P is built, then "emit"                    *)
  phis,     (* the phis of the target: destination and incoming value     *)
  src,      (* Copy::src, redirected when a cycle is broken               *)
  left,     (* copies with done[i] = 0                                    *)
  regs,     (* register -> value                                          *)
  next      (* L.newReg(): the next fresh virtual register                *)

vars == <<phase, phis, src, left, regs, next>>

Copies == DOMAIN phis

----------------------------------------------------------------------------
(* A copy whose source is its destination is never queued.                 *)
IsSelfCopy(p) == p.src = p.dst

Init ==
  /\ phase = "collect"
  /\ phis \in PhiLists
  /\ src = [i \in Copies |-> phis[i].src]
  /\ left = {}
  /\ regs = [r \in Vregs |-> r]
  /\ next = FirstTmp

Collect ==
  /\ phase = "collect"
  /\ phase' = "emit"
  /\ left' = {i \in Copies : ~IsSelfCopy(phis[i])}
  /\ UNCHANGED <<phis, src, regs, next>>

(* Mutants: the first copy is not looked at; copies that are done still    *)
(* count as readers.                                                       *)
dstReadAfterFirst(d) == \E j \in left : j > 1 /\ src[j] = d
dstReadByAny(d) == \E j \in Copies : ~IsSelfCopy(phis[j]) /\ src[j] = d

dstReadLater(d) == \E j \in left : src[j] = d

ValueOf(s) == IF s \in DOMAIN regs THEN regs[s] ELSE s

(* Mutant: the copy is not marked as done.                                 *)
EmitLeafAgain ==
  /\ phase = "emit"
  /\ \E i \in left :
       /\ ~dstReadLater(phis[i].dst)
       /\ \A j \in left : dstReadLater(phis[j].dst) \/ i <= j
       /\ regs' = [regs EXCEPT ![phis[i].dst] = ValueOf(src[i])]
  /\ UNCHANGED <<phase, phis, src, left, next>>

(* A leaf: nobody left reads its destination.  The first one is emitted.   *)
EmitLeaf ==
  /\ phase = "emit"
  /\ \E i \in left :
       /\ ~dstReadLater(phis[i].dst)
       /\ \A j \in left : dstReadLater(phis[j].dst) \/ i <= j
       /\ regs' = [regs EXCEPT ![phis[i].dst] = ValueOf(src[i])]
       /\ left' = left \ {i}
  /\ UNCHANGED <<phase, phis, src, next>>

(* Mutant: the readers of the preserved register are forgotten.            *)
RedirectNobody(i) == src

(* Copies other than i that read i's destination now read the scratch.     *)
Redirect(i) ==
  [j \in Copies |->
     IF j \in left /\ j # i /\ src[j] = phis[i].dst THEN next ELSE src[j]]

(* Mutant: the scratch register is not a fresh one.                        *)
BreakCycleStale ==
  /\ phase = "emit"
  /\ \A i \in left : dstReadLater(phis[i].dst)
  /\ \E i \in left :
       /\ \A j \in left : i <= j
       /\ regs' = [r \in DOMAIN regs \cup {next} |->
                     IF r = next THEN regs[phis[i].dst]
                     ELSE IF r = phis[i].dst THEN ValueOf(src[i])
                     ELSE regs[r]]
       /\ src' = Redirect(i)
       /\ left' = left \ {i}
  /\ UNCHANGED <<phase, phis, next>>

(* Only cycles are left: the destination of the first copy is preserved in *)
(* a fresh register, its readers are redirected, and it is overwritten.    *)
BreakCycle ==
  /\ phase = "emit"
  /\ \A i \in left : dstReadLater(phis[i].dst)
  /\ \E i \in left :
       /\ \A j \in left : i <= j
       /\ regs' = [r \in DOMAIN regs \cup {next} |->
                     IF r = next THEN regs[phis[i].dst]
                     ELSE IF r = phis[i].dst THEN ValueOf(src[i])
                     ELSE regs[r]]
       /\ src' = Redirect(i)
       /\ left' = left \ {i}
  /\ next' = next + 1
  /\ UNCHANGED <<phase, phis>>

Next == Collect \/ EmitLeaf \/ BreakCycle

Spec == Init /\ [][Next]_vars

(* The loop runs until no copy remains.                                    *)
FairSpec == Spec /\ WF_vars(Next)

----------------------------------------------------------------------------
Done == phase = "emit" /\ left = {}

(* Every scratch register handed out so far has a value, and sources are   *)
(* registers that exist or constants.                                      *)
TypeOK ==
  /\ phase \in {"collect", "emit"}
  /\ IsPhiList(phis)
  /\ left \in SUBSET Copies
  /\ next \in Nat /\ FirstTmp <= next
  /\ regs \in [Vregs \cup (FirstTmp..(next - 1)) -> Vregs \cup Consts]
  /\ src \in [Copies -> DOMAIN regs \cup Consts]

(* A copy that is still to be emitted reads the value its phi had before   *)
(* the edge, even when it was redirected to a scratch register and other   *)
(* cycles were broken since.                                               *)
SourcesIntact == \A i \in left : ValueOf(src[i]) = phis[i].src

(* Once all copies are emitted every phi holds its incoming value as it    *)
(* was before the edge, and no other register of the function changed.     *)
PhisSimultaneous ==
  Done =>
    /\ \A i \in Copies : regs[phis[i].dst] = phis[i].src
    /\ \A r \in Vregs : (\A i \in Copies : phis[i].dst # r) => regs[r] = r

(* The loop ends.                                                          *)
Terminates == <>Done

(* Copies whose destinations are exactly the registers they read.  A cycle *)
(* is made of as few as that takes: the registers of a swap or a rotation, *)
(* but no copy that hangs off it.                                          *)
Turns(C) ==
  /\ C # {} /\ C \subseteq {i \in Copies : ~IsSelfCopy(phis[i])}
  /\ {phis[i].dst : i \in C} = {phis[i].src : i \in C}

Cycles ==
  {C \in SUBSET Copies : Turns(C) /\ \A D \in SUBSET C : Turns(D) => D = C}

(* A scratch register is spent on a cycle and on nothing else, once for    *)
(* each: chains, fans and constants around the cycles are emitted as       *)
(* leaves, and a cycle that has been broken comes apart into leaves        *)
(* ("every remaining destination is read by a remaining copy: pure         *)
(* cycles").                                                               *)
ScratchPerCycle ==
  phase = "emit" =>
    next - FirstTmp = Cardinality({C \in Cycles : ~(C \subseteq left)})
============================================================================
