------------------------------ MODULE PhiProofs ------------------------------
(***************************************************************************)
(* Proofs about what SSA destruction emits.  PhiCopies, for every list of  *)
(* phis: the moves behave as one simultaneous assignment, with one scratch *)
(* register for each cycle of copies.  PhiEdges, for every control-flow    *)
(* graph: the branches, with the fall-throughs left out and the edge       *)
(* blocks added, follow the control flow of the function.                  *)
(***************************************************************************)
EXTENDS PhiCopies, PhiEdges, FiniteSetTheorems, TLAPS

(* Before the loop nothing has happened.                                   *)
NothingYet ==
  phase = "collect" =>
    /\ left = {} /\ regs = [r \in Vregs |-> r]
    /\ src = [i \in Copies |-> phis[i].src]

(* A copy that is not left, emitted or never queued, is in place.          *)
InPlace ==
  phase = "emit" =>
    \A i \in Copies : i \notin left => regs[phis[i].dst] = phis[i].src

(* A register no emitted copy writes keeps its value.                      *)
Untouched ==
  \A r \in Vregs :
    (\A i \in Copies : phis[i].dst = r => i \in left) => regs[r] = r

IInv ==
  TypeOK /\ NothingYet /\ SourcesIntact /\ InPlace /\ Untouched

----------------------------------------------------------------------------
(* An element of a sequence over S is in S.                                *)
LEMMA SeqElement ==
  ASSUME NEW S, NEW s \in Seq(S), NEW i \in DOMAIN s
  PROVE  s[i] \in S
  OBVIOUS

(* The registers and lists the steps work on.                              *)
LEMMA Basics ==
  ASSUME TypeOK
  PROVE  /\ \A i \in Copies : phis[i].dst \in Vregs
                              /\ phis[i].src \in Vregs \cup Consts
         /\ \A i, j \in Copies : phis[i].dst = phis[j].dst => i = j
         /\ Vregs \subseteq DOMAIN regs /\ next \notin DOMAIN regs
         /\ \A v \in Consts : v \notin DOMAIN regs /\ v # next
         /\ DOMAIN regs \cup {next} = Vregs \cup (FirstTmp..next)
         /\ \A v \in Vregs : v # next
<1>1. phis \in Seq([dst : Vregs, src : Vregs \cup Consts])
  BY DEF TypeOK, IsPhiList
<1>2. \A i \in Copies : phis[i] \in [dst : Vregs, src : Vregs \cup Consts]
  BY <1>1, SeqElement DEF Copies
<1>3. DOMAIN regs = Vregs \cup (FirstTmp..(next - 1)) /\ next \in Nat
      /\ FirstTmp \in Nat /\ FirstTmp <= next
  BY VregsAssumption DEF TypeOK
<1>4. \A v \in Vregs : v \in Nat /\ v < FirstTmp
  BY VregsAssumption
<1>5. next \notin DOMAIN regs
  BY <1>3, <1>4
<1>6. \A v \in Consts : v \notin DOMAIN regs /\ v # next
  <2>1. \A r \in DOMAIN regs \cup {next} : r \in Nat
    BY <1>3, <1>4
  <2> QED
    BY <2>1, VregsAssumption
<1>7. DOMAIN regs \cup {next} = Vregs \cup (FirstTmp..next)
  BY <1>3
<1> QED
  BY <1>2, <1>3, <1>4, <1>5, <1>6, <1>7 DEF TypeOK, IsPhiList, Copies

LEMMA InitIInv == Init => IInv
<1> SUFFICES ASSUME Init PROVE IInv
  OBVIOUS
<1> USE DEF Init
<1>1. IsPhiList(phis)
  BY PhiListsAssumption
<1>2. \A i \in Copies : phis[i].src \in Vregs \cup Consts
  <2>1. \A i \in Copies : phis[i] \in [dst : Vregs, src : Vregs \cup Consts]
    BY <1>1, SeqElement DEF IsPhiList, Copies
  <2> QED
    BY <2>1
<1>3. FirstTmp..(next - 1) = {} /\ next \in Nat
  BY VregsAssumption
<1>4. TypeOK
  BY <1>1, <1>2, <1>3 DEF TypeOK
<1> QED
  BY <1>4 DEF IInv, NothingYet, SourcesIntact, InPlace, Untouched

LEMMA CollectIInv == ASSUME IInv, Collect PROVE IInv'
<1>1. /\ phase' = "emit" /\ phis' = phis /\ src' = src /\ regs' = regs
      /\ next' = next /\ Copies' = Copies
      /\ left' = {i \in Copies : ~IsSelfCopy(phis[i])}
  BY DEF Collect, Copies
<1>2. /\ left = {} /\ regs = [r \in Vregs |-> r]
      /\ src = [i \in Copies |-> phis[i].src]
  BY DEF IInv, NothingYet, Collect
<1>3. TypeOK'
  BY <1>1 DEF IInv, TypeOK, IsPhiList
<1>4. \A i \in Copies : ValueOf(src[i]) = phis[i].src
  BY <1>2, Basics DEF IInv, ValueOf
<1>5. SourcesIntact'
  BY <1>1, <1>4 DEF SourcesIntact, ValueOf
<1>6. InPlace'
  BY <1>1, <1>2, Basics DEF IInv, InPlace, IsSelfCopy
<1>7. Untouched'
  BY <1>1, <1>2 DEF Untouched
<1> QED
  BY <1>1, <1>3, <1>5, <1>6, <1>7 DEF IInv, NothingYet

(* What emitting copy i does to the registers, with or without a scratch.  *)
LEMMA EmitPreserves ==
  ASSUME IInv, phase = "emit", phase' = phase, phis' = phis,
         NEW i \in left, left' = left \ {i}, TypeOK',
         regs'[phis[i].dst] = phis[i].src,
         \A r \in Vregs : r # phis[i].dst => regs'[r] = regs[r],
         SourcesIntact'
  PROVE  IInv'
<1>1. Copies' = Copies /\ left \subseteq Copies
  BY DEF Copies, IInv, TypeOK
<1>2. InPlace'
  BY <1>1, Basics DEF IInv, InPlace
<1>3. Untouched'
  <2> SUFFICES ASSUME NEW r \in Vregs,
                      \A j \in Copies : phis[j].dst = r => j \in left \ {i}
               PROVE  regs'[r] = r
    BY <1>1 DEF Untouched
  <2>1. r # phis[i].dst
    BY <1>1
  <2> QED
    BY <2>1, <1>1 DEF IInv, Untouched
<1> QED
  BY <1>2, <1>3 DEF IInv, NothingYet

LEMMA EmitLeafIInv == ASSUME IInv, EmitLeaf PROVE IInv'
<1>1. /\ phase = "emit"
      /\ UNCHANGED <<phase, phis, src, next>>
  BY DEF EmitLeaf
<1>2. PICK i \in left :
        /\ ~dstReadLater(phis[i].dst)
        /\ regs' = [regs EXCEPT ![phis[i].dst] = ValueOf(src[i])]
        /\ left' = left \ {i}
  BY DEF EmitLeaf
<1>3. i \in Copies /\ phis[i].dst \in DOMAIN regs
      /\ phis[i].src \in Vregs \cup Consts /\ phis[i].dst \in Vregs
      /\ Vregs \subseteq DOMAIN regs
  BY Basics DEF IInv, TypeOK
<1>4. ValueOf(src[i]) = phis[i].src
  BY DEF IInv, SourcesIntact
<1>5. /\ DOMAIN regs' = DOMAIN regs
      /\ regs'[phis[i].dst] = phis[i].src
      /\ \A r \in DOMAIN regs : r # phis[i].dst => regs'[r] = regs[r]
  BY <1>2, <1>3, <1>4 DEF IInv, TypeOK
<1>6. TypeOK'
  <2>1. regs' \in [Vregs \cup (FirstTmp..(next - 1)) -> Vregs \cup Consts]
    BY <1>2, <1>3, <1>4 DEF IInv, TypeOK
  <2> QED
    BY <2>1, <1>1, <1>2, <1>5 DEF IInv, TypeOK, IsPhiList, Copies
<1>7. SourcesIntact'
  <2> SUFFICES ASSUME NEW j \in left, j # i
               PROVE  (IF src[j] \in DOMAIN regs' THEN regs'[src[j]]
                                                  ELSE src[j]) = phis[j].src
    BY <1>1, <1>2 DEF SourcesIntact, ValueOf
  <2>1. src[j] # phis[i].dst
    BY <1>2 DEF dstReadLater
  <2>2. (IF src[j] \in DOMAIN regs THEN regs[src[j]] ELSE src[j])
          = phis[j].src
    BY DEF IInv, SourcesIntact, ValueOf
  <2> QED
    BY <2>1, <2>2, <1>5
<1> QED
  BY <1>1, <1>2, <1>3, <1>5, <1>6, <1>7, EmitPreserves

LEMMA BreakCycleIInv == ASSUME IInv, BreakCycle PROVE IInv'
<1>1. phase = "emit" /\ UNCHANGED <<phase, phis>> /\ next' = next + 1
  BY DEF BreakCycle
<1>2. PICK i \in left :
        /\ regs' = [r \in DOMAIN regs \cup {next} |->
                      IF r = next THEN regs[phis[i].dst]
                      ELSE IF r = phis[i].dst THEN ValueOf(src[i])
                      ELSE regs[r]]
        /\ src' = Redirect(i)
        /\ left' = left \ {i}
  BY DEF BreakCycle
<1>3. /\ i \in Copies /\ phis[i].dst \in Vregs /\ phis[i].dst \in DOMAIN regs
      /\ phis[i].src \in Vregs \cup Consts /\ Vregs \subseteq DOMAIN regs
      /\ next \notin DOMAIN regs /\ next # phis[i].dst
      /\ \A v \in Consts : v \notin DOMAIN regs /\ v # next
      /\ \A v \in Vregs : v # next
  BY Basics DEF IInv, TypeOK
<1>4. ValueOf(src[i]) = phis[i].src
  BY DEF IInv, SourcesIntact
<1>5. /\ DOMAIN regs' = DOMAIN regs \cup {next}
      /\ regs'[next] = regs[phis[i].dst]
      /\ regs'[phis[i].dst] = phis[i].src
      /\ \A r \in DOMAIN regs : r # phis[i].dst => regs'[r] = regs[r]
  BY <1>2, <1>3, <1>4
<1>6. src \in [Copies -> DOMAIN regs \cup Consts] /\ left \subseteq Copies
  BY DEF IInv, TypeOK
<1>7. TypeOK'
  <2>1. next \in Nat /\ FirstTmp \in Nat /\ FirstTmp <= next
    BY VregsAssumption DEF IInv, TypeOK
  <2>2. FirstTmp..(next' - 1) = FirstTmp..next
    BY <2>1, <1>1
  <2>3. DOMAIN regs' = Vregs \cup (FirstTmp..(next' - 1))
    BY <2>2, <1>5, Basics DEF IInv
  <2>4. \A r \in DOMAIN regs : regs[r] \in Vregs \cup Consts
    BY DEF IInv, TypeOK
  <2>5. \A r \in DOMAIN regs' : regs'[r] \in Vregs \cup Consts
    BY <2>4, <1>2, <1>3, <1>4, <1>5
  <2>6. regs' = [r \in DOMAIN regs' |-> regs'[r]]
    BY <1>2
  <2>7. regs' \in [Vregs \cup (FirstTmp..(next' - 1)) -> Vregs \cup Consts]
    BY <2>3, <2>5, <2>6
  <2>8. src' \in [Copies -> DOMAIN regs' \cup Consts]
    BY <1>2, <1>5, <1>6 DEF Redirect
  <2> QED
    BY <2>1, <2>7, <2>8, <1>1, <1>2 DEF IInv, TypeOK, IsPhiList, Copies
<1>8. SourcesIntact'
  <2> SUFFICES ASSUME NEW j \in left, j # i
               PROVE  (IF src'[j] \in DOMAIN regs' THEN regs'[src'[j]]
                                                   ELSE src'[j]) = phis[j].src
    BY <1>1, <1>2 DEF SourcesIntact, ValueOf
  <2>1. (IF src[j] \in DOMAIN regs THEN regs[src[j]] ELSE src[j])
          = phis[j].src
    BY DEF IInv, SourcesIntact, ValueOf
  <2>2. CASE src[j] = phis[i].dst
    <3>1. src'[j] = next
      BY <2>2, <1>2, <1>6 DEF Redirect
    <3> QED
      BY <3>1, <2>1, <2>2, <1>3, <1>5
  <2>3. CASE src[j] # phis[i].dst
    <3>1. src'[j] = src[j]
      BY <2>3, <1>2, <1>6 DEF Redirect
    <3>2. src[j] # next
      BY <1>3, <1>6
    <3> QED
      BY <3>1, <3>2, <2>1, <2>3, <1>5
  <2> QED
    BY <2>2, <2>3
<1> QED
  BY <1>1, <1>2, <1>3, <1>5, <1>7, <1>8, EmitPreserves

LEMMA NextIInv == IInv /\ [Next]_vars => IInv'
<1> SUFFICES ASSUME IInv, [Next]_vars PROVE IInv'
  OBVIOUS
<1>1. CASE UNCHANGED vars
  BY <1>1 DEF vars, IInv, TypeOK, IsPhiList, Copies, NothingYet,
              SourcesIntact, ValueOf, InPlace, Untouched
<1> QED
  BY <1>1, CollectIInv, EmitLeafIInv, BreakCycleIInv DEF Next

----------------------------------------------------------------------------
(* The strengthened invariant holds of every call of emitPhiCopies.        *)
THEOREM Inductive == Spec => []IInv
  BY InitIInv, NextIInv, PTL DEF Spec

(* For every list of phis, every scratch register is a fresh one, and      *)
(* sources are constants or registers that hold a value.                   *)
THEOREM TypeCorrect == Spec => []TypeOK
<1>1. IInv => TypeOK
  BY DEF IInv
<1> QED
  BY <1>1, Inductive, PTL

(* For every list of phis and any number of cycles, a move emitted by      *)
(* emitPhiCopies never destroys a value a later move still needs.          *)
THEOREM SourcesStayIntact == Spec => []SourcesIntact
<1>1. IInv => SourcesIntact
  BY DEF IInv
<1> QED
  BY <1>1, Inductive, PTL

(* For every list of phis, emitPhiCopies leaves each phi with the value    *)
(* its incoming operand had before the edge and touches nothing else.      *)
THEOREM PhisAreSimultaneous == Spec => []PhisSimultaneous
<1>1. IInv => PhisSimultaneous
  BY DEF IInv, PhisSimultaneous, Done, InPlace, Untouched
<1> QED
  BY <1>1, Inductive, PTL

----------------------------------------------------------------------------
(* How many scratch registers.                                             *)

(* A copy whose source was redirected is one whose phi reads a register    *)
(* that has been overwritten; and no scratch is taken before the loop.     *)
ScratchInv ==
  /\ phase = "collect" => next = FirstTmp
  /\ \A i \in left : ~IsSelfCopy(phis[i])
  /\ \A i \in left :
       \/ src[i] = phis[i].src
       \/ /\ src[i] \notin Vregs
          /\ \E k \in Copies \ left : phis[k].dst = phis[i].src
  /\ ScratchPerCycle

Broken == {C \in Cycles : ~(C \subseteq left)}

(* The phis of a block are finitely many, and so are their cycles.         *)
LEMMA CyclesFinite ==
  ASSUME TypeOK
  PROVE  /\ IsFiniteSet(Copies) /\ IsFiniteSet(left)
         /\ IsFiniteSet(Cycles) /\ IsFiniteSet(Broken)
<1>1. IsFiniteSet(Copies)
  <2>1. phis \in Seq([dst : Vregs, src : Vregs \cup Consts])
    BY DEF TypeOK, IsPhiList
  <2>2. Copies = 1..Len(phis) /\ Len(phis) \in Nat
    BY <2>1 DEF Copies
  <2> QED
    BY <2>2, FS_Interval
<1>2. IsFiniteSet(SUBSET Copies)
  BY <1>1, FS_SUBSET
<1>3. Cycles \in SUBSET (SUBSET Copies) /\ Broken \in SUBSET (SUBSET Copies)
  BY DEF Cycles, Broken
<1>4. left \in SUBSET Copies
  BY DEF TypeOK
<1> QED
  BY <1>1, <1>2, <1>3, <1>4, FS_Subset

(* The copies of a cycle none of which has been emitted read what their    *)
(* phis read, and each destination is still read.                          *)
LEMMA IntactCycle ==
  ASSUME TypeOK, ScratchInv, NEW C \in SUBSET left, Turns(C), NEW i \in C
  PROVE  dstReadLater(phis[i].dst)
<1>1. C \subseteq Copies
  BY DEF TypeOK
<1>2. PICK j \in C : phis[j].src = phis[i].dst
  BY DEF Turns
<1>3. \A k \in Copies : phis[k].dst = phis[j].src => k = i
  BY <1>1, <1>2, Basics
<1>4. src[j] = phis[j].src
  BY <1>3 DEF ScratchInv
<1> QED
  BY <1>2, <1>4 DEF dstReadLater

(* When every destination left is read by a copy left, the copies left are *)
(* as many as the registers they read: each reads the destination of       *)
(* another, no two the same.                                               *)
LEMMA OnlyCyclesLeft ==
  ASSUME TypeOK, ScratchInv, \A i \in left : dstReadLater(phis[i].dst)
  PROVE  /\ {phis[i].dst : i \in left} = {phis[i].src : i \in left}
         /\ \A i, j \in left : phis[i].src = phis[j].src => i = j
<1> DEFINE D == {phis[i].dst : i \in left}
           R == {src[i] : i \in left}
           dstOf == [i \in left |-> phis[i].dst]
           srcOf == [i \in left |-> src[i]]
<1>1. left \subseteq Copies /\ IsFiniteSet(left)
  BY CyclesFinite DEF TypeOK
<1>2. \A i, j \in left : phis[i].dst = phis[j].dst => i = j
  BY <1>1, Basics
<1>3. dstOf \in Injection(left, D) /\ dstOf \in Surjection(left, D)
  BY <1>2 DEF Injection, IsInjective, Surjection
<1>4. srcOf \in Surjection(left, R)
  BY DEF Surjection
<1>5. D \in SUBSET R
  BY DEF dstReadLater
<1> HIDE DEF D, R, dstOf, srcOf
<1>6. IsFiniteSet(D) /\ Cardinality(D) = Cardinality(left)
  BY <1>1, <1>3, FS_Surjection
<1>7. IsFiniteSet(R) /\ Cardinality(R) <= Cardinality(left)
  BY <1>1, <1>4, FS_Surjection
<1>8. Cardinality(D) <= Cardinality(R)
  BY <1>5, <1>7, FS_Subset
<1>9. Cardinality(R) = Cardinality(left)
  <2>1. Cardinality(R) \in Nat /\ Cardinality(left) \in Nat
    BY <1>1, <1>7, FS_CardinalityType
  <2> QED
    BY <2>1, <1>6, <1>7, <1>8
<1>10. D = R
  BY <1>5, <1>6, <1>7, <1>9, FS_Subset
<1>11. srcOf \in Injection(left, R)
  BY <1>1, <1>4, <1>9, FS_Surjection
<1>12. \A i, j \in left : src[i] = src[j] => i = j
  BY <1>11 DEF srcOf, Injection, IsInjective
<1>13. \A i \in left : src[i] = phis[i].src
  <2> SUFFICES ASSUME NEW i \in left, src[i] # phis[i].src PROVE FALSE
    OBVIOUS
  <2>1. src[i] \in D
    BY <1>10 DEF R
  <2>2. src[i] \in Vregs
    BY <2>1, <1>1, Basics DEF D
  <2> QED
    BY <2>2 DEF ScratchInv
<1> QED
  BY <1>10, <1>12, <1>13 DEF D, R

(* Then exactly one cycle goes through each copy left: the copies that are *)
(* in every set of copies that turns and has it.                           *)
LEMMA CycleThrough ==
  ASSUME TypeOK, ScratchInv, \A i \in left : dstReadLater(phis[i].dst),
         NEW i \in left
  PROVE  \E M \in Cycles :
           /\ M \subseteq left /\ i \in M
           /\ \A C \in Cycles : C \subseteq left /\ i \in C => C = M
<1> DEFINE Round(T) == T \subseteq left /\ Turns(T) /\ i \in T
           M == {k \in left : \A T \in SUBSET left : Round(T) => k \in T}
<1>1. /\ {phis[j].dst : j \in left} = {phis[j].src : j \in left}
      /\ \A j, k \in left : phis[j].src = phis[k].src => j = k
  BY OnlyCyclesLeft
<1>2. \A j, k \in left : phis[j].dst = phis[k].dst => j = k
  BY Basics DEF TypeOK
<1>3. left \subseteq Copies /\ \A j \in left : ~IsSelfCopy(phis[j])
  BY DEF TypeOK, ScratchInv
<1>4. M \subseteq left /\ i \in M
  OBVIOUS
<1>5. \A T \in SUBSET left : Round(T) => M \subseteq T
  OBVIOUS
<1>6. Turns(M)
  <2>1. ASSUME NEW k \in M PROVE \E j \in M : phis[j].src = phis[k].dst
    <3>1. PICK j \in left : phis[j].src = phis[k].dst
      BY <1>1, <1>4, <2>1
    <3>2. ASSUME NEW T \in SUBSET left, Round(T) PROVE j \in T
      <4>1. k \in T
        BY <1>5, <2>1, <3>2
      <4>2. PICK l \in T : phis[l].src = phis[k].dst
        BY <3>2, <4>1 DEF Turns
      <4> QED
        BY <1>1, <3>1, <4>2
    <3> QED
      BY <3>1, <3>2
  <2>2. ASSUME NEW k \in M PROVE \E j \in M : phis[j].dst = phis[k].src
    <3>1. PICK j \in left : phis[j].dst = phis[k].src
      BY <1>1, <1>4, <2>2
    <3>2. ASSUME NEW T \in SUBSET left, Round(T) PROVE j \in T
      <4>1. k \in T
        BY <1>5, <2>2, <3>2
      <4>2. PICK l \in T : phis[l].dst = phis[k].src
        BY <3>2, <4>1 DEF Turns
      <4> QED
        BY <1>2, <3>1, <4>2
    <3> QED
      BY <3>1, <3>2
  <2>3. {phis[k].dst : k \in M} = {phis[k].src : k \in M}
    BY <2>1, <2>2
  <2> QED
    BY <1>3, <1>4, <2>3 DEF Turns
<1> HIDE DEF M
<1>7. ASSUME NEW T \in SUBSET M, Turns(T) PROVE T = M
  <2>1. CASE i \in T
    BY <1>4, <1>5, <1>7, <2>1
  <2>2. CASE i \notin T
    <3>1. M \ T # {} /\ i \in M \ T
      BY <1>4, <2>2
    <3>2. ASSUME NEW k \in M \ T PROVE \E j \in M \ T : phis[j].src = phis[k].dst
      <4>1. PICK j \in M : phis[j].src = phis[k].dst
        BY <1>6, <3>2 DEF Turns
      <4>2. j \notin T
        <5> SUFFICES ASSUME j \in T PROVE FALSE
          OBVIOUS
        <5>1. PICK l \in T : phis[l].dst = phis[j].src
          BY <1>7 DEF Turns
        <5> QED
          BY <1>2, <1>4, <1>7, <3>2, <4>1, <5>1
      <4> QED
        BY <4>1, <4>2
    <3>3. ASSUME NEW k \in M \ T PROVE \E j \in M \ T : phis[j].dst = phis[k].src
      <4>1. PICK j \in M : phis[j].dst = phis[k].src
        BY <1>6, <3>3 DEF Turns
      <4>2. j \notin T
        <5> SUFFICES ASSUME j \in T PROVE FALSE
          OBVIOUS
        <5>1. PICK l \in T : phis[l].src = phis[j].dst
          BY <1>7 DEF Turns
        <5>2. l \in left /\ k \in left /\ phis[l].src = phis[k].src
          BY <1>4, <1>7, <3>3, <4>1, <5>1
        <5>3. l = k
          BY <1>1, <5>2
        <5> QED
          BY <3>3, <5>1, <5>3
      <4> QED
        BY <4>1, <4>2
    <3>4. {phis[k].dst : k \in M \ T} = {phis[k].src : k \in M \ T}
      <4>1. \A k \in M \ T : \E j \in M \ T : phis[k].dst = phis[j].src
        BY <3>2
      <4>2. \A k \in M \ T : \E j \in M \ T : phis[k].src = phis[j].dst
        BY <3>3
      <4> QED
        BY <4>1, <4>2, Zenon
    <3>5. Round(M \ T)
      BY <1>3, <1>4, <3>1, <3>4 DEF Turns
    <3>6. M \subseteq M \ T
      BY <1>4, <1>5, <3>5
    <3> QED
      BY <3>6, <1>7 DEF Turns
  <2> QED
    BY <2>1, <2>2
<1>8. M \in Cycles
  BY <1>3, <1>4, <1>6, <1>7 DEF Cycles
<1>9. ASSUME NEW C \in Cycles, C \subseteq left, i \in C PROVE C = M
  <2>1. Round(C)
    BY <1>9 DEF Cycles
  <2>2. M \in SUBSET C
    BY <1>5, <1>9, <2>1
  <2> QED
    BY <1>6, <1>9, <2>2 DEF Cycles
<1> QED
  BY <1>4, <1>8, <1>9

(* The graph of the copies does not change.                                *)
LEMMA SameCycles ==
  ASSUME phis' = phis
  PROVE  /\ Copies' = Copies /\ Cycles' = Cycles
         /\ Broken' = {C \in Cycles : ~(C \subseteq left')}
  BY DEF Copies, Cycles, Turns, Broken

(* A leaf is on no cycle that is still whole.                              *)
LEMMA LeafScratch ==
  ASSUME TypeOK, ScratchInv, EmitLeaf
  PROVE  ScratchInv'
<1>1. phase = "emit" /\ UNCHANGED <<phase, phis, src, next>>
  BY DEF EmitLeaf
<1>2. PICK i \in left : ~dstReadLater(phis[i].dst) /\ left' = left \ {i}
  BY DEF EmitLeaf
<1>3. \A C \in Cycles : C \subseteq left' <=> C \subseteq left
  <2> SUFFICES ASSUME NEW C \in Cycles, C \subseteq left, i \in C PROVE FALSE
    BY <1>2
  <2> QED
    BY <1>2, IntactCycle DEF Cycles
<1>4. Broken' = Broken
  BY <1>1, <1>3, SameCycles DEF Broken
<1>5. ScratchPerCycle'
  BY <1>1, <1>4 DEF ScratchInv, ScratchPerCycle, Broken
<1>6. \A j \in left' : ~IsSelfCopy(phis'[j])
  BY <1>1, <1>2 DEF ScratchInv
<1>7. Copies' \ left' = (Copies \ left) \cup {i}
  BY <1>1, <1>2, SameCycles DEF TypeOK
<1>8. ASSUME NEW j \in left'
      PROVE  \/ src'[j] = phis'[j].src
             \/ /\ src'[j] \notin Vregs
                /\ \E k \in Copies' \ left' : phis'[k].dst = phis'[j].src
  BY <1>1, <1>2, <1>7, <1>8 DEF ScratchInv
<1> QED
  BY <1>1, <1>5, <1>6, <1>8 DEF ScratchInv

(* Breaking a cycle takes one scratch and leaves exactly one cycle less    *)
(* whole.                                                                  *)
LEMMA BreakScratch ==
  ASSUME TypeOK, ScratchInv, BreakCycle
  PROVE  ScratchInv'
<1>1. phase = "emit" /\ UNCHANGED <<phase, phis>> /\ next' = next + 1
  BY DEF BreakCycle
<1>2. PICK i \in left : src' = Redirect(i) /\ left' = left \ {i}
  BY DEF BreakCycle
<1>3. \A j \in left : dstReadLater(phis[j].dst)
  BY DEF BreakCycle
<1>4. PICK M \in Cycles :
        /\ M \subseteq left /\ i \in M
        /\ \A C \in Cycles : C \subseteq left /\ i \in C => C = M
  BY <1>3, CycleThrough
<1>5. M \notin Broken /\ Broken' = Broken \cup {M}
  BY <1>1, <1>2, <1>4, SameCycles DEF Broken
<1>6. Cardinality(Broken') = Cardinality(Broken) + 1
  BY <1>5, CyclesFinite, FS_AddElement
<1>7. next - FirstTmp = Cardinality(Broken)
  BY <1>1 DEF ScratchInv, ScratchPerCycle, Broken
<1>8. next \in Nat /\ FirstTmp \in Nat
  BY VregsAssumption DEF TypeOK
<1>9. next' - FirstTmp = Cardinality(Broken')
  BY <1>1, <1>6, <1>7, <1>8
<1>10. ScratchPerCycle'
  BY <1>9 DEF ScratchPerCycle, Broken
<1>11. \A j \in left' : ~IsSelfCopy(phis'[j])
  BY <1>1, <1>2 DEF ScratchInv
<1>12. Copies' \ left' = (Copies \ left) \cup {i} /\ left \subseteq Copies
  BY <1>1, <1>2, SameCycles DEF TypeOK
<1>13. next \notin Vregs
  BY Basics
<1>14. ASSUME NEW j \in left'
       PROVE  \/ src'[j] = phis'[j].src
              \/ /\ src'[j] \notin Vregs
                 /\ \E k \in Copies' \ left' : phis'[k].dst = phis'[j].src
  <2>1. j \in left /\ j # i /\ j \in Copies
    BY <1>2, <1>12, <1>14
  <2>2. CASE src[j] = phis[i].dst
    <3>1. src'[j] = next
      BY <1>2, <2>1, <2>2 DEF Redirect
    <3>2. phis[i].dst \in Vregs
      BY <1>12, Basics
    <3>3. src[j] = phis[j].src
      BY <2>1, <2>2, <3>2 DEF ScratchInv
    <3> QED
      BY <1>1, <1>12, <1>13, <2>2, <3>1, <3>3
  <2>3. CASE src[j] # phis[i].dst
    <3>1. src'[j] = src[j]
      BY <1>2, <2>1, <2>3 DEF Redirect
    <3> QED
      BY <1>1, <1>12, <2>1, <3>1 DEF ScratchInv
  <2> QED
    BY <2>2, <2>3
<1> QED
  BY <1>1, <1>10, <1>11, <1>14 DEF ScratchInv

LEMMA CollectScratch ==
  ASSUME IInv, ScratchInv, Collect
  PROVE  ScratchInv'
<1>1. /\ phase = "collect" /\ phase' = "emit" /\ UNCHANGED <<phis, src, next>>
      /\ left' = {i \in Copies : ~IsSelfCopy(phis[i])}
  BY DEF Collect
<1>2. next = FirstTmp /\ src = [i \in Copies |-> phis[i].src]
  BY <1>1 DEF IInv, NothingYet, ScratchInv
<1>3. Broken' = {}
  BY <1>1, SameCycles DEF Cycles, Turns
<1>4. next' - FirstTmp = Cardinality(Broken')
  BY <1>1, <1>2, <1>3, FS_EmptySet, VregsAssumption
<1> QED
  BY <1>1, <1>2, <1>4 DEF ScratchInv, ScratchPerCycle, Broken

(* For every list of phis, emitPhiCopies takes a scratch register for each *)
(* cycle it breaks and for nothing else, whatever hangs off the cycles and *)
(* in whichever order the phis are listed.                                 *)
THEOREM OneScratchPerCycle == Spec => []ScratchPerCycle
<1>1. Init => ScratchInv
  BY DEF Init, ScratchInv, ScratchPerCycle
<1>2. IInv /\ ScratchInv /\ [Next]_vars => ScratchInv'
  <2> SUFFICES ASSUME IInv, ScratchInv, [Next]_vars PROVE ScratchInv'
    OBVIOUS
  <2>1. CASE UNCHANGED vars
    <3>1. /\ phase' = phase /\ phis' = phis /\ src' = src /\ left' = left
          /\ next' = next
      BY <2>1 DEF vars
    <3>2. Copies' = Copies /\ Broken' = Broken
      BY <3>1, SameCycles DEF Broken
    <3> QED
      BY <3>1, <3>2 DEF ScratchInv, ScratchPerCycle, Broken
  <2> QED
    BY <2>1, CollectScratch, LeafScratch, BreakScratch DEF Next, IInv
<1>3. ScratchInv => ScratchPerCycle
  BY DEF ScratchInv
<1> QED
  BY <1>1, <1>2, <1>3, Inductive, PTL DEF Spec

----------------------------------------------------------------------------
(* Control flow.                                                           *)

(* A control-flow graph of the IR: a branch has one target, and every      *)
(* target is a block.                                                      *)
ControlFlow(t) ==
  \A b \in DOMAIN t :
    /\ t[b].op \in {"ret", "br", "condbr"}
    /\ t[b].op # "ret" => t[b].thenB \in DOMAIN t /\ t[b].elseB \in DOMAIN t
    /\ t[b].op = "br" => t[b].thenB = t[b].elseB

IsFunction(g) ==
  /\ \E n \in Nat \ {0} : DOMAIN g.term = 1..n /\ Len(g.term) = n
  /\ ControlFlow(g.term)

(* Where control of the lowered code is on its way to: the goal, at every  *)
(* place between two blocks.                                               *)
EdgesInv(g) ==
  /\ f = g
  /\ blk \in Blocks /\ taken \in BOOLEAN
  /\ pc = "body" => goal = blk
  /\ pc = "jump" => f.term[blk].op # "ret" /\ goal = f.term[blk].thenB
  /\ pc \in {"then", "else", "branch", "edge1", "edge0"} =>
       f.term[blk].op = "condbr" /\ goal = Target(blk, taken)
  /\ pc = "edge1" => taken
  /\ pc = "edge0" => ~taken

----------------------------------------------------------------------------
(* The label of an edge block is none of a block and of no other edge.     *)
LEMMA EdgeLabels ==
  ASSUME NEW g, IsFunction(g), f = g, NEW b \in Blocks, NEW arm \in BOOLEAN
  PROVE  EdgeLabel(b, arm) \notin Blocks /\ EdgeLabel(b, TRUE) # EdgeLabel(b, FALSE)
<1>1. PICK n \in Nat \ {0} : Blocks = 1..n /\ Len(f.term) = n
  BY DEF IsFunction, Blocks
<1>2. b \in Nat /\ b >= 1
  BY <1>1
<1> QED
  BY <1>1, <1>2 DEF EdgeLabel

(* Left out or not, a branch leads to the label of the arm it is for.      *)
LEMMA BranchToArm ==
  ASSUME NEW b, NEW t \in BOOLEAN
  PROVE  BranchTo(b, t) = armLabel(b, t)
  BY DEF BranchTo

LEMMA InitEdges ==
  ASSUME NEW g, IsFunction(g), EdgesStartWith(g)
  PROVE  EdgesInv(g)
<1>1. 1 \in DOMAIN g.term
  BY DEF IsFunction
<1> QED
  BY <1>1 DEF EdgesStartWith, EdgesInv, Blocks

LEMMA StepEdges ==
  ASSUME NEW g, IsFunction(g), EdgesInv(g), [EdgesNext]_edgeVars
  PROVE  EdgesInv(g)'
<1>1. f = g /\ blk \in Blocks /\ taken \in BOOLEAN /\ Blocks = DOMAIN f.term
  BY DEF EdgesInv, Blocks
<1>2. /\ f.term[blk].op \in {"ret", "br", "condbr"}
      /\ f.term[blk].op # "ret" => \A arm \in BOOLEAN : Target(blk, arm) \in Blocks
      /\ f.term[blk].op = "br" => f.term[blk].thenB = f.term[blk].elseB
  BY <1>1 DEF IsFunction, ControlFlow, Target
<1>3. CASE Body
  <2>1. UNCHANGED <<f, blk>> /\ taken' \in BOOLEAN /\ (HasConstCond(blk) => taken')
    BY <1>3 DEF Body
  <2>2. CASE f.term[blk].op = "ret"
    <3>1. pc' = "returned"
      BY <1>3, <2>2 DEF Body
    <3> QED
      BY <1>1, <2>1, <3>1 DEF EdgesInv, Blocks
  <2>3. CASE f.term[blk].op # "ret"
    <3>1. goal' = Target(blk, taken') /\ pc' = IF IsJump(blk) THEN "jump" ELSE "then"
      BY <1>3, <2>3 DEF Body
    <3>2. CASE IsJump(blk)
      <4>1. goal' = f.term[blk].thenB
        BY <1>2, <2>1, <3>1, <3>2 DEF IsJump, HasConstCond, Target
      <4> QED
        BY <1>1, <2>1, <2>3, <3>1, <3>2, <4>1 DEF EdgesInv, Blocks
    <3>3. CASE ~IsJump(blk)
      <4>1. f.term[blk].op = "condbr"
        BY <1>2, <2>3, <3>3 DEF IsJump
      <4> QED
        BY <1>1, <2>1, <3>1, <3>3, <4>1 DEF EdgesInv, Blocks, Target
    <3> QED
      BY <3>2, <3>3
  <2> QED
    BY <2>2, <2>3
<1>4. CASE Jump
  <2>1. /\ UNCHANGED <<f, taken, goal>> /\ pc' = "body" /\ blk' = f.term[blk].thenB
        /\ pc = "jump"
    BY <1>4 DEF Jump
  <2>2. blk' \in Blocks /\ goal = blk'
    BY <1>2, <2>1 DEF EdgesInv, Target
  <2> QED
    BY <1>1, <2>1, <2>2 DEF EdgesInv, Blocks
<1>5. CASE ThenArm \/ ElseArm
  <2>1. /\ pc \in {"then", "else"} /\ pc' \in {"else", "branch"}
        /\ UNCHANGED <<f, blk, taken, goal>>
    BY <1>5 DEF ThenArm, ElseArm, Arm
  <2>2. f.term[blk].op = "condbr" /\ goal = Target(blk, taken)
    BY <2>1 DEF EdgesInv
  <2> QED
    BY <1>1, <2>1, <2>2 DEF EdgesInv, Blocks, Target
<1>6. CASE Branch
  <2> DEFINE to == armLabel(blk, taken)
  <2>1. /\ pc = "branch" /\ UNCHANGED <<f, taken, goal>>
        /\ IF to \in Blocks THEN blk' = to /\ pc' = "body"
           ELSE /\ blk' = blk
                /\ pc' = IF to = EdgeLabel(blk, TRUE) THEN "edge1" ELSE "edge0"
    BY <1>1, <1>6, BranchToArm DEF Branch
  <2>2. f.term[blk].op = "condbr" /\ goal = Target(blk, taken)
    BY <2>1 DEF EdgesInv
  <2>3. to = Target(blk, taken) \/ to = EdgeLabel(blk, taken)
    BY <1>1 DEF armLabel, Target
  <2>4. /\ Target(blk, taken) \in Blocks /\ EdgeLabel(blk, taken) \notin Blocks
        /\ EdgeLabel(blk, TRUE) # EdgeLabel(blk, FALSE)
    BY <1>1, <1>2, <2>2, EdgeLabels
  <2> HIDE DEF to
  <2>5. CASE to \in Blocks
    BY <1>1, <2>1, <2>2, <2>3, <2>4, <2>5 DEF EdgesInv, Blocks
  <2>6. CASE to \notin Blocks
    <3>1. to = EdgeLabel(blk, taken)
      BY <2>3, <2>4, <2>6
    <3>2. \/ pc' = "edge1" /\ taken = TRUE
          \/ pc' = "edge0" /\ taken = FALSE
      <4>1. CASE taken = TRUE
        BY <2>1, <2>6, <3>1, <4>1
      <4>2. CASE taken = FALSE
        BY <2>1, <2>4, <2>6, <3>1, <4>2
      <4> QED
        BY <1>1, <4>1, <4>2
    <3> QED
      BY <1>1, <2>1, <2>2, <2>6, <3>2 DEF EdgesInv, Blocks, Target
  <2> QED
    BY <2>5, <2>6
<1>7. CASE EdgeBlock
  <2>1. /\ UNCHANGED <<f, taken, goal>> /\ pc' = "body"
        /\ pc \in {"edge1", "edge0"} /\ blk' = Target(blk, pc = "edge1")
    BY <1>7 DEF EdgeBlock
  <2>2. f.term[blk].op = "condbr" /\ goal = Target(blk, taken) /\ taken = (pc = "edge1")
    BY <1>1, <2>1 DEF EdgesInv
  <2> QED
    BY <1>1, <1>2, <2>1, <2>2 DEF EdgesInv, Blocks
<1>8. CASE UNCHANGED edgeVars
  BY <1>8 DEF edgeVars, EdgesInv, Blocks, Target
<1> QED
  BY <1>3, <1>4, <1>5, <1>6, <1>7, <1>8 DEF EdgesNext

(* Whichever branches are left out because their target comes next, and    *)
(* whichever edges get a block of their own, control of the lowered code   *)
(* is always where control of the function is.                             *)
THEOREM ControlIsFollowed ==
  ASSUME NEW g, IsFunction(g)
  PROVE  EdgesSpec(g) => []ControlFollows
<1>1. EdgesStartWith(g) => EdgesInv(g)
  BY InitEdges
<1>2. EdgesInv(g) /\ [EdgesNext]_edgeVars => EdgesInv(g)'
  BY StepEdges
<1>3. EdgesInv(g) => ControlFollows
  BY DEF EdgesInv, ControlFollows
<1> QED
  BY <1>1, <1>2, <1>3, PTL DEF EdgesSpec
=============================================================================
