---------------------------- MODULE MoveOptProofs ----------------------------
(* Proofs that the read counts MoveOpt goes by are upper bounds, for every *)
(* function over any set of registers and any number of rounds.            *)
EXTENDS MoveOpt, FiniteSetTheorems, SequenceTheorems, TLAPS

(* A copy has one operand.                                                 *)
Instructions(R) ==
  {m \in [op : Ops, dst : R \cup {NoReg}, use : Seq(R), imm : Int] :
     m.op = "Move" => Len(m.use) = 1}

Programs(R) == Seq(Seq(Instructions(R)))

----------------------------------------------------------------------------
(* Sequences.                                                              *)

LEMMA Removed ==
  ASSUME NEW S, NEW s \in Seq(S), NEW i \in 1..Len(s)
  PROVE  /\ RemoveAt(s, i) \in Seq(S)
         /\ Len(RemoveAt(s, i)) = Len(s) - 1
         /\ \A k \in 1..(Len(s) - 1) :
              RemoveAt(s, i)[k] = IF k < i THEN s[k] ELSE s[k + 1]
<1>1. Len(s) \in Nat /\ i \in Nat /\ i >= 1 /\ i <= Len(s)
  OBVIOUS
<1>2. /\ SubSeq(s, 1, i - 1) \in Seq(S)
      /\ Len(SubSeq(s, 1, i - 1)) = i - 1
      /\ \A k \in 1..(i - 1) : SubSeq(s, 1, i - 1)[k] = s[k]
  BY <1>1
<1>3. /\ SubSeq(s, i + 1, Len(s)) \in Seq(S)
      /\ Len(SubSeq(s, i + 1, Len(s))) = Len(s) - i
      /\ \A k \in 1..(Len(s) - i) : SubSeq(s, i + 1, Len(s))[k] = s[k + i]
  BY <1>1
<1> DEFINE a == SubSeq(s, 1, i - 1)
           b == SubSeq(s, i + 1, Len(s))
<1> HIDE DEF a, b
<1>4. /\ a \in Seq(S) /\ Len(a) = i - 1 /\ \A k \in 1..(i - 1) : a[k] = s[k]
      /\ b \in Seq(S) /\ Len(b) = Len(s) - i
      /\ \A k \in 1..(Len(s) - i) : b[k] = s[k + i]
  BY <1>2, <1>3 DEF a, b
<1>5. /\ a \o b \in Seq(S) /\ Len(a \o b) = Len(s) - 1
      /\ \A k \in 1..(Len(s) - 1) :
           (a \o b)[k] = IF k <= i - 1 THEN a[k] ELSE b[k - (i - 1)]
  <2>1. Len(a) + Len(b) = Len(s) - 1
    BY <1>1, <1>4
  <2>2. /\ a \o b \in Seq(S)
        /\ Len(a \o b) = Len(a) + Len(b)
        /\ \A k \in 1..(Len(a) + Len(b)) :
             (a \o b)[k] = IF k <= Len(a) THEN a[k] ELSE b[k - Len(a)]
    BY <1>4, ConcatProperties
  <2> QED
    BY <2>1, <2>2, <1>4
<1>6. RemoveAt(s, i) = a \o b
  BY DEF RemoveAt, a, b
<1>7. ASSUME NEW k \in 1..(Len(s) - 1)
      PROVE  (a \o b)[k] = IF k < i THEN s[k] ELSE s[k + 1]
  <2>1. CASE k < i
    BY <2>1, <1>1, <1>4, <1>5
  <2>2. CASE ~(k < i)
    <3>1. k - (i - 1) \in 1..(Len(s) - i) /\ (k - (i - 1)) + i = k + 1
      BY <2>2, <1>1
    <3> QED
      BY <2>2, <3>1, <1>1, <1>4, <1>5
  <2> QED
    BY <2>1, <2>2
<1> QED
  BY <1>5, <1>6, <1>7

(* The values of a function on a finite set are finitely many.             *)
LEMMA FiniteValues ==
  ASSUME NEW S, IsFiniteSet(S), NEW f, DOMAIN f = S
  PROVE  IsFiniteSet({f[x] : x \in S})
<1> DEFINE T == {f[x] : x \in S}
           h == [x \in S |-> f[x]]
<1>1. h \in Surjection(S, T)
  BY DEF Surjection
<1> QED
  BY <1>1, FS_Surjection

----------------------------------------------------------------------------
(* Places.                                                                 *)

LEMMA ReadsMember ==
  ASSUME NEW g, NEW r, NEW p
  PROVE  p \in ReadsAt(g, r) <=>
           \E b \in DOMAIN g : \E k \in DOMAIN g[b] :
             \E n \in DOMAIN g[b][k].use : p = <<b, k, n>> /\ g[b][k].use[n] = r
  BY DEF ReadsAt, Blocks

LEMMA ReadsFinite ==
  ASSUME NEW R, NEW g \in Programs(R), NEW r
  PROVE  IsFiniteSet(ReadsAt(g, r))
<1> DEFINE Read(b, k) == {n \in DOMAIN g[b][k].use : g[b][k].use[n] = r}
           AtInst(b, k) == {<<b, k, n>> : n \in Read(b, k)}
           InBlock(b) == UNION {AtInst(b, k) : k \in DOMAIN g[b]}
<1>1. ASSUME NEW b \in DOMAIN g, NEW k \in DOMAIN g[b]
      PROVE  IsFiniteSet(AtInst(b, k))
  <2>1. g[b][k].use \in Seq(R)
    BY DEF Programs, Instructions
  <2>2. DOMAIN g[b][k].use = 1..Len(g[b][k].use) /\ Len(g[b][k].use) \in Nat
    BY <2>1
  <2>3. IsFiniteSet(Read(b, k))
    <3>1. IsFiniteSet(1..Len(g[b][k].use))
      BY <2>2, FS_Interval
    <3> QED
      BY <2>2, <3>1, FS_Subset
  <2> DEFINE N == Read(b, k)
             f == [n \in N |-> <<b, k, n>>]
  <2>4. {f[n] : n \in N} = {<<b, k, n>> : n \in N} /\ DOMAIN f = N
    OBVIOUS
  <2>5. IsFiniteSet(N)
    BY <2>3
  <2> HIDE DEF N, f
  <2>6. IsFiniteSet({<<b, k, n>> : n \in N})
    BY <2>4, <2>5, FiniteValues
  <2> QED
    BY <2>6 DEF N
<1> HIDE DEF AtInst
<1>2. ASSUME NEW b \in DOMAIN g
      PROVE  IsFiniteSet(InBlock(b))
  <2>1. DOMAIN g[b] = 1..Len(g[b]) /\ Len(g[b]) \in Nat
    BY DEF Programs
  <2>2. IsFiniteSet(DOMAIN g[b])
    <3>1. IsFiniteSet(1..Len(g[b]))
      BY <2>1, FS_Interval
    <3> QED
      BY <2>1, <3>1
  <2> DEFINE f == [j \in DOMAIN g[b] |-> AtInst(b, j)]
  <2>3. {f[k] : k \in DOMAIN g[b]} = {AtInst(b, k) : k \in DOMAIN g[b]}
    OBVIOUS
  <2>4. DOMAIN f = DOMAIN g[b]
    OBVIOUS
  <2> HIDE DEF f
  <2>5. IsFiniteSet({AtInst(b, k) : k \in DOMAIN g[b]})
    BY <2>2, <2>3, <2>4, FiniteValues
  <2> QED
    BY <1>1, <2>5, FS_UNION DEF InBlock
<1> HIDE DEF InBlock
<1>3. DOMAIN g = 1..Len(g) /\ Len(g) \in Nat
  BY DEF Programs
<1>4. IsFiniteSet(DOMAIN g)
  BY <1>3, FS_Interval
<1> DEFINE h == [c \in DOMAIN g |-> InBlock(c)]
<1>5. {h[b] : b \in DOMAIN g} = {InBlock(b) : b \in DOMAIN g} /\ DOMAIN h = DOMAIN g
  OBVIOUS
<1> HIDE DEF h
<1>6. IsFiniteSet({InBlock(b) : b \in DOMAIN g})
  BY <1>4, <1>5, FiniteValues
<1>7. IsFiniteSet(UNION {InBlock(b) : b \in DOMAIN g})
  BY <1>2, <1>6, FS_UNION
<1>8. ReadsAt(g, r) = UNION {InBlock(b) : b \in DOMAIN g}
  BY DEF ReadsAt, Blocks, InBlock, AtInst
<1> QED
  BY <1>7, <1>8

----------------------------------------------------------------------------
(* The rewrites.  In each the copy at place k0 of block b0 goes, after      *)
(* blk, the rewritten block, has got new destinations, or another source   *)
(* for the store below the copy.                                           *)

(* g with the instruction k0 of blk, in place of block b0, taken out.      *)
Without(g, b0, k0, blk) == [g EXCEPT ![b0] = RemoveAt(blk, k0)]

LEMMA StillProgram ==
  ASSUME NEW R, NEW g \in Programs(R), NEW b0 \in DOMAIN g,
         NEW blk \in Seq(Instructions(R)), NEW k0 \in 1..Len(blk)
  PROVE  Without(g, b0, k0, blk) \in Programs(R)
<1>1. RemoveAt(blk, k0) \in Seq(Instructions(R))
  BY Removed
<1> QED
  BY <1>1 DEF Programs, Without

(* Where the instructions left come from.                                  *)
LEMMA Places ==
  ASSUME NEW R, NEW g \in Programs(R), NEW b0 \in DOMAIN g,
         NEW blk \in Seq(Instructions(R)), NEW k0 \in 1..Len(blk),
         Len(blk) = Len(g[b0]),
         NEW b \in DOMAIN Without(g, b0, k0, blk),
         NEW k \in DOMAIN Without(g, b0, k0, blk)[b]
  PROVE  /\ b \in DOMAIN g
         /\ b # b0 => k \in DOMAIN g[b] /\ Without(g, b0, k0, blk)[b][k] = g[b][k]
         /\ b = b0 /\ k < k0 =>
              k \in DOMAIN g[b] /\ Without(g, b0, k0, blk)[b][k] = blk[k]
         /\ b = b0 /\ ~(k < k0) =>
              k + 1 \in DOMAIN g[b] /\ Without(g, b0, k0, blk)[b][k] = blk[k + 1]
         /\ k \in Nat
<1>1. /\ g \in Seq(Seq(Instructions(R)))
      /\ DOMAIN Without(g, b0, k0, blk) = DOMAIN g
      /\ Without(g, b0, k0, blk)[b] = IF b = b0 THEN RemoveAt(blk, k0) ELSE g[b]
  BY DEF Programs, Without
<1>2. CASE b # b0
  <2>1. g[b] \in Seq(Instructions(R))
    BY <1>1
  <2>2. DOMAIN g[b] = 1..Len(g[b]) /\ Len(g[b]) \in Nat
    BY <2>1
  <2> QED
    BY <1>1, <1>2, <2>2
<1>3. CASE b = b0
  <2>1. /\ RemoveAt(blk, k0) \in Seq(Instructions(R))
        /\ Len(RemoveAt(blk, k0)) = Len(blk) - 1
        /\ \A j \in 1..(Len(blk) - 1) :
             RemoveAt(blk, k0)[j] = IF j < k0 THEN blk[j] ELSE blk[j + 1]
    BY Removed
  <2>2. DOMAIN RemoveAt(blk, k0) = 1..(Len(blk) - 1) /\ Len(blk) \in Nat
    BY <2>1
  <2>3. g[b] \in Seq(Instructions(R))
    BY <1>1
  <2>4. DOMAIN g[b] = 1..Len(blk)
    BY <1>3, <2>3
  <2>5. k \in 1..(Len(blk) - 1)
    BY <1>1, <1>3, <2>2
  <2> QED
    BY <1>1, <1>3, <2>1, <2>2, <2>4, <2>5
<1> QED
  BY <1>2, <1>3

(* The operand n of instruction k is what it was, or, if the copy's source *)
(* has moved into the store below it, what the copy read.                  *)
OperandsKept(blk, old, k0, moved) ==
  /\ Len(blk) = Len(old)
  /\ moved => 1 \in DOMAIN old[k0].use
  /\ \A k \in 1..Len(old) : \A n \in DOMAIN blk[k].use :
       /\ n \in DOMAIN old[k].use
       /\ blk[k].use[n] = IF moved /\ k = k0 + 1 /\ n = 1
                          THEN old[k0].use[1] ELSE old[k].use[n]

(* The place in g of an operand of the code without the copy.              *)
Origin(b0, k0, moved, p) ==
  IF p[1] = b0 /\ ~(p[2] < k0) /\ ~(moved /\ p[2] = k0 /\ p[3] = 1)
  THEN <<p[1], p[2] + 1, p[3]>> ELSE p

(* No register is read more often than before.                             *)
LEMMA FewerReads ==
  ASSUME NEW R, NEW g \in Programs(R), NEW b0 \in DOMAIN g,
         NEW blk \in Seq(Instructions(R)), NEW k0 \in 1..Len(blk),
         NEW moved \in BOOLEAN, OperandsKept(blk, g[b0], k0, moved), NEW r
  PROVE  Cardinality(ReadsAt(Without(g, b0, k0, blk), r)) <= Cardinality(ReadsAt(g, r))
<1> DEFINE S == ReadsAt(Without(g, b0, k0, blk), r)
           T == ReadsAt(g, r)
           f == [p \in S |-> Origin(b0, k0, moved, p)]
<1>1. Len(blk) = Len(g[b0]) /\ Len(blk) \in Nat /\ k0 \in Nat
  BY DEF OperandsKept
<1>2. ASSUME NEW p \in S
      PROVE  p \in (DOMAIN g) \X Nat \X Nat /\ Origin(b0, k0, moved, p) \in T
  <2>1. PICK b \in DOMAIN Without(g, b0, k0, blk) :
               \E k \in DOMAIN Without(g, b0, k0, blk)[b] :
                 \E n \in DOMAIN Without(g, b0, k0, blk)[b][k].use :
                   p = <<b, k, n>> /\ Without(g, b0, k0, blk)[b][k].use[n] = r
    BY ReadsMember
  <2>2. PICK k \in DOMAIN Without(g, b0, k0, blk)[b] :
               \E n \in DOMAIN Without(g, b0, k0, blk)[b][k].use :
                 p = <<b, k, n>> /\ Without(g, b0, k0, blk)[b][k].use[n] = r
    BY <2>1
  <2>3. PICK n \in DOMAIN Without(g, b0, k0, blk)[b][k].use :
               p = <<b, k, n>> /\ Without(g, b0, k0, blk)[b][k].use[n] = r
    BY <2>2
  <2> DEFINE m == Without(g, b0, k0, blk)[b][k]
  <2>4. b \in DOMAIN g /\ k \in Nat /\ n \in DOMAIN m.use /\ m.use[n] = r
    BY <1>1, <2>3, Places
  <2>5. ASSUME NEW j \in DOMAIN g[b]
        PROVE  DOMAIN g[b][j].use \subseteq Nat
    <3>1. g[b] \in Seq(Instructions(R))
      BY <2>4 DEF Programs
    <3>2. g[b][j] \in Instructions(R)
      BY <3>1
    <3>3. g[b][j].use \in Seq(R)
      BY <3>2 DEF Instructions
    <3> QED
      BY <3>3
  <2>6. ASSUME NEW j \in DOMAIN g[b], NEW i \in DOMAIN g[b][j].use, g[b][j].use[i] = r
        PROVE  <<b, j, i>> \in T
    BY <2>4, <2>6, ReadsMember
  <2> HIDE DEF T
  <2>7. CASE b # b0
    <3>1. k \in DOMAIN g[b] /\ m = g[b][k]
      BY <1>1, <2>7, Places
    <3>2. n \in Nat /\ <<b, k, n>> \in T
      BY <2>4, <2>5, <2>6, <3>1
    <3>3. Origin(b0, k0, moved, p) = p
      BY <2>3, <2>7 DEF Origin
    <3> QED
      BY <2>3, <2>4, <3>2, <3>3
  <2>8. CASE b = b0
    <3>1. DOMAIN g[b] = 1..Len(g[b0])
      BY <2>8 DEF Programs
    <3>2. ASSUME NEW j \in 1..Len(g[b0]), m = blk[j]
          PROVE  /\ n \in DOMAIN g[b][j].use /\ n \in Nat
                 /\ ~(moved /\ j = k0 + 1 /\ n = 1) => <<b, j, n>> \in T
                 /\ moved /\ j = k0 + 1 /\ n = 1 => <<b, k0, 1>> \in T
      <4>1. /\ n \in DOMAIN g[b][j].use
            /\ r = IF moved /\ j = k0 + 1 /\ n = 1 THEN g[b][k0].use[1] ELSE g[b][j].use[n]
        BY <2>4, <2>8, <3>2 DEF OperandsKept
      <4>2. n \in Nat
        BY <2>5, <3>1, <4>1
      <4>3. moved => 1 \in DOMAIN g[b][k0].use /\ k0 \in DOMAIN g[b]
        BY <1>1, <2>8, <3>1 DEF OperandsKept
      <4> QED
        BY <2>6, <3>1, <4>1, <4>2, <4>3
    <3>3. CASE k < k0
      <4>1. k \in DOMAIN g[b] /\ m = blk[k]
        BY <1>1, <2>8, <3>3, Places
      <4>2. k # k0 + 1
        BY <1>1, <2>4, <3>3
      <4>3. Origin(b0, k0, moved, p) = p
        BY <2>3, <3>3 DEF Origin
      <4> QED
        BY <2>3, <2>4, <3>1, <3>2, <4>1, <4>2, <4>3
    <3>4. CASE ~(k < k0)
      <4>1. k + 1 \in DOMAIN g[b] /\ m = blk[k + 1]
        BY <1>1, <2>8, <3>4, Places
      <4>2. k + 1 = k0 + 1 <=> k = k0
        BY <1>1, <2>4
      <4>3. CASE moved /\ k = k0 /\ n = 1
        <5>1. Origin(b0, k0, moved, p) = <<b, k0, 1>>
          BY <2>3, <4>3 DEF Origin
        <5> QED
          BY <2>3, <2>4, <3>1, <3>2, <4>1, <4>2, <4>3, <5>1
      <4>4. CASE ~(moved /\ k = k0 /\ n = 1)
        <5>1. Origin(b0, k0, moved, p) = <<b, k + 1, n>>
          BY <2>3, <2>8, <3>4, <4>4 DEF Origin
        <5> QED
          BY <2>3, <2>4, <3>1, <3>2, <4>1, <4>2, <4>4, <5>1
      <4> QED
        BY <4>3, <4>4
    <3> QED
      BY <3>3, <3>4
  <2> QED
    BY <2>7, <2>8
<1> HIDE DEF S, T
<1>3. f \in [S -> T]
  BY <1>2
<1>4. ASSUME NEW p \in S, NEW q \in S, f[p] = f[q]
      PROVE  p = q
  <2>1. p \in (DOMAIN g) \X Nat \X Nat /\ q \in (DOMAIN g) \X Nat \X Nat
    BY <1>2
  <2>2. p = <<p[1], p[2], p[3]>> /\ q = <<q[1], q[2], q[3]>>
    BY <2>1
  <2>3. p[2] \in Nat /\ q[2] \in Nat /\ k0 \in Nat
    BY <2>1
  <2> DEFINE up(c, k, n) ==
        IF c = b0 /\ ~(k < k0) /\ ~(moved /\ k = k0 /\ n = 1) THEN k + 1 ELSE k
  <2>4. Origin(b0, k0, moved, p) = <<p[1], up(p[1], p[2], p[3]), p[3]>>
    BY <2>2 DEF Origin
  <2>5. Origin(b0, k0, moved, q) = <<q[1], up(q[1], q[2], q[3]), q[3]>>
    BY <2>2 DEF Origin
  <2>6. Origin(b0, k0, moved, p) = Origin(b0, k0, moved, q)
    BY <1>4
  <2>7. p[1] = q[1] /\ p[3] = q[3] /\ up(p[1], p[2], p[3]) = up(q[1], q[2], q[3])
    <3> HIDE DEF up
    <3> QED
      BY <2>4, <2>5, <2>6
  <2>8. p[2] = q[2]
    BY <2>3, <2>7
  <2> QED
    BY <2>2, <2>7, <2>8
<1>5. f \in Injection(S, T)
  BY <1>3, <1>4 DEF Injection, IsInjective
<1>6. IsFiniteSet(T)
  BY ReadsFinite DEF T
<1> HIDE DEF f
<1>7. Cardinality(S) <= Cardinality(T)
  BY <1>5, <1>6, FS_Injection
<1> QED
  BY <1>7 DEF S, T

----------------------------------------------------------------------------
(* The counts.                                                             *)

CountsInv(R) ==
  /\ code \in Programs(R)
  /\ cb \in Nat \ {0} /\ ci \in Nat \ {0}
  /\ uses \in [Regs -> Nat]
  /\ CountsAreBounds

LEMMA CountsExact ==
  ASSUME NEW R, NEW g \in Programs(R), NEW regs
  PROVE  /\ ReadCount(g, regs) \in [regs -> Nat]
         /\ \A r \in regs : ReadCount(g, regs)[r] = Cardinality(ReadsAt(g, r))
<1>1. ASSUME NEW r PROVE Cardinality(ReadsAt(g, r)) \in Nat
  BY ReadsFinite, FS_CardinalityType
<1> QED
  BY <1>1 DEF ReadCount

LEMMA CountsStart ==
  ASSUME NEW R, NEW g \in Programs(R), NEW regs, MovesStartWith(g, regs)
  PROVE  CountsInv(R)
<1>1. /\ code = g /\ cb = 1 /\ ci = 1
      /\ uses = ReadCount(g, regs)
  BY DEF MovesStartWith
<1>2. uses \in [regs -> Nat] /\ \A r \in regs : uses[r] = Cardinality(ReadsAt(g, r))
  BY <1>1, CountsExact
<1>3. \A r \in regs : Cardinality(ReadsAt(g, r)) <= uses[r]
  BY <1>2
<1> QED
  BY <1>1, <1>2, <1>3 DEF CountsInv, CountsAreBounds, Regs

LEMMA Position ==
  ASSUME NEW R, CountsInv(R), InCode
  PROVE  /\ cb \in DOMAIN code
         /\ code[cb] \in Seq(Instructions(R))
         /\ ci \in 1..Len(code[cb])
         /\ \A k \in 1..Len(code[cb]) :
              code[cb][k] \in Instructions(R) /\ code[cb][k].use \in Seq(R)
<1>1. cb \in DOMAIN code
  BY DEF CountsInv, InCode, MovesDone, Programs
<1>2. code[cb] \in Seq(Instructions(R))
  BY <1>1 DEF CountsInv, Programs
<1>3. ci \in 1..Len(code[cb])
  BY <1>2 DEF CountsInv, InCode
<1>4. ASSUME NEW k \in 1..Len(code[cb])
      PROVE  code[cb][k] \in Instructions(R) /\ code[cb][k].use \in Seq(R)
  <2>1. code[cb][k] \in Instructions(R)
    BY <1>2
  <2> QED
    BY <2>1 DEF Instructions
<1> QED
  BY <1>1, <1>2, <1>3, <1>4

(* The registers of a copy.                                                *)
LEMMA CopyTypes ==
  ASSUME NEW R, CountsInv(R), InCode, Here.op = "Move"
  PROVE  /\ Here.use \in Seq(R) /\ Len(Here.use) = 1
         /\ Src \in R /\ Dst \in R \cup {NoReg}
<1>1. Here \in Instructions(R)
  BY Position DEF Here
<1>2. Here.use \in Seq(R) /\ Len(Here.use) = 1 /\ Here.dst \in R \cup {NoReg}
  BY <1>1 DEF Instructions
<1> QED
  BY <1>2 DEF Src, Dst

LEMMA RewriteKeepsBounds ==
  ASSUME NEW R, CountsInv(R), InCode,
         NEW blk \in Seq(Instructions(R)), NEW moved \in BOOLEAN,
         OperandsKept(blk, code[cb], ci, moved), Rewrite(blk)
  PROVE  CountsInv(R)'
<1>1. /\ code \in Programs(R) /\ cb \in DOMAIN code /\ ci \in 1..Len(blk)
      /\ uses \in [Regs -> Nat]
  BY Position DEF CountsInv, OperandsKept
<1>2. code' = Without(code, cb, ci, blk) /\ cb' = cb /\ ci' = ci /\ uses' = uses
  BY DEF Rewrite, Without
<1>3. code' \in Programs(R)
  BY <1>1, <1>2, StillProgram
<1>4. ASSUME NEW r \in Regs
      PROVE  Cardinality(ReadsAt(code', r)) <= uses[r]
  <2>1. Cardinality(ReadsAt(code', r)) <= Cardinality(ReadsAt(code, r))
    BY <1>1, <1>2, FewerReads
  <2>2. Cardinality(ReadsAt(code, r)) <= uses[r]
    BY DEF CountsInv, CountsAreBounds
  <2>3. Cardinality(ReadsAt(code, r)) \in Nat /\ Cardinality(ReadsAt(code', r)) \in Nat
    BY <1>1, <1>3, ReadsFinite, FS_CardinalityType
  <2>4. uses[r] \in Nat
    BY <1>1
  <2> QED
    BY <2>1, <2>2, <2>3, <2>4
<1> QED
  BY <1>1, <1>2, <1>3, <1>4 DEF CountsInv, CountsAreBounds, Regs

(* A block with another destination in one place.                          *)
LEMMA Redirected ==
  ASSUME NEW R, NEW old \in Seq(Instructions(R)), NEW j, NEW d \in R \cup {NoReg},
         NEW k0
  PROVE  /\ [old EXCEPT ![j].dst = d] \in Seq(Instructions(R))
         /\ OperandsKept([old EXCEPT ![j].dst = d], old, k0, FALSE)
<1> DEFINE blk == [old EXCEPT ![j].dst = d]
<1>1. old \in [1..Len(old) -> Instructions(R)] /\ Len(old) \in Nat
  OBVIOUS
<1>2. ASSUME NEW k \in 1..Len(old)
      PROVE  blk[k] \in Instructions(R) /\ blk[k].use = old[k].use
  <2>1. old[k] \in Instructions(R)
    BY <1>1
  <2>2. blk[k] = IF k = j THEN [old[k] EXCEPT !.dst = d] ELSE old[k]
    BY <1>1
  <2>3. /\ [old[k] EXCEPT !.dst = d] \in Instructions(R)
        /\ [old[k] EXCEPT !.dst = d].use = old[k].use
    BY <2>1 DEF Instructions
  <2> QED
    BY <2>1, <2>2, <2>3
<1>3. DOMAIN blk = 1..Len(old)
  BY <1>1
<1>4. blk = [k \in 1..Len(old) |-> blk[k]]
  BY <1>3
<1> HIDE DEF blk
<1>5. blk \in [1..Len(old) -> Instructions(R)]
  BY <1>2, <1>4
<1>6. blk \in Seq(Instructions(R)) /\ Len(blk) = Len(old)
  BY <1>1, <1>5
<1>7. OperandsKept(blk, old, k0, FALSE)
  BY <1>2, <1>6 DEF OperandsKept
<1> QED
  BY <1>6, <1>7 DEF blk

LEMMA Unchanged ==
  ASSUME NEW R, NEW old \in Seq(Instructions(R)), NEW k0
  PROVE  OperandsKept(old, old, k0, FALSE)
  BY DEF OperandsKept

LEMMA FirstReplaced ==
  ASSUME NEW R, NEW v \in Seq(R), NEW s \in R
  PROVE  LET us == [v EXCEPT ![1] = s]
         IN  /\ us \in Seq(R) /\ DOMAIN us = DOMAIN v
             /\ \A n \in DOMAIN us : us[n] = IF n = 1 THEN s ELSE v[n]
<1> DEFINE us == [v EXCEPT ![1] = s]
<1>1. v \in [1..Len(v) -> R] /\ Len(v) \in Nat
  OBVIOUS
<1>2. us = [n \in 1..Len(v) |-> IF n = 1 THEN s ELSE v[n]]
  BY <1>1
<1> HIDE DEF us
<1>3. us \in [1..Len(v) -> R]
  BY <1>1, <1>2
<1>4. us \in Seq(R)
  BY <1>1, <1>3
<1> QED
  BY <1>1, <1>2, <1>4 DEF us

(* A block whose instruction below the copy reads what the copy read.      *)
LEMMA Forwarded ==
  ASSUME NEW R, NEW old \in Seq(Instructions(R)),
         NEW k0 \in 1..Len(old), k0 + 1 \in 1..Len(old),
         NEW u \in Seq(R), u = old[k0].use, Len(u) = 1
  PROVE  LET blk == [old EXCEPT ![k0 + 1].use[1] = old[k0].use[1]]
         IN  blk \in Seq(Instructions(R)) /\ OperandsKept(blk, old, k0, TRUE)
<1> DEFINE s == old[k0].use[1]
           blk == [old EXCEPT ![k0 + 1].use[1] = s]
           us == [old[k0 + 1].use EXCEPT ![1] = s]
<1>1. old \in [1..Len(old) -> Instructions(R)] /\ Len(old) \in Nat
  OBVIOUS
<1>2. s \in R /\ 1 \in DOMAIN old[k0].use
  <2>1. u[1] \in R /\ 1 \in DOMAIN u
    OBVIOUS
  <2> QED
    BY <2>1
<1>3. old[k0 + 1] \in Instructions(R)
  BY <1>1
<1>4. old[k0 + 1].use \in Seq(R)
  BY <1>3 DEF Instructions
<1> HIDE DEF s
<1>5. /\ us \in Seq(R)
      /\ DOMAIN us = DOMAIN old[k0 + 1].use
      /\ \A n \in DOMAIN us : us[n] = IF n = 1 THEN s ELSE old[k0 + 1].use[n]
  BY <1>2, <1>4, FirstReplaced
<1>6. /\ [old[k0 + 1] EXCEPT !.use = us] \in Instructions(R)
      /\ [old[k0 + 1] EXCEPT !.use = us].use = us
  <2>1. Len(us) = Len(old[k0 + 1].use)
    BY <1>4, <1>5, LenProperties
  <2> HIDE DEF us
  <2> QED
    BY <1>3, <1>5, <2>1 DEF Instructions
<1>7. blk = [k \in 1..Len(old) |->
               IF k = k0 + 1 THEN [old[k0 + 1] EXCEPT !.use = us] ELSE old[k]]
  BY <1>1
<1> HIDE DEF blk, us
<1>8. blk \in [1..Len(old) -> Instructions(R)]
  BY <1>1, <1>6, <1>7
<1>9. blk \in Seq(Instructions(R)) /\ Len(blk) = Len(old)
  BY <1>1, <1>8
<1>10. ASSUME NEW k \in 1..Len(old), NEW n \in DOMAIN blk[k].use
       PROVE  /\ n \in DOMAIN old[k].use
              /\ blk[k].use[n] = IF k = k0 + 1 /\ n = 1 THEN s ELSE old[k].use[n]
  BY <1>5, <1>6, <1>7
<1>11. OperandsKept(blk, old, k0, TRUE)
  BY <1>2, <1>9, <1>10 DEF OperandsKept, s
<1> QED
  BY <1>9, <1>11 DEF blk, s

----------------------------------------------------------------------------
(* The steps.                                                              *)

LEMMA SkipKeepsBounds ==
  ASSUME NEW R, CountsInv(R), Skip
  PROVE  CountsInv(R)'
<1>1. ci' = ci + 1 /\ UNCHANGED <<code, cb, uses>>
  BY DEF Skip
<1> QED
  BY <1>1 DEF CountsInv, CountsAreBounds, Regs

LEMMA CopyDeleted ==
  ASSUME NEW R, CountsInv(R), InCode, Rewrite(code[cb])
  PROVE  CountsInv(R)'
  BY Position, Unchanged, RewriteKeepsBounds

LEMMA DefinitionRenamed ==
  ASSUME NEW R, CountsInv(R), InCode, Here.op = "Move", NEW j,
         Rewrite([code[cb] EXCEPT ![j].dst = Dst])
  PROVE  CountsInv(R)'
<1>1. Dst \in R \cup {NoReg} /\ code[cb] \in Seq(Instructions(R))
  BY Position, CopyTypes
<1>2. /\ [code[cb] EXCEPT ![j].dst = Dst] \in Seq(Instructions(R))
      /\ OperandsKept([code[cb] EXCEPT ![j].dst = Dst], code[cb], ci, FALSE)
  BY <1>1, Redirected
<1> QED
  BY <1>2, RewriteKeepsBounds

LEMMA SourceForwarded ==
  ASSUME NEW R, CountsInv(R), InCode, Here.op = "Move", ci < Len(code[cb]),
         Rewrite([code[cb] EXCEPT ![ci + 1].use[1] = Src])
  PROVE  CountsInv(R)'
<1>1. /\ code[cb] \in Seq(Instructions(R))
      /\ ci \in 1..Len(code[cb]) /\ ci + 1 \in 1..Len(code[cb])
  <2>1. code[cb] \in Seq(Instructions(R)) /\ ci \in 1..Len(code[cb])
    BY Position
  <2>2. Len(code[cb]) \in Nat
    BY <2>1
  <2> QED
    BY <2>1, <2>2
<1>2. code[cb][ci].use \in Seq(R) /\ Len(code[cb][ci].use) = 1
  BY CopyTypes DEF Here
<1>3. Src = code[cb][ci].use[1]
  BY DEF Src, Here
<1> DEFINE blk == [code[cb] EXCEPT ![ci + 1].use[1] = Src]
<1>4. blk \in Seq(Instructions(R)) /\ OperandsKept(blk, code[cb], ci, TRUE)
  BY <1>1, <1>2, <1>3, Forwarded
<1> QED
  BY <1>4, RewriteKeepsBounds

LEMMA CoalesceKeepsBounds ==
  ASSUME NEW R, CountsInv(R), [CoalesceNext]_moveVars
  PROVE  CountsInv(R)'
<1>1. CASE DropSelfCopy
  BY <1>1, CopyDeleted DEF DropSelfCopy, IsSelfCopy, IsCopy
<1>2. CASE FoldCopy
  <2>1. Here.op = "Move"
    BY <1>2 DEF FoldCopy, FoldInto
  <2>2. InCode /\ Rewrite([code[cb] EXCEPT ![FoldInto].dst = Dst])
    BY <1>2 DEF FoldCopy
  <2> QED
    BY <2>1, <2>2, DefinitionRenamed
<1>3. CASE KeepCopy
  BY <1>3, SkipKeepsBounds DEF KeepCopy
<1>4. CASE NextBlockCopies
  BY <1>4 DEF NextBlockCopies, CountsInv, CountsAreBounds, Regs
<1>5. CASE EndCoalesceRound
  <2>1. code' = code /\ cb' \in Nat \ {0} /\ ci' \in Nat \ {0}
    BY <1>5 DEF EndCoalesceRound, CountsInv
  <2>2. CASE uses' = uses
    BY <2>1, <2>2 DEF CountsInv, CountsAreBounds, Regs
  <2>3. CASE uses' = ReadCount(code, Regs)
    <3>1. /\ uses' \in [Regs -> Nat]
          /\ \A r \in Regs : uses'[r] = Cardinality(ReadsAt(code, r))
      BY <2>3, CountsExact DEF CountsInv
    <3>2. \A r \in Regs : Cardinality(ReadsAt(code', r)) <= uses'[r]
      BY <2>1, <3>1
    <3> QED
      BY <2>1, <3>1, <3>2 DEF CountsInv, CountsAreBounds, Regs
  <2> QED
    BY <1>5, <2>2, <2>3 DEF EndCoalesceRound
<1>6. CASE UNCHANGED moveVars
  BY <1>6 DEF moveVars, CountsInv, CountsAreBounds, Regs
<1> QED
  BY <1>1, <1>2, <1>3, <1>4, <1>5, <1>6 DEF CoalesceNext

LEMMA PeepholeKeepsBounds ==
  ASSUME NEW R, CountsInv(R), [PeepholeNext]_moveVars
  PROVE  CountsInv(R)'
<1>1. CASE DeleteMove
  BY <1>1, CopyDeleted DEF DeleteMove, IsCopy
<1>2. CASE StoreSource
  BY <1>2, SourceForwarded DEF StoreSource, BeforeStore, IsCopy
<1>3. CASE RenameDef
  BY <1>3, DefinitionRenamed DEF RenameDef, IsCopy
<1>4. CASE KeepMove
  BY <1>4, SkipKeepsBounds DEF KeepMove
<1>5. CASE EndBlockRound
  BY <1>5 DEF EndBlockRound, CountsInv, CountsAreBounds, Regs
<1>6. CASE UNCHANGED moveVars
  BY <1>6 DEF moveVars, CountsInv, CountsAreBounds, Regs
<1> QED
  BY <1>1, <1>2, <1>3, <1>4, <1>5, <1>6 DEF PeepholeNext

----------------------------------------------------------------------------
(* coalesceMoves recounts once per round only, yet in every state of every *)
(* round its counts cover the reads there are, however many copies have    *)
(* been folded since: "ReadOnlyHere" never overlooks a reader.             *)
THEOREM CoalesceCountsAreBounds ==
  ASSUME NEW R, NEW g \in Programs(R)
  PROVE  CoalesceSpec(g) => []CountsAreBounds
<1>1. CoalesceStartWith(g) => CountsInv(R)
  BY CountsStart DEF CoalesceStartWith
<1>2. CountsInv(R) /\ [CoalesceNext]_moveVars => CountsInv(R)'
  BY CoalesceKeepsBounds
<1>3. CountsInv(R) => CountsAreBounds
  BY DEF CountsInv
<1> QED
  BY <1>1, <1>2, <1>3, PTL DEF CoalesceSpec

(* removeRedundantMoves counts once and never again: moves deleted,        *)
(* definitions renamed and stores given another source in whatever order,  *)
(* the counts taken before the first of them cover the reads left.         *)
THEOREM PeepholeCountsAreBounds ==
  ASSUME NEW R, NEW g \in Programs(R), NEW regs
  PROVE  PeepholeSpec(g, regs) => []CountsAreBounds
<1>1. MovesStartWith(g, regs) => CountsInv(R)
  BY CountsStart
<1>2. CountsInv(R) /\ [PeepholeNext]_moveVars => CountsInv(R)'
  BY PeepholeKeepsBounds
<1>3. CountsInv(R) => CountsAreBounds
  BY DEF CountsInv
<1> QED
  BY <1>1, <1>2, <1>3, PTL DEF PeepholeSpec
============================================================================
