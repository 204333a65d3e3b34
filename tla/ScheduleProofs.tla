--------------------------- MODULE ScheduleProofs ---------------------------
(* Proofs of what Schedule states, for every function over a finite set of *)
(* registers and every latency window.                                     *)
EXTENDS Schedule, FiniteSetTheorems, TLAPS

Instructions(R) == [op : Ops, dst : R \cup {NoReg}, use : Seq(R), imm : Int]

Functions(R) == Seq(Seq(Instructions(R)))

----------------------------------------------------------------------------
(* What an instruction reads and defines are registers.                    *)
LEMMA Operands ==
  ASSUME NEW R, NEW m \in Instructions(R)
  PROVE  Uses(m) \subseteq R /\ Defs(m) \subseteq R
<1>1. m.use \in Seq(R) /\ m.dst \in R \cup {NoReg}
  BY DEF Instructions
<1>2. Range(m.use) \subseteq R
  BY <1>1 DEF Range
<1> QED
  BY <1>1, <1>2 DEF Uses, Defs

(* A register is live before an instruction if it is read below it, or     *)
(* live out of the block, and not defined in between.                      *)
LEMMA LiveMember ==
  ASSUME NEW R, NEW blk \in Seq(Instructions(R)), NEW out,
         NEW i \in 1..(Len(blk) + 1), NEW r
  PROVE  r \in LiveBefore(blk, out)[i] <=>
           \/ r \in out /\ \A k \in i..Len(blk) : r \notin Defs(blk[k])
           \/ \E j \in i..Len(blk) : /\ r \in Uses(blk[j])
                                     /\ \A k \in i..(j - 1) : r \notin Defs(blk[k])
<1>1. LiveBefore(blk, out)[i] =
        (out \ Written(blk, i, Len(blk) + 1))
          \cup UNION {Uses(blk[j]) \ Written(blk, i, j) : j \in i..Len(blk)}
  BY DEF LiveBefore
<1>2. \A j : r \in Written(blk, i, j) <=> \E k \in i..(j - 1) : r \in Defs(blk[k])
  BY DEF Written
<1>3. (Len(blk) + 1) - 1 = Len(blk)
  <2>1. Len(blk) \in Nat
    OBVIOUS
  <2> QED
    BY <2>1
<1> QED
  BY <1>1, <1>2, <1>3

LEMMA LiveType ==
  ASSUME NEW R, NEW blk \in Seq(Instructions(R)), NEW out \in SUBSET R
  PROVE  /\ LiveBefore(blk, out) \in [1..(Len(blk) + 1) -> SUBSET R]
         /\ LiveBefore(blk, out)[Len(blk) + 1] = out
<1>1. Len(blk) \in Nat /\ \A j \in 1..Len(blk) : blk[j] \in Instructions(R)
  OBVIOUS
<1>2. ASSUME NEW i \in 1..(Len(blk) + 1) PROVE LiveBefore(blk, out)[i] \subseteq R
  <2>1. \A j \in i..Len(blk) : Uses(blk[j]) \subseteq R
    BY <1>1, Operands
  <2> QED
    BY <2>1, LiveMember
<1>3. LiveBefore(blk, out) = [i \in 1..(Len(blk) + 1) |-> LiveBefore(blk, out)[i]]
  BY DEF LiveBefore
<1>4. LiveBefore(blk, out)[Len(blk) + 1] = out
  <2>1. Len(blk) + 1 \in 1..(Len(blk) + 1) /\ (Len(blk) + 1)..Len(blk) = {}
    BY <1>1
  <2>2. \A r : r \in LiveBefore(blk, out)[Len(blk) + 1] <=> r \in out
    BY <2>1, LiveMember
  <2> QED
    BY <2>2
<1> QED
  BY <1>2, <1>3, <1>4

(* The live set before an instruction comes from the one behind it.        *)
LEMMA LiveStep ==
  ASSUME NEW R, NEW blk \in Seq(Instructions(R)), NEW out, NEW i \in 1..Len(blk)
  PROVE  LiveBefore(blk, out)[i] = Through(blk[i], LiveBefore(blk, out)[i + 1])
<1>1. Len(blk) \in Nat /\ i \in 1..(Len(blk) + 1) /\ i + 1 \in 1..(Len(blk) + 1)
  OBVIOUS
<1>2. i..Len(blk) = {i} \cup ((i + 1)..Len(blk))
  BY <1>1
<1>3. \A j \in (i + 1)..Len(blk) : i..(j - 1) = {i} \cup ((i + 1)..(j - 1))
  BY <1>1
<1>4. i..(i - 1) = {}
  BY <1>1
<1>5. ASSUME NEW r
      PROVE  r \in LiveBefore(blk, out)[i] <=>
               r \in Through(blk[i], LiveBefore(blk, out)[i + 1])
  <2>1. r \in LiveBefore(blk, out)[i] <=>
           \/ r \in out /\ \A k \in i..Len(blk) : r \notin Defs(blk[k])
           \/ \E j \in i..Len(blk) : /\ r \in Uses(blk[j])
                                     /\ \A k \in i..(j - 1) : r \notin Defs(blk[k])
    BY <1>1, LiveMember
  <2>2. r \in LiveBefore(blk, out)[i + 1] <=>
           \/ r \in out /\ \A k \in (i + 1)..Len(blk) : r \notin Defs(blk[k])
           \/ \E j \in (i + 1)..Len(blk) :
                /\ r \in Uses(blk[j])
                /\ \A k \in (i + 1)..(j - 1) : r \notin Defs(blk[k])
    BY <1>1, LiveMember
  <2> QED
    BY <2>1, <2>2, <1>2, <1>3, <1>4 DEF Through
<1> QED
  BY <1>5

(* Live sets above a place depend on what is below it only by the live set *)
(* at that place.                                                          *)
LEMMA LiveSplit ==
  ASSUME NEW R, NEW blk \in Seq(Instructions(R)), NEW out,
         NEW p \in 1..(Len(blk) + 1), NEW i \in 1..p, NEW r
  PROVE  r \in LiveBefore(blk, out)[i] <=>
           \/ /\ r \in LiveBefore(blk, out)[p]
              /\ \A k \in i..(p - 1) : r \notin Defs(blk[k])
           \/ \E j \in i..(p - 1) : /\ r \in Uses(blk[j])
                                    /\ \A k \in i..(j - 1) : r \notin Defs(blk[k])
<1>1. Len(blk) \in Nat /\ p \in Nat /\ i \in Nat /\ i \in 1..(Len(blk) + 1)
  OBVIOUS
<1>2. i..Len(blk) = (i..(p - 1)) \cup (p..Len(blk))
  BY <1>1
<1>3. \A j \in p..Len(blk) : i..(j - 1) = (i..(p - 1)) \cup (p..(j - 1))
  BY <1>1
<1>4. r \in LiveBefore(blk, out)[i] <=>
         \/ r \in out /\ \A k \in i..Len(blk) : r \notin Defs(blk[k])
         \/ \E j \in i..Len(blk) : /\ r \in Uses(blk[j])
                                   /\ \A k \in i..(j - 1) : r \notin Defs(blk[k])
  BY <1>1, LiveMember
<1>5. r \in LiveBefore(blk, out)[p] <=>
         \/ r \in out /\ \A k \in p..Len(blk) : r \notin Defs(blk[k])
         \/ \E j \in p..Len(blk) : /\ r \in Uses(blk[j])
                                   /\ \A k \in p..(j - 1) : r \notin Defs(blk[k])
  BY LiveMember
<1> QED
  BY <1>2, <1>3, <1>4, <1>5

----------------------------------------------------------------------------
(* Two neighbours changing places, and when nothing between them minds.    *)
Swapped(s, j) == [s EXCEPT ![j] = s[j - 1], ![j - 1] = s[j]]

Independent(x, y) ==
  /\ Defs(x) \cap (Uses(y) \cup Defs(y)) = {}
  /\ Uses(x) \cap Defs(y) = {}

LEMMA SwappedSeq ==
  ASSUME NEW S, NEW s \in Seq(S), NEW j \in 2..Len(s)
  PROVE  /\ Swapped(s, j) \in Seq(S)
         /\ Len(Swapped(s, j)) = Len(s)
         /\ DOMAIN Swapped(s, j) = 1..Len(s)
         /\ \A k \in 1..Len(s) :
              Swapped(s, j)[k] = IF k = j THEN s[j - 1]
                                 ELSE IF k = j - 1 THEN s[j] ELSE s[k]
<1>1. Len(s) \in Nat /\ DOMAIN s = 1..Len(s) /\ j - 1 \in 1..Len(s) /\ j \in 1..Len(s)
  OBVIOUS
<1>2. Swapped(s, j) = [k \in 1..Len(s) |-> IF k = j THEN s[j - 1]
                                 ELSE IF k = j - 1 THEN s[j] ELSE s[k]]
  BY <1>1 DEF Swapped
<1>3. Swapped(s, j) \in Seq(S)
  BY <1>1, <1>2
<1>4. Len(Swapped(s, j)) = Len(s)
  BY <1>1, <1>2, <1>3
<1> QED
  BY <1>1, <1>2, <1>3, <1>4

(* A swap of independent instructions changes the live set between them    *)
(* and no other.                                                           *)
LEMMA SwapKeepsLive ==
  ASSUME NEW R, NEW blk \in Seq(Instructions(R)), NEW out, NEW j \in 2..Len(blk),
         Independent(blk[j - 1], blk[j])
  PROVE  LiveBefore(Swapped(blk, j), out) =
           [LiveBefore(blk, out) EXCEPT
              ![j] = Through(blk[j - 1], LiveBefore(blk, out)[j + 1])]
<1> DEFINE new == Swapped(blk, j)
           L == LiveBefore(blk, out)
           M == LiveBefore(new, out)
<1>1. /\ new \in Seq(Instructions(R)) /\ Len(new) = Len(blk) /\ Len(blk) \in Nat
      /\ new[j] = blk[j - 1] /\ new[j - 1] = blk[j]
      /\ \A k \in 1..Len(blk) : k # j /\ k # j - 1 => new[k] = blk[k]
  <2>1. Len(blk) \in Nat /\ j - 1 \in 1..Len(blk) /\ j \in 1..Len(blk) /\ j # j - 1
    OBVIOUS
  <2> QED
    BY <2>1, SwappedSeq
<1>2. j \in Nat /\ j + 1 \in 1..(Len(blk) + 1) /\ j - 1 \in 1..Len(blk) /\ j \in 1..Len(blk)
  BY <1>1
<1> HIDE DEF new
<1>3. ASSUME NEW i \in (j + 1)..(Len(blk) + 1) PROVE M[i] = L[i]
  <2>1. \A k \in i..Len(blk) : new[k] = blk[k]
    BY <1>1, <1>2
  <2>2. i \in 1..(Len(blk) + 1) /\ \A k \in i..Len(blk) : i..(k - 1) \subseteq i..Len(blk)
    BY <1>1, <1>2
  <2>3. \A r : r \in M[i] <=>
           \/ r \in out /\ \A k \in i..Len(blk) : r \notin Defs(new[k])
           \/ \E m \in i..Len(blk) : /\ r \in Uses(new[m])
                                     /\ \A k \in i..(m - 1) : r \notin Defs(new[k])
    BY <1>1, <2>2, LiveMember
  <2>4. \A r : r \in L[i] <=>
           \/ r \in out /\ \A k \in i..Len(blk) : r \notin Defs(blk[k])
           \/ \E m \in i..Len(blk) : /\ r \in Uses(blk[m])
                                     /\ \A k \in i..(m - 1) : r \notin Defs(blk[k])
    BY <2>2, LiveMember
  <2>5. \A r : r \in M[i] <=> r \in L[i]
    BY <2>1, <2>2, <2>3, <2>4
  <2> QED
    BY <2>5
<1>4. M[j] = Through(blk[j - 1], L[j + 1])
  BY <1>1, <1>2, <1>3, LiveStep
<1>5. M[j - 1] = L[j - 1]
  <2>1. M[j - 1] = Through(new[j - 1], M[(j - 1) + 1]) /\ (j - 1) + 1 = j
    BY <1>1, <1>2, LiveStep
  <2>2. M[j - 1] = Through(blk[j], Through(blk[j - 1], L[j + 1]))
    BY <2>1, <1>1, <1>4
  <2>3. L[j] = Through(blk[j], L[j + 1])
    BY <1>2, LiveStep
  <2>4. L[j - 1] = Through(blk[j - 1], L[(j - 1) + 1])
    BY <1>2, LiveStep
  <2>5. L[j - 1] = Through(blk[j - 1], Through(blk[j], L[j + 1]))
    BY <2>1, <2>3, <2>4
  <2> QED
    BY <2>2, <2>5 DEF Through, Independent
<1>6. ASSUME NEW i \in 1..(j - 2) PROVE M[i] = L[i]
  <2>1. j - 1 \in 1..(Len(blk) + 1) /\ i \in 1..(j - 1) /\ (j - 1) - 1 = j - 2
    BY <1>1, <1>2
  <2>2. \A k \in i..(j - 2) : new[k] = blk[k] /\ i..(k - 1) \subseteq i..(j - 2)
    BY <1>1, <1>2
  <2>3. \A r : r \in M[i] <=>
           \/ r \in M[j - 1] /\ \A k \in i..(j - 2) : r \notin Defs(new[k])
           \/ \E m \in i..(j - 2) : /\ r \in Uses(new[m])
                                    /\ \A k \in i..(m - 1) : r \notin Defs(new[k])
    BY <1>1, <2>1, LiveSplit
  <2>4. \A r : r \in L[i] <=>
           \/ r \in L[j - 1] /\ \A k \in i..(j - 2) : r \notin Defs(blk[k])
           \/ \E m \in i..(j - 2) : /\ r \in Uses(blk[m])
                                    /\ \A k \in i..(m - 1) : r \notin Defs(blk[k])
    BY <2>1, LiveSplit
  <2>5. \A r : r \in M[i] <=> r \in L[i]
    BY <2>2, <2>3, <2>4, <1>5
  <2> QED
    BY <2>5
<1>7. /\ M = [i \in 1..(Len(blk) + 1) |-> M[i]]
      /\ L = [i \in 1..(Len(blk) + 1) |-> L[i]]
  BY <1>1 DEF LiveBefore
<1>8. \A i \in 1..(Len(blk) + 1) :
        M[i] = IF i = j THEN Through(blk[j - 1], L[j + 1]) ELSE L[i]
  <2> TAKE i \in 1..(Len(blk) + 1)
  <2>1. i \in (j + 1)..(Len(blk) + 1) \/ i = j \/ i = j - 1 \/ i \in 1..(j - 2)
    BY <1>1, <1>2
  <2> QED
    BY <2>1, <1>2, <1>3, <1>4, <1>5, <1>6
<1> HIDE DEF M, L
<1>9. M = [L EXCEPT ![j] = Through(blk[j - 1], L[j + 1])]
  BY <1>7, <1>8
<1> QED
  BY <1>9 DEF M, L, new

(* Neither does it change where control goes, as long as neither of the    *)
(* two ends a block.                                                       *)
LEMMA SwapKeepsSuccs ==
  ASSUME NEW R, NEW c \in Functions(R), NEW s \in Blocks(c), NEW j \in 2..Len(c[s]),
         ~EndsBlock(c[s][j - 1]), ~EndsBlock(c[s][j]), NEW b \in Blocks(c)
  PROVE  Succs([c EXCEPT ![s] = Swapped(c[s], j)], b) = Succs(c, b)
<1> DEFINE d == [c EXCEPT ![s] = Swapped(c[s], j)]
           n == Len(c[b])
           trailing(x) == {k \in DOMAIN x : \A i \in k..Len(x) : IsJump(x[i])}
<1>1. /\ DOMAIN c = 1..Len(c) /\ Len(c) \in Nat
      /\ \A i \in DOMAIN c : c[i] \in Seq(Instructions(R))
  BY DEF Functions, Blocks
<1>2. /\ Swapped(c[s], j) \in Seq(Instructions(R))
      /\ Len(Swapped(c[s], j)) = Len(c[s])
      /\ DOMAIN Swapped(c[s], j) = 1..Len(c[s])
      /\ \A k \in 1..Len(c[s]) :
           Swapped(c[s], j)[k] = IF k = j THEN c[s][j - 1]
                                 ELSE IF k = j - 1 THEN c[s][j] ELSE c[s][k]
  BY <1>1, SwappedSeq DEF Blocks
<1>3. DOMAIN d = DOMAIN c /\ Len(d) = Len(c)
  BY <1>1, <1>2 DEF Blocks
<1>4. CASE b # s
  <2>1. d[b] = c[b]
    BY <1>4 DEF Blocks
  <2> QED
    BY <2>1, <1>3 DEF Succs, FallsThrough, Blocks
<1>5. CASE b = s
  <2>1. d[b] = Swapped(c[s], j)
    BY <1>5, <1>1 DEF Blocks
  <2>2. n \in Nat /\ DOMAIN c[b] = 1..n /\ j \in 2..n /\ j - 1 \in 1..n
    BY <1>1, <1>5 DEF Blocks
  <2>3. Len(d[b]) = n /\ DOMAIN d[b] = 1..n
    BY <2>1, <1>2, <1>5
  <2>4. \A k \in 1..n : k # j /\ k # j - 1 => d[b][k] = c[b][k]
    BY <2>1, <1>2, <1>5
  <2>5. d[b][j] = c[b][j - 1] /\ d[b][j - 1] = c[b][j]
    BY <2>1, <2>2, <1>2, <1>5
  <2>6. \A x \in {c[b][j], c[b][j - 1]} : x.op \notin {"Jmp", "Ret", "Br"} /\ ~IsJump(x)
    BY <1>5 DEF EndsBlock, IsJump
  <2> HIDE DEF d, n
  <2>7. ASSUME NEW k \in 1..n
        PROVE  (\A i \in k..n : IsJump(d[b][i])) <=> (\A i \in k..n : IsJump(c[b][i]))
    <3>1. CASE k <= j
      <4>1. j \in k..n
        BY <2>2, <3>1
      <4>2. ~IsJump(d[b][j]) /\ ~IsJump(c[b][j])
        BY <2>5, <2>6
      <4> QED
        BY <4>1, <4>2
    <3>2. CASE k > j
      <4>1. \A i \in k..n : d[b][i] = c[b][i]
        BY <2>2, <2>4, <3>2
      <4> QED
        BY <4>1
    <3> QED
      BY <3>1, <3>2, <2>2
  <2>8. trailing(d[b]) = trailing(c[b])
    BY <2>2, <2>3, <2>7 DEF n
  <2>9. \A k \in trailing(c[b]) : d[b][k].imm = c[b][k].imm
    <3> TAKE k \in trailing(c[b])
    <3>1. k \in 1..n /\ \A i \in k..n : IsJump(c[b][i])
      BY <2>2 DEF n
    <3>2. k # j /\ k # j - 1
      BY <3>1, <2>2, <2>6
    <3> QED
      BY <3>1, <3>2, <2>4
  <2>10. {d[b][k].imm : k \in trailing(d[b])} = {c[b][k].imm : k \in trailing(c[b])}
    BY <2>8, <2>9
  <2>11. FallsThrough(d, b) <=> FallsThrough(c, b)
    <3>1. d[b] # <<>> /\ c[b] # <<>>
      BY <2>2, <2>3
    <3>2. d[b][n].op \notin {"Jmp", "Ret"} <=> c[b][n].op \notin {"Jmp", "Ret"}
      BY <2>2, <2>4, <2>5, <2>6
    <3>3. n = Len(c[b])
      BY DEF n
    <3> QED
      BY <3>1, <3>2, <3>3, <2>3, <1>3 DEF FallsThrough
  <2> QED
    BY <2>10, <2>11, <1>3 DEF Succs, Blocks, d
<1> QED
  BY <1>4, <1>5

----------------------------------------------------------------------------
(* The types of the scheduler's state.                                     *)
TypeInv(R) ==
  /\ code \in Functions(R)
  /\ flow \in [bi : 0..Len(code), changed : BOOLEAN,
               in : [Blocks(code) -> SUBSET R], out : [Blocks(code) -> SUBSET R]]
  /\ sb \in Nat /\ si \in Nat /\ sj \in 1..si
  /\ sb \in Blocks(code) => /\ boundary \in [1..(Len(Block) + 1) -> SUBSET R]
                            /\ perm \in [1..Len(Block) -> 1..Len(Block)]
  /\ sb \notin Blocks(code) => boundary = <<>> /\ perm = <<>>

LEMMA FunctionFacts ==
  ASSUME NEW R, NEW c \in Functions(R)
  PROVE  /\ Len(c) \in Nat /\ Blocks(c) = 1..Len(c)
         /\ \A b \in Blocks(c) : /\ c[b] \in Seq(Instructions(R))
                                 /\ Len(c[b]) \in Nat /\ DOMAIN c[b] = 1..Len(c[b])
  BY DEF Functions, Blocks

(* What a hoist does: two independent neighbours of the block in hand, of  *)
(* which one is the load and the other touches no memory and does not end  *)
(* a block, change places.                                                 *)
LEMMA HoistFacts ==
  ASSUME NEW R, TypeInv(R), Hoist
  PROVE  /\ sb \in Blocks(code) /\ sj \in 2..Len(Block)
         /\ Block \in Seq(Instructions(R))
         /\ Independent(Block[sj - 1], Block[sj])
         /\ ~EndsBlock(Block[sj - 1]) /\ ~EndsBlock(Block[sj])
         /\ ~WritesMemory(Block[sj - 1]) /\ ~WritesMemory(Block[sj])
         /\ ~increasesPeak
         /\ code' = [code EXCEPT ![sb] = Swapped(Block, sj)]
         /\ boundary' = [boundary EXCEPT ![sj] = Between]
         /\ perm' = Swapped(perm, sj)
         /\ sj' = sj - 1 /\ UNCHANGED <<flow, sb, si>>
         /\ code' \in Functions(R) /\ Blocks(code') = Blocks(code)
         /\ Len(code') = Len(code)
         /\ Block' = Swapped(Block, sj)
<1>1. /\ sb \in Blocks(code) /\ sj > 1 /\ sj <= si /\ si <= Len(Block)
      /\ sj \in Nat /\ si \in Nat /\ code \in Functions(R)
  BY DEF TypeInv, Hoist, InBlock, CanHoist
<1>2. Block \in Seq(Instructions(R)) /\ Len(Block) \in Nat
  BY <1>1, FunctionFacts DEF Block
<1>3. sj \in 2..Len(Block)
  BY <1>1, <1>2
<1>4. isHoistableLoad(Block[sj]) /\ canPass(Block[sj], Block[sj - 1]) /\ ~increasesPeak
  BY DEF Hoist, CanHoist
<1>5. /\ Independent(Block[sj - 1], Block[sj])
      /\ ~EndsBlock(Block[sj - 1]) /\ ~EndsBlock(Block[sj])
      /\ ~WritesMemory(Block[sj - 1]) /\ ~WritesMemory(Block[sj])
  BY <1>4 DEF canPass, isBarrier, isHoistableLoad, Independent, EndsBlock, WritesMemory
<1>6. /\ code' = [code EXCEPT ![sb] = Swapped(Block, sj)]
      /\ boundary' = [boundary EXCEPT ![sj] = Between]
      /\ perm' = Swapped(perm, sj)
      /\ sj' = sj - 1 /\ UNCHANGED <<flow, sb, si>>
  BY DEF Hoist, Swap, Swapped, Block
<1>7. Swapped(Block, sj) \in Seq(Instructions(R))
  BY <1>2, <1>3, SwappedSeq
<1>8. code' \in Functions(R) /\ Len(code') = Len(code) /\ Blocks(code') = Blocks(code)
  BY <1>1, <1>6, <1>7 DEF Functions, Blocks
<1>9. Block' = Swapped(Block, sj)
  BY <1>1, <1>6 DEF Block, Blocks
<1> QED
  BY <1>1, <1>2, <1>3, <1>4, <1>5, <1>6, <1>8, <1>9

(* Entering a block, or the place behind the last one.                     *)
LEMMA EnterFacts ==
  ASSUME NEW R, TypeInv(R), NEW b \in Nat \ {0}, Enter(b)
  PROVE  /\ UNCHANGED <<code, flow>>
         /\ sb' = b /\ si' = 2 /\ sj' = 2
         /\ b \in Blocks(code) =>
              /\ boundary' = LiveBefore(code[b], flow.out[b])
              /\ boundary' \in [1..(Len(code[b]) + 1) -> SUBSET R]
              /\ perm' = [k \in 1..Len(code[b]) |-> k]
         /\ b \notin Blocks(code) => boundary' = <<>> /\ perm' = <<>>
<1>1. code \in Functions(R) /\ flow.out \in [Blocks(code) -> SUBSET R]
  BY DEF TypeInv
<1>2. b \in Blocks(code) <=> b <= Len(code)
  BY <1>1, FunctionFacts
<1>3. b \in Blocks(code) => LiveBefore(code[b], flow.out[b]) \in [1..(Len(code[b]) + 1) -> SUBSET R]
  BY <1>1, FunctionFacts, LiveType
<1>4. b \in Blocks(code) => DOMAIN code[b] = 1..Len(code[b])
  BY <1>1, FunctionFacts
<1> QED
  BY <1>2, <1>3, <1>4 DEF Enter

LEMMA InitTypes ==
  ASSUME NEW R, NEW f \in Functions(R), ScheduleStartWith(f)
  PROVE  TypeInv(R)
<1>1. Len(f) \in Nat /\ Blocks(f) = 1..Len(f)
  BY FunctionFacts
<1> QED
  BY <1>1 DEF ScheduleStartWith, TypeInv

LEMMA OutsType ==
  ASSUME NEW R, NEW c \in Functions(R), NEW in \in [Blocks(c) -> SUBSET R],
         NEW b \in Blocks(c)
  PROVE  Outs(c, in, b) \subseteq R
<1>1. Succs(c, b) \subseteq Blocks(c)
  <2>1. b + 1 \in Blocks(c) \/ ~FallsThrough(c, b)
    BY FunctionFacts DEF FallsThrough
  <2> QED
    BY <2>1 DEF Succs
<1> QED
  BY <1>1 DEF Outs

LEMMA StepTypes ==
  ASSUME NEW R, TypeInv(R), [ScheduleNext]_scheduleVars
  PROVE  TypeInv(R)'
<1>1. /\ code \in Functions(R) /\ Len(code) \in Nat /\ Blocks(code) = 1..Len(code)
      /\ flow.in \in [Blocks(code) -> SUBSET R]
      /\ flow.out \in [Blocks(code) -> SUBSET R]
      /\ sb \in Nat /\ si \in Nat /\ sj \in 1..si
  BY FunctionFacts DEF TypeInv
<1>2. CASE FlowBlock
  <2> DEFINE b == flow.bi
             out == Outs(code, flow.in, b)
             in == LiveBefore(code[b], out)[1]
  <2>1. b \in Blocks(code) /\ b - 1 \in 0..Len(code)
    BY <1>1, <1>2 DEF FlowBlock, TypeInv
  <2>2. out \in SUBSET R
    BY <1>1, <2>1, OutsType
  <2>3. in \in SUBSET R
    <3>1. code[b] \in Seq(Instructions(R)) /\ Len(code[b]) \in Nat
      BY <1>1, <2>1, FunctionFacts
    <3>2. 1 \in 1..(Len(code[b]) + 1)
      BY <3>1
    <3> HIDE DEF out
    <3> QED
      BY <3>1, <3>2, <2>2, LiveType
  <2>4. /\ flow' = [bi |-> b - 1, changed |-> flow.changed \/ in # flow.in[b],
                    in |-> [flow.in EXCEPT ![b] = in],
                    out |-> [flow.out EXCEPT ![b] = out]]
        /\ UNCHANGED <<code, sb, si, sj, boundary, perm>>
    BY <1>2 DEF FlowBlock
  <2>5. flow.changed \in BOOLEAN
    BY DEF TypeInv
  <2> HIDE DEF in, out
  <2>6. [flow.in EXCEPT ![b] = in] \in [Blocks(code) -> SUBSET R]
        /\ [flow.out EXCEPT ![b] = out] \in [Blocks(code) -> SUBSET R]
    BY <1>1, <2>2, <2>3
  <2>7. (flow.changed \/ in # flow.in[b]) \in BOOLEAN
    BY <2>5
  <2>8. flow' \in [bi : 0..Len(code), changed : BOOLEAN,
                   in : [Blocks(code) -> SUBSET R], out : [Blocks(code) -> SUBSET R]]
    BY <2>1, <2>4, <2>6, <2>7
  <2> QED
    BY <2>4, <2>8 DEF TypeInv, Block
<1>3. CASE FlowAgain
  <2>1. flow' \in [bi : 0..Len(code), changed : BOOLEAN,
                   in : [Blocks(code) -> SUBSET R], out : [Blocks(code) -> SUBSET R]]
    <3>1. flow = [bi |-> flow.bi, changed |-> flow.changed, in |-> flow.in, out |-> flow.out]
      BY DEF TypeInv
    <3>2. flow' = [flow EXCEPT !.bi = Len(code), !.changed = FALSE]
      BY <1>3 DEF FlowAgain
    <3>3. flow' = [bi |-> Len(code), changed |-> FALSE, in |-> flow.in, out |-> flow.out]
      BY <3>1, <3>2
    <3>4. Len(code) \in 0..Len(code)
      BY <1>1
    <3> QED
      BY <1>1, <3>3, <3>4
  <2> QED
    BY <1>3, <2>1 DEF FlowAgain, TypeInv, Block
<1>4. ASSUME NEW b \in Nat \ {0}, Enter(b) PROVE TypeInv(R)'
  <2>1. b \in Blocks(code) =>
          [k \in 1..Len(code[b]) |-> k] \in [1..Len(code[b]) -> 1..Len(code[b])]
    OBVIOUS
  <2>2. /\ UNCHANGED <<code, flow>>
        /\ sb' = b /\ si' = 2 /\ sj' = 2
        /\ b \in Blocks(code) =>
             /\ boundary' \in [1..(Len(code[b]) + 1) -> SUBSET R]
             /\ perm' = [k \in 1..Len(code[b]) |-> k]
        /\ b \notin Blocks(code) => boundary' = <<>> /\ perm' = <<>>
    BY <1>4, EnterFacts
  <2> QED
    BY <2>1, <2>2 DEF TypeInv, Block
<1>5. CASE FlowEnds
  BY <1>4, <1>5 DEF FlowEnds
<1>6. CASE NextBlock
  <2>1. sb + 1 \in Nat \ {0}
    BY <1>1
  <2> QED
    BY <1>4, <1>6, <2>1 DEF NextBlock
<1>7. CASE Hoist
  <2>1. /\ sb \in Blocks(code) /\ sj \in 2..Len(Block)
        /\ Block \in Seq(Instructions(R))
        /\ boundary' = [boundary EXCEPT ![sj] = Between]
        /\ perm' = Swapped(perm, sj)
        /\ sj' = sj - 1 /\ UNCHANGED <<flow, sb, si>>
        /\ code' \in Functions(R) /\ Blocks(code') = Blocks(code)
        /\ Len(code') = Len(code)
        /\ Block' = Swapped(Block, sj)
    BY <1>7, HoistFacts
  <2>2. Len(Block') = Len(Block) /\ Len(Block) \in Nat
    BY <2>1, SwappedSeq
  <2>3. /\ boundary \in [1..(Len(Block) + 1) -> SUBSET R]
        /\ perm \in [1..Len(Block) -> 1..Len(Block)]
    BY <2>1 DEF TypeInv
  <2>4. Between \subseteq R
    <3>1. Block[sj - 1] \in Instructions(R) /\ boundary[sj + 1] \in SUBSET R
      BY <2>1, <2>2, <2>3
    <3> QED
      BY <3>1, Operands DEF Between, Through
  <2>5. boundary' \in [1..(Len(Block') + 1) -> SUBSET R]
    BY <2>1, <2>2, <2>3, <2>4
  <2>6. perm' \in [1..Len(Block') -> 1..Len(Block')]
    <3>1. perm \in Seq(1..Len(Block)) /\ Len(perm) = Len(Block)
      BY <2>2, <2>3
    <3>2. Swapped(perm, sj) \in Seq(1..Len(Block)) /\ Len(Swapped(perm, sj)) = Len(perm)
      BY <2>1, <3>1, SwappedSeq
    <3>3. \A p : p \in Seq(1..Len(Block)) => p \in [1..Len(p) -> 1..Len(Block)]
      OBVIOUS
    <3>4. Swapped(perm, sj) \in [1..Len(Block) -> 1..Len(Block)]
      BY <3>1, <3>2, <3>3
    <3> QED
      BY <2>1, <2>2, <3>4
  <2>7. sj' \in 1..si' /\ sj' \in Nat
    BY <1>1, <2>1, <2>2
  <2>8. flow' \in [bi : 0..Len(code'), changed : BOOLEAN,
                   in : [Blocks(code') -> SUBSET R], out : [Blocks(code') -> SUBSET R]]
    BY <2>1 DEF TypeInv
  <2> QED
    BY <1>1, <2>1, <2>5, <2>6, <2>7, <2>8 DEF TypeInv
<1>8. CASE Advance
  BY <1>1, <1>8 DEF Advance, TypeInv, Block
<1>9. CASE UNCHANGED scheduleVars
  BY <1>9 DEF scheduleVars, TypeInv, Block
<1> QED
  BY <1>2, <1>3, <1>5, <1>6, <1>7, <1>8, <1>9 DEF ScheduleNext

(* Whatever function is scheduled, the state keeps its types.              *)
THEOREM TypeCorrect ==
  ASSUME NEW R, NEW f \in Functions(R)
  PROVE  ScheduleSpec(f) => []TypeInv(R)
<1>1. ScheduleStartWith(f) => TypeInv(R)
  BY InitTypes
<1>2. TypeInv(R) /\ [ScheduleNext]_scheduleVars => TypeInv(R)'
  BY StepTypes
<1> QED
  BY <1>1, <1>2, PTL DEF ScheduleSpec

----------------------------------------------------------------------------
(* While the iteration runs and has not changed anything in this round,    *)
(* the blocks it has visited satisfy the equations.  When it has ended all *)
(* do, and stay so, and the boundaries are what LiveBefore says.           *)
Equation(b) ==
  /\ flow.out[b] = Outs(code, flow.in, b)
  /\ flow.in[b] = LiveBefore(code[b], flow.out[b])[1]

LiveInv ==
  /\ sb = 0 /\ ~flow.changed => \A b \in Blocks(code) : b > flow.bi => Equation(b)
  /\ sb # 0 => Solves(code, flow.in, flow.out)
  /\ sb \in Blocks(code) => boundary = LiveBefore(Block, flow.out[sb])

LEMMA InitLive ==
  ASSUME NEW R, NEW f \in Functions(R), ScheduleStartWith(f)
  PROVE  LiveInv
<1>1. Len(f) \in Nat /\ Blocks(f) = 1..Len(f)
  BY FunctionFacts
<1> QED
  BY <1>1 DEF ScheduleStartWith, LiveInv

LEMMA FlowBlockLive ==
  ASSUME NEW R, TypeInv(R), LiveInv, FlowBlock
  PROVE  LiveInv'
<1> DEFINE b == flow.bi
           out == Outs(code, flow.in, b)
           in == LiveBefore(code[b], out)[1]
<1>1. /\ flow' = [bi |-> b - 1, changed |-> flow.changed \/ in # flow.in[b],
                  in |-> [flow.in EXCEPT ![b] = in],
                  out |-> [flow.out EXCEPT ![b] = out]]
      /\ sb = 0 /\ UNCHANGED <<code, sb>>
  BY DEF FlowBlock
<1>2. /\ Blocks(code) = 1..Len(code) /\ Len(code) \in Nat
      /\ b \in Blocks(code)
      /\ flow.in \in [Blocks(code) -> SUBSET R] /\ flow.out \in [Blocks(code) -> SUBSET R]
  BY FunctionFacts DEF TypeInv, FlowBlock
<1>3. ASSUME ~flow'.changed, NEW d \in Blocks(code), d > flow'.bi
      PROVE  Equation(d)'
  <2>1. ~flow.changed /\ flow'.in = flow.in
    BY <1>1, <1>2, <1>3
  <2>2. flow'.out[d] = IF d = b THEN out ELSE flow.out[d]
    BY <1>1, <1>2
  <2>3. CASE d = b
    <3>1. flow'.out[d] = out /\ flow'.in[d] = in
      BY <2>2, <2>3, <1>1, <1>2
    <3> QED
      BY <3>1, <2>1, <2>3, <1>1 DEF Equation
  <2>4. CASE d # b
    <3>1. d > b
      BY <2>4, <1>1, <1>2, <1>3
    <3>2. Equation(d)
      BY <3>1, <2>1, <1>1 DEF LiveInv
    <3> QED
      BY <3>2, <2>1, <2>2, <2>4, <1>1 DEF Equation
  <2> QED
    BY <2>3, <2>4
<1>4. sb' = 0 /\ Blocks(code') = Blocks(code) /\ 0 \notin Blocks(code)
  BY <1>1, <1>2
<1> QED
  BY <1>3, <1>4 DEF LiveInv

LEMMA EnterLive ==
  ASSUME NEW R, TypeInv(R), Solves(code, flow.in, flow.out), NEW b \in Nat \ {0}, Enter(b)
  PROVE  LiveInv'
<1>1. /\ UNCHANGED <<code, flow>> /\ sb' = b
      /\ b \in Blocks(code) => boundary' = LiveBefore(code[b], flow.out[b])
  BY EnterFacts
<1> QED
  BY <1>1 DEF LiveInv, Block

LEMMA HoistLive ==
  ASSUME NEW R, TypeInv(R), LiveInv, Hoist
  PROVE  LiveInv'
<1>1. /\ sb \in Blocks(code) /\ sj \in 2..Len(Block)
      /\ Block \in Seq(Instructions(R))
      /\ Independent(Block[sj - 1], Block[sj])
      /\ ~EndsBlock(Block[sj - 1]) /\ ~EndsBlock(Block[sj])
      /\ code' = [code EXCEPT ![sb] = Swapped(Block, sj)]
      /\ boundary' = [boundary EXCEPT ![sj] = Between]
      /\ UNCHANGED <<flow, sb>>
      /\ Blocks(code') = Blocks(code)
      /\ Block' = Swapped(Block, sj)
  BY HoistFacts
<1>2. code \in Functions(R) /\ Blocks(code) = 1..Len(code) /\ sb # 0
  BY <1>1, FunctionFacts DEF TypeInv
<1>3. Solves(code, flow.in, flow.out) /\ boundary = LiveBefore(Block, flow.out[sb])
  BY <1>1, <1>2 DEF LiveInv
<1>4. \A out : LiveBefore(Block', out) =
        [LiveBefore(Block, out) EXCEPT
           ![sj] = Through(Block[sj - 1], LiveBefore(Block, out)[sj + 1])]
  BY <1>1, SwapKeepsLive
<1>5. boundary' = LiveBefore(Block', flow'.out[sb'])
  BY <1>1, <1>3, <1>4 DEF Between
<1>6. ASSUME NEW b \in Blocks(code) PROVE Equation(b)'
  <2>1. Succs(code', b) = Succs(code, b)
    BY <1>1, <1>2, SwapKeepsSuccs DEF Block
  <2>2. Outs(code', flow.in, b) = Outs(code, flow.in, b)
    BY <2>1 DEF Outs
  <2>3. LiveBefore(code'[b], flow.out[b])[1] = LiveBefore(code[b], flow.out[b])[1]
    <3>1. CASE b = sb
      <4>1. code'[b] = Block' /\ code[b] = Block
        BY <3>1, <1>1 DEF Block
      <4>2. Len(Block) \in Nat /\ 1 \in 1..(Len(Block) + 1) /\ 1 # sj
        BY <1>1
      <4>3. 1 \in DOMAIN LiveBefore(Block, flow.out[b])
        BY <4>2 DEF LiveBefore
      <4> QED
        BY <4>1, <4>2, <4>3, <1>4
    <3>2. CASE b # sb
      BY <3>2, <1>1 DEF Blocks
    <3> QED
      BY <3>1, <3>2
  <2> QED
    BY <2>2, <2>3, <1>1, <1>3 DEF Equation, Solves
<1>7. Solves(code', flow'.in, flow'.out)
  BY <1>1, <1>6 DEF Solves, Equation
<1> QED
  BY <1>1, <1>2, <1>5, <1>7 DEF LiveInv

LEMMA StepLive ==
  ASSUME NEW R, TypeInv(R), LiveInv, [ScheduleNext]_scheduleVars
  PROVE  LiveInv'
<1>1. Blocks(code) = 1..Len(code) /\ Len(code) \in Nat /\ sb \in Nat
  BY FunctionFacts DEF TypeInv
<1>2. CASE FlowBlock
  BY <1>2, FlowBlockLive
<1>3. CASE FlowAgain
  <2>1. sb' = 0 /\ UNCHANGED code /\ flow'.bi = Len(code)
    BY <1>3 DEF FlowAgain, TypeInv
  <2> QED
    BY <1>1, <2>1 DEF LiveInv
<1>4. CASE FlowEnds
  <2>1. sb = 0 /\ flow.bi = 0 /\ ~flow.changed /\ Enter(1)
    BY <1>4 DEF FlowEnds
  <2>2. \A b \in Blocks(code) : Equation(b)
    BY <1>1, <2>1 DEF LiveInv
  <2> QED
    BY <2>1, <2>2, EnterLive DEF Solves, Equation
<1>5. CASE NextBlock
  <2>1. sb + 1 \in Nat \ {0} /\ sb # 0 /\ Enter(sb + 1)
    BY <1>1, <1>5 DEF NextBlock
  <2> QED
    BY <2>1, EnterLive DEF LiveInv
<1>6. CASE Hoist
  BY <1>6, HoistLive
<1>7. CASE Advance
  BY <1>7 DEF Advance, LiveInv, Equation, Block
<1>8. CASE UNCHANGED scheduleVars
  BY <1>8 DEF scheduleVars, LiveInv, Equation, Block
<1> QED
  BY <1>2, <1>3, <1>4, <1>5, <1>6, <1>7, <1>8 DEF ScheduleNext

(* "A legal adjacent swap changes only the boundary between the two        *)
(* instructions" (MachineOpt.cpp:307): the live sets out of the blocks     *)
(* and those at every place of the block in hand stay exact, whichever     *)
(* loads have been hoisted, for every function and latency window.         *)
THEOREM BoundaryStaysExact ==
  ASSUME NEW R, NEW f \in Functions(R)
  PROVE  ScheduleSpec(f) => []BoundaryExact
<1>1. ScheduleStartWith(f) => TypeInv(R) /\ LiveInv
  BY InitTypes, InitLive
<1>2. (TypeInv(R) /\ LiveInv) /\ [ScheduleNext]_scheduleVars => (TypeInv(R) /\ LiveInv)'
  BY StepTypes, StepLive
<1>3. TypeInv(R) /\ LiveInv => BoundaryExact
  BY FunctionFacts DEF TypeInv, LiveInv, BoundaryExact
<1> QED
  BY <1>1, <1>2, <1>3, PTL DEF ScheduleSpec

----------------------------------------------------------------------------
(* The two instructions a hoist swaps do not depend on each other, and     *)
(* every other pair of the block stays in order.                           *)
LEMMA HoistDependences ==
  ASSUME NEW R, TypeInv(R), DependencesKept, Hoist
  PROVE  DependencesKept'
<1>1. /\ sb \in Blocks(code) /\ sj \in 2..Len(Block)
      /\ Block \in Seq(Instructions(R))
      /\ Independent(Block[sj - 1], Block[sj])
      /\ ~EndsBlock(Block[sj - 1]) /\ ~EndsBlock(Block[sj])
      /\ ~WritesMemory(Block[sj - 1]) /\ ~WritesMemory(Block[sj])
      /\ perm' = Swapped(perm, sj) /\ UNCHANGED sb
      /\ Blocks(code') = Blocks(code)
      /\ Block' = Swapped(Block, sj)
  BY HoistFacts
<1>2. /\ Len(Block) \in Nat /\ DOMAIN Block = 1..Len(Block)
      /\ DOMAIN Block' = 1..Len(Block)
      /\ \A k \in 1..Len(Block) :
           Block'[k] = IF k = sj THEN Block[sj - 1]
                       ELSE IF k = sj - 1 THEN Block[sj] ELSE Block[k]
  BY <1>1, SwappedSeq
<1>3. perm \in [1..Len(Block) -> 1..Len(Block)]
  BY <1>1 DEF TypeInv
<1>4. /\ sj \in 1..Len(Block) /\ sj - 1 \in 1..Len(Block) /\ sj # sj - 1
      /\ sj \in Nat
  BY <1>1, <1>2
<1>5. \A k \in 1..Len(Block) :
        perm'[k] = IF k = sj THEN perm[sj - 1]
                   ELSE IF k = sj - 1 THEN perm[sj] ELSE perm[k]
  BY <1>1, <1>3, <1>4 DEF Swapped
<1>6. ~Depends(Block[sj], Block[sj - 1])
  BY <1>1 DEF Depends, Independent
<1>7. \A k, m \in DOMAIN Block : k < m /\ Depends(Block[k], Block[m]) => perm[k] < perm[m]
  BY <1>1 DEF DependencesKept
<1>8. ASSUME NEW k \in DOMAIN Block', NEW m \in DOMAIN Block',
             k < m, Depends(Block'[k], Block'[m])
      PROVE  perm'[k] < perm'[m]
  <2> DEFINE was(x) == IF x = sj THEN sj - 1 ELSE IF x = sj - 1 THEN sj ELSE x
  <2>1. k \in 1..Len(Block) /\ m \in 1..Len(Block) /\ k \in Nat /\ m \in Nat
    BY <1>2
  <2>2. /\ was(k) \in DOMAIN Block /\ was(m) \in DOMAIN Block
        /\ Block'[k] = Block[was(k)] /\ Block'[m] = Block[was(m)]
        /\ perm'[k] = perm[was(k)] /\ perm'[m] = perm[was(m)]
    BY <2>1, <1>2, <1>4, <1>5
  <2>3. ~(k = sj - 1 /\ m = sj)
    BY <2>2, <1>4, <1>6, <1>8
  <2>4. was(k) < was(m)
    <3>1. \A x, y, z \in Nat : x < y /\ ~(x = z - 1 /\ y = z) =>
            (IF x = z THEN z - 1 ELSE IF x = z - 1 THEN z ELSE x)
              < (IF y = z THEN z - 1 ELSE IF y = z - 1 THEN z ELSE y)
      OBVIOUS
    <3>2. k < m
      BY <1>8
    <3> QED
      BY <3>1, <3>2, <2>1, <2>3, <1>4
  <2> QED
    BY <2>2, <2>4, <1>7, <1>8
<1> QED
  BY <1>8 DEF DependencesKept

LEMMA EnterDependences ==
  ASSUME NEW R, TypeInv(R), NEW b \in Nat \ {0}, Enter(b)
  PROVE  DependencesKept'
<1>1. /\ UNCHANGED code /\ sb' = b
      /\ b \in Blocks(code) => perm' = [k \in 1..Len(code[b]) |-> k]
  BY EnterFacts
<1>2. b \in Blocks(code) => DOMAIN code[b] = 1..Len(code[b]) /\ Block' = code[b]
  BY <1>1, FunctionFacts DEF TypeInv, Block
<1> QED
  BY <1>1, <1>2 DEF DependencesKept

LEMMA StepDependences ==
  ASSUME NEW R, TypeInv(R), DependencesKept, [ScheduleNext]_scheduleVars
  PROVE  DependencesKept'
<1>1. 0 \notin Blocks(code) /\ sb \in Nat
  BY FunctionFacts DEF TypeInv
<1>2. CASE FlowBlock \/ FlowAgain
  BY <1>1, <1>2 DEF FlowBlock, FlowAgain, DependencesKept
<1>3. CASE FlowEnds
  BY <1>3, EnterDependences DEF FlowEnds
<1>4. CASE NextBlock
  <2>1. sb + 1 \in Nat \ {0} /\ Enter(sb + 1)
    BY <1>1, <1>4 DEF NextBlock
  <2> QED
    BY <2>1, EnterDependences
<1>5. CASE Hoist
  BY <1>5, HoistDependences
<1>6. CASE Advance \/ UNCHANGED scheduleVars
  BY <1>6 DEF Advance, scheduleVars, DependencesKept, Block
<1> QED
  BY <1>2, <1>3, <1>4, <1>5, <1>6 DEF ScheduleNext

(* Instructions that depend on each other through a register, memory or    *)
(* control keep their order, in every function: canPass checks enough.     *)
THEOREM DependencesStayInOrder ==
  ASSUME NEW R, NEW f \in Functions(R)
  PROVE  ScheduleSpec(f) => []DependencesKept
<1>1. ScheduleStartWith(f) => TypeInv(R) /\ DependencesKept
  <2>1. 0 \notin Blocks(f)
    BY FunctionFacts
  <2> QED
    BY <2>1, InitTypes DEF ScheduleStartWith, DependencesKept
<1>2. (TypeInv(R) /\ DependencesKept) /\ [ScheduleNext]_scheduleVars
        => (TypeInv(R) /\ DependencesKept)'
  BY StepTypes, StepDependences
<1> QED
  BY <1>1, <1>2, PTL DEF ScheduleSpec

----------------------------------------------------------------------------
(* A step inside a block takes a live set of the same size or less from    *)
(* somewhere: the one hoisting puts in place is no greater than one of the *)
(* three around it.                                                        *)
LEMMA StepPeak ==
  ASSUME NEW R, IsFiniteSet(R), TypeInv(R), [ScheduleNext]_scheduleVars, sb' = sb
  PROVE  \A k \in DOMAIN boundary' : \E j \in DOMAIN boundary :
           Cardinality(boundary'[k]) <= Cardinality(boundary[j])
<1>1. \A S : S \subseteq R => Cardinality(S) \in Nat
  BY FS_Subset, FS_CardinalityType
<1>2. ASSUME NEW k \in DOMAIN boundary PROVE Cardinality(boundary[k]) \in Nat
  <2>1. sb \in Blocks(code) /\ boundary[k] \subseteq R
    BY DEF TypeInv
  <2> QED
    BY <1>1, <2>1
<1>3. CASE UNCHANGED boundary
  BY <1>2, <1>3
<1>4. CASE Hoist
  <2>1. /\ sb \in Blocks(code) /\ sj \in 2..Len(Block) /\ Len(Block) \in Nat
        /\ Block \in Seq(Instructions(R))
        /\ ~increasesPeak /\ boundary' = [boundary EXCEPT ![sj] = Between]
    BY <1>4, HoistFacts
  <2>2. boundary \in [1..(Len(Block) + 1) -> SUBSET R]
    BY <2>1 DEF TypeInv
  <2>3. (sj - 1)..(sj + 1) \subseteq DOMAIN boundary
    BY <2>1, <2>2
  <2>4. Between \subseteq R
    <3>1. Block[sj - 1] \in Instructions(R) /\ boundary[sj + 1] \in SUBSET R
      BY <2>1, <2>2
    <3> QED
      BY <3>1, Operands DEF Between, Through
  <2>5. PICK j \in (sj - 1)..(sj + 1) : ~(Cardinality(boundary[j]) < Cardinality(Between))
    BY <2>1 DEF increasesPeak
  <2>6. Cardinality(Between) <= Cardinality(boundary[j])
    BY <2>3, <2>4, <2>5, <1>1, <1>2
  <2> TAKE k \in DOMAIN boundary'
  <2>7. CASE k = sj
    <3>1. boundary'[k] = Between
      BY <2>1, <2>7
    <3> QED
      BY <3>1, <2>3, <2>6
  <2>8. CASE k # sj
    BY <2>1, <2>8, <1>2
  <2> QED
    BY <2>7, <2>8
<1>5. CASE FlowEnds
  BY <1>5 DEF FlowEnds, Enter
<1>6. CASE NextBlock
  BY <1>6 DEF NextBlock, Enter, TypeInv
<1> QED
  BY <1>3, <1>4, <1>5, <1>6
     DEF ScheduleNext, FlowBlock, FlowAgain, Advance, scheduleVars

(* Hoisting never raises the most registers live at one place of a block,  *)
(* for every function over finitely many registers.                        *)
THEOREM PeakStaysDown ==
  ASSUME NEW R, IsFiniteSet(R), NEW f \in Functions(R)
  PROVE  ScheduleSpec(f) => PeakNeverRises
<1>1. TypeInv(R) /\ [ScheduleNext]_scheduleVars =>
        [sb' = sb =>
           \A k \in DOMAIN boundary' : \E j \in DOMAIN boundary :
             Cardinality(boundary'[k]) <= Cardinality(boundary[j])]_scheduleVars
  BY StepPeak
<1> QED
  BY <1>1, TypeCorrect, PTL DEF ScheduleSpec, PeakNeverRises

----------------------------------------------------------------------------
(* The block in hand is the block it was, in the order perm says, and no   *)
(* instruction is lost or doubled; the blocks behind are untouched.        *)
OnlyReordered(f) ==
  /\ sb = 0 => code = f
  /\ \A b \in Blocks(code) : b > sb => code[b] = f[b]
  /\ sb \in Blocks(code) =>
       /\ \A k \in DOMAIN Block : Block[k] = f[sb][perm[k]]
       /\ \A k, m \in DOMAIN perm : perm[k] = perm[m] => k = m

LEMMA StepReordered ==
  ASSUME NEW R, NEW f, TypeInv(R), OnlyReordered(f), [ScheduleNext]_scheduleVars
  PROVE  OnlyReordered(f)'
<1>1. Blocks(code) = 1..Len(code) /\ Len(code) \in Nat /\ sb \in Nat
  BY FunctionFacts DEF TypeInv
<1>2. CASE FlowBlock \/ FlowAgain
  BY <1>1, <1>2 DEF FlowBlock, FlowAgain, OnlyReordered
<1>3. ASSUME NEW b \in Nat \ {0}, Enter(b), b > sb PROVE OnlyReordered(f)'
  <2>1. /\ UNCHANGED code /\ sb' = b
        /\ b \in Blocks(code) => perm' = [k \in 1..Len(code[b]) |-> k]
    BY <1>3, EnterFacts
  <2>2. b \in Blocks(code) => /\ DOMAIN code[b] = 1..Len(code[b])
                              /\ Block' = code[b] /\ code[b] = f[b]
    BY <1>3, <2>1, FunctionFacts DEF TypeInv, Block, OnlyReordered
  <2>3. \A d \in Blocks(code) : d > b => d > sb
    BY <1>1, <1>3
  <2> QED
    BY <2>1, <2>2, <2>3 DEF OnlyReordered
<1>4. CASE FlowEnds
  BY <1>3, <1>4 DEF FlowEnds
<1>5. CASE NextBlock
  <2>1. sb + 1 \in Nat \ {0} /\ sb + 1 > sb /\ Enter(sb + 1)
    BY <1>1, <1>5 DEF NextBlock
  <2> QED
    BY <2>1, <1>3
<1>6. CASE Hoist
  <2>1. /\ sb \in Blocks(code) /\ sj \in 2..Len(Block)
        /\ Block \in Seq(Instructions(R))
        /\ code' = [code EXCEPT ![sb] = Swapped(Block, sj)]
        /\ perm' = Swapped(perm, sj) /\ UNCHANGED sb
        /\ Blocks(code') = Blocks(code)
        /\ Block' = Swapped(Block, sj)
    BY <1>6, HoistFacts
  <2>2. /\ Len(Block) \in Nat /\ DOMAIN Block' = 1..Len(Block)
        /\ DOMAIN Block = 1..Len(Block)
        /\ \A k \in 1..Len(Block) :
             Block'[k] = IF k = sj THEN Block[sj - 1]
                         ELSE IF k = sj - 1 THEN Block[sj] ELSE Block[k]
    BY <2>1, SwappedSeq
  <2>3. perm \in [1..Len(Block) -> 1..Len(Block)]
    BY <2>1 DEF TypeInv
  <2>4. sj \in 1..Len(Block) /\ sj - 1 \in 1..Len(Block) /\ sj # sj - 1
    BY <2>1, <2>2
  <2>5. /\ DOMAIN perm' = 1..Len(Block)
        /\ \A k \in 1..Len(Block) :
             perm'[k] = IF k = sj THEN perm[sj - 1]
                        ELSE IF k = sj - 1 THEN perm[sj] ELSE perm[k]
    BY <2>1, <2>3, <2>4 DEF Swapped
  <2>6. \A k \in DOMAIN Block' : Block'[k] = f[sb][perm'[k]]
    BY <2>1, <2>2, <2>4, <2>5 DEF OnlyReordered
  <2>7. \A k, m \in DOMAIN perm' : perm'[k] = perm'[m] => k = m
    BY <2>1, <2>3, <2>4, <2>5 DEF OnlyReordered
  <2>8. \A b \in Blocks(code') : b > sb => code'[b] = f[b]
    BY <1>1, <2>1 DEF OnlyReordered, Blocks
  <2> QED
    BY <1>1, <2>1, <2>6, <2>7, <2>8 DEF OnlyReordered
<1>7. CASE Advance \/ UNCHANGED scheduleVars
  BY <1>7 DEF Advance, scheduleVars, OnlyReordered, Block
<1> QED
  BY <1>2, <1>4, <1>5, <1>6, <1>7 DEF ScheduleNext

(* Scheduling only reorders: no instruction is lost, doubled or moved to   *)
(* another block.                                                          *)
THEOREM InstructionsArePermuted ==
  ASSUME NEW R, NEW f \in Functions(R)
  PROVE  ScheduleSpec(f) => []OnlyReordered(f)
<1>1. ScheduleStartWith(f) => TypeInv(R) /\ OnlyReordered(f)
  <2>1. 0 \notin Blocks(f)
    BY FunctionFacts
  <2> QED
    BY <2>1, InitTypes DEF ScheduleStartWith, OnlyReordered
<1>2. (TypeInv(R) /\ OnlyReordered(f)) /\ [ScheduleNext]_scheduleVars
        => (TypeInv(R) /\ OnlyReordered(f))'
  BY StepTypes, StepReordered
<1> QED
  BY <1>1, <1>2, PTL DEF ScheduleSpec

----------------------------------------------------------------------------
(* The iteration never calls a register live that need not be: what it has *)
(* found is part of every solution of f's dataflow inequations, so that    *)
(* what Solves, once it has ended, is the least solution.                  *)
Bounds(f, s) ==
  \A b \in Blocks(f) : LiveBefore(f[b], Outs(f, s, b))[1] \subseteq s[b]

NoneInVain(R, f) ==
  \A s \in [Blocks(f) -> SUBSET R] :
    Bounds(f, s) =>
      \A b \in Blocks(f) : /\ flow.in[b] \subseteq s[b]
                           /\ flow.out[b] \subseteq Outs(f, s, b)

LEMMA LiveMonotone ==
  ASSUME NEW R, NEW blk \in Seq(Instructions(R)), NEW small, NEW big,
         small \subseteq big
  PROVE  LiveBefore(blk, small)[1] \subseteq LiveBefore(blk, big)[1]
<1>1. 1 \in 1..(Len(blk) + 1)
  OBVIOUS
<1> SUFFICES ASSUME NEW r \in LiveBefore(blk, small)[1]
             PROVE  r \in LiveBefore(blk, big)[1]
  OBVIOUS
<1>2. \/ r \in small /\ \A k \in 1..Len(blk) : r \notin Defs(blk[k])
      \/ \E j \in 1..Len(blk) : /\ r \in Uses(blk[j])
                                /\ \A k \in 1..(j - 1) : r \notin Defs(blk[k])
  BY <1>1, LiveMember
<1> QED
  BY <1>1, <1>2, LiveMember

LEMMA StepInVain ==
  ASSUME NEW R, NEW f, TypeInv(R), OnlyReordered(f), NoneInVain(R, f),
         [ScheduleNext]_scheduleVars
  PROVE  NoneInVain(R, f)'
<1>1. CASE UNCHANGED <<flow.in, flow.out>>
  BY <1>1 DEF NoneInVain
<1>2. CASE FlowBlock
  <2> DEFINE b == flow.bi
             out == Outs(f, flow.in, b)
             in == LiveBefore(f[b], out)[1]
  <2>1. /\ code = f /\ f \in Functions(R) /\ b \in Blocks(f)
        /\ flow.in \in [Blocks(f) -> SUBSET R] /\ flow.out \in [Blocks(f) -> SUBSET R]
    BY <1>2, FunctionFacts DEF FlowBlock, TypeInv, OnlyReordered
  <2>2. /\ flow'.in = [flow.in EXCEPT ![b] = in]
        /\ flow'.out = [flow.out EXCEPT ![b] = out]
    BY <1>2, <2>1 DEF FlowBlock
  <2>3. ASSUME NEW s \in [Blocks(f) -> SUBSET R], Bounds(f, s)
        PROVE  out \subseteq Outs(f, s, b) /\ in \subseteq s[b]
    <3>1. \A d \in Blocks(f) : flow.in[d] \subseteq s[d]
      BY <2>3 DEF NoneInVain
    <3>2. Succs(f, b) \subseteq Blocks(f)
      BY <2>1, FunctionFacts DEF Succs, FallsThrough
    <3>3. out \subseteq Outs(f, s, b)
      BY <3>1, <3>2 DEF Outs
    <3>4. f[b] \in Seq(Instructions(R))
      BY <2>1, FunctionFacts
    <3> HIDE DEF out
    <3>5. in \subseteq LiveBefore(f[b], Outs(f, s, b))[1]
      BY <3>3, <3>4, LiveMonotone
    <3> QED
      BY <3>3, <3>5, <2>1, <2>3 DEF Bounds
  <2> HIDE DEF in, out
  <2>4. ASSUME NEW s \in [Blocks(f) -> SUBSET R], Bounds(f, s), NEW d \in Blocks(f)
        PROVE  flow'.in[d] \subseteq s[d] /\ flow'.out[d] \subseteq Outs(f, s, d)
    <3>1. flow.in[d] \subseteq s[d] /\ flow.out[d] \subseteq Outs(f, s, d)
      BY <2>4 DEF NoneInVain
    <3>2. /\ flow'.in[d] = IF d = b THEN in ELSE flow.in[d]
          /\ flow'.out[d] = IF d = b THEN out ELSE flow.out[d]
      BY <2>1, <2>2
    <3> QED
      BY <3>1, <3>2, <2>3, <2>4
  <2> QED
    BY <2>4 DEF NoneInVain
<1>3. CASE FlowAgain
  <2>1. flow'.in = flow.in /\ flow'.out = flow.out
    BY <1>3 DEF FlowAgain, TypeInv
  <2> QED
    BY <2>1, <1>1
<1> QED
  BY <1>1, <1>2, <1>3
     DEF ScheduleNext, FlowEnds, Hoist, Advance, NextBlock, Enter, scheduleVars

(* The live sets by which pressure is judged hold no register in vain:     *)
(* they are the least the function allows.                                 *)
THEOREM LivenessIsLeast ==
  ASSUME NEW R, NEW f \in Functions(R)
  PROVE  ScheduleSpec(f) => []NoneInVain(R, f)
<1>1. ScheduleStartWith(f) => TypeInv(R) /\ OnlyReordered(f) /\ NoneInVain(R, f)
  <2>1. 0 \notin Blocks(f)
    BY FunctionFacts
  <2> QED
    BY <2>1, InitTypes DEF ScheduleStartWith, OnlyReordered, NoneInVain
<1>2. (TypeInv(R) /\ OnlyReordered(f) /\ NoneInVain(R, f)) /\ [ScheduleNext]_scheduleVars
        => (TypeInv(R) /\ OnlyReordered(f) /\ NoneInVain(R, f))'
  BY StepTypes, StepReordered, StepInVain
<1> QED
  BY <1>1, <1>2, PTL DEF ScheduleSpec
============================================================================
