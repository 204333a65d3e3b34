--------------------------- MODULE RegAllocReads ---------------------------
(***************************************************************************)
(* Proofs about RegAlloc for every function over any finite set of         *)
(* registers, any palettes and any limits on the rounds: what an           *)
(* instruction of the allocated code reads is the current value of the     *)
(* register of the program it reads.  Notes on the blocks say at which     *)
(* point which registers and spill slots hold what they stand for; they    *)
(* are kept by trimming and by spill rounds, and the colouring and the     *)
(* execution of the coloured code respect them.                            *)
(***************************************************************************)
EXTENDS RegAllocProofs

----------------------------------------------------------------------------
(* Where the values are.  A place is a register or, as a number below      *)
(* those, a spill slot; st tells which register of the program a place     *)
(* stands for.  A note on a block says for each point of it which places   *)
(* are certain to hold the current value of what they stand for.           *)

Slot(s) == -(s + 2)

Reads(m) == Uses(m) \cup (IF m.op = "SpillLw" THEN {Slot(m.imm)} ELSE {})

Sets(m) == Defs(m) \cup (IF m.op = "SpillSw" THEN {Slot(m.imm)} ELSE {})

(* One instruction takes L to M: what it reads is held, what is held       *)
(* behind it was held or is set; a new value leaves no older copy, a load  *)
(* or store moves a value between places that stand for the same register, *)
(* and a constant is no register that a reload fills (W).                  *)
Holds(st, W, P, m, L, M) ==
  /\ Reads(m) \subseteq L /\ M \ Sets(m) \subseteq L /\ Sets(m) \subseteq P
  /\ m.op \notin {"SpillLw", "SpillSw"} =>
       \A d \in Defs(m) : \A q \in M : q # d => st[q] # st[d]
  /\ m.op \in {"SpillLw", "SpillSw"} => m.imm \in Nat
  /\ m.op = "SpillLw" => st[m.dst] = st[Slot(m.imm)]
  /\ m.op = "SpillSw" => \A r \in Uses(m) : st[r] = st[Slot(m.imm)]
  /\ m.op = "Li" => m.dst \notin W

(* A register that no reload fills is the only place of its value.         *)
Alone(st, W, L) ==
  \A r \in L : r \in Nat /\ r \notin W => \A q \in L : st[q] = st[r] => q = r

Noted(st, W, P, blk, a) ==
  /\ a \in [1..(Len(blk) + 1) -> SUBSET P]
  /\ \A k \in 1..Len(blk) : Holds(st, W, P, blk[k], a[k], a[k + 1])
  /\ \A k \in 1..(Len(blk) + 1) : Alone(st, W, a[k])

(* What the blocks that a block may go to need is held where it goes.      *)
Linked(E, blk, a) ==
  \A k \in 1..Len(blk) : IsJump(blk[k]) => E[blk[k].imm] \subseteq a[k]

Leaves(blk) == blk # <<>> /\ blk[Len(blk)].op \in {"Jmp", "Ret"}

Behind(E, n, b, blk, a) ==
  b < n /\ ~Leaves(blk) => E[b + 1] \subseteq a[Len(blk) + 1]

BlockNote(st, W, P, E, n, b, blk, a) ==
  /\ Noted(st, W, P, blk, a) /\ a[1] \subseteq E[b]
  /\ Linked(E, blk, a) /\ Behind(E, n, b, blk, a)

LEMMA HoldsLess ==
  ASSUME NEW st, NEW W, NEW P, NEW m, NEW L, NEW M, NEW K, K \subseteq M,
         Holds(st, W, P, m, L, M)
  PROVE  Holds(st, W, P, m, L, K)
  BY DEF Holds

LEMMA AloneLess ==
  ASSUME NEW st, NEW W, NEW L, NEW K, K \subseteq L, Alone(st, W, L)
  PROVE  Alone(st, W, K)
  BY DEF Alone

(* Places that nothing reads may be left out of a note.                    *)
Cut(a, U, n) == [k \in 1..(n + 1) |-> a[k] \cap U]

LEMMA Narrowed ==
  ASSUME NEW S, NEW blk \in Seq(S), NEW st, NEW W, NEW P, NEW a,
         Noted(st, W, P, blk, a), NEW U, NEW Q, U \cap P \subseteq Q,
         \A k \in 1..Len(blk) : Reads(blk[k]) \subseteq U /\ Sets(blk[k]) \subseteq Q
  PROVE  Noted(st, W, Q, blk, Cut(a, U, Len(blk)))
<1> DEFINE c == Cut(a, U, Len(blk))
           n == Len(blk)
<1>0. n \in Nat
  OBVIOUS
<1>1. a \in [1..(n + 1) -> SUBSET P]
  BY DEF Noted
<1>2. \A k \in 1..(n + 1) : c[k] = a[k] \cap U
  BY DEF Cut
<1> HIDE DEF c
<1>3. c \in [1..(n + 1) -> SUBSET Q]
  BY <1>1 DEF c, Cut
<1>4. ASSUME NEW k \in 1..n PROVE Holds(st, W, Q, blk[k], c[k], c[k + 1])
  <2>1. k \in 1..(n + 1) /\ k + 1 \in 1..(n + 1)
    BY <1>0
  <2>2. Holds(st, W, P, blk[k], a[k], a[k + 1])
    BY DEF Noted
  <2>3. c[k] = a[k] \cap U /\ c[k + 1] = a[k + 1] \cap U
    BY <1>2, <2>1
  <2>4. Reads(blk[k]) \subseteq U /\ Sets(blk[k]) \subseteq Q
    OBVIOUS
  <2> QED
    BY <2>2, <2>3, <2>4 DEF Holds
<1>5. ASSUME NEW k \in 1..(n + 1) PROVE Alone(st, W, c[k])
  <2>1. c[k] \subseteq a[k] /\ Alone(st, W, a[k])
    BY <1>2 DEF Noted
  <2> QED
    BY <2>1, AloneLess
<1> QED
  BY <1>3, <1>4, <1>5 DEF Noted, c

(* A note speaks of the places of P only.                                  *)
LEMMA Agreed ==
  ASSUME NEW S, NEW blk \in Seq(S), NEW st, NEW W, NEW P, NEW a,
         Noted(st, W, P, blk, a), NEW su, NEW V, NEW Q, P \subseteq Q,
         \A q \in P : su[q] = st[q] /\ (q \in V <=> q \in W),
         \A k \in 1..Len(blk) : blk[k].op \in Defining => blk[k].dst \in Defs(blk[k])
  PROVE  Noted(su, V, Q, blk, a)
<1> DEFINE n == Len(blk)
<1>0. n \in Nat
  OBVIOUS
<1>1. a \in [1..(n + 1) -> SUBSET P]
  BY DEF Noted
<1>2. a \in [1..(n + 1) -> SUBSET Q]
  BY <1>1
<1>3. ASSUME NEW k \in 1..n PROVE Holds(su, V, Q, blk[k], a[k], a[k + 1])
  <2>1. k \in 1..(n + 1) /\ k + 1 \in 1..(n + 1)
    BY <1>0
  <2> DEFINE m == blk[k]
             L == a[k]
             M == a[k + 1]
  <2>2. Holds(st, W, P, m, L, M) /\ L \subseteq P /\ M \subseteq P
    BY <1>1, <2>1 DEF Noted
  <2>3. m.op \in Defining => m.dst \in Defs(m)
    OBVIOUS
  <2> HIDE DEF m, L, M
  <2>4. Defs(m) \subseteq P /\ Uses(m) \subseteq P
        /\ (m.op \in {"SpillLw", "SpillSw"} => Slot(m.imm) \in P)
    BY <2>2 DEF Holds, Reads, Sets
  <2>5. \A d \in Defs(m) : \A q \in M : su[d] = st[d] /\ su[q] = st[q]
    BY <2>2, <2>4
  <2>6. m.op = "SpillLw" => su[m.dst] = su[Slot(m.imm)]
    BY <2>2, <2>3, <2>4 DEF Holds, Defining
  <2>7. m.op = "SpillSw" => \A r \in Uses(m) : su[r] = su[Slot(m.imm)]
    BY <2>2, <2>4 DEF Holds
  <2>8. m.op = "Li" => m.dst \notin V
    BY <2>2, <2>3, <2>4 DEF Holds, Defining
  <2>9. m.op \notin {"SpillLw", "SpillSw"} =>
          \A d \in Defs(m) : \A q \in M : q # d => su[q] # su[d]
    BY <2>2, <2>5 DEF Holds
  <2>10. Holds(su, V, Q, m, L, M)
    BY <2>2, <2>6, <2>7, <2>8, <2>9 DEF Holds
  <2> QED
    BY <2>10 DEF m, L, M
<1>4. ASSUME NEW k \in 1..(n + 1) PROVE Alone(su, V, a[k])
  <2>1. a[k] \subseteq P /\ Alone(st, W, a[k])
    BY <1>1 DEF Noted
  <2> QED
    BY <2>1 DEF Alone
<1> QED
  BY <1>2, <1>3, <1>4 DEF Noted

(* One note behind another.                                                *)
Glue(a, c, n, l) == [i \in 1..(n + l + 1) |-> IF i <= n THEN a[i] ELSE c[i - n]]

LEMMA Glued ==
  ASSUME NEW s, NEW t, Len(s) \in Nat, Len(t) \in Nat, NEW a, NEW c,
         c[1] = a[Len(s) + 1]
  PROVE  /\ \A i \in 1..(Len(s) + 1) : Glue(a, c, Len(s), Len(t))[i] = a[i]
         /\ \A j \in 1..(Len(t) + 1) : Glue(a, c, Len(s), Len(t))[Len(s) + j] = c[j]
<1> DEFINE n == Len(s)
           l == Len(t)
           g == Glue(a, c, n, l)
<1>1. n \in Nat /\ l \in Nat /\ c[1] = a[n + 1]
  OBVIOUS
<1>2. \A i \in 1..(n + l + 1) : g[i] = IF i <= n THEN a[i] ELSE c[i - n]
  BY DEF Glue
<1> HIDE DEF n, l, g
<1>3. ASSUME NEW i \in 1..(n + 1) PROVE g[i] = a[i]
  <2>1. CASE i <= n
    <3>1. i \in 1..(n + l + 1)
      BY <1>1, <2>1
    <3> QED
      BY <1>2, <2>1, <3>1
  <2>2. CASE ~(i <= n)
    <3>1. i = n + 1 /\ i \in 1..(n + l + 1) /\ i - n = 1
      BY <1>1, <2>2
    <3> QED
      BY <1>1, <1>2, <2>2, <3>1
  <2> QED
    BY <2>1, <2>2
<1>4. ASSUME NEW j \in 1..(l + 1) PROVE g[n + j] = c[j]
  <2>1. n + j \in 1..(n + l + 1) /\ ~(n + j <= n) /\ (n + j) - n = j
    BY <1>1
  <2> QED
    BY <1>2, <2>1
<1> QED
  BY <1>3, <1>4 DEF n, l, g

LEMMA JoinedNotes ==
  ASSUME NEW S, NEW s \in Seq(S), NEW t \in Seq(S), NEW st, NEW W, NEW P,
         NEW a, NEW c, Noted(st, W, P, s, a), Noted(st, W, P, t, c),
         c[1] = a[Len(s) + 1]
  PROVE  Noted(st, W, P, s \o t, Glue(a, c, Len(s), Len(t)))
<1> DEFINE n == Len(s)
           l == Len(t)
           x == s \o t
           g == Glue(a, c, n, l)
<1>1. /\ n \in Nat /\ l \in Nat /\ Len(x) = n + l
      /\ \A i \in 1..n : x[i] = s[i]
      /\ \A j \in 1..l : x[n + j] = t[j]
  BY Joined
<1>2. c[1] = a[n + 1]
  OBVIOUS
<1>3. /\ a \in [1..(n + 1) -> SUBSET P]
      /\ \A k \in 1..n : Holds(st, W, P, s[k], a[k], a[k + 1])
      /\ \A k \in 1..(n + 1) : Alone(st, W, a[k])
  BY DEF Noted
<1>4. /\ c \in [1..(l + 1) -> SUBSET P]
      /\ \A k \in 1..l : Holds(st, W, P, t[k], c[k], c[k + 1])
      /\ \A k \in 1..(l + 1) : Alone(st, W, c[k])
  BY DEF Noted
<1>5. g = [i \in 1..(n + l + 1) |-> g[i]]
  BY DEF Glue
<1>6. /\ \A i \in 1..(n + 1) : g[i] = a[i]
      /\ \A j \in 1..(l + 1) : g[n + j] = c[j]
  BY <1>1, <1>2, Glued
<1> HIDE DEF n, l, x, g
<1>7. ASSUME NEW i \in 1..(n + l + 1)
      PROVE  i \in 1..n \/ \E j \in 1..(l + 1) : i = n + j
  <2>1. CASE i <= n
    BY <1>1, <2>1
  <2>2. CASE ~(i <= n)
    <3>1. i - n \in 1..(l + 1) /\ i = n + (i - n)
      BY <1>1, <2>2
    <3> QED
      BY <3>1
  <2> QED
    BY <2>1, <2>2
<1>8. \A i \in 1..n : i \in 1..(n + 1) /\ i + 1 \in 1..(n + 1)
  BY <1>1
<1>9. ASSUME NEW i \in 1..(n + l + 1) PROVE g[i] \in SUBSET P /\ Alone(st, W, g[i])
  <2>1. CASE i \in 1..n
    BY <2>1, <1>3, <1>6, <1>8
  <2>2. ASSUME NEW j \in 1..(l + 1), i = n + j PROVE g[i] \in SUBSET P /\ Alone(st, W, g[i])
    BY <2>2, <1>4, <1>6
  <2> QED
    BY <1>7, <2>1, <2>2
<1>10. ASSUME NEW i \in 1..(n + l) PROVE Holds(st, W, P, x[i], g[i], g[i + 1])
  <2>1. i \in 1..n \/ \E j \in 1..l : i = n + j
    <3>1. CASE i <= n
      BY <1>1, <3>1
    <3>2. CASE ~(i <= n)
      <4>1. i - n \in 1..l /\ i = n + (i - n)
        BY <1>1, <3>2
      <4> QED
        BY <4>1
    <3> QED
      BY <3>1, <3>2
  <2>2. CASE i \in 1..n
    <3>1. g[i] = a[i] /\ g[i + 1] = a[i + 1] /\ x[i] = s[i]
      BY <2>2, <1>1, <1>6, <1>8
    <3> QED
      BY <2>2, <3>1, <1>3
  <2>3. ASSUME NEW j \in 1..l, i = n + j PROVE Holds(st, W, P, x[i], g[i], g[i + 1])
    <3>1. j \in 1..(l + 1) /\ j + 1 \in 1..(l + 1) /\ i + 1 = n + (j + 1)
      BY <1>1, <2>3
    <3>2. g[i] = c[j] /\ g[i + 1] = c[j + 1] /\ x[i] = t[j]
      BY <2>3, <3>1, <1>1, <1>6
    <3> QED
      BY <3>2, <1>4
  <2> QED
    BY <2>1, <2>2, <2>3
<1>11. g \in [1..(n + l + 1) -> SUBSET P]
  BY <1>5, <1>9
<1>12. Noted(st, W, P, x, g)
  BY <1>1, <1>9, <1>10, <1>11 DEF Noted
<1> QED
  BY <1>12 DEF x, g, n, l

(* What is held at one point, and all the way back to another unless it is *)
(* held before, is held at that other point.                               *)
LEMMA HeldBack ==
  ASSUME NEW a, NEW i \in Int, NEW j \in Int, i <= j, NEW q, q \in a[j],
         \A h \in i..(j - 1) : q \in a[h + 1] => q \in a[h]
  PROVE  q \in a[i]
<1> DEFINE X == {h \in i..j : q \in a[h]}
<1>1. X \in SUBSET Int /\ IsFiniteSet(X) /\ j \in X
  <2>1. IsFiniteSet(i..j)
    BY FS_Interval
  <2>2. X \in SUBSET (i..j)
    OBVIOUS
  <2>3. i..j \in SUBSET Int
    OBVIOUS
  <2>4. IsFiniteSet(X)
    BY <2>1, <2>2, FS_Subset
  <2> QED
    BY <2>2, <2>3, <2>4
<1>2. PICK x \in X : \A y \in X : x <= y
  <2> HIDE DEF X
  <2>1. X # {}
    BY <1>1
  <2> QED
    BY <1>1, <2>1, Smallest
<1>3. x \in i..j /\ q \in a[x]
  OBVIOUS
<1>4. CASE x = i
  BY <1>3, <1>4
<1>5. CASE x # i
  <2> DEFINE h == x - 1
  <2>1. h \in i..(j - 1) /\ h + 1 = x /\ h \in i..j /\ ~(x <= h)
    BY <1>3, <1>5
  <2> HIDE DEF h
  <2>2. q \in a[h]
    BY <1>3, <2>1
  <2>3. h \in X
    BY <2>1, <2>2
  <2> QED
    BY <1>2, <2>1, <2>3
<1> QED
  BY <1>4, <1>5

(* Order(K) is increasing and passes over nothing of K.                    *)
LEMMA OrderRises ==
  ASSUME NEW K \in SUBSET Int, IsFiniteSet(K)
  PROVE  \A i, j \in 1..Cardinality(K) : i < j => Order(K)[i] < Order(K)[j]
<1> DEFINE n == Cardinality(K)
           o == Order(K)
           upto(x) == {y \in K : y <= x}
<1>1. /\ n \in Nat /\ o \in [1..n -> K] /\ \A i \in 1..n : Cardinality(upto(o[i])) = i
  BY Ordered
<1> HIDE DEF n, o
<1> SUFFICES ASSUME NEW i \in 1..n, NEW j \in 1..n, i < j, ~(o[i] < o[j]) PROVE FALSE
  BY DEF n, o
<1>2. o[i] \in Int /\ o[j] \in Int
  BY <1>1
<1>3. upto(o[j]) \in SUBSET upto(o[i]) /\ upto(o[i]) \in SUBSET K
  <2>1. o[j] <= o[i]
    BY <1>2
  <2>2. ASSUME NEW y \in K, y <= o[j] PROVE y <= o[i]
    <3>1. y \in Int
      OBVIOUS
    <3> QED
      BY <1>2, <2>1, <2>2, <3>1
  <2> QED
    BY <2>2
<1>4. Cardinality(upto(o[i])) = i /\ Cardinality(upto(o[j])) = j
  BY <1>1
<1> HIDE DEF upto
<1>5. Cardinality(upto(o[j])) <= Cardinality(upto(o[i]))
  BY <1>3, FS_Subset
<1>6. j <= i
  BY <1>4, <1>5
<1> QED
  BY <1>1, <1>6

(* The note for what an erasing loop keeps.                                *)
Thin(a, K, n) ==
  [i \in 1..(Cardinality(K) + 1) |->
     IF i <= Cardinality(K) THEN a[Order(K)[i]] ELSE a[n + 1]]

LEMMA ThinFacts ==
  ASSUME NEW n \in Nat, NEW a, NEW K \in SUBSET (1..n),
         \A k \in (1..n) \ K : a[k + 1] \subseteq a[k]
  PROVE  LET z == Cardinality(K)
             c == Thin(a, K, n)
         IN  /\ z \in Nat /\ Order(K) \in [1..z -> K]
             /\ c = [i \in 1..(z + 1) |-> c[i]]
             /\ \A i \in 1..z : c[i] = a[Order(K)[i]]
             /\ c[z + 1] = a[n + 1]
             /\ \A i \in 1..z : c[i + 1] \subseteq a[Order(K)[i] + 1]
             /\ c[1] \subseteq a[1]
<1> DEFINE z == Cardinality(K)
           o == Order(K)
           c == Thin(a, K, n)
<1>1. K \in SUBSET Int /\ IsFiniteSet(K)
  <2>1. IsFiniteSet(1..n)
    BY FS_Interval
  <2> QED
    BY <2>1, FS_Subset
<1>2. /\ z \in Nat /\ o \in [1..z -> K]
      /\ \A k \in K : \E i \in 1..z : o[i] = k
      /\ \A i, j \in 1..z : i < j => o[i] < o[j]
  BY <1>1, Ordered, OrderRises
<1>3. c = [i \in 1..(z + 1) |-> IF i <= z THEN a[o[i]] ELSE a[n + 1]]
  BY DEF Thin
<1> HIDE DEF z, o, c
<1>4. c = [i \in 1..(z + 1) |-> c[i]]
  BY <1>3
<1>5. \A i \in 1..z : c[i] = a[o[i]]
  <2>1. \A i \in 1..z : i \in 1..(z + 1) /\ i <= z
    BY <1>2
  <2> QED
    BY <1>3, <2>1
<1>6. c[z + 1] = a[n + 1]
  <2>1. z + 1 \in 1..(z + 1) /\ ~(z + 1 <= z)
    BY <1>2
  <2> QED
    BY <1>3, <2>1
<1>7. ASSUME NEW x \in Int, NEW y \in Int, x <= y, 1 <= x, y <= n + 1,
             \A h \in x..(y - 1) : h \notin K
      PROVE  a[y] \subseteq a[x]
  <2>1. \A h \in x..(y - 1) : h \in (1..n) \ K
    BY <1>7
  <2>2. \A h \in x..(y - 1) : a[h + 1] \subseteq a[h]
    BY <2>1
  <2>3. ASSUME NEW q \in a[y] PROVE q \in a[x]
    BY <1>7, <2>2, HeldBack
  <2> QED
    BY <2>3
<1>8. \A i \in 1..z : o[i] \in 1..n
  BY <1>2
<1>9. ASSUME NEW i \in 1..z PROVE c[i + 1] \subseteq a[o[i] + 1]
  <2> DEFINE x == o[i] + 1
             y == IF i = z THEN n + 1 ELSE o[i + 1]
  <2>1. c[i + 1] = a[y]
    <3>1. CASE i = z
      BY <3>1, <1>6
    <3>2. CASE i # z
      <4>1. i + 1 \in 1..z
        BY <1>2, <3>2
      <4> QED
        BY <4>1, <3>2, <1>5
    <3> QED
      BY <3>1, <3>2
  <2>2. x \in Int /\ y \in Int /\ x <= y /\ 1 <= x /\ y <= n + 1
    <3>1. o[i] \in 1..n
      BY <1>8
    <3>2. CASE i = z
      BY <3>1, <3>2
    <3>3. CASE i # z
      <4>1. i + 1 \in 1..z /\ i < i + 1
        BY <1>2, <3>3
      <4>2. o[i] < o[i + 1] /\ o[i + 1] \in 1..n
        BY <4>1, <1>2, <1>8
      <4> QED
        BY <3>1, <3>3, <4>2
    <3> QED
      BY <3>2, <3>3
  <2>3. ASSUME NEW h \in x..(y - 1), h \in K PROVE FALSE
    <3>1. PICK l \in 1..z : o[l] = h
      BY <2>3, <1>2
    <3>2. o[i] \in 1..n /\ o[l] > o[i]
      BY <3>1, <2>2, <1>8
    <3>3. i < l
      <4>1. o[i] \in Int /\ o[l] \in Int
        BY <1>8
      <4>2. l # i /\ ~(l < i)
        BY <1>2, <3>2, <4>1
      <4> QED
        BY <4>2
    <3>4. i # z /\ i + 1 \in 1..z /\ (l = i + 1 \/ i + 1 < l)
      BY <1>2, <3>3
    <3>5. o[i + 1] <= o[l]
      <4>1. o[i + 1] \in Int /\ o[l] \in Int
        BY <3>4, <1>8
      <4>2. CASE l = i + 1
        BY <4>1, <4>2
      <4>3. CASE i + 1 < l
        <5>1. o[i + 1] < o[l]
          BY <4>3, <3>4, <1>2
        <5> QED
          BY <4>1, <5>1
      <4> QED
        BY <3>4, <4>2, <4>3
    <3>6. y = o[i + 1]
      BY <3>4
    <3> QED
      BY <3>1, <3>5, <3>6, <2>2
  <2> HIDE DEF x, y
  <2>4. a[y] \subseteq a[x]
    BY <2>2, <2>3, <1>7
  <2> QED
    BY <2>1, <2>4 DEF x
<1>10. c[1] \subseteq a[1]
  <2> DEFINE y == IF z = 0 THEN n + 1 ELSE o[1]
  <2>1. c[1] = a[y]
    <3>1. CASE z = 0
      BY <3>1, <1>6
    <3>2. CASE z # 0
      <4>1. 1 \in 1..z
        BY <1>2, <3>2
      <4> QED
        BY <4>1, <3>2, <1>5
    <3> QED
      BY <3>1, <3>2
  <2>2. y \in Int /\ 1 <= y /\ y <= n + 1
    <3>1. CASE z = 0
      BY <3>1
    <3>2. CASE z # 0
      <4>1. 1 \in 1..z
        BY <1>2, <3>2
      <4>2. o[1] \in 1..n
        BY <4>1, <1>8
      <4> QED
        BY <3>2, <4>2
    <3> QED
      BY <3>1, <3>2
  <2>3. ASSUME NEW h \in 1..(y - 1), h \in K PROVE FALSE
    <3>1. PICK l \in 1..z : o[l] = h
      BY <2>3, <1>2
    <3>2. z # 0 /\ 1 \in 1..z /\ (l = 1 \/ 1 < l)
      BY <1>2, <3>1
    <3>3. o[1] \in 1..n /\ y = o[1]
      BY <3>2, <1>8
    <3>4. ~(1 < l)
      <4>1. ~(o[1] < o[l])
        BY <3>1, <3>3
      <4> QED
        BY <4>1, <3>2, <1>2
    <3> QED
      BY <3>1, <3>2, <3>3, <3>4
  <2> HIDE DEF y
  <2>4. a[y] \subseteq a[1]
    BY <2>2, <2>3, <1>7
  <2> QED
    BY <2>1, <2>4
<1> QED
  BY <1>2, <1>4, <1>5, <1>6, <1>9, <1>10 DEF z, o, c

LEMMA ThinnedNotes ==
  ASSUME NEW S, NEW blk \in Seq(S), NEW K \in SUBSET DOMAIN blk,
         NEW st, NEW W, NEW P, NEW a, Noted(st, W, P, blk, a),
         \A k \in DOMAIN blk \ K : a[k + 1] \subseteq a[k],
         NEW new, Len(new) = Cardinality(K),
         \A i \in 1..Cardinality(K) : \A L, M :
           Holds(st, W, P, blk[Order(K)[i]], L, M) /\ M \subseteq a[Order(K)[i] + 1]
             => Holds(st, W, P, new[i], L, M)
  PROVE  Noted(st, W, P, new, Thin(a, K, Len(blk)))
<1> DEFINE n == Len(blk)
           z == Cardinality(K)
           o == Order(K)
           c == Thin(a, K, n)
<1>1. n \in Nat /\ DOMAIN blk = 1..n
  OBVIOUS
<1>2. /\ z \in Nat /\ o \in [1..z -> K]
      /\ c = [i \in 1..(z + 1) |-> c[i]]
      /\ \A i \in 1..z : c[i] = a[o[i]]
      /\ c[z + 1] = a[n + 1]
      /\ \A i \in 1..z : c[i + 1] \subseteq a[o[i] + 1]
  <2>1. n \in Nat /\ K \in SUBSET (1..n) /\ \A k \in (1..n) \ K : a[k + 1] \subseteq a[k]
    BY <1>1
  <2> HIDE DEF n
  <2> QED
    BY <2>1, ThinFacts, SMTT(30)
<1>3. /\ a \in [1..(n + 1) -> SUBSET P]
      /\ \A k \in 1..n : Holds(st, W, P, blk[k], a[k], a[k + 1])
      /\ \A k \in 1..(n + 1) : Alone(st, W, a[k])
  BY DEF Noted
<1>4. /\ Len(new) = z
      /\ \A i \in 1..z : \A L, M :
           Holds(st, W, P, blk[o[i]], L, M) /\ M \subseteq a[o[i] + 1]
             => Holds(st, W, P, new[i], L, M)
  OBVIOUS
<1>5. K \subseteq 1..n
  BY <1>1
<1> HIDE DEF n, z, o, c
<1>6. ASSUME NEW i \in 1..(z + 1)
      PROVE  \E k \in 1..(n + 1) : c[i] = a[k]
  <2>1. CASE i = z + 1
    <3>1. n + 1 \in 1..(n + 1)
      BY <1>1
    <3> QED
      BY <2>1, <3>1, <1>2
  <2>2. CASE i # z + 1
    <3>1. i \in 1..z
      BY <1>2, <2>2
    <3>2. o[i] \in 1..n
      BY <3>1, <1>2, <1>5
    <3>3. o[i] \in 1..(n + 1)
      BY <1>1, <3>2
    <3> QED
      BY <3>1, <3>3, <1>2
  <2> QED
    BY <2>1, <2>2
<1>7. ASSUME NEW i \in 1..(z + 1) PROVE c[i] \in SUBSET P /\ Alone(st, W, c[i])
  BY <1>3, <1>6
<1>8. c \in [1..(z + 1) -> SUBSET P]
  BY <1>2, <1>7
<1>9. ASSUME NEW i \in 1..z PROVE Holds(st, W, P, new[i], c[i], c[i + 1])
  <2> DEFINE k == o[i]
  <2>1. k \in 1..n /\ c[i] = a[k] /\ c[i + 1] \subseteq a[k + 1]
    BY <1>2, <1>5
  <2>2. Holds(st, W, P, blk[k], a[k], a[k + 1])
    BY <1>3, <2>1
  <2> HIDE DEF k
  <2>3. Holds(st, W, P, blk[k], a[k], c[i + 1])
    BY <2>1, <2>2, HoldsLess
  <2> QED
    BY <1>4, <2>1, <2>3 DEF k
<1>10. Noted(st, W, P, new, c)
  BY <1>4, <1>7, <1>8, <1>9 DEF Noted
<1> QED
  BY <1>10 DEF c, n

(* The same for all that is noted on a block.                              *)
LEMMA NarrowedBlock ==
  ASSUME NEW S, NEW blk \in Seq(S), NEW st, NEW W, NEW P, NEW E, NEW n \in Nat,
         NEW b \in 1..n, NEW a, BlockNote(st, W, P, E, n, b, blk, a),
         \A k \in 1..Len(blk) : IsJump(blk[k]) => blk[k].imm \in 1..n,
         NEW U, NEW Q, U \cap P \subseteq Q, NEW F, \A s \in 1..n : F[s] = E[s] \cap U,
         \A k \in 1..Len(blk) : Reads(blk[k]) \subseteq U /\ Sets(blk[k]) \subseteq Q
  PROVE  BlockNote(st, W, Q, F, n, b, blk, Cut(a, U, Len(blk)))
<1> DEFINE l == Len(blk)
           c == Cut(a, U, l)
<1>1. l \in Nat /\ 1 \in 1..(l + 1) /\ l + 1 \in 1..(l + 1)
      /\ \A k \in 1..l : k \in 1..(l + 1)
  OBVIOUS
<1>2. Noted(st, W, Q, blk, c)
  <2>1. Noted(st, W, P, blk, a)
    BY DEF BlockNote
  <2>2. \A k \in 1..Len(blk) : Reads(blk[k]) \subseteq U /\ Sets(blk[k]) \subseteq Q
    OBVIOUS
  <2> QED
    BY <2>1, <2>2, Narrowed
<1>3. (\A k \in 1..(l + 1) : c[k] = a[k] \cap U) /\ \A s \in 1..n : F[s] = E[s] \cap U
  BY DEF Cut
<1>4. \A k \in 1..l : IsJump(blk[k]) => blk[k].imm \in 1..n
  OBVIOUS
<1>5. /\ a[1] \subseteq E[b]
      /\ \A k \in 1..l : IsJump(blk[k]) => E[blk[k].imm] \subseteq a[k]
      /\ b < n /\ ~Leaves(blk) => E[b + 1] \subseteq a[l + 1]
  BY DEF BlockNote, Linked, Behind
<1> HIDE DEF l, c
<1>6. c[1] \subseteq F[b]
  BY <1>1, <1>3, <1>5
<1>7. \A k \in 1..l : IsJump(blk[k]) => F[blk[k].imm] \subseteq c[k]
  BY <1>1, <1>3, <1>4, <1>5
<1>8. b < n /\ ~Leaves(blk) => F[b + 1] \subseteq c[l + 1]
  <2>1. b < n => b + 1 \in 1..n
    OBVIOUS
  <2> QED
    BY <1>1, <1>3, <1>5, <2>1
<1>9. BlockNote(st, W, Q, F, n, b, blk, c)
  BY <1>2, <1>6, <1>7, <1>8 DEF BlockNote, Linked, Behind, l
<1> QED
  BY <1>9 DEF c, l

(* What is kept of a block that control leaves leaves as the block did.    *)
LEMMA LastKept ==
  ASSUME NEW n \in Nat, n > 0, NEW K \in SUBSET (1..n), n \in K
  PROVE  Cardinality(K) \in Nat /\ Cardinality(K) > 0 /\ Order(K)[Cardinality(K)] = n
<1> DEFINE z == Cardinality(K)
           o == Order(K)
<1>1. K \in SUBSET Int /\ IsFiniteSet(K)
  <2>1. IsFiniteSet(1..n)
    BY FS_Interval
  <2>2. IsFiniteSet(K)
    BY <2>1, FS_Subset
  <2>3. 1..n \subseteq Int
    OBVIOUS
  <2> QED
    BY <2>2, <2>3
<1>2. /\ z \in Nat /\ o \in [1..z -> K]
      /\ \A k \in K : \E i \in 1..z : o[i] = k
      /\ \A i, j \in 1..z : i < j => o[i] < o[j]
  BY <1>1, Ordered, OrderRises
<1> HIDE DEF z, o
<1>3. PICK i \in 1..z : o[i] = n
  BY <1>2
<1>4. z > 0 /\ z \in 1..z
  BY <1>2, <1>3
<1>5. o[z] \in 1..n
  BY <1>2, <1>4
<1>6. ~(i < z)
  <2>1. ~(o[i] < o[z])
    BY <1>3, <1>5
  <2> QED
    BY <1>2, <1>4, <2>1
<1>7. i = z
  BY <1>2, <1>3, <1>6
<1> QED
  BY <1>2, <1>3, <1>4, <1>7 DEF z, o

LEMMA ThinnedBlock ==
  ASSUME NEW S, NEW blk \in Seq(S), NEW K \in SUBSET DOMAIN blk,
         NEW st, NEW W, NEW P, NEW E, NEW n, NEW b, NEW a,
         BlockNote(st, W, P, E, n, b, blk, a),
         \A k \in DOMAIN blk \ K : a[k + 1] \subseteq a[k] /\ blk[k].op \notin {"Jmp", "Ret"},
         NEW T, NEW new \in Seq(T), Len(new) = Cardinality(K),
         \A i \in 1..Cardinality(K) : \A L, M :
           Holds(st, W, P, blk[Order(K)[i]], L, M) /\ M \subseteq a[Order(K)[i] + 1]
             => Holds(st, W, P, new[i], L, M),
         \A i \in 1..Cardinality(K) : /\ new[i].op = blk[Order(K)[i]].op
                                      /\ new[i].imm = blk[Order(K)[i]].imm
  PROVE  BlockNote(st, W, P, E, n, b, new, Thin(a, K, Len(blk)))
<1> DEFINE l == Len(blk)
           z == Cardinality(K)
           o == Order(K)
           c == Thin(a, K, l)
<1>1. l \in Nat /\ DOMAIN blk = 1..l
  OBVIOUS
<1>2. Noted(st, W, P, new, c)
  BY ThinnedNotes DEF BlockNote
<1>3. /\ z \in Nat /\ o \in [1..z -> K]
      /\ \A i \in 1..z : c[i] = a[o[i]]
      /\ c[z + 1] = a[l + 1] /\ c[1] \subseteq a[1]
  <2>1. l \in Nat /\ K \in SUBSET (1..l) /\ \A k \in (1..l) \ K : a[k + 1] \subseteq a[k]
    BY <1>1
  <2> HIDE DEF l
  <2> QED
    BY <2>1, ThinFacts, ZenonT(60)
<1>4. /\ Len(new) = z
      /\ \A i \in 1..z : new[i].op = blk[o[i]].op /\ new[i].imm = blk[o[i]].imm
      /\ \A k \in (1..l) \ K : blk[k].op \notin {"Jmp", "Ret"}
      /\ K \in SUBSET (1..l)
  BY <1>1
<1>5. /\ a[1] \subseteq E[b]
      /\ \A k \in 1..l : IsJump(blk[k]) => E[blk[k].imm] \subseteq a[k]
      /\ b < n /\ ~Leaves(blk) => E[b + 1] \subseteq a[l + 1]
  BY DEF BlockNote, Linked, Behind
<1>6. Leaves(blk) => l > 0 /\ blk[l].op \in {"Jmp", "Ret"}
  BY <1>1 DEF Leaves
<1>7. (z > 0 => new # <<>>) /\ Len(new) = z
  OBVIOUS
<1>8. l > 0 /\ l \in K => z > 0 /\ o[z] = l
  <2> HIDE DEF l
  <2> QED
    BY <1>1, <1>4, LastKept
<1> HIDE DEF l, z, o, c
<1>9. Leaves(blk) => Leaves(new)
  <2> SUFFICES ASSUME Leaves(blk) PROVE Leaves(new)
    OBVIOUS
  <2>1. l \in 1..l /\ l > 0
    BY <1>1, <1>6
  <2>2. l \in K
    BY <1>4, <1>6, <2>1
  <2>3. z > 0 /\ o[z] = l /\ z \in 1..z
    BY <1>3, <1>8, <2>1, <2>2
  <2>4. new[z].op = blk[l].op
    BY <1>4, <2>3
  <2> QED
    BY <1>6, <1>7, <2>3, <2>4 DEF Leaves
<1>10. ASSUME NEW i \in 1..z, IsJump(new[i]) PROVE E[new[i].imm] \subseteq c[i]
  <2>1. o[i] \in 1..l /\ IsJump(blk[o[i]])
    BY <1>3, <1>4, <1>10 DEF IsJump
  <2> QED
    BY <1>3, <1>4, <1>5, <2>1
<1>11. BlockNote(st, W, P, E, n, b, new, c)
  BY <1>2, <1>3, <1>4, <1>5, <1>9, <1>10 DEF BlockNote, Linked, Behind
<1> QED
  BY <1>11 DEF c, l

(* The jumps of a block are its last instructions, and only the first of   *)
(* them reads registers.                                                   *)
JumpsLast(blk) ==
  \A k, j \in 1..Len(blk) :
    k < j /\ IsJump(blk[k]) => IsJump(blk[j]) /\ blk[j].use = <<>>

LEMMA ThinnedJumps ==
  ASSUME NEW S, NEW blk \in Seq(S), NEW K \in SUBSET DOMAIN blk, JumpsLast(blk),
         NEW new, Len(new) = Cardinality(K),
         \A i \in 1..Cardinality(K) : /\ new[i].op = blk[Order(K)[i]].op
                                      /\ new[i].use = blk[Order(K)[i]].use
  PROVE  JumpsLast(new)
<1> DEFINE l == Len(blk)
           z == Cardinality(K)
           o == Order(K)
<1>1. l \in Nat /\ K \in SUBSET (1..l) /\ Len(new) = z
  OBVIOUS
<1>2. K \in SUBSET Int /\ IsFiniteSet(K)
  <2> HIDE DEF l
  <2>1. IsFiniteSet(1..l)
    BY <1>1, FS_Interval
  <2> QED
    BY <1>1, <2>1, FS_Subset
<1>3. o \in [1..z -> K] /\ \A i, j \in 1..z : i < j => o[i] < o[j]
  BY <1>2, Ordered, OrderRises
<1>4. \A i \in 1..z : new[i].op = blk[o[i]].op /\ new[i].use = blk[o[i]].use
  OBVIOUS
<1>5. \A k, j \in 1..l : k < j /\ IsJump(blk[k]) => IsJump(blk[j]) /\ blk[j].use = <<>>
  BY DEF JumpsLast
<1> HIDE DEF l, z, o
<1> SUFFICES ASSUME NEW i \in 1..z, NEW j \in 1..z, i < j, IsJump(new[i])
             PROVE  IsJump(new[j]) /\ new[j].use = <<>>
  BY <1>1 DEF JumpsLast
<1>6. o[i] \in 1..l /\ o[j] \in 1..l /\ o[i] < o[j]
  BY <1>1, <1>3
<1> QED
  BY <1>4, <1>5, <1>6 DEF IsJump

----------------------------------------------------------------------------
(* Liveness as a note.                                                     *)

LEMMA LiveStep ==
  ASSUME NEW blk, Len(blk) \in Nat, NEW out, NEW k \in 1..Len(blk)
  PROVE  /\ Uses(blk[k]) \subseteq LiveBefore(blk, out)[k]
         /\ LiveBefore(blk, out)[k + 1] \ Defs(blk[k]) \subseteq LiveBefore(blk, out)[k]
<1> DEFINE n == Len(blk)
           V == LiveBefore(blk, out)
<1>1. k \in 1..(n + 1) /\ k + 1 \in 1..(n + 1) /\ k \in k..n
  OBVIOUS
<1>2. /\ V[k] = (out \ Written(blk, k, n + 1))
                  \cup UNION {Uses(blk[j]) \ Written(blk, k, j) : j \in k..n}
      /\ V[k + 1] = (out \ Written(blk, k + 1, n + 1))
                  \cup UNION {Uses(blk[j]) \ Written(blk, k + 1, j) : j \in (k + 1)..n}
  BY <1>1, LiveUnfold
<1> HIDE DEF V
<1>3. ASSUME NEW i \in (k + 1)..(n + 1)
      PROVE  Written(blk, k, i) \subseteq Defs(blk[k]) \cup Written(blk, k + 1, i)
  <2> SUFFICES ASSUME NEW h \in k..(i - 1), h # k PROVE h \in (k + 1)..(i - 1)
    BY DEF Written
  <2> QED
    OBVIOUS
<1>4. Written(blk, k, k) = {}
  <2>1. k..(k - 1) = {}
    OBVIOUS
  <2> QED
    BY <2>1 DEF Written
<1>5. Uses(blk[k]) \subseteq V[k]
  BY <1>1, <1>2, <1>4
<1>6. ASSUME NEW r \in V[k + 1], r \notin Defs(blk[k]) PROVE r \in V[k]
  <2>1. CASE r \in out \ Written(blk, k + 1, n + 1)
    <3>1. n + 1 \in (k + 1)..(n + 1)
      OBVIOUS
    <3>2. r \notin Written(blk, k, n + 1)
      BY <1>3, <1>6, <2>1, <3>1
    <3> QED
      BY <1>2, <2>1, <3>2
  <2>2. ASSUME NEW j \in (k + 1)..n, r \in Uses(blk[j]) \ Written(blk, k + 1, j)
        PROVE  r \in V[k]
    <3>1. j \in (k + 1)..(n + 1) /\ j \in k..n
      OBVIOUS
    <3>2. r \notin Written(blk, k, j)
      BY <1>3, <1>6, <2>2, <3>1
    <3> QED
      BY <1>2, <2>2, <3>1, <3>2
  <2> QED
    BY <1>2, <1>6, <2>1, <2>2
<1> QED
  BY <1>5, <1>6 DEF V

(* What is live out of a block is live where nothing more is defined.      *)
LEMMA LiveTail ==
  ASSUME NEW blk, Len(blk) \in Nat, NEW out, NEW k \in 1..(Len(blk) + 1),
         \A h \in k..Len(blk) : Defs(blk[h]) = {}
  PROVE  out \subseteq LiveBefore(blk, out)[k]
<1>1. Written(blk, k, Len(blk) + 1) = {}
  <2>1. k..((Len(blk) + 1) - 1) = k..Len(blk)
    OBVIOUS
  <2> QED
    BY <2>1 DEF Written
<1> QED
  BY <1>1, LiveUnfold

(* Where a jump goes is a successor, and behind the first jump of a block  *)
(* nothing is defined.                                                     *)
LEMMA JumpFacts ==
  ASSUME NEW D, NoReg \notin D, NEW g, IsProgram(g, D), NEW b \in DOMAIN g, JumpsLast(g[b]),
         \A k \in 1..Len(g[b]) : Shaped(g[b][k]),
         NEW k \in 1..Len(g[b]), IsJump(g[b][k])
  PROVE  /\ g[b][k].imm \in Succs(g, b) /\ g[b][k].imm \in DOMAIN g
         /\ \A h \in k..Len(g[b]) : IsJump(g[b][h]) /\ Defs(g[b][h]) = {}
<1>1. DOMAIN g = 1..Len(g) /\ Len(g[b]) \in Nat /\ DOMAIN g[b] = 1..Len(g[b])
      /\ \A j \in DOMAIN g[b] : g[b][j] \in Instructions(D, Len(g))
  BY ProgramFacts
<1>2. \A h \in k..Len(g[b]) : h \in 1..Len(g[b]) /\ (k < h \/ k = h)
  BY <1>1
<1>3. \A h \in k..Len(g[b]) : IsJump(g[b][h])
  BY <1>2 DEF JumpsLast
<1>4. g[b][k].imm \in DOMAIN g
  BY <1>1 DEF Instructions
<1>5. ASSUME NEW h \in k..Len(g[b]) PROVE Defs(g[b][h]) = {}
  <2>1. Shaped(g[b][h]) /\ g[b][h].op \in {"Jmp", "Br"}
    BY <1>2, <1>3 DEF IsJump
  <2>2. g[b][h].dst = NoReg
    BY <2>1 DEF Shaped, Defining
  <2> QED
    BY <2>2 DEF Defs
<1>6. g[b][k].imm \in Succs(g, b)
  BY <1>1, <1>3, <1>4 DEF Succs, Blocks
<1> QED
  BY <1>3, <1>4, <1>5, <1>6

(* The least solution is a solution.                                       *)
LEMMA LiveOutSolves ==
  ASSUME NEW D, NEW g, IsProgram(g, D), NEW b \in DOMAIN g, NEW s \in Succs(g, b)
  PROVE  LiveBefore(g[s], LiveOut(g)[s])[1] \subseteq LiveOut(g)[b]
<1>1. /\ DOMAIN g = 1..Len(g) /\ Len(g) \in Nat
      /\ \A x \in DOMAIN g : Len(g[x]) \in Nat /\ DOMAIN g[x] = 1..Len(g[x])
      /\ \A x \in DOMAIN g : \A k \in DOMAIN g[x] : Uses(g[x][k]) \subseteq VRegs(g)
  BY ProgramFacts
<1>2. s \in DOMAIN g
  BY <1>1, SuccsAreBlocks
<1>3. \A x \in DOMAIN g :
        LiveOut(g)[x] = {r \in VRegs(g) : \A F \in SUBSET DOMAIN g :
                           Carries(g, r, F) => Succs(g, x) \cap F # {}}
  BY DEF LiveOut, Blocks
<1>4. 1 \in 1..(Len(g[s]) + 1) /\ Len(g[s]) \in Nat
      /\ \A j \in 1..Len(g[s]) : Uses(g[s][j]) \subseteq VRegs(g)
  BY <1>1, <1>2
<1>5. LiveOut(g)[s] \subseteq VRegs(g)
  BY <1>2, <1>3
<1>6. LiveBefore(g[s], LiveOut(g)[s])[1] \subseteq VRegs(g)
  BY <1>4, <1>5, LiveIsNamed
<1>7. ASSUME NEW r \in LiveBefore(g[s], LiveOut(g)[s])[1],
             NEW F \in SUBSET DOMAIN g, Carries(g, r, F)
      PROVE  Succs(g, b) \cap F # {}
  <2> DEFINE out == LiveOut(g)[s]
             more == IF Succs(g, s) \cap F # {} THEN {r} ELSE {}
  <2>1. r \in out => r \in more
    BY <1>2, <1>3, <1>7
  <2>2. r \in LiveBefore(g[s], out)[1]
    OBVIOUS
  <2> HIDE DEF out
  <2>3. r \in LiveBefore(g[s], more)[1]
    <3> HIDE DEF more
    <3> QED
      BY <1>4, <2>1, <2>2, LiveSeparates
  <2>4. s \in F
    BY <1>2, <1>7, <2>3 DEF Carries, Blocks
  <2> QED
    BY <2>4
<1>8. ASSUME NEW r \in LiveBefore(g[s], LiveOut(g)[s])[1] PROVE r \in LiveOut(g)[b]
  BY <1>3, <1>6, <1>7
<1> QED
  BY <1>8

----------------------------------------------------------------------------
(* The notes on the code while it is allocated.                            *)

(* The registers below n and the first c slots.                            *)
Room(n, c) == 0..(n - 1) \cup {Slot(s) : s \in 0..(c - 1)}

Knows(st) == \A r \in DOMAIN orig : st[r] = orig[r]

(* A function in which no register can be read before it is defined.       *)
DefinedFirst(g) == LiveBefore(g[1], LiveOut(g)[1])[1] = {}

Annotates(st, W, E) ==
  /\ Knows(st) /\ E[1] = {}
  /\ \A b \in DOMAIN code : \E a :
       BlockNote(st, W, Room(maxReg(code), spillCount), E, Len(code), b, code[b], a)

NotesOK ==
  stage \in {"trim", "live", "color"} =>
    /\ \A b \in DOMAIN code : JumpsLast(code[b])
    /\ \E st \in [Int -> Int] : \E W \in SUBSET Int : \E E \in [DOMAIN code -> SUBSET Int] :
         Annotates(st, W, E)

LEMMA RegistersBelow ==
  ASSUME NEW g, VRegs(g) \in SUBSET Nat, IsFiniteSet(VRegs(g))
  PROVE  maxReg(g) \in Nat /\ VRegs(g) \subseteq 0..(maxReg(g) - 1)
<1> DEFINE K == VRegs(g) \cup {NoReg}
<1>1. K \in SUBSET Int /\ K # {}
  BY DEF NoReg
<1>2. IsFiniteSet(K)
  BY FS_AddElement
<1>3. Max(K) \in K /\ \A y \in K : y <= Max(K)
  <2> HIDE DEF K
  <2> QED
    BY <1>1, <1>2, Greatest
<1>4. maxReg(g) = 1 + Max(K)
  BY DEF maxReg
<1>5. VRegs(g) \subseteq K
  OBVIOUS
<1>6. maxReg(g) \in Nat
  BY MaxRegType
<1> HIDE DEF K
<1>7. ASSUME NEW r \in VRegs(g) PROVE r \in 0..(maxReg(g) - 1)
  <2>1. r \in Nat /\ r <= Max(K) /\ Max(K) \in Int
    BY <1>1, <1>3, <1>5
  <2> QED
    BY <1>4, <2>1
<1> QED
  BY <1>6, <1>7

(* Slots are no registers, and different slots are different places.       *)
LEMMA SlotFacts ==
  /\ \A s \in Nat : Slot(s) \in Int /\ Slot(s) \notin Nat /\ Slot(s) # NoReg
  /\ \A s, t \in Int : Slot(s) = Slot(t) => s = t
  /\ \A n, c, s \in Nat : Slot(s) \in Room(n, c) <=> s \in 0..(c - 1)
  /\ \A n, c, r \in Nat : r \in Room(n, c) <=> r \in 0..(n - 1)
<1>1. \A s \in Nat : Slot(s) \in Int /\ Slot(s) \notin Nat /\ Slot(s) # NoReg
  BY DEF Slot, NoReg
<1>2. \A s, t \in Int : Slot(s) = Slot(t) => s = t
  BY DEF Slot
<1>3. ASSUME NEW n \in Nat, NEW c \in Nat, NEW s \in Nat
      PROVE  Slot(s) \in Room(n, c) <=> s \in 0..(c - 1)
  <2>1. Slot(s) \notin 0..(n - 1)
    BY DEF Slot
  <2>2. ASSUME NEW t \in 0..(c - 1), Slot(s) = Slot(t) PROVE s = t
    BY <1>2, <2>2
  <2> QED
    BY <2>1, <2>2 DEF Room
<1>4. ASSUME NEW n \in Nat, NEW c \in Nat, NEW r \in Nat
      PROVE  r \in Room(n, c) <=> r \in 0..(n - 1)
  <2>1. \A t \in 0..(c - 1) : Slot(t) # r
    BY DEF Slot
  <2> QED
    BY <2>1 DEF Room
<1> QED
  BY <1>1, <1>2, <1>3, <1>4

(* What an instruction of a function reads and sets is in the room for its *)
(* registers and slots.                                                    *)
LEMMA FitsIn ==
  ASSUME NEW D \in SUBSET Nat, IsFiniteSet(D), NEW g, IsProgram(g, D), NEW c \in Nat,
         NEW n \in Nat, NEW m \in Insts(g), NEW st, NEW W, NEW L, NEW M,
         Holds(st, W, Room(n, c), m, L, M), L \subseteq Room(n, c)
  PROVE  /\ Reads(m) \subseteq Room(maxReg(g), c)
         /\ Sets(m) \subseteq Room(maxReg(g), c)
<1>1. VRegs(g) \in SUBSET Nat /\ IsFiniteSet(VRegs(g))
  BY RegistersOf, FS_Subset
<1>2. maxReg(g) \in Nat /\ VRegs(g) \subseteq 0..(maxReg(g) - 1)
  BY <1>1, RegistersBelow
<1>3. Uses(m) \cup Defs(m) \subseteq VRegs(g)
  BY DEF VRegs
<1>4. 0..(maxReg(g) - 1) \subseteq Room(maxReg(g), c)
  BY DEF Room
<1>5. m.op \in {"SpillLw", "SpillSw"} => m.imm \in Nat /\ Slot(m.imm) \in Room(n, c)
  BY DEF Holds, Reads, Sets
<1>6. m.op \in {"SpillLw", "SpillSw"} => Slot(m.imm) \in Room(maxReg(g), c)
  BY <1>2, <1>5, SlotFacts
<1> QED
  BY <1>2, <1>3, <1>4, <1>6 DEF Reads, Sets

(* A note on a function that was cut down or has grown, cut to its size.   *)
LEMMA Refitted ==
  ASSUME NEW D \in SUBSET Nat, IsFiniteSet(D), NEW g, IsProgram(g, D), NEW c \in Nat,
         NEW n \in Nat, NEW st, NEW W, NEW E, NEW b \in DOMAIN g, NEW a,
         BlockNote(st, W, Room(n, c), E, Len(g), b, g[b], a),
         NEW F, \A s \in DOMAIN g : F[s] = E[s] \cap Room(maxReg(g), c)
  PROVE  \E x : BlockNote(st, W, Room(maxReg(g), c), F, Len(g), b, g[b], x)
<1> DEFINE P == Room(n, c)
           U == Room(maxReg(g), c)
           blk == g[b]
           S == Instructions(D, Len(g))
<1>1. /\ DOMAIN g = 1..Len(g) /\ Len(g) \in Nat /\ blk \in Seq(S)
      /\ \A k \in 1..Len(blk) : blk[k] \in S /\ blk[k] \in Insts(g)
  BY ProgramFacts
<1>2. \A k \in 1..Len(blk) : IsJump(blk[k]) => blk[k].imm \in 1..Len(g)
  BY <1>1 DEF Instructions
<1>3. BlockNote(st, W, P, E, Len(g), b, blk, a)
  OBVIOUS
<1>4. \A k \in 1..Len(blk) : Holds(st, W, P, blk[k], a[k], a[k + 1]) /\ a[k] \subseteq P
  <2>1. a \in [1..(Len(blk) + 1) -> SUBSET P]
        /\ \A k \in 1..Len(blk) : Holds(st, W, P, blk[k], a[k], a[k + 1])
    BY <1>3 DEF BlockNote, Noted
  <2>2. \A k \in 1..Len(blk) : k \in 1..(Len(blk) + 1)
    BY <1>1
  <2> QED
    BY <2>1, <2>2
<1>5. \A k \in 1..Len(blk) : Reads(blk[k]) \subseteq U /\ Sets(blk[k]) \subseteq U
  BY <1>1, <1>4, FitsIn
<1>6. b \in 1..Len(g) /\ \A s \in 1..Len(g) : F[s] = E[s] \cap U
  BY <1>1
<1> HIDE DEF P, U, blk, S
<1>7. U \cap P \subseteq U
  OBVIOUS
<1>8. BlockNote(st, W, U, F, Len(g), b, blk, Cut(a, U, Len(blk)))
  BY <1>1, <1>2, <1>3, <1>5, <1>6, <1>7, NarrowedBlock
<1> QED
  BY <1>8 DEF U, blk

(* Every register stands for itself, and what is live is held.             *)
LEMMA StartNotes ==
  ASSUME NEW R \in SUBSET Nat, IsFiniteSet(R), NEW f, IsProgram(f, R), IsSource(f),
         \A b \in DOMAIN f : JumpsLast(f[b]), DefinedFirst(f), StartWith(f)
  PROVE  NotesOK
<1> DEFINE st == [q \in Int |-> q]
           live(b) == LiveBefore(f[b], LiveOut(f)[b])
           E == [b \in DOMAIN f |-> live(b)[1]]
           P == Room(maxReg(f), 0)
<1>1. /\ DOMAIN f = 1..Len(f) /\ Len(f) \in Nat /\ Len(f) > 0
      /\ \A b \in DOMAIN f : Len(f[b]) \in Nat /\ DOMAIN f[b] = 1..Len(f[b])
      /\ \A b \in DOMAIN f : \A k \in 1..Len(f[b]) :
           /\ f[b][k] \in Insts(f) /\ f[b][k] \in Instructions(R, Len(f))
           /\ Uses(f[b][k]) \cup Defs(f[b][k]) \subseteq VRegs(f)
  BY ProgramFacts
<1>2. VRegs(f) \in SUBSET Nat /\ IsFiniteSet(VRegs(f))
  BY RegistersOf, FS_Subset
<1>3. VRegs(f) \subseteq P /\ VRegs(f) \subseteq Int
  BY <1>2, RegistersBelow DEF Room
<1>4. \A b \in DOMAIN f : LiveOut(f)[b] \subseteq VRegs(f)
  BY DEF LiveOut, Blocks
<1>5. ASSUME NEW b \in DOMAIN f, NEW i \in 1..(Len(f[b]) + 1)
      PROVE  live(b)[i] \subseteq VRegs(f)
  BY <1>1, <1>4, LiveIsNamed
<1>6. ASSUME NEW b \in DOMAIN f
      PROVE  BlockNote(st, {}, P, E, Len(f), b, f[b], live(b))
  <2> DEFINE blk == f[b]
             n == Len(blk)
             a == live(b)
             out == LiveOut(f)[b]
  <2>1. n \in Nat /\ \A k \in 1..n : k \in 1..(n + 1) /\ k + 1 \in 1..(n + 1)
    BY <1>1
  <2>2. a \in [1..(n + 1) -> SUBSET P] /\ \A i \in 1..(n + 1) : a[i] \subseteq VRegs(f)
    <3>1. DOMAIN a = 1..(n + 1) /\ a = [i \in 1..(n + 1) |-> a[i]]
      BY DEF LiveBefore
    <3>2. \A i \in 1..(n + 1) : a[i] \subseteq VRegs(f)
      BY <1>5
    <3> HIDE DEF a, n
    <3> QED
      BY <1>3, <3>1, <3>2
  <2>3. ASSUME NEW k \in 1..n PROVE Holds(st, {}, P, blk[k], a[k], a[k + 1])
    <3> DEFINE m == blk[k]
    <3>1. /\ m.op \notin {"SpillLw", "SpillSw"}
          /\ Uses(m) \subseteq VRegs(f) /\ Defs(m) \subseteq VRegs(f)
      BY <1>1 DEF IsSource
    <3>2. Uses(m) \subseteq a[k] /\ a[k + 1] \ Defs(m) \subseteq a[k]
      BY <2>1, LiveStep
    <3>3. a[k + 1] \subseteq Int /\ Defs(m) \subseteq Int
      BY <1>3, <2>1, <2>2, <3>1
    <3> HIDE DEF m, a
    <3>4. \A d \in Defs(m) : \A q \in a[k + 1] : q # d => st[q] # st[d]
      BY <3>3
    <3>5. Reads(m) \subseteq a[k] /\ a[k + 1] \ Sets(m) \subseteq a[k] /\ Sets(m) \subseteq P
      BY <1>3, <3>1, <3>2 DEF Reads, Sets
    <3>6. Holds(st, {}, P, m, a[k], a[k + 1])
      BY <3>1, <3>4, <3>5 DEF Holds
    <3> QED
      BY <3>6 DEF m
  <2>4. ASSUME NEW i \in 1..(n + 1) PROVE Alone(st, {}, a[i])
    <3>1. a[i] \subseteq Int
      BY <1>3, <2>2
    <3> HIDE DEF a
    <3> QED
      BY <3>1 DEF Alone
  <2>5. Noted(st, {}, P, blk, a)
    BY <2>2, <2>3, <2>4 DEF Noted
  <2>6. a[1] \subseteq E[b]
    OBVIOUS
  <2>7. NoReg \notin R /\ \A k \in 1..n : Shaped(blk[k])
    BY <1>1 DEF IsSource, NoReg
  <2>8. ASSUME NEW k \in 1..n, IsJump(blk[k]) PROVE E[blk[k].imm] \subseteq a[k]
    <3> DEFINE s == blk[k].imm
    <3>1. /\ s \in Succs(f, b) /\ s \in DOMAIN f
          /\ \A h \in k..n : Defs(blk[h]) = {}
      BY <2>7, <2>8, JumpFacts
    <3>2. out \subseteq a[k]
      BY <2>1, <3>1, LiveTail
    <3>3. live(s)[1] \subseteq out
      BY <3>1, LiveOutSolves
    <3>4. E[s] = live(s)[1]
      BY <3>1
    <3> QED
      BY <3>2, <3>3, <3>4
  <2>9. ASSUME b < Len(f), ~Leaves(blk) PROVE E[b + 1] \subseteq a[n + 1]
    <3>1. b + 1 \in Succs(f, b) /\ b + 1 \in DOMAIN f
      <4>1. b + 1 \in DOMAIN f
        BY <1>1, <2>9
      <4> QED
        BY <2>9, <4>1 DEF Succs, FallsThrough, Leaves
    <3>2. n + 1 \in 1..(n + 1) /\ \A h \in (n + 1)..n : FALSE
      BY <2>1
    <3>3. out \subseteq a[n + 1]
      BY <2>1, <3>2, LiveTail
    <3>4. live(b + 1)[1] \subseteq out
      BY <3>1, LiveOutSolves
    <3>5. E[b + 1] = live(b + 1)[1]
      BY <3>1
    <3> QED
      BY <3>3, <3>4, <3>5
  <2> QED
    BY <2>5, <2>6, <2>8, <2>9 DEF BlockNote, Linked, Behind
<1>7. code = f /\ spillCount = 0 /\ orig = [r \in VRegs(f) |-> r]
  BY DEF StartWith
<1>8. Knows(st)
  BY <1>3, <1>7 DEF Knows
<1>9. E \in [DOMAIN f -> SUBSET Int] /\ E[1] = {}
  <2>1. 1 \in DOMAIN f
    BY <1>1
  <2>2. \A b \in DOMAIN f : 1 \in 1..(Len(f[b]) + 1)
    BY <1>1
  <2>3. \A b \in DOMAIN f : live(b)[1] \subseteq Int
    BY <1>3, <1>5, <2>2
  <2> QED
    BY <2>1, <2>3 DEF DefinedFirst
<1>10. st \in [Int -> Int] /\ {} \in SUBSET Int
  OBVIOUS
<1> HIDE DEF st, E, live
<1>11. Annotates(st, {}, E)
  BY <1>6, <1>7, <1>8, <1>9 DEF Annotates
<1> QED
  BY <1>7, <1>9, <1>10, <1>11 DEF NotesOK

LEMMA PickedAt ==
  ASSUME NEW S, NEW s \in Seq(S), NEW K \in SUBSET DOMAIN s
  PROVE  /\ Picked(s, K) \in Seq(S) /\ Len(Picked(s, K)) = Cardinality(K)
         /\ Order(K) \in [1..Cardinality(K) -> K] /\ Cardinality(K) \in Nat
         /\ \A i \in 1..Cardinality(K) : Picked(s, K)[i] = s[Order(K)[i]]
<1> DEFINE z == Cardinality(K)
           o == Order(K)
           c == Picked(s, K)
<1>1. K \in SUBSET Int /\ IsFiniteSet(K)
  <2>1. DOMAIN s = 1..Len(s) /\ Len(s) \in Nat
    OBVIOUS
  <2>2. IsFiniteSet(1..Len(s))
    BY <2>1, FS_Interval
  <2>3. K \in SUBSET (1..Len(s))
    BY <2>1
  <2> QED
    BY <2>2, <2>3, FS_Subset
<1>2. z \in Nat /\ o \in [1..z -> K]
  BY <1>1, Ordered
<1>3. c = [i \in 1..z |-> s[o[i]]]
  BY DEF Picked
<1>4. c \in Seq(S)
  BY PickedFacts
<1> HIDE DEF z, o, c
<1>5. \A i \in 1..z : c[i] = s[o[i]]
  BY <1>3
<1>6. Len(c) = z
  <2>1. DOMAIN c = 1..z /\ c \in Seq(S)
    BY <1>3, <1>4
  <2> QED
    BY <1>2, <2>1, LenProperties
<1> QED
  BY <1>2, <1>4, <1>5, <1>6 DEF z, o, c

LEMMA DefinesIt ==
  ASSUME CodeOK, NEW b \in DOMAIN code, NEW k \in 1..Len(code[b])
  PROVE  /\ code[b][k] \in Instructions(DOMAIN orig, Len(code))
         /\ code[b][k].op \in Defining => code[b][k].dst \in Defs(code[b][k])
         /\ code[b][k].dst \in Nat \cup {NoReg}
         /\ IsJump(code[b][k]) => code[b][k].imm \in 1..Len(code)
<1>1. IsProgram(code, DOMAIN orig) /\ DOMAIN orig \in SUBSET Nat
  BY DEF CodeOK
<1>2. code[b][k] \in Instructions(DOMAIN orig, Len(code))
  BY <1>1, ProgramFacts
<1> QED
  BY <1>1, <1>2 DEF Instructions, Defs, NoReg

(* A result that nothing uses is not held where anything is read: erasing  *)
(* its definition leaves the notes as they are.                            *)
LEMMA TrimmedBlock ==
  ASSUME CodeOK, CodeOK', ShapesOK, TrimPass, NEW st, NEW W, NEW E, NEW b \in DOMAIN code, NEW a,
         BlockNote(st, W, Room(maxReg(code), spillCount), E, Len(code), b, code[b], a),
         NEW F, \A s \in DOMAIN code :
                  F[s] = E[s] \cap (UsedRegs \cup {q \in Int : q \notin Nat})
  PROVE  \E x : BlockNote(st, W, Room(maxReg(code), spillCount), F, Len(code), b, code'[b], x)
<1> DEFINE P == Room(maxReg(code), spillCount)
           U == UsedRegs \cup {q \in Int : q \notin Nat}
           blk == code[b]
           n == Len(code)
           S == Instructions(DOMAIN orig, Len(code))
           K == {k \in DOMAIN blk : ~IsDead(blk[k])}
           kept == Picked(blk, K)
           new == code'[b]
           c == Cut(a, U, Len(blk))
<1>1. /\ n \in Nat /\ DOMAIN code = 1..n /\ Len(blk) \in Nat /\ DOMAIN blk = 1..Len(blk)
      /\ blk \in Seq(S)
      /\ \A k \in 1..Len(blk) : blk[k] \in S /\ blk[k] \in Insts(code) /\ Shaped(blk[k])
  BY CodeFacts, ProgramFacts DEF CodeOK, ShapesOK
<1>2. /\ new = [k \in DOMAIN kept |->
                 IF kept[k].op = "Call" /\ kept[k].dst \notin UsedRegs
                 THEN [kept[k] EXCEPT !.dst = NoReg] ELSE kept[k]]
  BY DEF TrimPass, Trimmed, TrimBlock, Blocks
<1>3. K \in SUBSET DOMAIN blk
  OBVIOUS
<1>4. /\ kept \in Seq(S) /\ Len(kept) = Cardinality(K)
      /\ Order(K) \in [1..Cardinality(K) -> K] /\ Cardinality(K) \in Nat
      /\ \A i \in 1..Cardinality(K) : kept[i] = blk[Order(K)[i]]
  <2> HIDE DEF K, blk, S
  <2> QED
    BY <1>1, <1>3, PickedAt
<1>5. new \in Seq({new[k] : k \in DOMAIN new}) /\ Len(new) = Cardinality(K)
      /\ DOMAIN new = 1..Cardinality(K) /\ DOMAIN new = DOMAIN kept
  <2> DEFINE T == {new[k] : k \in DOMAIN new}
  <2>1. DOMAIN new = DOMAIN kept
    BY <1>2
  <2>2. new \in [DOMAIN kept -> T]
    BY <1>2, <2>1
  <2> HIDE DEF new, kept, K, T
  <2>3. new \in Seq(T) /\ Len(new) = Len(kept) /\ DOMAIN new = DOMAIN kept
    BY <1>4, <2>2, Mapped
  <2>4. DOMAIN kept = 1..Len(kept)
    BY <1>4
  <2> QED
    BY <1>4, <2>3, <2>4 DEF T
<1>6. ASSUME NEW i \in 1..Cardinality(K)
      PROVE  LET m == blk[Order(K)[i]]
             IN  /\ m \in S
                 /\ new[i] = IF m.op = "Call" /\ m.dst \notin UsedRegs
                             THEN [m EXCEPT !.dst = NoReg] ELSE m
  <2>1. kept[i] = blk[Order(K)[i]] /\ Order(K)[i] \in 1..Len(blk) /\ i \in DOMAIN kept
    BY <1>1, <1>3, <1>4, <1>5
  <2>2. new[i] = IF kept[i].op = "Call" /\ kept[i].dst \notin UsedRegs
                 THEN [kept[i] EXCEPT !.dst = NoReg] ELSE kept[i]
    BY <1>2, <2>1
  <2> QED
    BY <1>1, <2>1, <2>2
<1>7. BlockNote(st, W, P, E, n, b, blk, a) /\ \A s \in 1..n : F[s] = E[s] \cap U
  BY <1>1
<1>8. /\ a \in [1..(Len(blk) + 1) -> SUBSET P]
      /\ \A k \in 1..Len(blk) : Holds(st, W, P, blk[k], a[k], a[k + 1])
  BY <1>7 DEF BlockNote, Noted
<1>9. \A k \in 1..Len(blk) : Reads(blk[k]) \subseteq U /\ Sets(blk[k]) \subseteq P
  <2> SUFFICES ASSUME NEW k \in 1..Len(blk)
               PROVE  Reads(blk[k]) \subseteq U /\ Sets(blk[k]) \subseteq P
    OBVIOUS
  <2> DEFINE m == blk[k]
  <2>1. Uses(m) \subseteq UsedRegs
    BY <1>1 DEF UsedRegs
  <2>2. Holds(st, W, P, m, a[k], a[k + 1])
    BY <1>8
  <2> HIDE DEF m, P
  <2>3. m.op = "SpillLw" => Slot(m.imm) \in Int /\ Slot(m.imm) \notin Nat
    BY <2>2, SlotFacts DEF Holds
  <2>4. Reads(m) \subseteq U /\ Sets(m) \subseteq P
    BY <2>1, <2>2, <2>3 DEF Holds, Reads
  <2> QED
    BY <2>4 DEF m
<1>10. \A k \in 1..Len(blk) : IsJump(blk[k]) => blk[k].imm \in 1..n
  BY <1>1 DEF Instructions
<1>11. \A k \in 1..(Len(blk) + 1) : c[k] = a[k] \cap U
  BY DEF Cut
<1>12. ASSUME NEW m \in S, m.dst \notin UsedRegs, m.dst # NoReg PROVE m.dst \notin U
  <2>1. m.dst \in Nat
    BY <1>12 DEF Instructions, CodeOK
  <2> QED
    BY <1>12, <2>1
<1> HIDE DEF U
<1>13. BlockNote(st, W, P, F, n, b, blk, c)
  <2>1. U \cap P \subseteq P /\ b \in 1..n
    BY <1>1
  <2> HIDE DEF n, P, blk, c, S
  <2> QED
    BY <1>1, <1>7, <1>9, <1>10, <2>1, NarrowedBlock DEF c
<1>14. ASSUME NEW k \in DOMAIN blk \ K
       PROVE  c[k + 1] \subseteq c[k] /\ blk[k].op \notin {"Jmp", "Ret"}
  <2> DEFINE m == blk[k]
  <2>1. IsDead(m) /\ m \in S /\ k \in 1..(Len(blk) + 1) /\ k + 1 \in 1..(Len(blk) + 1)
    BY <1>1
  <2>2. Holds(st, W, P, m, c[k], c[k + 1]) /\ c[k + 1] \subseteq U
    BY <1>1, <1>11, <1>13, <2>1 DEF BlockNote, Noted
  <2>3. Sets(m) = {m.dst} /\ m.dst \notin U /\ m.op \notin {"Jmp", "Ret"}
    BY <1>12, <2>1 DEF IsDead, IsPure, Sets, Defs
  <2> HIDE DEF m
  <2> QED
    BY <2>2, <2>3 DEF Holds, m
<1>15. ASSUME NEW i \in 1..Cardinality(K)
       PROVE  /\ \A L, M : Holds(st, W, P, blk[Order(K)[i]], L, M)
                             /\ M \subseteq c[Order(K)[i] + 1]
                               => Holds(st, W, P, new[i], L, M)
              /\ new[i].op = blk[Order(K)[i]].op /\ new[i].imm = blk[Order(K)[i]].imm
  <2> DEFINE k == Order(K)[i]
             m == blk[k]
  <2>1. /\ m \in S /\ new[i] = IF m.op = "Call" /\ m.dst \notin UsedRegs
                               THEN [m EXCEPT !.dst = NoReg] ELSE m
    BY <1>6
  <2>2. k + 1 \in 1..(Len(blk) + 1)
    BY <1>1, <1>4
  <2>3. c[k + 1] \subseteq U
    BY <1>11, <2>2
  <2>4. CASE m.op = "Call" /\ m.dst \notin UsedRegs /\ m.dst # NoReg
    <3> DEFINE y == [m EXCEPT !.dst = NoReg]
    <3>1. y.op = m.op /\ y.use = m.use /\ y.imm = m.imm /\ y.dst = NoReg /\ new[i] = y
      BY <2>1, <2>4 DEF Instructions
    <3>2. m.dst \notin U
      BY <1>12, <2>1, <2>4
    <3> HIDE DEF m, y
    <3>3. Sets(m) \subseteq {m.dst} /\ Sets(y) = {} /\ Defs(y) = {} /\ Reads(y) = Reads(m)
      BY <2>4, <3>1 DEF Sets, Defs, Reads, Uses
    <3>4. ASSUME NEW L, NEW M, Holds(st, W, P, m, L, M), M \subseteq c[k + 1]
          PROVE  Holds(st, W, P, y, L, M)
      <4>1. m.dst \notin M
        BY <2>3, <3>2, <3>4
      <4> QED
        BY <2>4, <3>1, <3>3, <3>4, <4>1 DEF Holds
    <3> QED
      BY <3>1, <3>4 DEF m
  <2>5. CASE m.op = "Call" /\ m.dst = NoReg
    <3>1. [m EXCEPT !.dst = NoReg] = m
      BY <2>1, <2>5 DEF Instructions
    <3> QED
      BY <2>1, <3>1
  <2>6. CASE ~(m.op = "Call" /\ m.dst \notin UsedRegs)
    BY <2>1, <2>6
  <2> QED
    BY <2>4, <2>5, <2>6
<1>16. BlockNote(st, W, P, F, n, b, new, Thin(c, K, Len(blk)))
  <2> DEFINE T == {new[k] : k \in DOMAIN new}
  <2>1. new \in Seq(T) /\ Len(new) = Cardinality(K)
    BY <1>5
  <2>2. \A k \in DOMAIN blk \ K : c[k + 1] \subseteq c[k] /\ blk[k].op \notin {"Jmp", "Ret"}
    BY <1>14
  <2>3. \A i \in 1..Cardinality(K) : \A L, M :
          Holds(st, W, P, blk[Order(K)[i]], L, M) /\ M \subseteq c[Order(K)[i] + 1]
            => Holds(st, W, P, new[i], L, M)
    BY <1>15
  <2>4. \A i \in 1..Cardinality(K) : /\ new[i].op = blk[Order(K)[i]].op
                                     /\ new[i].imm = blk[Order(K)[i]].imm
    BY <1>15
  <2> HIDE DEF n, P, blk, c, S, new, K, T
  <2> QED
    BY <1>1, <1>3, <1>13, <2>1, <2>2, <2>3, <2>4, ThinnedBlock
<1> QED
  BY <1>16

LEMMA TrimmedJumps ==
  ASSUME CodeOK, TrimPass, NEW b \in DOMAIN code, JumpsLast(code[b])
  PROVE  JumpsLast(code'[b])
<1> DEFINE blk == code[b]
           S == Instructions(DOMAIN orig, Len(code))
           K == {k \in DOMAIN blk : ~IsDead(blk[k])}
           kept == Picked(blk, K)
           new == code'[b]
<1>1. blk \in Seq(S) /\ K \in SUBSET DOMAIN blk
  BY ProgramFacts DEF CodeOK
<1>2. new = [k \in DOMAIN kept |->
               IF kept[k].op = "Call" /\ kept[k].dst \notin UsedRegs
               THEN [kept[k] EXCEPT !.dst = NoReg] ELSE kept[k]]
  BY DEF TrimPass, Trimmed, TrimBlock, Blocks
<1> HIDE DEF blk, S, K, kept, new
<1>3. /\ kept \in Seq(S) /\ Len(kept) = Cardinality(K) /\ Cardinality(K) \in Nat
      /\ \A i \in 1..Cardinality(K) : kept[i] = blk[Order(K)[i]]
  BY <1>1, PickedAt DEF kept
<1>4. DOMAIN kept = 1..Cardinality(K) /\ \A i \in DOMAIN kept : kept[i] \in S
  BY <1>3
<1>5. Len(new) = Cardinality(K)
  <2> DEFINE T == {new[k] : k \in DOMAIN new}
  <2>1. new \in [DOMAIN kept -> T]
    BY <1>2
  <2> HIDE DEF T
  <2> QED
    BY <1>3, <2>1, Mapped
<1>6. ASSUME NEW i \in 1..Cardinality(K)
      PROVE  new[i].op = blk[Order(K)[i]].op /\ new[i].use = blk[Order(K)[i]].use
  <2>1. kept[i] \in S /\ kept[i] = blk[Order(K)[i]]
        /\ (new[i] = kept[i] \/ new[i] = [kept[i] EXCEPT !.dst = NoReg])
    BY <1>2, <1>3, <1>4
  <2> QED
    BY <2>1 DEF S, Instructions
<1>7. JumpsLast(blk)
  BY DEF blk
<1>8. JumpsLast(new)
  BY <1>1, <1>5, <1>6, <1>7, ThinnedJumps
<1> QED
  BY <1>8 DEF new

LEMMA TrimPassNotes ==
  ASSUME IInv, IInv', ShapesOK, NotesOK, TrimPass
  PROVE  NotesOK'
<1>1. /\ stage = "trim" /\ stage' = "trim" /\ code' = Trimmed
      /\ UNCHANGED <<orig, spillCount>>
  BY DEF TrimPass
<1>2. CodeOK /\ CodeOK'
  BY DEF IInv
<1>3. PICK st \in [Int -> Int] : \E W \in SUBSET Int :
        \E E \in [DOMAIN code -> SUBSET Int] : Annotates(st, W, E)
  BY <1>1 DEF NotesOK
<1>4. PICK W \in SUBSET Int : \E E \in [DOMAIN code -> SUBSET Int] : Annotates(st, W, E)
  BY <1>3
<1>5. PICK E \in [DOMAIN code -> SUBSET Int] : Annotates(st, W, E)
  BY <1>4
<1> DEFINE U == UsedRegs \cup {q \in Int : q \notin Nat}
           P == Room(maxReg(code), spillCount)
           Q == Room(maxReg(code'), spillCount)
           F == [s \in DOMAIN code |-> E[s] \cap U]
           G == [s \in DOMAIN code |-> F[s] \cap Q]
<1>6. DOMAIN code' = DOMAIN code /\ Len(code') = Len(code) /\ 1 \in DOMAIN code
  <2>1. DOMAIN code' = DOMAIN code
    BY <1>1 DEF Trimmed, Blocks
  <2>2. code \in Seq(Seq(Instructions(DOMAIN orig, Len(code)))) /\ Len(code) > 0
    BY <1>2 DEF CodeOK, IsProgram
  <2>3. code' \in [DOMAIN code -> Range(code')]
    <3>1. code' = [b \in DOMAIN code |-> TrimBlock(code[b])]
      BY <1>1 DEF Trimmed, Blocks
    <3> QED
      BY <2>1, <3>1 DEF Range
  <2>4. Len(code') = Len(code)
    BY <2>2, <2>3, Mapped
  <2> QED
    BY <2>1, <2>2, <2>4
<1>7. \A s \in DOMAIN code : F[s] = E[s] \cap U /\ G[s] = F[s] \cap Q
  OBVIOUS
<1>8. G \in [DOMAIN code -> SUBSET Int] /\ G[1] = {}
  <2>1. E[1] = {}
    BY <1>5 DEF Annotates
  <2> QED
    BY <1>6, <2>1
<1> HIDE DEF U, P, Q, F, G
<1>9. ASSUME NEW b \in DOMAIN code
      PROVE  \E x : BlockNote(st, W, Q, G, Len(code), b, code'[b], x)
  <2>1. PICK a : BlockNote(st, W, P, E, Len(code), b, code[b], a)
    BY <1>5 DEF Annotates, P
  <2>2. \A s \in DOMAIN code : F[s] = E[s] \cap (UsedRegs \cup {q \in Int : q \notin Nat})
    BY <1>7 DEF U
  <2>3. PICK y : BlockNote(st, W, P, F, Len(code), b, code'[b], y)
    BY <1>2, <2>1, <2>2, TrimmedBlock DEF P
  <2>4. /\ DOMAIN orig \in SUBSET Nat /\ IsFiniteSet(DOMAIN orig)
        /\ IsProgram(code', DOMAIN orig) /\ spillCount \in Nat
    BY <1>1, <1>2 DEF CodeOK
  <2>5. maxReg(code) \in Nat
    BY <1>2, CodeFacts, MaxRegType
  <2>6. b \in DOMAIN code' /\ \A s \in DOMAIN code' : G[s] = F[s] \cap Room(maxReg(code'), spillCount)
    BY <1>6, <1>7 DEF Q
  <2>7. BlockNote(st, W, Room(maxReg(code), spillCount), F, Len(code'), b, code'[b], y)
    BY <1>6, <2>3 DEF P
  <2> QED
    BY <1>6, <2>4, <2>5, <2>6, <2>7, Refitted DEF Q
<1>10. \E X \in [DOMAIN code -> SUBSET Int] :
         /\ X[1] = {}
         /\ \A b \in DOMAIN code : \E x : BlockNote(st, W, Q, X, Len(code), b, code'[b], x)
  BY <1>8, <1>9
<1>11. PICK X \in [DOMAIN code -> SUBSET Int] :
         /\ X[1] = {}
         /\ \A b \in DOMAIN code : \E x : BlockNote(st, W, Q, X, Len(code), b, code'[b], x)
  BY <1>10
<1>12. Annotates(st, W, X)'
  <2>1. Knows(st)'
    BY <1>1, <1>5 DEF Annotates, Knows
  <2> QED
    BY <1>1, <1>6, <1>11, <2>1 DEF Annotates, Q
<1>13. \A b \in DOMAIN code' : JumpsLast(code'[b])
  BY <1>1, <1>2, <1>6, TrimmedJumps DEF NotesOK
<1>14. X \in [DOMAIN code' -> SUBSET Int]
  BY <1>6, <1>11
<1> QED
  BY <1>12, <1>13, <1>14 DEF NotesOK

(* Nothing that the notes are about changes.                               *)
LEMMA NotesKept ==
  ASSUME NotesOK, UNCHANGED <<code, orig, spillCount>>,
         stage' \in {"trim", "live", "color"} => stage \in {"trim", "live", "color"}
  PROVE  NotesOK'
<1> SUFFICES ASSUME stage' \in {"trim", "live", "color"} PROVE NotesOK'
  BY DEF NotesOK
<1>1. PICK st \in [Int -> Int] : \E W \in SUBSET Int :
        \E E \in [DOMAIN code -> SUBSET Int] : Annotates(st, W, E)
  BY DEF NotesOK
<1>2. PICK W \in SUBSET Int : \E E \in [DOMAIN code -> SUBSET Int] : Annotates(st, W, E)
  BY <1>1
<1>3. PICK E \in [DOMAIN code -> SUBSET Int] : Annotates(st, W, E)
  BY <1>2
<1>4. Annotates(st, W, E)'
  BY <1>3 DEF Annotates, Knows
<1>5. \A b \in DOMAIN code' : JumpsLast(code'[b])
  BY DEF NotesOK
<1> QED
  BY <1>4, <1>5 DEF NotesOK

----------------------------------------------------------------------------
(* What a spill round makes of a note.                                     *)

(* Copied registers are held no more, and what is given a slot is held in  *)
(* that.                                                                   *)
Kept(R, slot, L) ==
  (L \ (R \cup DOMAIN slot)) \cup {Slot(slot[r]) : r \in L \cap DOMAIN slot}

(* The round copies the registers R, which no reload fills, and stores     *)
(* others into new slots from c up to d.                                   *)
Shift(st, W, n, c, d, R, slot) ==
  /\ n \in Nat /\ c \in Nat /\ d \in Nat /\ c <= d
  /\ R \subseteq 0..(n - 1) /\ DOMAIN slot \subseteq 0..(n - 1)
  /\ R \cap DOMAIN slot = {} /\ R \cap W = {}
  /\ \A r \in DOMAIN slot : slot[r] \in c..(d - 1) /\ st[Slot(slot[r])] = st[r]

(* Every place that is held has the value of one that was.                 *)
LEMMA Origins ==
  ASSUME NEW st, NEW W, NEW n, NEW c, NEW d, NEW R, NEW slot,
         Shift(st, W, n, c, d, R, slot), NEW L, NEW q \in Kept(R, slot, L)
  PROVE  \E r \in L : /\ st[r] = st[q]
                      /\ \/ r = q /\ q \notin R \cup DOMAIN slot
                         \/ r \in DOMAIN slot /\ q = Slot(slot[r]) /\ q \in Int /\ q \notin Nat
<1>1. CASE q \in L \ (R \cup DOMAIN slot)
  BY <1>1
<1>2. ASSUME NEW r \in L \cap DOMAIN slot, q = Slot(slot[r])
      PROVE  /\ st[r] = st[q] /\ r \in DOMAIN slot
             /\ q = Slot(slot[r]) /\ q \in Int /\ q \notin Nat
  <2>1. st[Slot(slot[r])] = st[r] /\ slot[r] \in Nat
    BY DEF Shift
  <2> QED
    BY <1>2, <2>1, SlotFacts
<1> QED
  BY <1>1, <1>2 DEF Kept

LEMMA KeptFacts ==
  ASSUME NEW st, NEW W, NEW n, NEW c, NEW d, NEW R, NEW slot,
         Shift(st, W, n, c, d, R, slot), NEW m \in Nat, n <= m, NEW L
  PROVE  /\ L \subseteq Room(n, c) => Kept(R, slot, L) \subseteq Room(m, d)
         /\ Kept(R, slot, L) \cap R = {} /\ Kept(R, slot, L) \cap DOMAIN slot = {}
         /\ L \subseteq Int => Kept(R, slot, L) \subseteq Int
<1>1. /\ n \in Nat /\ c \in Nat /\ d \in Nat /\ c <= d
      /\ R \subseteq 0..(n - 1) /\ DOMAIN slot \subseteq 0..(n - 1)
      /\ \A r \in DOMAIN slot : slot[r] \in c..(d - 1)
  BY DEF Shift
<1>2. Room(n, c) \subseteq Room(m, d)
  <2>1. 0..(n - 1) \subseteq 0..(m - 1) /\ 0..(c - 1) \subseteq 0..(d - 1)
    BY <1>1
  <2> QED
    BY <2>1 DEF Room
<1>3. \A r \in DOMAIN slot : slot[r] \in 0..(d - 1) /\ slot[r] \in Nat
  BY <1>1
<1>4. \A r \in DOMAIN slot : /\ Slot(slot[r]) \in Room(m, d)
                             /\ Slot(slot[r]) \in Int /\ Slot(slot[r]) \notin Nat
  BY <1>1, <1>3, SlotFacts
<1>5. R \subseteq Nat /\ DOMAIN slot \subseteq Nat
  BY <1>1
<1> QED
  BY <1>2, <1>4, <1>5 DEF Kept

LEMMA KeptLess ==
  ASSUME NEW R, NEW slot, NEW L, NEW M, L \subseteq M
  PROVE  Kept(R, slot, L) \subseteq Kept(R, slot, M)
  BY DEF Kept

LEMMA KeptAlone ==
  ASSUME NEW st, NEW W, NEW n, NEW c, NEW d, NEW R, NEW slot,
         Shift(st, W, n, c, d, R, slot), NEW L, Alone(st, W, L)
  PROVE  Alone(st, W, Kept(R, slot, L))
<1> SUFFICES ASSUME NEW p \in Kept(R, slot, L), p \in Nat, p \notin W,
                    NEW q \in Kept(R, slot, L), st[q] = st[p]
             PROVE  q = p
  BY DEF Alone
<1>1. p \in L /\ p \notin R \cup DOMAIN slot
  BY Origins
<1>2. PICK r \in L : /\ st[r] = st[q]
                     /\ \/ r = q /\ q \notin R \cup DOMAIN slot
                        \/ r \in DOMAIN slot /\ q = Slot(slot[r])
  BY Origins
<1>3. r = p
  BY <1>1, <1>2 DEF Alone
<1> QED
  BY <1>1, <1>2, <1>3

(* The notes on what is written for the instruction in hand: the operands  *)
(* that are gone come into the temporaries one by one; the result is in    *)
(* the last one before it is in its slot.                                  *)
Moved(L) == Kept(DOMAIN sp.remat, sp.slot, L)

Loading(L, i) == Moved(L) \cup sp.nreg..(sp.nreg + i - 2)

Settling(M) ==
  IF Stored THEN (Moved(M) \ {Slot(sp.slot[Old.dst])}) \cup {Past} ELSE Moved(M)

GroupNote(L, M) ==
  [i \in 1..(Len(Group) + 1) |->
     IF i <= Len(Gone) + 1 THEN Loading(L, i)
     ELSE IF i = Len(Gone) + 2 THEN Settling(M) ELSE Moved(M)]

Handled(st, W, n, c, L, M) ==
  /\ Shift(st, W, n, c, spillCount, DOMAIN sp.remat, sp.slot) /\ n <= sp.nreg
  /\ L \subseteq Room(n, c) /\ M \subseteq Room(n, c)
  /\ Alone(st, W, L) /\ Alone(st, W, M)
  /\ Holds(st, W, Room(n, c), Old, L, M)

(* The temporaries stand for what is loaded into them or computed in them. *)
Follows(su, V, st, W) ==
  /\ \A q \in Room(sp.nreg, spillCount) : su[q] = st[q] /\ (q \in V <=> q \in W)
  /\ \A i \in 1..Len(Gone) :
       /\ su[sp.nreg + i - 1] = st[Gone[i]]
       /\ sp.nreg + i - 1 \in V <=> Gone[i] \notin DOMAIN sp.remat
  /\ Stored => su[Past] = st[Old.dst] /\ (Past \in V <=> Old.op = "SpillLw")

LEMMA HandledFacts ==
  ASSUME IInv, ShapesOK, SpillInst, NEW st, NEW W, NEW n, NEW c, NEW L, NEW M,
         Handled(st, W, n, c, L, M), NEW su, NEW V, Follows(su, V, st, W)
  PROVE  /\ sp.nreg \in Nat /\ Len(Gone) \in Nat /\ Past = sp.nreg + Len(Gone) /\ Past \in Nat
         /\ Total = IF Stored THEN Past + 1 ELSE Past
         /\ Total \in Nat /\ spillCount \in Nat
         /\ Room(n, c) \subseteq Room(sp.nreg, spillCount)
         /\ Room(sp.nreg, spillCount) \subseteq Room(Total, spillCount)
         /\ DOMAIN sp.remat \cap DOMAIN sp.slot = {}
         /\ DOMAIN sp.remat \cup DOMAIN sp.slot \subseteq Nat
         /\ \A i \in 1..Len(Gone) :
              /\ Gone[i] \in L /\ Gone[i] \in DOMAIN sp.remat \cup DOMAIN sp.slot
              /\ Gone[i] \in Uses(Old)
              /\ sp.nreg + i - 1 \in Nat /\ sp.nreg + i - 1 \in Room(Total, spillCount)
         /\ \A q \in L \cup M \cup Moved(L) \cup Moved(M) :
              su[q] = st[q] /\ (q \in V <=> q \in W) /\ q \in Room(sp.nreg, spillCount)
         /\ Stored => Past \in Room(Total, spillCount)
         /\ \A q \in Room(sp.nreg, spillCount) :
              q # Past /\ \A i \in 1..Len(Gone) : q # sp.nreg + i - 1
<1> DEFINE R == DOMAIN sp.remat
           X == DOMAIN sp.slot
           x == sp.nreg
           l == Len(Gone)
           Q == Room(x, spillCount)
<1>1. x \in Nat /\ spillCount \in Nat /\ stage = "spill"
  BY InHand DEF IInv, SpillOK, CodeOK
<1>2. l \in Nat /\ Range(Gone) = Uses(Old) \cap (R \cup X) /\ DOMAIN Gone = 1..l
  BY LoadedOnce
<1>3. Past = x + l /\ Total = IF Stored THEN Past + 1 ELSE Past
  BY DEF Past, Total
<1>4. Past \in Nat /\ Total \in Nat /\ x <= Past /\ Past <= Total
  BY <1>1, <1>2, <1>3
<1>5. Shift(st, W, n, c, spillCount, R, sp.slot) /\ n <= x
      /\ L \subseteq Room(n, c) /\ M \subseteq Room(n, c)
      /\ Holds(st, W, Room(n, c), Old, L, M)
  BY DEF Handled
<1>6. /\ n \in Nat /\ c \in Nat /\ c <= spillCount /\ R \cap X = {}
      /\ R \subseteq 0..(n - 1) /\ X \subseteq 0..(n - 1)
  BY <1>5 DEF Shift
<1>7. Room(n, c) \subseteq Q
  <2>1. 0..(n - 1) \subseteq 0..(x - 1) /\ 0..(c - 1) \subseteq 0..(spillCount - 1)
    BY <1>1, <1>5, <1>6
  <2> QED
    BY <2>1 DEF Room
<1>8. Q \subseteq Room(Total, spillCount)
  <2>1. 0..(x - 1) \subseteq 0..(Total - 1)
    BY <1>1, <1>4
  <2> QED
    BY <2>1 DEF Room
<1>9. Moved(L) \subseteq Q /\ Moved(M) \subseteq Q
  BY <1>1, <1>5, KeptFacts DEF Moved
<1>10. \A q \in Q : q \in Nat => q \in 0..(x - 1)
  BY <1>1, SlotFacts
<1>11. ASSUME NEW i \in 1..l
       PROVE  /\ Gone[i] \in L /\ Gone[i] \in R \cup X /\ Gone[i] \in Uses(Old)
              /\ x + i - 1 \in Nat /\ x + i - 1 \in Room(Total, spillCount)
  <2>1. Gone[i] \in Range(Gone)
    BY <1>2 DEF Range
  <2>2. Uses(Old) \subseteq L
    BY <1>5 DEF Holds, Reads
  <2>3. x + i - 1 \in 0..(Total - 1)
    BY <1>1, <1>2, <1>3, <1>4
  <2> QED
    BY <1>2, <2>1, <2>2, <2>3 DEF Room
<1>12. Stored => Past \in Room(Total, spillCount)
  <2>1. Stored => Past \in 0..(Total - 1)
    BY <1>3, <1>4
  <2> QED
    BY <2>1 DEF Room
<1>13. ASSUME NEW q \in Q PROVE q # Past /\ \A i \in 1..l : q # x + i - 1
  <2> HIDE DEF l, x
  <2>1. Past \in Nat /\ \A i \in 1..l : x + i - 1 \in Nat
    BY <1>4, <1>11 DEF l, x
  <2>2. CASE q \in Nat
    <3>1. q \in 0..(x - 1)
      BY <1>10, <2>2
    <3>2. Past \notin 0..(x - 1) /\ \A i \in 1..l : x + i - 1 \notin 0..(x - 1)
      BY <1>1, <1>2, <1>4
    <3> QED
      BY <3>1, <3>2
  <2>3. CASE q \notin Nat
    BY <2>1, <2>3
  <2> QED
    BY <2>2, <2>3
<1>14. R \cup X \subseteq Nat
  BY <1>6
<1>15. \A q \in L \cup M \cup Moved(L) \cup Moved(M) :
         su[q] = st[q] /\ (q \in V <=> q \in W) /\ q \in Q
  BY <1>5, <1>7, <1>9 DEF Follows
<1> QED
  BY <1>1, <1>2, <1>3, <1>4, <1>6, <1>7, <1>8, <1>11, <1>12, <1>13, <1>14, <1>15

LEMMA LoadOrigins ==
  ASSUME IInv, ShapesOK, SpillInst, NEW st, NEW W, NEW n, NEW c, NEW L, NEW M,
         Handled(st, W, n, c, L, M), NEW su, NEW V, Follows(su, V, st, W),
         NEW i \in 1..(Len(Gone) + 1), NEW q \in Loading(L, i)
  PROVE  \E r \in L :
           /\ st[r] = su[q]
           /\ \/ /\ r = q /\ q \in Room(sp.nreg, spillCount) /\ (q \in V <=> q \in W)
                 /\ q \notin DOMAIN sp.remat \cup DOMAIN sp.slot
              \/ r \in DOMAIN sp.slot /\ q \notin Nat
              \/ \E j \in 1..Len(Gone) :
                   /\ j < i /\ q = sp.nreg + j - 1 /\ r = Gone[j]
                   /\ (q \in V <=> r \notin DOMAIN sp.remat)
                   /\ r \in DOMAIN sp.remat \cup DOMAIN sp.slot
<1> DEFINE x == sp.nreg
<1>1. /\ x \in Nat /\ Len(Gone) \in Nat
      /\ \A p \in Moved(L) : su[p] = st[p] /\ p \in Room(x, spillCount)
                             /\ (p \in V <=> p \in W)
      /\ \A j \in 1..Len(Gone) : Gone[j] \in L /\ Gone[j] \in DOMAIN sp.remat \cup DOMAIN sp.slot
  BY HandledFacts
<1>2. CASE q \in Moved(L)
  <2>1. PICK r \in L : /\ st[r] = st[q]
                       /\ \/ r = q /\ q \notin DOMAIN sp.remat \cup DOMAIN sp.slot
                          \/ r \in DOMAIN sp.slot /\ q = Slot(sp.slot[r]) /\ q \in Int /\ q \notin Nat
    BY <1>2, Origins DEF Moved, Handled
  <2> QED
    BY <1>1, <1>2, <2>1
<1>3. CASE q \in x..(x + i - 2)
  <2> DEFINE j == q - x + 1
  <2>1. j \in 1..Len(Gone) /\ j < i /\ q = x + j - 1
    BY <1>1, <1>3, SMTT(30)
  <2>2. su[x + j - 1] = st[Gone[j]] /\ (x + j - 1 \in V <=> Gone[j] \notin DOMAIN sp.remat)
    BY <2>1 DEF Follows
  <2> HIDE DEF j, x
  <2> QED
    BY <1>1, <2>1, <2>2 DEF x
<1> QED
  BY <1>2, <1>3 DEF Loading

LEMMA LoadingAlone ==
  ASSUME IInv, ShapesOK, SpillInst, NEW st, NEW W, NEW n, NEW c, NEW L, NEW M,
         Handled(st, W, n, c, L, M), NEW su, NEW V, Follows(su, V, st, W),
         NEW i \in 1..(Len(Gone) + 1)
  PROVE  Alone(su, V, Loading(L, i))
<1> DEFINE R == DOMAIN sp.remat
           X == DOMAIN sp.slot
<1> SUFFICES ASSUME NEW p \in Loading(L, i), p \in Nat, p \notin V,
                    NEW q \in Loading(L, i), su[q] = su[p]
             PROVE  q = p
  BY DEF Alone
<1>1. R \cap X = {} /\ R \cup X \subseteq Nat /\ R \cap W = {}
      /\ \A j, h \in 1..Len(Gone) : Gone[j] = Gone[h] => j = h
  BY HandledFacts, LoadedOnce DEF Handled, Shift
<1>2. \A a \in L : a \in Nat /\ a \notin W => \A b \in L : st[b] = st[a] => b = a
  BY DEF Handled, Alone
<1>3. PICK a \in L :
           /\ st[a] = su[p]
           /\ \/ /\ a = p /\ p \in Room(sp.nreg, spillCount) /\ (p \in V <=> p \in W)
                 /\ p \notin DOMAIN sp.remat \cup DOMAIN sp.slot
              \/ a \in DOMAIN sp.slot /\ p \notin Nat
              \/ \E j \in 1..Len(Gone) :
                   /\ j < i /\ p = sp.nreg + j - 1 /\ a = Gone[j]
                   /\ (p \in V <=> a \notin DOMAIN sp.remat)
                   /\ a \in DOMAIN sp.remat \cup DOMAIN sp.slot
  BY LoadOrigins
<1>4. PICK b \in L :
           /\ st[b] = su[q]
           /\ \/ /\ b = q /\ q \in Room(sp.nreg, spillCount) /\ (q \in V <=> q \in W)
                 /\ q \notin DOMAIN sp.remat \cup DOMAIN sp.slot
              \/ b \in DOMAIN sp.slot /\ q \notin Nat
              \/ \E j \in 1..Len(Gone) :
                   /\ j < i /\ q = sp.nreg + j - 1 /\ b = Gone[j]
                   /\ (q \in V <=> b \notin DOMAIN sp.remat)
                   /\ b \in DOMAIN sp.remat \cup DOMAIN sp.slot
  BY LoadOrigins
<1>5. a \in Nat /\ a \notin W /\ a \notin X
  BY <1>1, <1>3
<1>6. b = a
  BY <1>2, <1>3, <1>4, <1>5
<1> QED
  BY <1>1, <1>3, <1>4, <1>5, <1>6

(* A load.                                                                 *)
LEMMA LoadHolds ==
  ASSUME IInv, ShapesOK, SpillInst, NEW st, NEW W, NEW n, NEW c, NEW L, NEW M,
         Handled(st, W, n, c, L, M), NEW su, NEW V, Follows(su, V, st, W),
         NEW i \in 1..Len(Gone)
  PROVE  Holds(su, V, Room(Total, spillCount), Loaded(Gone[i], i),
               Loading(L, i), Loading(L, i + 1))
<1> DEFINE t == sp.nreg + i - 1
           m == Loaded(Gone[i], i)
           A == Loading(L, i)
           B == Loading(L, i + 1)
<1>1. /\ sp.nreg \in Nat /\ Len(Gone) \in Nat
      /\ t \in Nat /\ t \in Room(Total, spillCount)
      /\ Gone[i] \in L /\ Gone[i] \in DOMAIN sp.remat \cup DOMAIN sp.slot
      /\ DOMAIN sp.remat \cap DOMAIN sp.slot = {}
  BY HandledFacts
<1>2. su[t] = st[Gone[i]] /\ (t \in V <=> Gone[i] \notin DOMAIN sp.remat)
  BY DEF Follows
<1>3. B = A \cup {t}
  <2>1. sp.nreg..(sp.nreg + (i + 1) - 2) = sp.nreg..(sp.nreg + i - 2) \cup {t}
    BY <1>1
  <2> QED
    BY <2>1 DEF Loading
<1>4. i + 1 \in 1..(Len(Gone) + 1)
  BY <1>1
<1>5. Alone(su, V, B)
  BY <1>4, LoadingAlone
<1>6. CASE Gone[i] \in DOMAIN sp.remat
  <2> DEFINE o == sp.remat[Gone[i]]
  <2>1. Shaped(o) /\ o.op = "Li" /\ o \in Instructions(DOMAIN orig, Len(code))
    BY <1>6, InHand DEF ShapesOK, IInv, SpillOK
  <2>2. m = [o EXCEPT !.dst = t]
    BY <1>6 DEF Loaded
  <2>3. o.use = <<>>
    BY <2>1 DEF Shaped
  <2> HIDE DEF o, t, m
  <2>4. m.op = "Li" /\ m.dst = t /\ m.use = <<>>
    BY <2>1, <2>2, <2>3 DEF Instructions
  <2> HIDE DEF A, B
  <2>5. Reads(m) = {} /\ Defs(m) = {t} /\ Sets(m) = {t}
    BY <1>1, <2>4 DEF Reads, Sets, Uses, Defs, Range, NoReg, t
  <2>6. t \notin V /\ \A q \in B : q # t => su[q] # su[t]
    BY <1>1, <1>2, <1>3, <1>5, <1>6 DEF Alone, t
  <2>7. Holds(su, V, Room(Total, spillCount), m, A, B)
    BY <1>1, <1>3, <2>4, <2>5, <2>6 DEF Holds, t
  <2> QED
    BY <2>7 DEF m, A, B
<1>7. CASE Gone[i] \in DOMAIN sp.slot
  <2> DEFINE s == sp.slot[Gone[i]]
  <2>1. m = Inst("SpillLw", t, <<>>, s)
    BY <1>1, <1>7 DEF Loaded
  <2>2. s \in Nat /\ st[Slot(s)] = st[Gone[i]]
    BY <1>7 DEF Handled, Shift
  <2>3. Slot(s) \in Moved(L)
    BY <1>1, <1>7 DEF Moved, Kept
  <2>4. su[Slot(s)] = st[Slot(s)]
    BY <2>3, HandledFacts
  <2>5. Slot(s) \in A
    BY <2>3 DEF Loading
  <2> HIDE DEF t, m, s
  <2>6. m.op = "SpillLw" /\ m.dst = t /\ m.use = <<>> /\ m.imm = s
    BY <2>1 DEF Inst
  <2> HIDE DEF A, B
  <2>7. Reads(m) = {Slot(s)} /\ Defs(m) = {t} /\ Sets(m) = {t}
    BY <1>1, <2>6 DEF Reads, Sets, Uses, Defs, Range, NoReg, t
  <2>8. Holds(su, V, Room(Total, spillCount), m, A, B)
    BY <1>1, <1>2, <1>3, <2>2, <2>4, <2>5, <2>6, <2>7 DEF Holds, t
  <2> QED
    BY <2>8 DEF m, A, B
<1> QED
  BY <1>1, <1>6, <1>7

(* What the instruction in hand sets, and that no copied register but its  *)
(* own result changes.                                                     *)
LEMMA OldFacts ==
  ASSUME IInv, ShapesOK, SpillInst
  PROVE  /\ Old.op \in Defining => Defs(Old) = {Old.dst}
         /\ Stored => /\ Defs(Old) = {Old.dst} /\ Old.op \in Defining \cup {"Call"}
                      /\ Old.op # "SpillSw" /\ Sets(Old) = {Old.dst}
                      /\ Old.dst \in Nat
         /\ Old.op = "SpillSw" => Defs(Old) = {}
         /\ IsJump(Old) \/ Old.op = "Ret" => ~Stored /\ Defs(Old) = {}
<1>1. /\ Shaped(Old) /\ Old \in Instructions(DOMAIN orig, Len(code))
      /\ DOMAIN orig \in SUBSET Nat /\ DOMAIN sp.slot \subseteq Nat
  BY InHand DEF ShapesOK, IInv, SpillOK, CodeOK
<1>2. Old.op \in Defining => Old.dst \in Nat
  BY <1>1 DEF Instructions
<1>3. Stored => Old.dst \in Nat
  BY <1>1 DEF Stored
<1>4. Old.dst \in Nat => Old.dst # NoReg
  BY DEF NoReg
<1>5. Old.op \notin Defining \cup {"Call"} => Old.dst = NoReg
  BY <1>1 DEF Shaped
<1>6. "SpillSw" \notin Defining \cup {"Call"} /\ "Ret" \notin Defining \cup {"Call"}
      /\ "Jmp" \notin Defining \cup {"Call"} /\ "Br" \notin Defining \cup {"Call"}
  BY DEF Defining
<1> QED
  BY <1>2, <1>3, <1>4, <1>5, <1>6 DEF Sets, Defs, IsJump

(* A place that is held when the instruction is done, and not set by it.   *)
LEMMA MovedBack ==
  ASSUME IInv, ShapesOK, SpillInst, NEW st, NEW W, NEW n, NEW c, NEW L, NEW M,
         Handled(st, W, n, c, L, M),
         NEW q \in Moved(M), q \notin Sets(Old), Stored => q # Slot(sp.slot[Old.dst])
  PROVE  q \in Moved(L)
<1>1. M \ Sets(Old) \subseteq L
  BY DEF Handled, Holds
<1>2. CASE q \in M \ (DOMAIN sp.remat \cup DOMAIN sp.slot)
  BY <1>1, <1>2 DEF Moved, Kept
<1>3. ASSUME NEW r \in M \cap DOMAIN sp.slot, q = Slot(sp.slot[r])
      PROVE  q \in Moved(L)
  <2>1. r # Old.dst
    BY <1>3 DEF Stored
  <2>2. r \notin Sets(Old)
    <3>1. r \in Nat
      BY InHand DEF IInv, SpillOK
    <3>2. r \notin Defs(Old)
      BY <2>1 DEF Defs
    <3>3. Old.op = "SpillSw" => Slot(Old.imm) \notin Nat
      <4>1. Old.op = "SpillSw" => Old.imm \in Nat
        BY DEF Handled, Holds
      <4> QED
        BY <4>1, SlotFacts
    <3> QED
      BY <3>1, <3>2, <3>3 DEF Sets
  <2>3. r \in L
    BY <1>1, <2>2
  <2> QED
    BY <1>3, <2>3 DEF Moved, Kept
<1> QED
  BY <1>2, <1>3 DEF Moved, Kept

(* The instruction itself.                                                 *)
LEMMA BodyHolds ==
  ASSUME IInv, ShapesOK, SpillInst, NEW st, NEW W, NEW n, NEW c, NEW L, NEW M,
         Handled(st, W, n, c, L, M), NEW su, NEW V, Follows(su, V, st, W)
  PROVE  Holds(su, V, Room(Total, spillCount), Body,
               Loading(L, Len(Gone) + 1), Settling(M))
<1> DEFINE A == Loading(L, Len(Gone) + 1)
           B == Settling(M)
           P == Room(n, c)
           Q == Room(Total, spillCount)
           d == NewDst
           R == DOMAIN sp.remat
           X == DOMAIN sp.slot
<1>1. Body = [op |-> Old.op, dst |-> NewDst, use |-> NewUse, imm |-> Old.imm]
      /\ Uses(Body) = (Uses(Old) \ Range(Gone)) \cup sp.nreg..(Past - 1)
  BY BodyFacts
<1>2. Body.op = Old.op /\ Body.dst = d /\ Body.imm = Old.imm
  BY <1>1
<1>3. /\ Reads(Old) \subseteq L /\ M \ Sets(Old) \subseteq L /\ Sets(Old) \subseteq P
      /\ Old.op \notin {"SpillLw", "SpillSw"} =>
           \A e \in Defs(Old) : \A q \in M : q # e => st[q] # st[e]
      /\ Old.op \in {"SpillLw", "SpillSw"} => Old.imm \in Nat
      /\ Old.op = "SpillLw" => st[Old.dst] = st[Slot(Old.imm)]
      /\ Old.op = "SpillSw" => \A r \in Uses(Old) : st[r] = st[Slot(Old.imm)]
      /\ Old.op = "Li" => Old.dst \notin W
  BY DEF Handled, Holds
<1>4. /\ sp.nreg \in Nat /\ Len(Gone) \in Nat /\ Past = sp.nreg + Len(Gone) /\ Past \in Nat
      /\ P \subseteq Room(sp.nreg, spillCount) /\ Room(sp.nreg, spillCount) \subseteq Q
      /\ R \cap X = {} /\ R \cup X \subseteq Nat
      /\ \A q \in L \cup M \cup Moved(L) \cup Moved(M) :
           su[q] = st[q] /\ (q \in V <=> q \in W) /\ q \in Room(sp.nreg, spillCount)
      /\ Stored => Past \in Q
      /\ \A q \in Room(sp.nreg, spillCount) : q # Past
  BY HandledFacts
<1>5. /\ Old.op \in Defining => Defs(Old) = {Old.dst}
      /\ Stored => /\ Defs(Old) = {Old.dst} /\ Old.op \in Defining \cup {"Call"}
                   /\ Old.op # "SpillSw" /\ Sets(Old) = {Old.dst} /\ Old.dst \in Nat
      /\ Old.op = "SpillSw" => Defs(Old) = {}
  BY OldFacts
<1>6. A = Moved(L) \cup sp.nreg..(Past - 1)
  <2>1. sp.nreg + (Len(Gone) + 1) - 2 = Past - 1
    BY <1>4
  <2> QED
    BY <2>1 DEF Loading
<1>7. Range(Gone) = Uses(Old) \cap (R \cup X)
  BY LoadedOnce
<1>8. Uses(Old) \ Range(Gone) \subseteq Moved(L)
  BY <1>3, <1>7 DEF Moved, Kept, Reads
<1>9. Old.op = "SpillLw" => Slot(Old.imm) \in Moved(L) /\ su[Slot(Old.imm)] = st[Slot(Old.imm)]
  <2>1. Old.op = "SpillLw" => Slot(Old.imm) \in L /\ Slot(Old.imm) \notin Nat
    BY <1>3, SlotFacts DEF Reads
  <2>2. Old.op = "SpillLw" => Slot(Old.imm) \in Moved(L)
    BY <1>4, <2>1 DEF Moved, Kept
  <2> QED
    BY <1>4, <2>2
<1>10. Reads(Body) \subseteq A
  BY <1>1, <1>2, <1>6, <1>8, <1>9 DEF Reads
<1>11. Defs(Body) = (IF Stored THEN {Past} ELSE Defs(Old))
  <2>1. Past # NoReg
    BY <1>4 DEF NoReg
  <2> QED
    BY <1>2, <2>1 DEF Defs, NewDst
<1>12. Sets(Body) = (IF Stored THEN {Past} ELSE Sets(Old))
  BY <1>2, <1>5, <1>11 DEF Sets
<1>13. Sets(Body) \subseteq Q
  BY <1>3, <1>4, <1>12
<1>14. B \ Sets(Body) \subseteq A
  <2> SUFFICES ASSUME NEW q \in B, q \notin Sets(Body) PROVE q \in Moved(L)
    BY <1>6
  <2>1. q \in Moved(M) /\ (Stored => q # Slot(sp.slot[Old.dst]))
    BY <1>12 DEF Settling
  <2>2. q \notin Sets(Old)
    <3>1. CASE Stored
      <4>1. Sets(Old) = {Old.dst} /\ Old.dst \in X
        BY <1>5, <3>1 DEF Stored
      <4>2. Moved(M) \cap X = {}
        <5>1. /\ Shift(st, W, n, c, spillCount, R, sp.slot) /\ n <= sp.nreg
          BY DEF Handled
        <5> QED
          BY <1>4, <5>1, KeptFacts DEF Moved
      <4> QED
        BY <2>1, <4>1, <4>2
    <3>2. CASE ~Stored
      BY <1>12, <3>2
    <3> QED
      BY <3>1, <3>2
  <2> QED
    BY <2>1, <2>2, MovedBack
<1>15. Defs(Old) = {} \/ (Defs(Old) = {Old.dst} /\ su[d] = st[Old.dst])
  <2>1. CASE Stored
    BY <1>5, <2>1 DEF Follows, NewDst
  <2>2. CASE ~Stored
    <3>1. Defs(Old) \subseteq P
      BY <1>3 DEF Sets
    <3>2. \A q \in Defs(Old) : su[q] = st[q]
      BY <1>4, <3>1 DEF Follows
    <3> QED
      BY <2>2, <3>2 DEF Defs, NewDst
  <2> QED
    BY <2>1, <2>2
<1>16. ASSUME Old.op \notin {"SpillLw", "SpillSw"}, NEW e \in Defs(Body), NEW q \in B, q # e
       PROVE  su[q] # su[e]
  <2>1. e = d /\ q \in Moved(M) /\ (Stored => q # Slot(sp.slot[Old.dst]))
    BY <1>2, <1>11, <1>16 DEF Settling, Defs, NewDst
  <2>2. PICK r \in M : /\ st[r] = st[q]
                       /\ \/ r = q /\ q \notin R \cup X
                          \/ r \in X /\ q = Slot(sp.slot[r])
    BY <2>1, Origins DEF Moved, Handled
  <2>3. Defs(Old) = {Old.dst}
    BY <1>5, <1>11, <1>16 DEF Defs
  <2>4. r # Old.dst
    BY <1>16, <2>1, <2>2 DEF Stored, NewDst
  <2>5. st[r] # st[Old.dst]
    BY <1>3, <1>16, <2>3, <2>4
  <2>6. su[q] = st[q] /\ su[e] = st[Old.dst]
    BY <1>4, <1>15, <2>1, <2>3
  <2> QED
    BY <2>2, <2>5, <2>6
<1>17. Old.op = "SpillLw" => su[d] = su[Slot(Old.imm)]
  BY <1>3, <1>5, <1>9, <1>15 DEF Defining
<1>18. ASSUME Old.op = "SpillSw", NEW r \in Uses(Body) PROVE su[r] = su[Slot(Old.imm)]
  <2>1. Slot(Old.imm) \in P
    BY <1>3, <1>18 DEF Sets
  <2>2. su[Slot(Old.imm)] = st[Slot(Old.imm)]
    BY <1>4, <2>1 DEF Follows
  <2>3. CASE r \in Uses(Old) \ Range(Gone)
    BY <1>3, <1>4, <1>8, <1>18, <2>2, <2>3
  <2>4. CASE r \in sp.nreg..(Past - 1)
    <3> DEFINE i == r - sp.nreg + 1
    <3>1. i \in 1..Len(Gone) /\ r = sp.nreg + i - 1
      BY <1>4, <2>4
    <3> HIDE DEF i
    <3>2. su[sp.nreg + i - 1] = st[Gone[i]]
      BY <3>1 DEF Follows
    <3>3. Gone[i] \in Uses(Old)
      BY <3>1, HandledFacts
    <3> QED
      BY <1>3, <1>18, <2>2, <3>1, <3>2, <3>3
  <2> QED
    BY <1>1, <2>3, <2>4
<1>19. Old.op = "Li" => d \notin V
  <2> SUFFICES ASSUME Old.op = "Li" PROVE d \notin V
    OBVIOUS
  <2>1. CASE Stored
    BY <2>1 DEF Follows, NewDst
  <2>2. CASE ~Stored
    <3>1. Old.dst \in P
      BY <1>3, <1>5 DEF Sets, Defining
    <3> QED
      BY <1>3, <1>4, <2>2, <3>1 DEF Follows, NewDst
  <2> QED
    BY <2>1, <2>2
<1> HIDE DEF A, B, P, Q, d
<1>20. Holds(su, V, Q, Body, A, B)
  BY <1>2, <1>3, <1>10, <1>13, <1>14, <1>16, <1>17, <1>18, <1>19 DEF Holds
<1> QED
  BY <1>20 DEF A, B, Q

(* The store of the result.                                                *)
LEMMA StoreHolds ==
  ASSUME IInv, ShapesOK, SpillInst, NEW st, NEW W, NEW n, NEW c, NEW L, NEW M,
         Handled(st, W, n, c, L, M), NEW su, NEW V, Follows(su, V, st, W), Stored
  PROVE  Holds(su, V, Room(Total, spillCount),
               Inst("SpillSw", NoReg, <<Past>>, sp.slot[Old.dst]), Settling(M), Moved(M))
<1> DEFINE s == sp.slot[Old.dst]
           m == Inst("SpillSw", NoReg, <<Past>>, s)
           A == Settling(M)
           B == Moved(M)
           Q == Room(Total, spillCount)
<1>1. m.op = "SpillSw" /\ m.dst = NoReg /\ m.use = <<Past>> /\ m.imm = s
  BY DEF Inst
<1>2. s \in Nat /\ s \in 0..(spillCount - 1) /\ st[Slot(s)] = st[Old.dst]
  BY DEF Handled, Shift, Stored
<1>3. /\ Slot(s) \in Room(sp.nreg, spillCount) /\ Room(sp.nreg, spillCount) \subseteq Q
  <2>1. sp.nreg \in Nat /\ spillCount \in Nat /\ Room(sp.nreg, spillCount) \subseteq Q
    BY HandledFacts
  <2> QED
    BY <1>2, <2>1, SlotFacts
<1>4. su[Slot(s)] = st[Slot(s)] /\ su[Past] = st[Old.dst]
  BY <1>3 DEF Follows
<1> HIDE DEF m
<1>5. Uses(m) = {Past} /\ Defs(m) = {} /\ Reads(m) = {Past} /\ Sets(m) = {Slot(s)}
  <2>1. Range(<<Past>>) = {Past}
    BY DEF Range
  <2> QED
    BY <1>1, <2>1 DEF Reads, Sets, Uses, Defs
<1>6. A = (B \ {Slot(s)}) \cup {Past}
  BY DEF Settling
<1> HIDE DEF A, B, s, Q
<1>7. Holds(su, V, Q, m, A, B)
  BY <1>1, <1>2, <1>3, <1>4, <1>5, <1>6 DEF Holds
<1> QED
  BY <1>7 DEF m, A, B, s, Q

LEMMA OthersOrigin ==
  ASSUME NEW st, NEW W, NEW n, NEW c, NEW L, NEW M, Handled(st, W, n, c, L, M),
         Stored, NEW q \in Moved(M), q # Slot(sp.slot[Old.dst])
  PROVE  \E r \in M : st[r] = st[q] /\ r # Old.dst
<1>1. PICK r \in M : /\ st[r] = st[q]
                     /\ \/ r = q /\ q \notin DOMAIN sp.remat \cup DOMAIN sp.slot
                        \/ r \in DOMAIN sp.slot /\ q = Slot(sp.slot[r])
  BY Origins DEF Moved, Handled
<1> QED
  BY <1>1 DEF Stored

LEMMA SettlingAlone ==
  ASSUME IInv, ShapesOK, SpillInst, NEW st, NEW W, NEW n, NEW c, NEW L, NEW M,
         Handled(st, W, n, c, L, M), NEW su, NEW V, Follows(su, V, st, W)
  PROVE  /\ Alone(su, V, Moved(M)) /\ Alone(su, V, Settling(M))
<1> DEFINE R == DOMAIN sp.remat
           X == DOMAIN sp.slot
<1>1. Alone(st, W, Moved(M))
  BY KeptAlone DEF Handled, Moved
<1>2. /\ \A q \in L \cup M \cup Moved(L) \cup Moved(M) :
           su[q] = st[q] /\ (q \in V <=> q \in W) /\ q \in Room(sp.nreg, spillCount)
      /\ \A q \in Room(sp.nreg, spillCount) : q # Past
  BY HandledFacts
<1>3. Alone(su, V, Moved(M))
  BY <1>1, <1>2 DEF Alone
<1>4. CASE ~Stored
  BY <1>3, <1>4 DEF Settling
<1>5. CASE Stored
  <2>1. /\ Defs(Old) = {Old.dst} /\ Sets(Old) = {Old.dst} /\ Old.op # "SpillSw"
    BY <1>5, OldFacts
  <2>6. \A z \in Moved(M) : z # Slot(sp.slot[Old.dst]) =>
          \E r \in M : st[r] = st[z] /\ r # Old.dst
    BY <1>5, OthersOrigin
  <2>2. su[Past] = st[Old.dst] /\ (Past \in V <=> Old.op = "SpillLw")
    BY <1>5 DEF Follows
  <2> SUFFICES ASSUME NEW p \in Settling(M), p \in Nat, p \notin V,
                      NEW q \in Settling(M), su[q] = su[p], q # p
               PROVE  FALSE
    BY <1>3 DEF Alone
  <2>3. CASE p # Past /\ q # Past
    BY <1>3, <1>5, <2>3 DEF Alone, Settling
  <2>4. CASE p = Past
    <3>1. Old.op \notin {"SpillLw", "SpillSw"} /\ q \in Moved(M) /\ q # Slot(sp.slot[Old.dst])
      BY <1>5, <2>1, <2>2, <2>4 DEF Settling
    <3>2. PICK r \in M : st[r] = st[q] /\ r # Old.dst
      BY <2>6, <3>1
    <3>3. st[r] # st[Old.dst]
      BY <2>1, <3>1, <3>2 DEF Handled, Holds
    <3> QED
      BY <1>2, <2>2, <2>4, <3>1, <3>2, <3>3
  <2>5. CASE p # Past /\ q = Past
    <3>1. p \in Moved(M) /\ p \notin W /\ st[p] = st[Old.dst]
      BY <1>2, <1>5, <2>2, <2>5 DEF Settling
    <3>2. p \in M /\ p \notin R \cup X
      BY <3>1, Origins DEF Moved, Handled
    <3>3. p # Old.dst
      BY <1>5, <3>2 DEF Stored
    <3>4. CASE Old.op # "SpillLw"
      BY <2>1, <3>1, <3>2, <3>3, <3>4 DEF Handled, Holds
    <3>5. CASE Old.op = "SpillLw"
      <4>1. p \in L
        BY <2>1, <3>2, <3>3 DEF Handled, Holds
      <4>2. /\ Old.imm \in Nat /\ Slot(Old.imm) \in L /\ st[Old.dst] = st[Slot(Old.imm)]
        BY <3>5 DEF Handled, Holds, Reads
      <4>3. Slot(Old.imm) \notin Nat
        BY <4>2, SlotFacts
      <4> QED
        BY <3>1, <4>1, <4>2, <4>3 DEF Handled, Alone
    <3> QED
      BY <3>4, <3>5
  <2> QED
    BY <2>3, <2>4, <2>5
<1> QED
  BY <1>3, <1>4, <1>5

LEMMA LoadedIsLoad ==
  ASSUME IInv, SpillInst, NEW i \in 1..Len(Gone)
  PROVE  Loaded(Gone[i], i).op \in {"Li", "SpillLw"}
<1> DEFINE t == sp.nreg + i - 1
<1>1. CASE Gone[i] \in DOMAIN sp.remat
  <2> DEFINE o == sp.remat[Gone[i]]
  <2>1. o.op = "Li" /\ o \in Instructions(DOMAIN orig, Len(code))
    BY <1>1, InHand DEF IInv, SpillOK
  <2>2. Loaded(Gone[i], i) = [o EXCEPT !.dst = t]
    BY <1>1 DEF Loaded
  <2> HIDE DEF o, t
  <2> QED
    BY <2>1, <2>2 DEF Instructions
<1>2. CASE Gone[i] \notin DOMAIN sp.remat
  BY <1>2 DEF Loaded, Inst
<1> QED
  BY <1>1, <1>2

LEMMA GroupNoted ==
  ASSUME IInv, ShapesOK, SpillInst, NEW st, NEW W, NEW n, NEW c, NEW L, NEW M,
         Handled(st, W, n, c, L, M), NEW su, NEW V, Follows(su, V, st, W)
  PROVE  LET g == GroupNote(L, M) IN
         /\ Noted(su, V, Room(Total, spillCount), Group, g)
         /\ g[1] = Moved(L) /\ g[Len(Group) + 1] = Moved(M)
         /\ \A k \in 1..(Len(Group) + 1) : g[k] \cap DOMAIN sp.remat = {}
         /\ \A k \in 1..Len(Group) : IsJump(Group[k]) =>
              Moved(L) \subseteq g[k] /\ IsJump(Old) /\ Group[k].imm = Old.imm
<1> DEFINE g == GroupNote(L, M)
           l == Len(Gone)
           z == Len(Group)
           Q == Room(Total, spillCount)
           R == DOMAIN sp.remat
<1>1. /\ z = l + 1 + (IF Stored THEN 1 ELSE 0) /\ z \in Nat
      /\ \A i \in 1..l : Group[i] = Loaded(Gone[i], i)
      /\ Group[l + 1] = Body
      /\ Stored => Group[l + 2] = Inst("SpillSw", NoReg, <<Past>>, sp.slot[Old.dst])
  BY GroupFacts
<1>2. /\ sp.nreg \in Nat /\ l \in Nat /\ Past = sp.nreg + l /\ Past \in Nat
      /\ Room(sp.nreg, spillCount) \subseteq Q /\ (Stored => Past \in Q)
      /\ \A i \in 1..l : sp.nreg + i - 1 \in Q
      /\ \A q \in L \cup M \cup Moved(L) \cup Moved(M) : q \in Room(sp.nreg, spillCount)
  BY HandledFacts
<1>3. g = [i \in 1..(z + 1) |-> IF i <= l + 1 THEN Loading(L, i)
                               ELSE IF i = l + 2 THEN Settling(M) ELSE Moved(M)]
  BY DEF GroupNote
<1> HIDE DEF g, l, z
<1>4. \A i \in 1..(l + 1) : g[i] = Loading(L, i)
  <2>1. \A i \in 1..(l + 1) : i \in 1..(z + 1) /\ i <= l + 1
    BY <1>1, <1>2
  <2> QED
    BY <1>3, <2>1
<1>5. g[l + 2] = Settling(M)
  <2>1. l + 2 \in 1..(z + 1) /\ ~(l + 2 <= l + 1)
    BY <1>1, <1>2
  <2> QED
    BY <1>3, <2>1
<1>6. Stored => g[l + 3] = Moved(M)
  <2>1. Stored => l + 3 \in 1..(z + 1) /\ ~(l + 3 <= l + 1) /\ l + 3 # l + 2
    BY <1>1, <1>2
  <2> QED
    BY <1>3, <2>1
<1>7. g[1] = Moved(L)
  <2>1. 1 \in 1..(l + 1) /\ sp.nreg..(sp.nreg + 1 - 2) = {}
    BY <1>2
  <2> QED
    BY <1>4, <2>1 DEF Loading
<1>8. g[z + 1] = Moved(M)
  <2>1. CASE Stored
    <3>1. z + 1 = l + 3
      BY <1>1, <1>2, <2>1
    <3> QED
      BY <1>6, <2>1, <3>1
  <2>2. CASE ~Stored
    <3>1. z + 1 = l + 2
      BY <1>1, <1>2, <2>2
    <3> QED
      BY <1>5, <2>2, <3>1 DEF Settling
  <2> QED
    BY <2>1, <2>2
<1>9. ASSUME NEW i \in 1..(z + 1)
      PROVE  i \in 1..(l + 1) \/ i = l + 2 \/ (Stored /\ i = l + 3)
  BY <1>1, <1>2
<1>10. \A r \in R : r \in 0..(sp.nreg - 1)
  <2>1. Shift(st, W, n, c, spillCount, R, sp.slot) /\ n <= sp.nreg
    BY DEF Handled
  <2>2. R \subseteq 0..(n - 1) /\ n \in Nat
    BY <2>1 DEF Shift
  <2> QED
    BY <1>2, <2>1, <2>2
<1>11. Moved(L) \cap R = {} /\ Moved(M) \cap R = {}
  <2>1. Shift(st, W, n, c, spillCount, R, sp.slot) /\ n <= sp.nreg
    BY DEF Handled
  <2> QED
    BY <1>2, <2>1, KeptFacts DEF Moved
<1>12. ASSUME NEW i \in 1..(l + 1) PROVE Loading(L, i) \subseteq Q /\ Loading(L, i) \cap R = {}
  <2>1. ASSUME NEW q \in sp.nreg..(sp.nreg + i - 2) PROVE q \in Q /\ q \notin R
    <3> DEFINE j == q - sp.nreg + 1
    <3>1. j \in 1..l /\ q = sp.nreg + j - 1 /\ q \notin 0..(sp.nreg - 1)
      BY <1>2, <2>1
    <3> HIDE DEF j
    <3> QED
      BY <1>2, <1>10, <3>1
  <2> QED
    BY <1>2, <1>11, <2>1 DEF Loading
<1>13. Settling(M) \subseteq Q /\ Settling(M) \cap R = {}
  <2>1. Past \notin 0..(sp.nreg - 1)
    BY <1>2
  <2> QED
    BY <1>2, <1>10, <1>11, <2>1 DEF Settling
<1>14. Moved(M) \subseteq Q
  BY <1>2
<1>15. Alone(su, V, Moved(M)) /\ Alone(su, V, Settling(M))
  BY SettlingAlone
<1>16. \A i \in 1..(l + 1) : Alone(su, V, Loading(L, i))
  BY LoadingAlone DEF l
<1>17. ASSUME NEW i \in 1..(z + 1)
       PROVE  g[i] \in SUBSET Q /\ Alone(su, V, g[i]) /\ g[i] \cap R = {}
  <2>1. CASE i \in 1..(l + 1)
    BY <1>4, <1>12, <1>16, <2>1
  <2>2. CASE i = l + 2
    BY <1>5, <1>13, <1>15, <2>2
  <2>3. CASE Stored /\ i = l + 3
    BY <1>6, <1>11, <1>14, <1>15, <2>3
  <2> QED
    BY <1>9, <2>1, <2>2, <2>3
<1>18. ASSUME NEW k \in 1..z
       PROVE  k \in 1..l \/ k = l + 1 \/ (Stored /\ k = l + 2)
  BY <1>1, <1>2
<1>19. ASSUME NEW k \in 1..z PROVE Holds(su, V, Q, Group[k], g[k], g[k + 1])
  <2>1. CASE k \in 1..l
    <3>1. k \in 1..(l + 1) /\ k + 1 \in 1..(l + 1)
      BY <1>2, <2>1
    <3>2. Holds(su, V, Q, Loaded(Gone[k], k), Loading(L, k), Loading(L, k + 1))
      BY <2>1, LoadHolds DEF l
    <3> QED
      BY <1>1, <1>4, <2>1, <3>1, <3>2
  <2>2. CASE k = l + 1
    <3>1. l + 1 \in 1..(l + 1) /\ k + 1 = l + 2
      BY <1>2, <2>2
    <3>2. Holds(su, V, Q, Body, Loading(L, l + 1), Settling(M))
      BY BodyHolds DEF l
    <3> QED
      BY <1>1, <1>4, <1>5, <2>2, <3>1, <3>2
  <2>3. CASE Stored /\ k = l + 2
    <3>1. k + 1 = l + 3
      BY <1>2, <2>3
    <3>2. Holds(su, V, Q, Inst("SpillSw", NoReg, <<Past>>, sp.slot[Old.dst]),
                Settling(M), Moved(M))
      BY <2>3, StoreHolds
    <3> QED
      BY <1>1, <1>5, <1>6, <2>3, <3>1, <3>2
  <2> QED
    BY <1>18, <2>1, <2>2, <2>3
<1>20. ASSUME NEW k \in 1..z, IsJump(Group[k])
       PROVE  Moved(L) \subseteq g[k] /\ IsJump(Old) /\ Group[k].imm = Old.imm
  <2>1. k \notin 1..l
    BY <1>1, <1>20, LoadedIsLoad DEF IsJump, l
  <2>2. ~(Stored /\ k = l + 2)
    BY <1>1, <1>20 DEF IsJump, Inst
  <2>3. k = l + 1 /\ l + 1 \in 1..(l + 1)
    BY <1>2, <1>18, <2>1, <2>2
  <2>4. Body.op = Old.op /\ Body.imm = Old.imm
    BY BodyFacts
  <2> QED
    BY <1>1, <1>4, <1>20, <2>3, <2>4 DEF IsJump, Loading
<1>21. g \in [1..(z + 1) -> SUBSET Q]
  BY <1>3, <1>17
<1>22. Noted(su, V, Q, Group, g)
  BY <1>17, <1>19, <1>21 DEF Noted, z
<1> QED
  BY <1>7, <1>8, <1>17, <1>20, <1>22 DEF g, z

(* What is written keeps the jumps behind everything else, and leaves the  *)
(* block where that does.                                                  *)
DraftOK ==
  stage = "spill" =>
    /\ \A b \in DOMAIN code : JumpsLast(code[b])
    /\ JumpsLast(sp.out)
    /\ sp.b \in DOMAIN code =>
         /\ sp.k \in 1..(Len(code[sp.b]) + 1)
         /\ (\E i \in 1..Len(sp.out) : IsJump(sp.out[i])) =>
              \E j \in 1..(sp.k - 1) : IsJump(code[sp.b][j])
         /\ sp.k > 1 /\ code[sp.b][sp.k - 1].op \in {"Jmp", "Ret"} => Leaves(sp.out)

LEMMA JoinedJumps ==
  ASSUME NEW S, NEW s \in Seq(S), NEW t \in Seq(S), JumpsLast(s), JumpsLast(t),
         (\E i \in 1..Len(s) : IsJump(s[i])) =>
            \A j \in 1..Len(t) : IsJump(t[j]) /\ t[j].use = <<>>
  PROVE  JumpsLast(s \o t)
<1> DEFINE n == Len(s)
           l == Len(t)
           x == s \o t
<1>1. /\ n \in Nat /\ l \in Nat /\ Len(x) = n + l
      /\ \A i \in 1..n : x[i] = s[i]
      /\ \A j \in 1..l : x[n + j] = t[j]
  BY Joined
<1>2. /\ \A k, j \in 1..n : k < j /\ IsJump(s[k]) => IsJump(s[j]) /\ s[j].use = <<>>
      /\ \A k, j \in 1..l : k < j /\ IsJump(t[k]) => IsJump(t[j]) /\ t[j].use = <<>>
      /\ (\E i \in 1..n : IsJump(s[i])) => \A j \in 1..l : IsJump(t[j]) /\ t[j].use = <<>>
  BY DEF JumpsLast
<1> HIDE DEF n, l, x
<1>3. ASSUME NEW i \in 1..(n + l) PROVE i \in 1..n \/ \E h \in 1..l : i = n + h
  <2>1. CASE i <= n
    BY <1>1, <2>1
  <2>2. CASE ~(i <= n)
    <3>1. i - n \in 1..l /\ i = n + (i - n)
      BY <1>1, <2>2
    <3> QED
      BY <3>1
  <2> QED
    BY <2>1, <2>2
<1> SUFFICES ASSUME NEW k \in 1..(n + l), NEW j \in 1..(n + l), k < j, IsJump(x[k])
             PROVE  IsJump(x[j]) /\ x[j].use = <<>>
  BY <1>1 DEF JumpsLast, x
<1>4. CASE j \in 1..n
  <2>1. k \in 1..n
    BY <1>1, <1>4
  <2> QED
    BY <1>1, <1>2, <1>4, <2>1
<1>5. ASSUME NEW h \in 1..l, j = n + h PROVE IsJump(x[j]) /\ x[j].use = <<>>
  <2>0. x[j] = t[h]
    BY <1>1, <1>5
  <2>1. CASE k \in 1..n
    <3>1. IsJump(s[k])
      <4>1. x[k] = s[k]
        BY <1>1, <2>1
      <4> QED
        BY <4>1
    <3>2. IsJump(t[h]) /\ t[h].use = <<>>
      BY <1>2, <2>1, <3>1
    <3> QED
      BY <2>0, <3>2
  <2>2. ASSUME NEW g \in 1..l, k = n + g PROVE IsJump(x[j]) /\ x[j].use = <<>>
    <3>1. g < h
      BY <1>1, <1>5, <2>2
    <3>2. IsJump(t[g])
      <4>1. x[k] = t[g]
        BY <1>1, <2>2
      <4> QED
        BY <4>1
    <3>3. IsJump(t[h]) /\ t[h].use = <<>>
      BY <1>2, <3>1, <3>2
    <3> QED
      BY <2>0, <3>3
  <2> QED
    BY <1>3, <2>1, <2>2
<1> QED
  BY <1>3, <1>4, <1>5

LEMMA GroupJumps ==
  ASSUME IInv, ShapesOK, SpillInst
  PROVE  /\ JumpsLast(Group)
         /\ (\E k \in 1..Len(Group) : IsJump(Group[k])) => IsJump(Old)
         /\ IsJump(Old) /\ Old.use = <<>> =>
              \A k \in 1..Len(Group) : IsJump(Group[k]) /\ Group[k].use = <<>>
         /\ Old.op \in {"Jmp", "Ret"} =>
              Len(Group) > 0 /\ Group[Len(Group)].op \in {"Jmp", "Ret"}
<1> DEFINE l == Len(Gone)
           z == Len(Group)
<1>1. /\ z = l + 1 + (IF Stored THEN 1 ELSE 0) /\ z \in Nat /\ l \in Nat
      /\ \A i \in 1..l : Group[i] = Loaded(Gone[i], i)
      /\ Group[l + 1] = Body
      /\ Stored => Group[l + 2] = Inst("SpillSw", NoReg, <<Past>>, sp.slot[Old.dst])
  BY GroupFacts, LoadedOnce
<1>2. \A i \in 1..l : ~IsJump(Group[i])
  BY <1>1, LoadedIsLoad DEF IsJump
<1>3. Stored => ~IsJump(Group[l + 2])
  BY <1>1 DEF IsJump, Inst
<1>4. /\ Body.op = Old.op /\ Body.use = NewUse /\ Len(NewUse) = Len(Old.use)
      /\ DOMAIN NewUse = DOMAIN Old.use
  BY BodyFacts
<1>5. IsJump(Old) \/ Old.op = "Ret" => ~Stored
  BY OldFacts
<1>6. Range(Gone) \subseteq Uses(Old) /\ DOMAIN Gone = 1..l
  BY LoadedOnce
<1>7. Old.use = <<>> => l = 0
  <2> SUFFICES ASSUME Old.use = <<>>, l # 0 PROVE FALSE
    OBVIOUS
  <2>1. Uses(Old) = {}
    BY DEF Uses, Range
  <2>2. 1 \in DOMAIN Gone
    BY <1>1, <1>6
  <2> QED
    BY <1>6, <2>1, <2>2 DEF Range
<1>8. Old.use = <<>> => NewUse = <<>>
  BY DEF NewUse
<1> HIDE DEF l, z
<1>9. ASSUME NEW k \in 1..z PROVE k \in 1..l \/ k = l + 1 \/ (Stored /\ k = l + 2)
  BY <1>1
<1>10. ASSUME NEW k \in 1..z, IsJump(Group[k])
       PROVE  k = l + 1 /\ IsJump(Old) /\ z = l + 1
  BY <1>1, <1>2, <1>3, <1>4, <1>5, <1>9, <1>10 DEF IsJump
<1>11. JumpsLast(Group)
  <2> SUFFICES ASSUME NEW k \in 1..z, NEW j \in 1..z, k < j, IsJump(Group[k]) PROVE FALSE
    BY DEF JumpsLast, z
  <2> QED
    BY <1>1, <1>10
<1>12. ASSUME IsJump(Old), Old.use = <<>>, NEW k \in 1..z
       PROVE  IsJump(Group[k]) /\ Group[k].use = <<>>
  <2>1. k = l + 1
    BY <1>1, <1>5, <1>7, <1>12
  <2> QED
    BY <1>1, <1>4, <1>8, <1>12, <2>1 DEF IsJump
<1>13. Old.op \in {"Jmp", "Ret"} => z > 0 /\ Group[z].op \in {"Jmp", "Ret"}
  BY <1>1, <1>4, <1>5 DEF IsJump
<1> QED
  BY <1>10, <1>11, <1>12, <1>13 DEF z

LEMMA SpillInstDraft ==
  ASSUME IInv, ShapesOK, DraftOK, SpillInst
  PROVE  DraftOK'
<1> DEFINE k == sp.k
           blk == code[sp.b]
           S == {sp.out[i] : i \in DOMAIN sp.out} \cup Range(Group)
<1>1. /\ sp' = [remat |-> sp.remat, slot |-> sp.slot, b |-> sp.b, k |-> sp.k + 1,
                out |-> sp.out \o Group, nreg |-> Total]
      /\ sp.out \in Seq(Instructions(DOMAIN orig, Len(code)))
      /\ UNCHANGED <<stage, code>>
  BY SpillInstEffect
<1>2. /\ stage = "spill" /\ sp.b \in DOMAIN code /\ k \in DOMAIN blk
      /\ DOMAIN blk = 1..Len(blk) /\ Len(blk) \in Nat
  BY InHand, CodeFacts DEF IInv
<1>3. /\ \A b \in DOMAIN code : JumpsLast(code[b])
      /\ JumpsLast(sp.out) /\ JumpsLast(blk)
      /\ (\E i \in 1..Len(sp.out) : IsJump(sp.out[i])) => \E j \in 1..(k - 1) : IsJump(blk[j])
  BY <1>2 DEF DraftOK
<1>4. /\ JumpsLast(Group)
      /\ (\E i \in 1..Len(Group) : IsJump(Group[i])) => IsJump(Old)
      /\ IsJump(Old) /\ Old.use = <<>> =>
           \A i \in 1..Len(Group) : IsJump(Group[i]) /\ Group[i].use = <<>>
      /\ Old.op \in {"Jmp", "Ret"} =>
           Len(Group) > 0 /\ Group[Len(Group)].op \in {"Jmp", "Ret"}
  BY GroupJumps
<1>5. Old = blk[k]
  BY DEF Old
<1>6. sp.out \in Seq(S) /\ Group \in Seq(S)
  <2>1. Group \in Seq(Range(Group))
    BY GroupFacts
  <2>2. sp.out \in [DOMAIN sp.out -> S] /\ sp.out \in Seq(Instructions(DOMAIN orig, Len(code)))
    BY <1>1
  <2>3. Range(Group) \subseteq S
    OBVIOUS
  <2> HIDE DEF S
  <2>4. sp.out \in Seq(S)
    BY <2>2, Mapped
  <2>5. Group \in Seq(S)
    BY <2>1, <2>3, SeqMonotonic
  <2> QED
    BY <2>4, <2>5
<1> HIDE DEF k, blk, S
<1>7. (\E i \in 1..Len(sp.out) : IsJump(sp.out[i])) => IsJump(Old) /\ Old.use = <<>>
  <2> SUFFICES ASSUME NEW j \in 1..(k - 1), IsJump(blk[j]) PROVE IsJump(Old) /\ Old.use = <<>>
    BY <1>3
  <2>1. j \in 1..Len(blk) /\ k \in 1..Len(blk) /\ j < k
    BY <1>2
  <2> QED
    BY <1>3, <1>5, <2>1 DEF JumpsLast
<1>8. JumpsLast(sp.out \o Group)
  BY <1>3, <1>4, <1>6, <1>7, JoinedJumps
<1>9. /\ Len(sp.out \o Group) = Len(sp.out) + Len(Group)
      /\ Len(sp.out) \in Nat /\ Len(Group) \in Nat
      /\ \A i \in 1..Len(sp.out) : (sp.out \o Group)[i] = sp.out[i]
      /\ \A j \in 1..Len(Group) : (sp.out \o Group)[Len(sp.out) + j] = Group[j]
  BY <1>6, Joined
<1>10. k + 1 \in 1..(Len(blk) + 1) /\ k \in 1..((k + 1) - 1)
       /\ \A j \in 1..(k - 1) : j \in 1..((k + 1) - 1)
  BY <1>2
<1>11. ASSUME NEW i \in 1..Len(sp.out \o Group), IsJump((sp.out \o Group)[i])
       PROVE  \E j \in 1..((k + 1) - 1) : IsJump(blk[j])
  <2>1. CASE i <= Len(sp.out)
    <3>1. i \in 1..Len(sp.out)
      BY <1>9, <2>1
    <3>2. IsJump(sp.out[i])
      BY <1>9, <1>11, <3>1
    <3> QED
      BY <1>3, <1>10, <3>1, <3>2
  <2>2. CASE ~(i <= Len(sp.out))
    <3> DEFINE h == i - Len(sp.out)
    <3>1. h \in 1..Len(Group) /\ i = Len(sp.out) + h
      BY <1>9, <2>2
    <3> HIDE DEF h
    <3>2. IsJump(Group[h])
      BY <1>9, <1>11, <3>1
    <3> QED
      BY <1>4, <1>5, <1>10, <3>1, <3>2
  <2> QED
    BY <2>1, <2>2
<1>12. Old.op \in {"Jmp", "Ret"} => Leaves(sp.out \o Group)
  <2> SUFFICES ASSUME Old.op \in {"Jmp", "Ret"} PROVE Leaves(sp.out \o Group)
    OBVIOUS
  <2> DEFINE c == sp.out \o Group
  <2>1. Len(c) = Len(sp.out) + Len(Group) /\ Len(Group) \in 1..Len(Group)
        /\ Len(c) > 0 /\ c[Len(sp.out) + Len(Group)] = Group[Len(Group)]
    BY <1>4, <1>9
  <2>2. c # <<>>
    BY <2>1
  <2> HIDE DEF c
  <2> QED
    BY <1>4, <2>1, <2>2 DEF Leaves, c
<1>13. (k + 1) - 1 = k
  BY <1>2
<1> QED
  BY <1>1, <1>2, <1>3, <1>5, <1>8, <1>10, <1>11, <1>12, <1>13 DEF DraftOK, k, blk

LEMMA AgreedBlock ==
  ASSUME NEW S, NEW blk \in Seq(S), NEW st, NEW W, NEW P, NEW E, NEW n, NEW b, NEW a,
         BlockNote(st, W, P, E, n, b, blk, a), NEW su, NEW V, NEW Q, P \subseteq Q,
         \A q \in P : su[q] = st[q] /\ (q \in V <=> q \in W),
         \A k \in 1..Len(blk) : blk[k].op \in Defining => blk[k].dst \in Defs(blk[k])
  PROVE  BlockNote(su, V, Q, E, n, b, blk, a)
<1>1. Noted(st, W, P, blk, a)
  BY DEF BlockNote
<1>2. Noted(su, V, Q, blk, a)
  BY <1>1, Agreed
<1> QED
  BY <1>2 DEF BlockNote

(* What is needed at the blocks once they are rewritten.                   *)
Shadow(E) == [b \in DOMAIN E |-> Moved(E[b])]

(* No copied register is held.                                             *)
Clear(a, l) == \A k \in 1..(l + 1) : a[k] \cap DOMAIN sp.remat = {}

(* The block in hand has the note a, what is written for it so far o.      *)
Drafting(st, W, n, c, E, a, o) ==
  /\ BlockNote(st, W, Room(n, c), E, Len(code), sp.b, code[sp.b], a)
  /\ Noted(st, W, Room(sp.nreg, spillCount), sp.out, o) /\ Clear(o, Len(sp.out))
  /\ o[1] \subseteq Shadow(E)[sp.b] /\ Linked(Shadow(E), sp.out, o)
  /\ o[Len(sp.out) + 1] = Moved(a[sp.k])

(* A round in progress: the blocks behind the one in hand are as they were *)
(* when it began, with n registers and c slots.                            *)
Rewriting(st, W, n, c, E) ==
  /\ Knows(st) /\ E[1] = {}
  /\ Shift(st, W, n, c, spillCount, DOMAIN sp.remat, sp.slot) /\ n <= sp.nreg
  /\ \A b \in DOMAIN code : b < sp.b =>
       \E a : /\ BlockNote(st, W, Room(sp.nreg, spillCount), Shadow(E), Len(code), b,
                           code[b], a)
              /\ Clear(a, Len(code[b]))
  /\ \A b \in DOMAIN code : b > sp.b =>
       \E a : BlockNote(st, W, Room(n, c), E, Len(code), b, code[b], a)
  /\ sp.b \in DOMAIN code => \E a : \E o : Drafting(st, W, n, c, E, a, o)

SpillNotes ==
  stage = "spill" =>
    \E st \in [Int -> Int] : \E W \in SUBSET Int : \E n \in Nat : \E c \in Nat :
      \E E \in [DOMAIN code -> SUBSET Int] : Rewriting(st, W, n, c, E)

(* The temporaries are new, so what they stand for can be chosen.          *)
LEMMA SomeFollow ==
  ASSUME IInv, SpillInst, NEW st \in [Int -> Int], NEW W \in SUBSET Int, Knows(st)
  PROVE  \E su \in [Int -> Int] : \E V \in SUBSET Int :
           Follows(su, V, st, W) /\ \A r \in DOMAIN orig' : su[r] = orig'[r]
<1> DEFINE x == sp.nreg
           l == Len(Gone)
           D == DOMAIN orig
           late(q) == IF q < Past THEN Gone[q - x + 1] ELSE Old.dst
           su == [q \in Int |-> IF q \in x..(Total - 1) THEN st[late(q)] ELSE st[q]]
           V == {q \in Int : IF q \in x..(Total - 1)
                             THEN IF q < Past THEN Gone[q - x + 1] \notin DOMAIN sp.remat
                                  ELSE Old.op = "SpillLw"
                             ELSE q \in W}
<1>1. /\ orig' = [r \in D \cup x..(Total - 1) |->
                    IF r \notin x..(Total - 1) THEN orig[r]
                    ELSE IF r < Past THEN orig[Gone[r - x + 1]] ELSE orig[Old.dst]]
  BY SpillInstEffect
<1>2. /\ x \in Nat /\ spillCount \in Nat /\ D \in SUBSET Nat
      /\ Old.dst \in D \cup {NoReg} /\ DOMAIN sp.slot \subseteq Nat
  BY InHand DEF IInv, SpillOK, CodeOK, Instructions
<1>3. l \in Nat /\ Gone \in Seq(D) /\ DOMAIN Gone = 1..l
  BY LoadedOnce
<1>4. Past = x + l /\ Total = IF Stored THEN Past + 1 ELSE Past
  BY DEF Past, Total
<1>5. Stored => Old.dst \in D
  BY <1>2 DEF Stored, NoReg
<1>6. \A r \in D : st[r] = orig[r] /\ r \in Int
  BY <1>2 DEF Knows
<1>7. \A i \in 1..l : Gone[i] \in D
  BY <1>3
<1> HIDE DEF l, x, D
<1>8. ASSUME NEW q \in x..(Total - 1)
      PROVE  /\ late(q) \in D /\ q \in Int
             /\ q < Past => q - x + 1 \in 1..l
             /\ ~(q < Past) => Stored
  <2>1. q \in Int /\ x <= q /\ q < Total
    BY <1>2, <1>3, <1>4
  <2>2. CASE q < Past
    <3>1. q - x + 1 \in 1..l
      BY <1>2, <1>3, <1>4, <2>1, <2>2
    <3> QED
      BY <1>7, <2>1, <2>2, <3>1
  <2>3. CASE ~(q < Past)
    <3>1. Stored
      BY <1>2, <1>3, <1>4, <2>1, <2>3
    <3> QED
      BY <1>5, <2>1, <2>3, <3>1
  <2> QED
    BY <2>2, <2>3
<1>9. su \in [Int -> Int]
  <2> SUFFICES ASSUME NEW q \in Int
               PROVE  (IF q \in x..(Total - 1) THEN st[late(q)] ELSE st[q]) \in Int
    OBVIOUS
  <2>1. q \in x..(Total - 1) => late(q) \in Int
    BY <1>6, <1>8
  <2> HIDE DEF late
  <2> QED
    BY <2>1
<1>10. V \in SUBSET Int
  OBVIOUS
<1>11. /\ \A q \in Int \ x..(Total - 1) : su[q] = st[q] /\ (q \in V <=> q \in W)
       /\ \A q \in x..(Total - 1) : su[q] = st[late(q)]
  BY <1>8
<1>12. \A r \in DOMAIN orig' : su[r] = orig'[r]
  <2> SUFFICES ASSUME NEW r \in D \cup x..(Total - 1) PROVE su[r] = orig'[r]
    BY <1>1
  <2>1. CASE r \in x..(Total - 1)
    <3>1. su[r] = st[late(r)] /\ late(r) \in D /\ orig'[r] = orig[late(r)]
      BY <1>1, <1>8, <1>11, <2>1
    <3> HIDE DEF late, su
    <3> QED
      BY <1>6, <3>1
  <2>2. CASE r \notin x..(Total - 1)
    <3>1. r \in D /\ r \in Int /\ orig'[r] = orig[r] /\ su[r] = st[r]
      BY <1>1, <1>6, <1>11, <2>2
    <3> HIDE DEF su
    <3> QED
      BY <1>6, <3>1
  <2> QED
    BY <2>1, <2>2
<1>13. ASSUME NEW q \in Room(x, spillCount) PROVE q \in Int \ x..(Total - 1)
  <2>1. CASE q \in 0..(x - 1)
    BY <1>2, <2>1
  <2>2. ASSUME NEW s \in 0..(spillCount - 1), q = Slot(s) PROVE q \in Int \ x..(Total - 1)
    <3>1. q \in Int /\ q < 0
      BY <2>2 DEF Slot
    <3> QED
      BY <1>2, <3>1
  <2> QED
    BY <2>1, <2>2 DEF Room
<1>14. ASSUME NEW i \in 1..l
       PROVE  /\ su[x + i - 1] = st[Gone[i]]
              /\ x + i - 1 \in V <=> Gone[i] \notin DOMAIN sp.remat
  <2> DEFINE q == x + i - 1
  <2>1. q \in Int /\ q \in x..(Total - 1) /\ q < Past /\ q - x + 1 = i
    BY <1>2, <1>3, <1>4
  <2> QED
    BY <2>1
<1>15. ASSUME Stored PROVE su[Past] = st[Old.dst] /\ (Past \in V <=> Old.op = "SpillLw")
  <2>1. Past \in Int /\ Past \in x..(Total - 1) /\ ~(Past < Past)
    BY <1>2, <1>3, <1>4, <1>15
  <2> QED
    BY <2>1
<1> HIDE DEF su, V
<1>16. Follows(su, V, st, W)
  BY <1>11, <1>13, <1>14, <1>15 DEF Follows, l, x
<1> QED
  BY <1>9, <1>10, <1>12, <1>16

(* The note on what is written grows by that on the group.                 *)
LEMMA DraftGrows ==
  ASSUME IInv, ShapesOK, SpillInst, NEW st, NEW W, NEW n, NEW c,
         NEW E, DOMAIN E = DOMAIN code, NEW a, NEW o,
         Shift(st, W, n, c, spillCount, DOMAIN sp.remat, sp.slot), n <= sp.nreg,
         Drafting(st, W, n, c, E, a, o), NEW su, NEW V, Follows(su, V, st, W)
  PROVE  \E x : /\ Noted(su, V, Room(Total, spillCount), sp.out \o Group, x)
                /\ Clear(x, Len(sp.out \o Group))
                /\ x[1] \subseteq Shadow(E)[sp.b] /\ Linked(Shadow(E), sp.out \o Group, x)
                /\ x[Len(sp.out \o Group) + 1] = Moved(a[sp.k + 1])
<1> DEFINE k == sp.k
           blk == code[sp.b]
           L == a[k]
           M == a[k + 1]
           g == GroupNote(L, M)
           s == sp.out
           t == Group
           Q == Room(Total, spillCount)
           x == Glue(o, g, Len(s), Len(t))
           I == Instructions(DOMAIN orig, Len(code))
           S == I \cup Range(Group)
           R == DOMAIN sp.remat
<1>1. /\ sp.b \in DOMAIN code /\ k \in 1..Len(blk) /\ Old = blk[k]
      /\ Len(blk) \in Nat /\ Old \in I /\ DOMAIN code = 1..Len(code)
  BY InHand, CodeFacts DEF IInv, Old
<1>2. k \in 1..(Len(blk) + 1) /\ k + 1 \in 1..(Len(blk) + 1)
  BY <1>1
<1>3. /\ a \in [1..(Len(blk) + 1) -> SUBSET Room(n, c)]
      /\ Holds(st, W, Room(n, c), Old, L, M) /\ Alone(st, W, L) /\ Alone(st, W, M)
      /\ IsJump(Old) => E[Old.imm] \subseteq L
  BY <1>1, <1>2 DEF Drafting, BlockNote, Noted, Linked
<1>4. Handled(st, W, n, c, L, M)
  BY <1>2, <1>3 DEF Handled
<1> HIDE DEF L, M
<1>5. /\ Noted(su, V, Q, t, g)
      /\ g[1] = Moved(L) /\ g[Len(t) + 1] = Moved(M)
      /\ \A j \in 1..(Len(t) + 1) : g[j] \cap R = {}
      /\ \A j \in 1..Len(t) : IsJump(t[j]) =>
           Moved(L) \subseteq g[j] /\ IsJump(Old) /\ t[j].imm = Old.imm
  BY <1>4, GroupNoted
<1>6. s \in Seq(I)
  BY SpillInstEffect
<1>7. s \in Seq(S) /\ t \in Seq(S)
  <2>1. t \in Seq(Range(Group))
    BY GroupFacts
  <2>2. I \subseteq S /\ Range(Group) \subseteq S
    OBVIOUS
  <2> HIDE DEF S, I, s, t
  <2> QED
    BY <1>6, <2>1, <2>2, SeqMonotonic
<1>8. /\ Room(sp.nreg, spillCount) \subseteq Q
      /\ \A q \in Room(sp.nreg, spillCount) : su[q] = st[q] /\ (q \in V <=> q \in W)
  <2>1. Room(sp.nreg, spillCount) \subseteq Room(Total, spillCount)
    BY <1>4, HandledFacts
  <2>2. \A q \in Room(sp.nreg, spillCount) : su[q] = st[q] /\ (q \in V <=> q \in W)
    BY DEF Follows
  <2> QED
    BY <2>1, <2>2
<1>9. /\ Noted(st, W, Room(sp.nreg, spillCount), s, o) /\ Clear(o, Len(s))
      /\ o[1] \subseteq Shadow(E)[sp.b] /\ Linked(Shadow(E), s, o)
      /\ o[Len(s) + 1] = Moved(L)
  BY DEF Drafting, L
<1>10. \A i \in 1..Len(s) : s[i].op \in Defining => s[i].dst \in Defs(s[i])
  <2> SUFFICES ASSUME NEW i \in 1..Len(s), s[i].op \in Defining PROVE s[i].dst \in Defs(s[i])
    OBVIOUS
  <2>1. s[i] \in I
    BY <1>6
  <2>2. DOMAIN orig \in SUBSET Nat
    BY DEF IInv, CodeOK
  <2> QED
    BY <2>1, <2>2 DEF Instructions, Defs, NoReg
<1> HIDE DEF s, t, g, Q, S
<1>11. Noted(su, V, Q, s, o)
  BY <1>7, <1>8, <1>9, <1>10, Agreed
<1>12. g[1] = o[Len(s) + 1]
  BY <1>5, <1>9
<1>13. Noted(su, V, Q, s \o t, x)
  BY <1>5, <1>7, <1>11, <1>12, JoinedNotes
<1>14. Len(s) \in Nat /\ Len(t) \in Nat
  BY <1>7
<1>15. /\ \A i \in 1..(Len(s) + 1) : x[i] = o[i]
       /\ \A j \in 1..(Len(t) + 1) : x[Len(s) + j] = g[j]
  BY <1>12, <1>14, Glued
<1>16. /\ Len(s \o t) = Len(s) + Len(t)
       /\ \A i \in 1..Len(s) : (s \o t)[i] = s[i]
       /\ \A j \in 1..Len(t) : (s \o t)[Len(s) + j] = t[j]
  BY <1>7, Joined
<1> HIDE DEF x
<1>17. x[Len(s \o t) + 1] = Moved(M)
  <2>1. Len(s \o t) + 1 = Len(s) + (Len(t) + 1) /\ Len(t) + 1 \in 1..(Len(t) + 1)
    BY <1>14, <1>16
  <2> QED
    BY <1>5, <1>15, <2>1
<1>18. x[1] \subseteq Shadow(E)[sp.b]
  <2>1. 1 \in 1..(Len(s) + 1)
    BY <1>14
  <2> QED
    BY <1>9, <1>15, <2>1
<1>19. ASSUME NEW i \in 1..(Len(s \o t) + 1)
       PROVE  i \in 1..Len(s) \/ \E j \in 1..(Len(t) + 1) : i = Len(s) + j
  <2>1. CASE i <= Len(s)
    BY <1>14, <1>16, <2>1
  <2>2. CASE ~(i <= Len(s))
    <3>1. i - Len(s) \in 1..(Len(t) + 1) /\ i = Len(s) + (i - Len(s))
      BY <1>14, <1>16, <2>2
    <3> QED
      BY <3>1
  <2> QED
    BY <2>1, <2>2
<1>20. Clear(x, Len(s \o t))
  <2> SUFFICES ASSUME NEW i \in 1..(Len(s \o t) + 1) PROVE x[i] \cap R = {}
    BY DEF Clear
  <2>1. CASE i \in 1..Len(s)
    <3>1. i \in 1..(Len(s) + 1)
      BY <1>14, <2>1
    <3>2. x[i] = o[i] /\ o[i] \cap R = {}
      BY <1>9, <1>15, <3>1 DEF Clear
    <3> QED
      BY <3>2
  <2>2. ASSUME NEW j \in 1..(Len(t) + 1), i = Len(s) + j PROVE x[i] \cap R = {}
    <3>1. x[i] = g[j] /\ g[j] \cap R = {}
      BY <1>5, <1>15, <2>2
    <3> QED
      BY <3>1
  <2> QED
    BY <1>19, <2>1, <2>2
<1>21. IsJump(Old) => Shadow(E)[Old.imm] \subseteq Moved(L)
  <2> SUFFICES ASSUME IsJump(Old) PROVE Shadow(E)[Old.imm] \subseteq Moved(L)
    OBVIOUS
  <2>1. Old.imm \in DOMAIN code /\ E[Old.imm] \subseteq L
    BY <1>1, <1>3 DEF Instructions
  <2>2. Shadow(E)[Old.imm] = Moved(E[Old.imm])
    BY <2>1 DEF Shadow
  <2> QED
    BY <2>1, <2>2, KeptLess DEF Moved
<1>22. Linked(Shadow(E), s \o t, x)
  <2> SUFFICES ASSUME NEW i \in 1..Len(s \o t), IsJump((s \o t)[i])
               PROVE  Shadow(E)[(s \o t)[i].imm] \subseteq x[i]
    BY DEF Linked
  <2>1. CASE i \in 1..Len(s)
    <3>1. i \in 1..(Len(s) + 1)
      BY <1>14, <2>1
    <3>2. x[i] = o[i] /\ (s \o t)[i] = s[i]
      BY <1>15, <1>16, <2>1, <3>1
    <3> QED
      BY <1>9, <2>1, <3>2 DEF Linked
  <2>2. CASE i \notin 1..Len(s)
    <3> DEFINE j == i - Len(s)
    <3>1. j \in 1..Len(t) /\ j \in 1..(Len(t) + 1) /\ i = Len(s) + j
      BY <1>14, <1>16, <2>2
    <3> HIDE DEF j
    <3>2. x[i] = g[j] /\ (s \o t)[i] = t[j]
      BY <1>15, <1>16, <3>1
    <3>3. Moved(L) \subseteq g[j] /\ IsJump(Old) /\ t[j].imm = Old.imm
      BY <1>5, <3>1, <3>2
    <3> QED
      BY <1>21, <3>2, <3>3
  <2> QED
    BY <2>1, <2>2
<1>23. M = a[sp.k + 1]
  BY DEF M
<1> QED
  BY <1>13, <1>17, <1>18, <1>20, <1>22, <1>23 DEF s, t, Q

LEMMA RewritingGoesOn ==
  ASSUME IInv, ShapesOK, SpillInst, NEW st, NEW W, NEW n, NEW c, NEW E,
         DOMAIN E = DOMAIN code, Rewriting(st, W, n, c, E),
         NEW su, NEW V, Follows(su, V, st, W), \A r \in DOMAIN orig' : su[r] = orig'[r]
  PROVE  Rewriting(su, V, n, c, E)'
<1>1. /\ sp' = [remat |-> sp.remat, slot |-> sp.slot, b |-> sp.b, k |-> sp.k + 1,
                out |-> sp.out \o Group, nreg |-> Total]
      /\ UNCHANGED <<stage, code, spillCount>>
  BY SpillInstEffect
<1>2. stage = "spill" /\ sp.b \in DOMAIN code /\ CodeOK
  BY InHand DEF IInv
<1>7. Rewriting(st, W, n, c, E)
  OBVIOUS
<1>8. PICK a : \E o : Drafting(st, W, n, c, E, a, o)
  BY <1>2, <1>7 DEF Rewriting
<1>9. PICK o : Drafting(st, W, n, c, E, a, o)
  BY <1>8
<1>11. Follows(su, V, st, W) /\ \A r \in DOMAIN orig' : su[r] = orig'[r]
  OBVIOUS
<1>12. Shift(st, W, n, c, spillCount, DOMAIN sp.remat, sp.slot) /\ n <= sp.nreg
  BY <1>7 DEF Rewriting
<1>13. PICK x : /\ Noted(su, V, Room(Total, spillCount), sp.out \o Group, x)
                /\ Clear(x, Len(sp.out \o Group))
                /\ x[1] \subseteq Shadow(E)[sp.b] /\ Linked(Shadow(E), sp.out \o Group, x)
                /\ x[Len(sp.out \o Group) + 1] = Moved(a[sp.k + 1])
  <2>1. Follows(su, V, st, W)
    BY <1>11
  <2>2. Drafting(st, W, n, c, E, a, o) /\ n <= sp.nreg
    BY <1>9, <1>12
  <2>3. Shift(st, W, n, c, spillCount, DOMAIN sp.remat, sp.slot)
    BY <1>12
  <2> QED
    BY <2>1, <2>2, <2>3, DraftGrows
<1>14. \A q \in Room(sp.nreg, spillCount) : su[q] = st[q] /\ (q \in V <=> q \in W)
  BY <1>11 DEF Follows
<1>15. /\ sp.nreg \in Nat /\ Total \in Nat /\ spillCount \in Nat /\ sp.nreg <= Total
       /\ n <= Total
  <2>1. sp.nreg \in Nat /\ spillCount \in Nat
    BY <1>2 DEF IInv, SpillOK, CodeOK
  <2>2. Len(Gone) \in Nat
    BY LoadedOnce
  <2>3. Past = sp.nreg + Len(Gone) /\ Total = IF Stored THEN Past + 1 ELSE Past
    BY DEF Total, Past
  <2>4. n \in Nat /\ n <= sp.nreg
    BY <1>12 DEF Shift
  <2>5. Past \in Nat /\ sp.nreg <= Past
    BY <2>1, <2>2, <2>3
  <2>6. Total \in Nat /\ Past <= Total
    BY <2>3, <2>5
  <2>7. sp.nreg <= Total /\ n <= Total
    BY <2>1, <2>4, <2>5, <2>6
  <2> QED
    BY <2>1, <2>6, <2>7
<1>16. /\ Room(n, c) \subseteq Room(sp.nreg, spillCount)
       /\ Room(sp.nreg, spillCount) \subseteq Room(Total, spillCount)
  <2>1. /\ 0..(n - 1) \subseteq 0..(sp.nreg - 1) /\ 0..(c - 1) \subseteq 0..(spillCount - 1)
        /\ 0..(sp.nreg - 1) \subseteq 0..(Total - 1)
    BY <1>12, <1>15 DEF Shift
  <2> QED
    BY <2>1 DEF Room
<1>17. ASSUME NEW b \in DOMAIN code
       PROVE  /\ code[b] \in Seq(Instructions(DOMAIN orig, Len(code)))
              /\ \A k \in 1..Len(code[b]) :
                   code[b][k].op \in Defining => code[b][k].dst \in Defs(code[b][k])
  BY <1>2, DefinesIt, ProgramFacts DEF CodeOK
<1>18. \A q \in Room(n, c) : su[q] = st[q] /\ (q \in V <=> q \in W)
  BY <1>14, <1>16
<1>19. Shift(su, V, n, c, spillCount, DOMAIN sp.remat, sp.slot)
  <2>1. \A r \in 0..(n - 1) : r \in Room(n, c)
    BY DEF Room
  <2>2. \A r \in DOMAIN sp.slot : Slot(sp.slot[r]) \in Room(sp.nreg, spillCount)
    <3>1. \A r \in DOMAIN sp.slot : sp.slot[r] \in 0..(spillCount - 1)
      BY <1>12, <1>15 DEF Shift
    <3> QED
      BY <3>1 DEF Room
  <2> QED
    BY <1>12, <1>14, <1>18, <2>1, <2>2 DEF Shift
<1>20. ASSUME NEW b \in DOMAIN code, b < sp.b
       PROVE  \E y : /\ BlockNote(su, V, Room(Total, spillCount), Shadow(E), Len(code), b,
                                  code[b], y)
                     /\ Clear(y, Len(code[b]))
  <2>1. PICK y : /\ BlockNote(st, W, Room(sp.nreg, spillCount), Shadow(E), Len(code), b,
                              code[b], y)
                 /\ Clear(y, Len(code[b]))
    BY <1>7, <1>20 DEF Rewriting
  <2>2. BlockNote(st, W, Room(sp.nreg, spillCount), Shadow(E), Len(code), b, code[b], y)
    BY <2>1
  <2>3. BlockNote(su, V, Room(Total, spillCount), Shadow(E), Len(code), b, code[b], y)
    <3> DEFINE P == Room(sp.nreg, spillCount)
               Q == Room(Total, spillCount)
               blk == code[b]
               F == Shadow(E)
    <3>1. /\ blk \in Seq(Instructions(DOMAIN orig, Len(code)))
          /\ \A k \in 1..Len(blk) : blk[k].op \in Defining => blk[k].dst \in Defs(blk[k])
      BY <1>17
    <3>2. /\ BlockNote(st, W, P, F, Len(code), b, blk, y) /\ P \subseteq Q
          /\ \A q \in P : su[q] = st[q] /\ (q \in V <=> q \in W)
      BY <1>14, <1>16, <2>2
    <3> HIDE DEF P, Q, blk, F
    <3>3. BlockNote(su, V, Q, F, Len(code), b, blk, y)
      BY <3>1, <3>2, AgreedBlock
    <3> QED
      BY <3>3 DEF P, Q, blk, F
  <2> QED
    BY <2>1, <2>3
<1>21. ASSUME NEW b \in DOMAIN code, NEW y,
              BlockNote(st, W, Room(n, c), E, Len(code), b, code[b], y)
       PROVE  BlockNote(su, V, Room(n, c), E, Len(code), b, code[b], y)
  BY <1>17, <1>18, <1>21, AgreedBlock
<1>22. \A b \in DOMAIN code : b > sp.b =>
         \E y : BlockNote(su, V, Room(n, c), E, Len(code), b, code[b], y)
  BY <1>7, <1>21 DEF Rewriting
<1>23. BlockNote(su, V, Room(n, c), E, Len(code), sp.b, code[sp.b], a)
  BY <1>2, <1>9, <1>21 DEF Drafting
<1>24. Shadow(E)' = Shadow(E)
  BY <1>1 DEF Shadow, Moved
<1>25. /\ sp'.b = sp.b /\ sp'.k = sp.k + 1 /\ sp'.out = sp.out \o Group /\ sp'.nreg = Total
       /\ sp'.remat = sp.remat /\ sp'.slot = sp.slot
  BY <1>1
<1>26. Moved(a[sp.k])' = Moved(a[sp.k + 1])
  BY <1>25 DEF Moved
<1>27. /\ \A y, l : Clear(y, l)' <=> Clear(y, l)
  BY <1>25 DEF Clear
<1>28. Drafting(su, V, n, c, E, a, x)'
  BY <1>1, <1>13, <1>23, <1>24, <1>25, <1>26, <1>27 DEF Drafting
<1>29. Knows(su)'
  BY <1>11 DEF Knows
<1>30. E[1] = {}
  BY <1>7 DEF Rewriting
<1>31. Rewriting(su, V, n, c, E)'
  <2>1. Shift(su, V, n, c, spillCount', DOMAIN sp'.remat, sp'.slot) /\ n <= sp'.nreg
    BY <1>1, <1>15, <1>19, <1>25
  <2>2. \A b \in DOMAIN code' : b < sp'.b =>
          \E y : /\ BlockNote(su, V, Room(sp'.nreg, spillCount'), Shadow(E)', Len(code'), b,
                              code'[b], y)
                 /\ Clear(y, Len(code[b]))'
    BY <1>1, <1>20, <1>24, <1>25, <1>27
  <2>3. \A b \in DOMAIN code' : b > sp'.b =>
          \E y : BlockNote(su, V, Room(n, c), E, Len(code'), b, code'[b], y)
    BY <1>1, <1>22, <1>25
  <2> QED
    BY <1>28, <1>29, <1>30, <2>1, <2>2, <2>3 DEF Rewriting
<1> QED
  BY <1>31

LEMMA SpillInstNotes ==
  ASSUME IInv, IInv', ShapesOK, SpillNotes, SpillInst
  PROVE  SpillNotes'
<1>1. /\ sp' = [remat |-> sp.remat, slot |-> sp.slot, b |-> sp.b, k |-> sp.k + 1,
                out |-> sp.out \o Group, nreg |-> Total]
      /\ UNCHANGED <<stage, code, spillCount>>
  BY SpillInstEffect
<1>2. stage = "spill" /\ sp.b \in DOMAIN code /\ CodeOK
  BY InHand DEF IInv
<1>3. PICK st \in [Int -> Int] : \E W \in SUBSET Int : \E n \in Nat : \E c \in Nat :
        \E E \in [DOMAIN code -> SUBSET Int] : Rewriting(st, W, n, c, E)
  BY <1>2 DEF SpillNotes
<1>4. PICK W \in SUBSET Int : \E n \in Nat : \E c \in Nat :
        \E E \in [DOMAIN code -> SUBSET Int] : Rewriting(st, W, n, c, E)
  BY <1>3
<1>5. PICK n \in Nat : \E c \in Nat :
        \E E \in [DOMAIN code -> SUBSET Int] : Rewriting(st, W, n, c, E)
  BY <1>4
<1>6. PICK c \in Nat : \E E \in [DOMAIN code -> SUBSET Int] : Rewriting(st, W, n, c, E)
  BY <1>5
<1>7. PICK E \in [DOMAIN code -> SUBSET Int] : Rewriting(st, W, n, c, E)
  BY <1>6
<1>8. PICK su \in [Int -> Int] : \E V \in SUBSET Int :
        Follows(su, V, st, W) /\ \A r \in DOMAIN orig' : su[r] = orig'[r]
  <2>1. Knows(st)
    BY <1>7 DEF Rewriting
  <2> QED
    BY <2>1, SomeFollow
<1>9. PICK V \in SUBSET Int :
        Follows(su, V, st, W) /\ \A r \in DOMAIN orig' : su[r] = orig'[r]
  BY <1>8
<1>10. Rewriting(su, V, n, c, E)'
  <2>1. DOMAIN E = DOMAIN code
    OBVIOUS
  <2> QED
    BY <1>7, <1>9, <2>1, RewritingGoesOn
<1>11. E \in [DOMAIN code' -> SUBSET Int]
  BY <1>1
<1> QED
  BY <1>10, <1>11 DEF SpillNotes

(* A block is begun with what is held at its start.                        *)
LEMMA FreshDraft ==
  ASSUME NEW st, NEW W, NEW n, NEW c, NEW d, NEW R, NEW slot,
         Shift(st, W, n, c, d, R, slot), NEW m \in Nat, n <= m,
         NEW P, P = Room(n, c), NEW blk, Len(blk) \in Nat, NEW a, Noted(st, W, P, blk, a)
  PROVE  \E o : /\ Noted(st, W, Room(m, d), <<>>, o)
                /\ o[1] = Kept(R, slot, a[1]) /\ o[1] \cap R = {}
<1> DEFINE K == Kept(R, slot, a[1])
           o == [i \in 1..1 |-> K]
<1>1. 1 \in 1..(Len(blk) + 1)
  OBVIOUS
<1>2. a[1] \subseteq Room(n, c) /\ Alone(st, W, a[1])
  BY <1>1 DEF Noted
<1>3. K \subseteq Room(m, d) /\ K \cap R = {}
  BY <1>2, KeptFacts
<1>4. Alone(st, W, K)
  BY <1>2, KeptAlone
<1>5. o[1] = K
  OBVIOUS
<1> HIDE DEF K
<1>6. Noted(st, W, Room(m, d), <<>>, o)
  <2>1. Len(<<>>) = 0
    OBVIOUS
  <2>2. o \in [1..(Len(<<>>) + 1) -> SUBSET Room(m, d)]
    BY <1>3, <2>1
  <2>3. \A k \in 1..(Len(<<>>) + 1) : o[k] = K
    BY <2>1
  <2>4. \A k \in 1..Len(<<>>) : FALSE
    BY <2>1
  <2> HIDE DEF o
  <2> QED
    BY <1>4, <2>2, <2>3, <2>4 DEF Noted
<1> HIDE DEF o
<1> QED
  BY <1>3, <1>5, <1>6 DEF K

LEMMA NextBlockDraft ==
  ASSUME IInv, DraftOK, SpillNextBlock
  PROVE  DraftOK'
<1>1. /\ stage = "spill" /\ sp.b <= Len(code) /\ UNCHANGED stage
      /\ code' = [code EXCEPT ![sp.b] = sp.out]
      /\ sp' = [sp EXCEPT !.b = @ + 1, !.k = 1, !.out = <<>>]
  BY DEF SpillNextBlock
<1>2. sp'.k = 1 /\ sp'.out = <<>>
  BY <1>1 DEF IInv, SpillOK
<1>3. \A b \in DOMAIN code : JumpsLast(code[b]) /\ JumpsLast(sp.out)
  BY <1>1 DEF DraftOK
<1>4. DOMAIN code' = DOMAIN code /\ \A b \in DOMAIN code : JumpsLast(code'[b])
  <2>1. code = [b \in DOMAIN code |-> code[b]]
    BY DEF IInv, CodeOK, IsProgram
  <2> QED
    BY <1>1, <1>3, <2>1
<1>5. JumpsLast(<<>>) /\ Len(<<>>) = 0
  BY DEF JumpsLast
<1>6. IInv'
  BY SpillNextBlockIInv
<1>7. \A b \in DOMAIN code' : 1 \in 1..(Len(code'[b]) + 1)
  <2>1. \A b \in DOMAIN code' : Len(code'[b]) \in Nat
    <3>1. IsProgram(code', DOMAIN orig')
      BY <1>6 DEF IInv, CodeOK
    <3> QED
      BY <3>1, ProgramFacts
  <2> QED
    BY <2>1
<1> QED
  BY <1>2, <1>4, <1>5, <1>7 DEF DraftOK

(* The block in hand is replaced by what was written for it.               *)
LEMMA RewritingNext ==
  ASSUME IInv, DraftOK, SpillNextBlock, NEW st, NEW W, NEW n, NEW c, NEW E,
         DOMAIN E = DOMAIN code, Rewriting(st, W, n, c, E)
  PROVE  Rewriting(st, W, n, c, E)'
<1> DEFINE z == sp.b
           blk == code[z]
           P == Room(sp.nreg, spillCount)
           l == Len(code)
<1>1. /\ stage = "spill" /\ z <= l /\ sp.k > Len(blk)
      /\ code' = [code EXCEPT ![z] = sp.out]
      /\ sp' = [sp EXCEPT !.b = @ + 1, !.k = 1, !.out = <<>>]
      /\ UNCHANGED <<orig, spillCount>>
  BY DEF SpillNextBlock
<1>2. /\ z \in Nat \ {0} /\ sp.nreg \in Nat /\ sp.k \in Nat /\ spillCount \in Nat
      /\ sp = [remat |-> sp.remat, slot |-> sp.slot, b |-> sp.b, k |-> sp.k,
               out |-> sp.out, nreg |-> sp.nreg]
      /\ CodeOK
  BY <1>1 DEF IInv, SpillOK, CodeOK
<1>3. /\ l \in Nat /\ DOMAIN code = 1..l
      /\ \A b \in DOMAIN code : Len(code[b]) \in Nat
  BY <1>2, CodeFacts
<1>4. z \in DOMAIN code
  BY <1>1, <1>2, <1>3
<1>5. /\ sp'.b = z + 1 /\ sp'.k = 1 /\ sp'.out = <<>>
      /\ sp'.remat = sp.remat /\ sp'.slot = sp.slot /\ sp'.nreg = sp.nreg
  BY <1>1, <1>2
<1>6. /\ DOMAIN code' = DOMAIN code /\ Len(code') = l
      /\ code'[z] = sp.out /\ \A b \in DOMAIN code : b # z => code'[b] = code[b]
  <2>1. code \in Seq(Seq(Instructions(DOMAIN orig, Len(code))))
    BY <1>2 DEF CodeOK, IsProgram
  <2> HIDE DEF z
  <2> QED
    BY <1>1, <1>4, <2>1
<1> HIDE DEF z, blk, l
<1>7. PICK a : \E o : Drafting(st, W, n, c, E, a, o)
  BY <1>4 DEF Rewriting, z
<1>8. PICK o : Drafting(st, W, n, c, E, a, o)
  BY <1>7
<1>9. /\ Knows(st) /\ E[1] = {}
      /\ Shift(st, W, n, c, spillCount, DOMAIN sp.remat, sp.slot) /\ n <= sp.nreg
      /\ \A b \in DOMAIN code : b < z =>
           \E y : /\ BlockNote(st, W, P, Shadow(E), l, b, code[b], y)
                  /\ Clear(y, Len(code[b]))
      /\ \A b \in DOMAIN code : b > z =>
           \E y : BlockNote(st, W, Room(n, c), E, l, b, code[b], y)
  BY DEF Rewriting, z, l
<1>10. /\ BlockNote(st, W, Room(n, c), E, l, z, blk, a)
       /\ Noted(st, W, P, sp.out, o) /\ Clear(o, Len(sp.out))
       /\ o[1] \subseteq Shadow(E)[z] /\ Linked(Shadow(E), sp.out, o)
       /\ o[Len(sp.out) + 1] = Moved(a[sp.k])
  BY <1>8 DEF Drafting, z, l, blk
<1>11. sp.k = Len(blk) + 1 /\ Len(blk) \in Nat
       /\ (Leaves(blk) => Leaves(sp.out))
  <2>1. sp.k \in 1..(Len(blk) + 1) /\ Len(blk) \in Nat
    BY <1>1, <1>3, <1>4 DEF DraftOK, z, blk
  <2>2. sp.k = Len(blk) + 1
    BY <1>1, <2>1 DEF blk
  <2>3. ASSUME Leaves(blk) PROVE Leaves(sp.out)
    <3>1. blk # <<>> /\ blk[Len(blk)].op \in {"Jmp", "Ret"}
      BY <2>3 DEF Leaves
    <3>2. blk \in Seq(Instructions(DOMAIN orig, Len(code)))
      BY <1>2, <1>4, ProgramFacts DEF CodeOK, blk
    <3>3. Len(blk) # 0
      BY <3>1, <3>2
    <3>4. sp.k > 1 /\ sp.k - 1 = Len(blk)
      BY <2>1, <2>2, <3>3
    <3> QED
      BY <1>1, <1>4, <3>1, <3>4 DEF DraftOK, z, blk
  <2> QED
    BY <2>1, <2>2, <2>3
<1>12. Behind(Shadow(E), l, z, sp.out, o)
  <2> SUFFICES ASSUME z < l, ~Leaves(sp.out)
               PROVE  Shadow(E)[z + 1] \subseteq o[Len(sp.out) + 1]
    BY DEF Behind
  <2>1. E[z + 1] \subseteq a[sp.k]
    BY <1>10, <1>11 DEF BlockNote, Behind
  <2>2. z + 1 \in DOMAIN E
    BY <1>2, <1>3, <1>4 DEF z
  <2>3. Shadow(E)[z + 1] = Moved(E[z + 1])
    BY <2>2 DEF Shadow
  <2> QED
    BY <1>10, <2>1, <2>3, KeptLess DEF Moved
<1>13. BlockNote(st, W, P, Shadow(E), l, z, sp.out, o)
  BY <1>10, <1>12 DEF BlockNote
<1>14. /\ Shadow(E)' = Shadow(E) /\ \A y, j : Clear(y, j)' <=> Clear(y, j)
  BY <1>5 DEF Shadow, Moved, Clear
<1>15. Knows(st)'
  BY <1>1, <1>9 DEF Knows
<1>16. \A b \in DOMAIN code' : b < sp'.b =>
         \E y : /\ BlockNote(st, W, P, Shadow(E), l, b, code'[b], y)
                /\ Clear(y, Len(code'[b]))
  <2> SUFFICES ASSUME NEW b \in DOMAIN code, b < z + 1
               PROVE  \E y : /\ BlockNote(st, W, P, Shadow(E), l, b, code'[b], y)
                             /\ Clear(y, Len(code'[b]))
    BY <1>5, <1>6
  <2>1. CASE b = z
    BY <1>6, <1>10, <1>13, <2>1
  <2>2. CASE b # z
    <3>1. b < z /\ code'[b] = code[b]
      BY <1>2, <1>3, <1>6, <2>2 DEF z
    <3> QED
      BY <1>9, <3>1
  <2> QED
    BY <2>1, <2>2
<1>17. \A b \in DOMAIN code' : b > sp'.b =>
         \E y : BlockNote(st, W, Room(n, c), E, l, b, code'[b], y)
  <2> SUFFICES ASSUME NEW b \in DOMAIN code, b > z + 1
               PROVE  \E y : BlockNote(st, W, Room(n, c), E, l, b, code'[b], y)
    BY <1>5, <1>6
  <2>1. b > z /\ b # z
    BY <1>2, <1>3 DEF z
  <2> QED
    BY <1>6, <1>9, <2>1
<1>18. ASSUME z + 1 \in DOMAIN code
       PROVE  \E y : \E x : Drafting(st, W, n, c, E, y, x)'
  <2>1. z + 1 > z /\ z + 1 # z
    BY <1>2 DEF z
  <2>2. PICK y : BlockNote(st, W, Room(n, c), E, l, z + 1, code[z + 1], y)
    BY <1>9, <1>18, <2>1
  <2>3. code'[z + 1] = code[z + 1]
    BY <1>6, <1>18, <2>1
  <2>4. Noted(st, W, Room(n, c), code[z + 1], y) /\ Len(code[z + 1]) \in Nat
        /\ y[1] \subseteq E[z + 1]
    BY <1>3, <1>18, <2>2 DEF BlockNote
  <2>5. PICK x : /\ Noted(st, W, P, <<>>, x)
                 /\ x[1] = Kept(DOMAIN sp.remat, sp.slot, y[1])
                 /\ x[1] \cap DOMAIN sp.remat = {}
    <3>1. Shift(st, W, n, c, spillCount, DOMAIN sp.remat, sp.slot) /\ n <= sp.nreg
          /\ sp.nreg \in Nat
      BY <1>2, <1>9
    <3> QED
      BY <2>4, <3>1, FreshDraft
  <2>6. x[1] = Moved(y[1]) /\ x[1] \subseteq Shadow(E)[z + 1]
    <3>1. Shadow(E)[z + 1] = Moved(E[z + 1])
      BY <1>18 DEF Shadow
    <3> QED
      BY <2>4, <2>5, <3>1, KeptLess DEF Moved
  <2>7. Len(<<>>) = 0 /\ Clear(x, 0) /\ Linked(Shadow(E), <<>>, x)
    <3>1. \A i \in 1..(0 + 1) : i = 1
      OBVIOUS
    <3>2. Clear(x, 0)
      BY <2>5, <3>1 DEF Clear
    <3> QED
      BY <3>2 DEF Linked
  <2>8. /\ BlockNote(st, W, Room(n, c), E, Len(code'), sp'.b, code'[sp'.b], y)
        /\ Noted(st, W, Room(sp'.nreg, spillCount'), sp'.out, x)
    BY <1>1, <1>5, <1>6, <2>2, <2>3, <2>5
  <2>9. Moved(y[sp.k])' = Moved(y[1])
    BY <1>5 DEF Moved
  <2>10. /\ x[1] \subseteq Shadow(E)'[sp'.b] /\ Linked(Shadow(E)', sp'.out, x)
         /\ Clear(x, Len(sp.out))'
         /\ x[Len(sp'.out) + 1] = Moved(y[sp.k])'
    BY <1>5, <1>14, <2>6, <2>7, <2>9
  <2>11. Drafting(st, W, n, c, E, y, x)'
    BY <2>8, <2>10 DEF Drafting
  <2> QED
    BY <2>11
<1>19. sp'.b \in DOMAIN code' => \E y : \E x : Drafting(st, W, n, c, E, y, x)'
  BY <1>5, <1>6, <1>18
<1>20. /\ Shift(st, W, n, c, spillCount', DOMAIN sp'.remat, sp'.slot) /\ n <= sp'.nreg
       /\ Room(sp'.nreg, spillCount') = P
  BY <1>1, <1>5, <1>9
<1> QED
  BY <1>6, <1>9, <1>14, <1>15, <1>16, <1>17, <1>19, <1>20 DEF Rewriting

LEMMA NextBlockNotes ==
  ASSUME IInv, DraftOK, SpillNotes, SpillNextBlock
  PROVE  SpillNotes'
<1>1. stage = "spill" /\ UNCHANGED stage
  BY DEF SpillNextBlock
<1>2. DOMAIN code' = DOMAIN code
  <2>1. code' = [code EXCEPT ![sp.b] = sp.out]
    BY DEF SpillNextBlock
  <2>2. code \in Seq(Seq(Instructions(DOMAIN orig, Len(code))))
    BY DEF IInv, CodeOK, IsProgram
  <2> QED
    BY <2>1, <2>2
<1>3. PICK st \in [Int -> Int] : \E W \in SUBSET Int : \E n \in Nat : \E c \in Nat :
        \E E \in [DOMAIN code -> SUBSET Int] : Rewriting(st, W, n, c, E)
  BY <1>1 DEF SpillNotes
<1>4. PICK W \in SUBSET Int : \E n \in Nat : \E c \in Nat :
        \E E \in [DOMAIN code -> SUBSET Int] : Rewriting(st, W, n, c, E)
  BY <1>3
<1>5. PICK n \in Nat : \E c \in Nat :
        \E E \in [DOMAIN code -> SUBSET Int] : Rewriting(st, W, n, c, E)
  BY <1>4
<1>6. PICK c \in Nat : \E E \in [DOMAIN code -> SUBSET Int] : Rewriting(st, W, n, c, E)
  BY <1>5
<1>7. PICK E \in [DOMAIN code -> SUBSET Int] : Rewriting(st, W, n, c, E)
  BY <1>6
<1>8. Rewriting(st, W, n, c, E)'
  <2>1. DOMAIN E = DOMAIN code
    OBVIOUS
  <2> QED
    BY <1>7, <2>1, RewritingNext
<1>9. E \in [DOMAIN code' -> SUBSET Int]
  BY <1>2
<1> QED
  BY <1>8, <1>9 DEF SpillNotes

(* New slots are numbered from the old count up, all of them different.    *)
LEMMA SlotsNumbered ==
  ASSUME NEW kept \in SUBSET Nat, IsFiniteSet(kept), spillCount \in Nat
  PROVE  /\ Cardinality(kept) \in Nat /\ DOMAIN SlotsFor(kept) = kept
         /\ \A r \in kept :
              SlotsFor(kept)[r] \in spillCount..(spillCount + Cardinality(kept) - 1)
         /\ \A r, q \in kept : SlotsFor(kept)[r] = SlotsFor(kept)[q] => r = q
<1> DEFINE low(r) == {s \in kept : s < r}
           h(r) == Cardinality(low(r))
<1>1. DOMAIN SlotsFor(kept) = kept /\ \A r \in kept : SlotsFor(kept)[r] = spillCount + h(r)
  BY DEF SlotsFor
<1>2. Cardinality(kept) \in Nat /\ \A r \in kept : IsFiniteSet(low(r)) /\ h(r) \in Nat
  BY FS_Subset, FS_CardinalityType
<1>3. ASSUME NEW r \in kept PROVE h(r) < Cardinality(kept)
  <2>1. low(r) \in SUBSET kept /\ r \notin low(r)
    OBVIOUS
  <2> HIDE DEF low
  <2>2. Cardinality(low(r)) <= Cardinality(kept)
        /\ (Cardinality(kept) = Cardinality(low(r)) => kept = low(r))
    BY <2>1, FS_Subset
  <2> QED
    BY <1>2, <2>1, <2>2
<1>4. ASSUME NEW r \in kept, NEW q \in kept, r < q PROVE h(r) < h(q)
  <2>1. low(r) \in SUBSET low(q) /\ r \in low(q) /\ r \notin low(r)
    <3>1. r \in Int /\ q \in Int /\ \A s \in kept : s \in Int
      OBVIOUS
    <3>2. ~(r < r) /\ \A s \in kept : s < r => s < q
      BY <1>4, <3>1
    <3> QED
      BY <1>4, <3>2
  <2>2. IsFiniteSet(low(q)) /\ h(r) \in Nat /\ h(q) \in Nat
    BY <1>2
  <2> HIDE DEF low
  <2>3. Cardinality(low(r)) <= Cardinality(low(q))
        /\ (Cardinality(low(q)) = Cardinality(low(r)) => low(q) = low(r))
    BY <2>1, <2>2, FS_Subset
  <2> QED
    BY <2>1, <2>2, <2>3
<1> HIDE DEF h
<1>5. ASSUME NEW r \in kept
      PROVE  SlotsFor(kept)[r] \in spillCount..(spillCount + Cardinality(kept) - 1)
  <2>1. SlotsFor(kept)[r] = spillCount + h(r) /\ h(r) \in Nat /\ h(r) < Cardinality(kept)
    BY <1>1, <1>2, <1>3
  <2> QED
    BY <1>2, <2>1
<1>6. ASSUME NEW r \in kept, NEW q \in kept, SlotsFor(kept)[r] = SlotsFor(kept)[q]
      PROVE  r = q
  <2>1. h(r) = h(q) /\ h(r) \in Nat
    <3>1. spillCount + h(r) = spillCount + h(q)
      BY <1>1, <1>6
    <3>2. h(r) \in Nat /\ h(q) \in Nat
      BY <1>2
    <3> QED
      BY <3>1, <3>2
  <2>2. ~(r < q) /\ ~(q < r)
    <3>1. ~(h(r) < h(q)) /\ ~(h(q) < h(r))
      BY <2>1
    <3> QED
      BY <1>4, <3>1
  <2>3. r \in Nat /\ q \in Nat
    OBVIOUS
  <2> QED
    BY <2>2, <2>3
<1> QED
  BY <1>1, <1>2, <1>5, <1>6

(* A new slot stands for the register that is stored there.                *)
LEMMA SlotsGiven ==
  ASSUME CodeOK, NEW kept \in SUBSET Nat, IsFiniteSet(kept), NEW st \in [Int -> Int]
  PROVE  \E su \in [Int -> Int] :
           /\ \A r \in kept : su[Slot(SlotsFor(kept)[r])] = st[r]
           /\ \A q \in Nat : su[q] = st[q]
           /\ \A n \in Nat : \A q \in Room(n, spillCount) : su[q] = st[q]
<1> DEFINE F == SlotsFor(kept)
           g == [r \in kept |-> Slot(F[r])]
           T == {g[r] : r \in kept}
           su == [q \in Int |-> IF q \in T THEN st[CHOOSE r \in kept : g[r] = q] ELSE st[q]]
<1>1. spillCount \in Nat
  BY DEF CodeOK
<1>2. /\ \A r \in kept : F[r] \in Nat /\ ~(F[r] < spillCount)
      /\ \A r, q \in kept : F[r] = F[q] => r = q
  <2>1. /\ Cardinality(kept) \in Nat
        /\ \A r \in kept : F[r] \in spillCount..(spillCount + Cardinality(kept) - 1)
        /\ \A r, q \in kept : F[r] = F[q] => r = q
    BY <1>1, SlotsNumbered
  <2> HIDE DEF F
  <2> QED
    BY <1>1, <2>1
<1> HIDE DEF F
<1>3. \A r \in kept : g[r] = Slot(F[r]) /\ g[r] \in Int /\ g[r] \notin Nat
  BY <1>2, SlotFacts
<1>4. \A r, q \in kept : g[r] = g[q] => r = q
  <2>1. \A r \in kept : F[r] \in Int
    BY <1>2
  <2> QED
    BY <1>2, <1>3, <2>1, SlotFacts
<1> HIDE DEF g
<1>5. su \in [Int -> Int]
  <2>1. \A q \in T : (CHOOSE r \in kept : g[r] = q) \in kept
    OBVIOUS
  <2>2. \A q \in T : (CHOOSE r \in kept : g[r] = q) \in Int
    <3>1. kept \subseteq Int
      OBVIOUS
    <3> HIDE DEF T
    <3> QED
      BY <2>1, <3>1
  <2> HIDE DEF T
  <2> QED
    BY <2>2
<1>6. ASSUME NEW r \in kept PROVE su[g[r]] = st[r]
  <2> DEFINE x == CHOOSE s \in kept : g[s] = g[r]
  <2>1. x \in kept /\ g[x] = g[r]
    OBVIOUS
  <2>2. g[r] \in T /\ g[r] \in Int
    BY <1>3
  <2>3. su[g[r]] = st[x]
    BY <2>2
  <2> HIDE DEF x, su
  <2> QED
    BY <1>4, <2>1, <2>3
<1>7. ASSUME NEW q \in Nat PROVE su[q] = st[q]
  BY <1>3
<1>8. ASSUME NEW n \in Nat, NEW q \in Room(n, spillCount) PROVE su[q] = st[q]
  <2>1. CASE q \in 0..(n - 1)
    BY <1>7, <2>1
  <2>2. ASSUME NEW s \in 0..(spillCount - 1), q = Slot(s) PROVE su[q] = st[q]
    <3>1. q \in Int
      BY <2>2 DEF Slot
    <3>2. q \notin T
      <4> SUFFICES ASSUME NEW r \in kept, q = g[r] PROVE FALSE
        OBVIOUS
      <4>1. F[r] = s
        <5>1. Slot(F[r]) = Slot(s)
          BY <1>3, <2>2
        <5>2. F[r] \in Int /\ s \in Int
          BY <1>1, <1>2
        <5> QED
          BY <5>1, <5>2, SlotFacts
      <4> QED
        BY <1>1, <1>2, <4>1
    <3> QED
      BY <3>1, <3>2
  <2> QED
    BY <2>1, <2>2 DEF Room
<1> HIDE DEF su
<1> QED
  BY <1>3, <1>5, <1>6, <1>7, <1>8 DEF F

(* A round begins: su is st, with the new slots standing for what they are *)
(* the slots of.                                                           *)
Extends(spilled, remat, st, W, E, n, c, su) ==
  /\ n = maxReg(code) /\ c = spillCount
  /\ spilled \in SUBSET (0..(n - 1))
  /\ remat \in SUBSET rematCandidates /\ remat \subseteq 0..(n - 1)
  /\ DOMAIN E = DOMAIN code /\ Annotates(st, W, E)
  /\ \A r \in spilled \ remat : su[Slot(SlotsFor(spilled \ remat)[r])] = st[r]
  /\ \A q \in Nat \cup Room(n, c) : su[q] = st[q]

LEMMA RewritingBegins ==
  ASSUME IInv, NEW spilled, NEW remat, NEW st, NEW W, NEW E, NEW n, NEW c, NEW su,
         Extends(spilled, remat, st, W, E, n, c, su),
         BeginSpilling(spilled, remat), UNCHANGED <<code, orig>>
  PROVE  Rewriting(su, W, n, c, E)'
<1>0. /\ n = maxReg(code) /\ c = spillCount
      /\ spilled \in SUBSET (0..(n - 1))
      /\ remat \in SUBSET rematCandidates /\ remat \subseteq 0..(n - 1)
      /\ DOMAIN E = DOMAIN code /\ Annotates(st, W, E)
      /\ \A r \in spilled \ remat : su[Slot(SlotsFor(spilled \ remat)[r])] = st[r]
      /\ \A q \in Nat \cup Room(n, c) : su[q] = st[q]
  BY DEF Extends
<1> USE <1>0
<1> DEFINE kept == spilled \ remat
           d == spillCount + Cardinality(kept)
           l == Len(code)
<1>1. /\ sp' = [remat |-> [r \in remat |-> CHOOSE m \in Insts(code) : IsDefByLi(m, r)],
                slot |-> SlotsFor(kept),
                b |-> 1, k |-> 1, out |-> <<>>, nreg |-> n]
      /\ spillCount' = d
  BY DEF BeginSpilling
<1>2. CodeOK /\ c \in Nat /\ spillCount \in Nat
  BY DEF IInv, CodeOK
<1>3. /\ l \in Nat /\ DOMAIN code = 1..l /\ l > 0 /\ n \in Nat
      /\ \A b \in DOMAIN code : Len(code[b]) \in Nat
  BY <1>2, CodeFacts, MaxRegType
<1>4. kept \in SUBSET Nat /\ IsFiniteSet(kept)
  <2>1. IsFiniteSet(0..(n - 1)) /\ kept \in SUBSET (0..(n - 1))
    <3>1. IsFiniteSet(0..(n - 1))
      BY <1>3, FS_Interval
    <3> QED
      BY <3>1
  <2>2. 0..(n - 1) \subseteq Nat
    BY <1>3
  <2> HIDE DEF kept
  <2> QED
    BY <2>1, <2>2, FS_Subset
<1> HIDE DEF l
<1>5. /\ Cardinality(kept) \in Nat /\ DOMAIN SlotsFor(kept) = kept
      /\ \A r \in kept : SlotsFor(kept)[r] \in c..(d - 1)
  <2>1. c = spillCount
    OBVIOUS
  <2> HIDE <1>0 DEF kept
  <2> QED
    BY <1>2, <1>4, <2>1, SlotsNumbered
<1>6. /\ Knows(st) /\ E[1] = {}
      /\ \A b \in DOMAIN code : \E a : BlockNote(st, W, Room(n, c), E, l, b, code[b], a)
  BY DEF Annotates, l
<1>7. ASSUME NEW r \in remat PROVE r \notin W
  <2>1. PICK m \in Insts(code) : IsDefByLi(m, r)
    BY DEF rematCandidates
  <2>2. PICK b \in DOMAIN code : \E k \in DOMAIN code[b] : m = code[b][k]
    BY InstsAre
  <2>3. PICK k \in DOMAIN code[b] : m = code[b][k]
    BY <2>2
  <2>4. PICK a : BlockNote(st, W, Room(n, c), E, l, b, code[b], a)
    BY <1>6
  <2>5. k \in 1..Len(code[b])
    BY <1>2, CodeFacts
  <2>6. Holds(st, W, Room(n, c), m, a[k], a[k + 1])
    BY <2>3, <2>4, <2>5 DEF BlockNote, Noted
  <2> QED
    BY <2>1, <2>6 DEF Holds, IsDefByLi
<1>8. /\ sp'.remat = [r \in remat |-> CHOOSE m \in Insts(code) : IsDefByLi(m, r)]
      /\ sp'.slot = SlotsFor(kept) /\ sp'.b = 1 /\ sp'.k = 1 /\ sp'.out = <<>>
      /\ sp'.nreg = n /\ DOMAIN sp'.remat = remat
  BY <1>1
<1>9. Shift(su, W, n, c, d, remat, sp'.slot)
  <2>1. \A r \in kept : su[r] = st[r] /\ su[Slot(SlotsFor(kept)[r])] = st[r]
    BY <1>4
  <2>2. c <= d /\ d \in Nat
    BY <1>2, <1>5
  <2> QED
    BY <1>2, <1>3, <1>5, <1>7, <1>8, <2>1, <2>2 DEF Shift
<1> HIDE DEF kept, d
<1>10. ASSUME NEW b \in DOMAIN code
       PROVE  \E a : BlockNote(su, W, Room(n, c), E, l, b, code[b], a)
  <2>1. PICK a : BlockNote(st, W, Room(n, c), E, l, b, code[b], a)
    BY <1>6
  <2>2. /\ code[b] \in Seq(Instructions(DOMAIN orig, Len(code)))
        /\ \A k \in 1..Len(code[b]) :
             code[b][k].op \in Defining => code[b][k].dst \in Defs(code[b][k])
    BY <1>2, DefinesIt, ProgramFacts DEF CodeOK
  <2>3. /\ Room(n, c) \subseteq Room(n, c)
        /\ \A q \in Room(n, c) : su[q] = st[q] /\ (q \in W <=> q \in W)
    OBVIOUS
  <2>4. BlockNote(su, W, Room(n, c), E, l, b, code[b], a)
    BY <2>1, <2>2, <2>3, AgreedBlock
  <2> QED
    BY <2>4
<1>11. Knows(su)'
  <2>1. DOMAIN orig \subseteq Nat
    BY <1>2 DEF CodeOK
  <2> QED
    BY <1>6, <2>1 DEF Knows
<1>12. 1 \in DOMAIN code
  BY <1>3
<1>13. PICK y : BlockNote(su, W, Room(n, c), E, l, 1, code[1], y)
  BY <1>10, <1>12
<1>14. Noted(su, W, Room(n, c), code[1], y) /\ Len(code[1]) \in Nat /\ y[1] \subseteq E[1]
  BY <1>3, <1>12, <1>13 DEF BlockNote
<1>15. PICK x : /\ Noted(su, W, Room(n, d), <<>>, x)
                /\ x[1] = Kept(remat, sp'.slot, y[1])
                /\ x[1] \cap remat = {}
  <2>1. n <= n
    BY <1>3
  <2> QED
    BY <1>3, <1>9, <1>14, <2>1, FreshDraft
<1>16. Moved(y[sp.k])' = Kept(remat, sp'.slot, y[1])
  BY <1>8 DEF Moved
<1>17. Shadow(E)'[1] = Kept(remat, sp'.slot, E[1])
  BY <1>8, <1>12 DEF Shadow, Moved
<1>18. /\ Len(<<>>) = 0 /\ Clear(x, Len(sp.out))' /\ Linked(Shadow(E)', <<>>, x)
       /\ x[1] \subseteq Shadow(E)'[1] /\ x[0 + 1] = Moved(y[sp.k])'
  <2>1. \A i \in 1..(0 + 1) : i = 1
    OBVIOUS
  <2>2. Len(<<>>) = 0
    OBVIOUS
  <2>3. Clear(x, Len(sp.out))'
    BY <1>8, <1>15, <2>1, <2>2 DEF Clear
  <2>4. Linked(Shadow(E)', <<>>, x)
    BY <2>2 DEF Linked
  <2>5. x[1] \subseteq Shadow(E)'[1]
    BY <1>14, <1>15, <1>17, KeptLess
  <2> QED
    BY <1>15, <1>16, <2>2, <2>3, <2>4, <2>5
<1>19. Drafting(su, W, n, c, E, y, x)'
  <2>1. /\ BlockNote(su, W, Room(n, c), E, Len(code'), sp'.b, code'[sp'.b], y)
        /\ Noted(su, W, Room(sp'.nreg, spillCount'), sp'.out, x)
    BY <1>1, <1>8, <1>13, <1>15 DEF l
  <2>2. /\ x[1] \subseteq Shadow(E)'[sp'.b] /\ Linked(Shadow(E)', sp'.out, x)
        /\ x[Len(sp'.out) + 1] = Moved(y[sp.k])'
    BY <1>8, <1>18
  <2> QED
    BY <1>18, <2>1, <2>2 DEF Drafting
<1>20. \A b \in DOMAIN code' : ~(b < sp'.b)
  BY <1>3, <1>8
<1>21. \A b \in DOMAIN code' : \E a : BlockNote(su, W, Room(n, c), E, Len(code'), b, code'[b], a)
  BY <1>10 DEF l
<1>22. Shift(su, W, n, c, spillCount', DOMAIN sp'.remat, sp'.slot) /\ n <= sp'.nreg
  BY <1>1, <1>3, <1>8, <1>9
<1> QED
  BY <1>6, <1>11, <1>19, <1>20, <1>21, <1>22 DEF Rewriting

LEMMA BeginSpillingNotes ==
  ASSUME IInv, NotesOK, stage = "color", NEW spilled \in SUBSET (0..(maxReg(code) - 1)),
         NEW remat \in SUBSET rematCandidates, remat \subseteq 0..(maxReg(code) - 1),
         BeginSpilling(spilled, remat), UNCHANGED <<code, orig>>
  PROVE  SpillNotes' /\ DraftOK'
<1>1. PICK st \in [Int -> Int] : \E W \in SUBSET Int :
        \E E \in [DOMAIN code -> SUBSET Int] : Annotates(st, W, E)
  BY DEF NotesOK
<1>2. PICK W \in SUBSET Int : \E E \in [DOMAIN code -> SUBSET Int] : Annotates(st, W, E)
  BY <1>1
<1>3. PICK E \in [DOMAIN code -> SUBSET Int] : Annotates(st, W, E)
  BY <1>2
<1>4. PICK n : n = maxReg(code)
  OBVIOUS
<1>5. PICK c : c = spillCount
  OBVIOUS
<1>6. CodeOK /\ n \in Nat /\ c \in Nat
  BY <1>4, <1>5, CodeFacts, MaxRegType DEF IInv, CodeOK
<1> DEFINE kept == spilled \ remat
<1>7. kept \in SUBSET Nat /\ IsFiniteSet(kept)
  <2>1. IsFiniteSet(0..(n - 1)) /\ kept \in SUBSET (0..(n - 1))
    <3>1. IsFiniteSet(0..(n - 1))
      BY <1>6, FS_Interval
    <3> QED
      BY <1>4, <3>1
  <2>2. 0..(n - 1) \subseteq Nat
    BY <1>6
  <2> HIDE DEF kept
  <2> QED
    BY <2>1, <2>2, FS_Subset
<1> HIDE DEF kept
<1>8. PICK su \in [Int -> Int] :
           /\ \A r \in kept : su[Slot(SlotsFor(kept)[r])] = st[r]
           /\ \A q \in Nat : su[q] = st[q]
           /\ \A i \in Nat : \A q \in Room(i, spillCount) : su[q] = st[q]
  BY <1>6, <1>7, SlotsGiven
<1>9. Rewriting(su, W, n, c, E)'
  <2>2. DOMAIN E = DOMAIN code
    OBVIOUS
  <2>3. \A r \in spilled \ remat : su[Slot(SlotsFor(spilled \ remat)[r])] = st[r]
    BY <1>8 DEF kept
  <2>4. \A q \in Nat \cup Room(n, c) : su[q] = st[q]
    BY <1>5, <1>6, <1>8
  <2>5. Extends(spilled, remat, st, W, E, n, c, su)
    <3>1. n = maxReg(code) /\ c = spillCount /\ Annotates(st, W, E)
      BY <1>3, <1>4, <1>5
    <3>2. /\ spilled \in SUBSET (0..(n - 1))
          /\ remat \in SUBSET rematCandidates /\ remat \subseteq 0..(n - 1)
      BY <1>4
    <3> QED
      BY <2>2, <2>3, <2>4, <3>1, <3>2 DEF Extends
  <2> QED
    BY <2>5, RewritingBegins
<1>10. E \in [DOMAIN code' -> SUBSET Int]
  OBVIOUS
<1>11. SpillNotes'
  BY <1>6, <1>9, <1>10 DEF SpillNotes
<1>12. sp'.k = 1 /\ sp'.out = <<>> /\ sp'.b = 1
  BY DEF BeginSpilling
<1>13. DraftOK'
  <2>1. \A b \in DOMAIN code : JumpsLast(code[b]) /\ 1 \in 1..(Len(code[b]) + 1)
    BY <1>6, CodeFacts DEF NotesOK
  <2>2. JumpsLast(<<>>) /\ \A i \in 1..Len(<<>>) : FALSE
    BY DEF JumpsLast
  <2>3. ~(sp'.k > 1)
    BY <1>12
  <2>4. code' = code
    OBVIOUS
  <2> HIDE DEF kept
  <2> QED
    BY <1>12, <2>1, <2>2, <2>3, <2>4 DEF DraftOK
<1> QED
  BY <1>11, <1>13

(* The definitions that go set a register that is held nowhere.            *)
LEMMA ErasedBlock ==
  ASSUME IInv, ShapesOK, SpillEnds, NEW st, NEW W, NEW P, NEW E, NEW b \in DOMAIN code,
         NEW a, BlockNote(st, W, P, E, Len(code), b, code[b], a), Clear(a, Len(code[b])),
         DOMAIN sp.remat \subseteq Nat
  PROVE  \E x : BlockNote(st, W, P, E, Len(code), b, code'[b], x)
<1> DEFINE blk == code[b]
           S == Instructions(DOMAIN orig, Len(code))
           K == {k \in DOMAIN blk : blk[k].dst \notin DOMAIN sp.remat}
           new == code'[b]
<1>1. /\ Len(blk) \in Nat /\ DOMAIN blk = 1..Len(blk) /\ blk \in Seq(S)
      /\ \A k \in 1..Len(blk) : Shaped(blk[k])
  <2>1. IsProgram(code, DOMAIN orig)
    BY DEF IInv, CodeOK
  <2>2. \A k \in DOMAIN blk : blk[k] \in Insts(code)
    BY InstsHave
  <2> QED
    BY <2>1, <2>2, ProgramFacts DEF ShapesOK
<1>2. new = Picked(blk, K) /\ K \in SUBSET DOMAIN blk
  BY DEF SpillEnds, Erased, Blocks
<1>3. stage = "spill" /\ SpillOK
  BY DEF SpillEnds, IInv
<1>4. \A r \in DOMAIN sp.remat : r # NoReg
  BY DEF NoReg
<1>5. ASSUME NEW k \in DOMAIN blk \ K
      PROVE  a[k + 1] \subseteq a[k] /\ blk[k].op \notin {"Jmp", "Ret"}
  <2> DEFINE m == blk[k]
  <2>1. k \in 1..Len(blk) /\ k + 1 \in 1..(Len(blk) + 1) /\ m.dst \in DOMAIN sp.remat
    BY <1>1
  <2>2. Holds(st, W, P, m, a[k], a[k + 1]) /\ Shaped(m)
    BY <1>1, <2>1 DEF BlockNote, Noted
  <2>3. m.dst \notin a[k + 1]
    BY <2>1 DEF Clear
  <2> HIDE DEF m
  <2>4. m.op \in Defining \cup {"Call"}
    BY <1>4, <2>1, <2>2 DEF Shaped
  <2>5. m.op \notin {"Jmp", "Ret", "SpillSw"}
    BY <2>4 DEF Defining
  <2>6. Sets(m) \subseteq {m.dst}
    BY <2>5 DEF Sets, Defs
  <2> QED
    BY <2>2, <2>3, <2>5, <2>6 DEF Holds, m
<1> HIDE DEF blk, K, new, S
<1>6. /\ new \in Seq(S) /\ Len(new) = Cardinality(K)
      /\ \A i \in 1..Cardinality(K) : new[i] = blk[Order(K)[i]]
  BY <1>1, <1>2, PickedAt
<1>7. BlockNote(st, W, P, E, Len(code), b, blk, a)
  BY DEF blk
<1>8. \A i \in 1..Cardinality(K) : \A L, M :
        Holds(st, W, P, blk[Order(K)[i]], L, M) /\ M \subseteq a[Order(K)[i] + 1]
          => Holds(st, W, P, new[i], L, M)
  BY <1>6
<1>9. \A i \in 1..Cardinality(K) : /\ new[i].op = blk[Order(K)[i]].op
                                   /\ new[i].imm = blk[Order(K)[i]].imm
  BY <1>6
<1>10. BlockNote(st, W, P, E, Len(code), b, new, Thin(a, K, Len(blk)))
  BY <1>1, <1>2, <1>5, <1>6, <1>7, <1>8, <1>9, ThinnedBlock
<1> QED
  BY <1>10 DEF new

LEMMA ErasedJumps ==
  ASSUME IInv, SpillEnds, NEW b \in DOMAIN code, JumpsLast(code[b])
  PROVE  JumpsLast(code'[b])
<1> DEFINE blk == code[b]
           S == Instructions(DOMAIN orig, Len(code))
           K == {k \in DOMAIN blk : blk[k].dst \notin DOMAIN sp.remat}
           new == code'[b]
<1>1. blk \in Seq(S)
  BY ProgramFacts DEF IInv, CodeOK
<1>2. new = Picked(blk, K) /\ K \in SUBSET DOMAIN blk
  BY DEF SpillEnds, Erased, Blocks
<1> HIDE DEF blk, K, new, S
<1>3. /\ Len(new) = Cardinality(K)
      /\ \A i \in 1..Cardinality(K) : new[i] = blk[Order(K)[i]]
  BY <1>1, <1>2, PickedAt
<1>4. \A i \in 1..Cardinality(K) : /\ new[i].op = blk[Order(K)[i]].op
                                   /\ new[i].use = blk[Order(K)[i]].use
  BY <1>3
<1>5. JumpsLast(blk)
  BY DEF blk
<1>6. JumpsLast(new)
  BY <1>1, <1>2, <1>3, <1>4, <1>5, ThinnedJumps
<1> QED
  BY <1>6 DEF new

LEMMA SpillEndsAnnotated ==
  ASSUME IInv, IInv', ShapesOK, SpillEnds, NEW st, NEW W, NEW n, NEW c,
         NEW E \in [DOMAIN code -> SUBSET Int], Rewriting(st, W, n, c, E)
  PROVE  \E F \in [DOMAIN code' -> SUBSET Int] : Annotates(st, W, F)'
<1> DEFINE P == Room(sp.nreg, spillCount)
           l == Len(code)
           G == Shadow(E)
           F == [s \in DOMAIN code |-> G[s] \cap Room(maxReg(code'), spillCount)]
<1>1. /\ stage = "spill" /\ sp.b > l /\ UNCHANGED <<orig, spillCount>>
      /\ code' = [b \in DOMAIN code |-> Erased(code[b])]
  BY DEF SpillEnds, Blocks
<1>2. CodeOK /\ sp.b \in Nat /\ sp.nreg \in Nat /\ spillCount \in Nat
  BY <1>1 DEF IInv, SpillOK, CodeOK
<1>3. /\ l \in Nat /\ DOMAIN code = 1..l /\ l > 0
  BY <1>2, CodeFacts
<1>4. /\ IsProgram(code', DOMAIN orig) /\ DOMAIN orig \in SUBSET Nat
      /\ IsFiniteSet(DOMAIN orig)
  BY <1>1 DEF IInv, CodeOK
<1>5. DOMAIN code' = DOMAIN code /\ Len(code') = l
  <2>1. DOMAIN code' = DOMAIN code
    BY <1>1
  <2>2. DOMAIN code' = 1..Len(code') /\ Len(code') \in Nat
    BY <1>4, ProgramFacts
  <2> QED
    BY <1>3, <2>1, <2>2
<1> HIDE DEF P, l
<1>6. /\ Knows(st) /\ E[1] = {}
      /\ Shift(st, W, n, c, spillCount, DOMAIN sp.remat, sp.slot) /\ n <= sp.nreg
  BY DEF Rewriting
<1>7. ASSUME NEW b \in DOMAIN code
      PROVE  \E x : BlockNote(st, W, Room(maxReg(code'), spillCount), F, l, b, code'[b], x)
  <2>1. b < sp.b
    BY <1>1, <1>2, <1>3 DEF l
  <2>2. PICK a : BlockNote(st, W, P, G, l, b, code[b], a) /\ Clear(a, Len(code[b]))
    BY <2>1 DEF Rewriting, P, l
  <2>3. PICK y : BlockNote(st, W, P, G, l, b, code'[b], y)
    <3> HIDE DEF G
    <3>1. BlockNote(st, W, P, G, Len(code), b, code[b], a) /\ Clear(a, Len(code[b]))
      BY <2>2 DEF l
    <3>2. DOMAIN sp.remat \subseteq Nat
      BY <1>6 DEF Shift
    <3>3. \E y : BlockNote(st, W, P, G, Len(code), b, code'[b], y)
      BY <3>1, <3>2, ErasedBlock
    <3> QED
      BY <3>3 DEF l
  <2>4. /\ b \in DOMAIN code'
        /\ BlockNote(st, W, Room(sp.nreg, spillCount), G, Len(code'), b, code'[b], y)
    BY <1>5, <2>3 DEF P
  <2>5. \A s \in DOMAIN code' : F[s] = G[s] \cap Room(maxReg(code'), spillCount)
    BY <1>5
  <2> HIDE DEF F, G
  <2>6. \E x : BlockNote(st, W, Room(maxReg(code'), spillCount), F, Len(code'), b, code'[b], x)
    BY <1>2, <1>4, <2>4, <2>5, Refitted
  <2> QED
    BY <1>5, <2>6
<1>8. F \in [DOMAIN code' -> SUBSET Int]
  <2>1. \A s \in DOMAIN code : G[s] \subseteq Int
    <3> SUFFICES ASSUME NEW s \in DOMAIN code PROVE G[s] \subseteq Int
      OBVIOUS
    <3>1. G[s] = Kept(DOMAIN sp.remat, sp.slot, E[s]) /\ E[s] \subseteq Int
      BY DEF Shadow, Moved
    <3> QED
      BY <1>2, <1>6, <3>1, KeptFacts
  <2> HIDE DEF G
  <2> QED
    BY <1>5, <2>1
<1>9. F[1] = {}
  <2>1. 1 \in DOMAIN code
    BY <1>3
  <2>2. G[1] = Kept(DOMAIN sp.remat, sp.slot, {})
    BY <1>6, <2>1 DEF Shadow, Moved
  <2>3. G[1] = {}
    BY <2>2 DEF Kept
  <2> QED
    BY <2>1, <2>3
<1>10. \E X \in [DOMAIN code' -> SUBSET Int] :
         /\ X[1] = {}
         /\ \A b \in DOMAIN code :
              \E x : BlockNote(st, W, Room(maxReg(code'), spillCount), X, l, b, code'[b], x)
  <2> HIDE DEF F
  <2> QED
    BY <1>7, <1>8, <1>9
<1>11. PICK X \in [DOMAIN code' -> SUBSET Int] :
         /\ X[1] = {}
         /\ \A b \in DOMAIN code :
              \E x : BlockNote(st, W, Room(maxReg(code'), spillCount), X, l, b, code'[b], x)
  BY <1>10
<1>12. Knows(st)'
  BY <1>1, <1>6 DEF Knows
<1>13. Annotates(st, W, X)'
  BY <1>1, <1>5, <1>11, <1>12 DEF Annotates
<1> QED
  BY <1>13

LEMMA SpillEndsNotes ==
  ASSUME IInv, IInv', ShapesOK, SpillNotes, DraftOK, SpillEnds
  PROVE  NotesOK'
<1>1. stage = "spill" /\ DOMAIN code' = DOMAIN code
  BY DEF SpillEnds, Blocks
<1>2. PICK st \in [Int -> Int] : \E W \in SUBSET Int : \E n \in Nat : \E c \in Nat :
        \E E \in [DOMAIN code -> SUBSET Int] : Rewriting(st, W, n, c, E)
  BY <1>1 DEF SpillNotes
<1>3. PICK W \in SUBSET Int : \E n \in Nat : \E c \in Nat :
        \E E \in [DOMAIN code -> SUBSET Int] : Rewriting(st, W, n, c, E)
  BY <1>2
<1>4. PICK n \in Nat : \E c \in Nat :
        \E E \in [DOMAIN code -> SUBSET Int] : Rewriting(st, W, n, c, E)
  BY <1>3
<1>5. PICK c \in Nat : \E E \in [DOMAIN code -> SUBSET Int] : Rewriting(st, W, n, c, E)
  BY <1>4
<1>6. PICK E \in [DOMAIN code -> SUBSET Int] : Rewriting(st, W, n, c, E)
  BY <1>5
<1>7. PICK F \in [DOMAIN code' -> SUBSET Int] : Annotates(st, W, F)'
  BY <1>6, SpillEndsAnnotated
<1>8. \A b \in DOMAIN code' : JumpsLast(code'[b])
  BY <1>1, ErasedJumps DEF DraftOK
<1> QED
  BY <1>7, <1>8 DEF NotesOK

----------------------------------------------------------------------------
(* The notes through every stage.                                          *)

AllNotes == NotesOK /\ SpillNotes /\ DraftOK

LEMMA SpillAndRetryNotes ==
  ASSUME IInv, NotesOK, SpillAndRetry
  PROVE  SpillNotes' /\ DraftOK'
<1> DEFINE spilled == Uncolored
           remat == rematCandidates \cap Uncolored
<1>1. stage = "color" /\ BeginSpilling(spilled, remat) /\ UNCHANGED <<code, orig>>
  BY DEF SpillAndRetry
<1>2. VRegs(code) \subseteq 0..(maxReg(code) - 1)
  BY CodeFacts, RegistersBelow DEF IInv
<1>3. spilled \in SUBSET (0..(maxReg(code) - 1))
  BY <1>1, <1>2 DEF IInv, ColorOK, Uncolored
<1>4. remat \in SUBSET rematCandidates /\ remat \subseteq 0..(maxReg(code) - 1)
  BY <1>3
<1> HIDE DEF spilled, remat
<1> QED
  BY <1>1, <1>3, <1>4, BeginSpillingNotes

LEMMA SpillEverythingNotes ==
  ASSUME IInv, NotesOK, SpillEverything
  PROVE  SpillNotes' /\ DraftOK'
<1> DEFINE spilled == 0..(maxReg(code) - 1)
           remat == {}
<1>1. stage = "color" /\ BeginSpilling(spilled, remat) /\ UNCHANGED <<code, orig>>
  BY DEF SpillEverything
<1>2. spilled \in SUBSET (0..(maxReg(code) - 1))
  OBVIOUS
<1>3. remat \in SUBSET rematCandidates /\ remat \subseteq 0..(maxReg(code) - 1)
  OBVIOUS
<1> HIDE DEF spilled, remat
<1> QED
  BY <1>1, <1>2, <1>3, BeginSpillingNotes

LEMMA SameRewriting ==
  ASSUME UNCHANGED <<code, orig, spillCount, sp>>,
         NEW st, NEW W, NEW n, NEW c, NEW E, Rewriting(st, W, n, c, E)
  PROVE  Rewriting(st, W, n, c, E)'
  BY ZenonT(60) DEF Rewriting, Knows, Shift, Drafting, Shadow, Clear, Moved

LEMMA SpillNotesKept ==
  ASSUME SpillNotes, UNCHANGED <<stage, code, orig, spillCount, sp>>
  PROVE  SpillNotes'
<1> SUFFICES ASSUME stage = "spill" PROVE SpillNotes'
  BY DEF SpillNotes
<1>1. PICK st \in [Int -> Int] : \E W \in SUBSET Int : \E n \in Nat : \E c \in Nat :
        \E E \in [DOMAIN code -> SUBSET Int] : Rewriting(st, W, n, c, E)
  BY DEF SpillNotes
<1>2. PICK W \in SUBSET Int : \E n \in Nat : \E c \in Nat :
        \E E \in [DOMAIN code -> SUBSET Int] : Rewriting(st, W, n, c, E)
  BY <1>1
<1>3. PICK n \in Nat : \E c \in Nat :
        \E E \in [DOMAIN code -> SUBSET Int] : Rewriting(st, W, n, c, E)
  BY <1>2
<1>4. PICK c \in Nat : \E E \in [DOMAIN code -> SUBSET Int] : Rewriting(st, W, n, c, E)
  BY <1>3
<1>5. PICK E \in [DOMAIN code -> SUBSET Int] : Rewriting(st, W, n, c, E)
  BY <1>4
<1>6. Rewriting(st, W, n, c, E)'
  BY <1>5, SameRewriting
<1> QED
  BY <1>6 DEF SpillNotes

LEMMA NotesStep ==
  ASSUME AllocInv, AllNotes, [Next]_vars
  PROVE  AllNotes'
<1>1. IInv /\ ShapesOK /\ NotesOK /\ SpillNotes /\ DraftOK
  BY DEF AllocInv, AllNotes
<1>2. IInv'
  BY <1>1, NextIInv
<1>3. CASE TrimPass
  <2>1. stage' = "trim"
    BY <1>3 DEF TrimPass
  <2>2. NotesOK'
    BY <1>1, <1>2, <1>3, TrimPassNotes
  <2> QED
    BY <2>1, <2>2 DEF AllNotes, SpillNotes, DraftOK
<1>4. CASE TrimEnds \/ VisitBlock \/ NextPass \/ BeginColoring \/ ColorStep
  <2>1. /\ UNCHANGED <<code, orig, spillCount>> /\ stage \in {"trim", "live", "color"}
        /\ stage' \in {"trim", "live", "color"}
    BY <1>4 DEF TrimEnds, VisitBlock, NextPass, BeginColoring, ColorStep, allocVars
  <2>2. NotesOK'
    BY <1>1, <2>1, NotesKept
  <2> QED
    BY <2>1, <2>2 DEF AllNotes, SpillNotes, DraftOK
<1>5. CASE SpillAndRetry \/ SpillEverything
  <2>1. stage' = "spill"
    BY <1>5 DEF SpillAndRetry, SpillEverything, BeginSpilling
  <2>2. SpillNotes' /\ DraftOK'
    BY <1>1, <1>5, SpillAndRetryNotes, SpillEverythingNotes
  <2> QED
    BY <2>1, <2>2 DEF AllNotes, NotesOK
<1>6. CASE SpillInst
  <2>1. stage' = "spill"
    BY <1>6 DEF SpillInst
  <2>2. SpillNotes' /\ DraftOK'
    BY <1>1, <1>2, <1>6, SpillInstNotes, SpillInstDraft
  <2> QED
    BY <2>1, <2>2 DEF AllNotes, NotesOK
<1>7. CASE SpillNextBlock
  <2>1. stage' = "spill"
    BY <1>7 DEF SpillNextBlock
  <2>2. SpillNotes' /\ DraftOK'
    BY <1>1, <1>7, NextBlockNotes, NextBlockDraft
  <2> QED
    BY <2>1, <2>2 DEF AllNotes, NotesOK
<1>8. CASE SpillEnds
  <2>1. stage' \in {"live", "failed"}
    BY <1>8 DEF SpillEnds
  <2>2. NotesOK'
    BY <1>1, <1>2, <1>8, SpillEndsNotes
  <2> QED
    BY <2>1, <2>2 DEF AllNotes, SpillNotes, DraftOK
<1>9. CASE Bake \/ Execute \/ Return
  <2>1. stage' \in {"run", "stop"}
    <3>1. Execute => stage' = stage /\ stage = "run"
      BY <1>1, ExecuteFacts DEF Execute, allocVars
    <3> QED
      BY <1>9, <3>1 DEF Bake, Return
  <2> QED
    BY <2>1 DEF AllNotes, NotesOK, SpillNotes, DraftOK
<1>10. CASE UNCHANGED vars
  <2>1. UNCHANGED <<stage, code, orig, spillCount, sp>>
    BY <1>10 DEF vars, allocVars
  <2>2. NotesOK'
    BY <1>1, <2>1, NotesKept
  <2>3. DraftOK'
    BY <1>1, <2>1 DEF DraftOK
  <2>4. SpillNotes'
    BY <1>1, <2>1, SpillNotesKept
  <2> QED
    BY <2>2, <2>3, <2>4 DEF AllNotes
<1> QED
  BY <1>3, <1>4, <1>5, <1>6, <1>7, <1>8, <1>9, <1>10 DEF Next

----------------------------------------------------------------------------
(* What is live is held.                                                   *)

(* A register is held all the way up to where it is written.               *)
LEMMA HeldAbove ==
  ASSUME NEW st, NEW W, NEW P, NEW blk, Len(blk) \in Nat, NEW a, Noted(st, W, P, blk, a),
         NEW r \in Nat, NEW k \in 1..(Len(blk) + 1), NEW j \in k..(Len(blk) + 1),
         r \in a[j], r \notin Written(blk, k, j)
  PROVE  r \in a[k]
<1>1. ASSUME NEW h \in k..(j - 1), r \in a[h + 1] PROVE r \in a[h]
  <2>1. h \in 1..Len(blk)
    OBVIOUS
  <2>2. Holds(st, W, P, blk[h], a[h], a[h + 1])
    BY <2>1 DEF Noted
  <2>3. r \notin Defs(blk[h])
    BY <1>1 DEF Written
  <2>4. blk[h].op = "SpillSw" => blk[h].imm \in Nat
    BY <2>2 DEF Holds
  <2>5. blk[h].op = "SpillSw" => r # Slot(blk[h].imm)
    BY <2>4, SlotFacts
  <2>6. r \notin Sets(blk[h])
    BY <2>3, <2>5 DEF Sets
  <2> QED
    BY <1>1, <2>2, <2>6 DEF Holds
<1>2. k \in Int /\ j \in Int /\ k <= j
  OBVIOUS
<1> QED
  BY <1>1, <1>2, HeldBack

LEMMA LiveIsHeld ==
  ASSUME CodeOK, NEW st, NEW W, NEW P, NEW E, NEW b \in DOMAIN code, NEW a,
         BlockNote(st, W, P, E, Len(code), b, code[b], a), NEW out, NEW r \in Nat,
         NEW k \in 1..(Len(code[b]) + 1), r \in LiveBefore(code[b], out)[k],
         \A j \in 1..(k - 1) : ~IsJump(code[b][j]),
         r \in out => \E s \in Succs(code, b) : r \in E[s]
  PROVE  r \in a[k]
<1> DEFINE blk == code[b]
           l == Len(blk)
<1>1. l \in Nat /\ DOMAIN blk = 1..l /\ Len(code) \in Nat /\ b \in 1..Len(code)
  BY CodeFacts
<1>2. Noted(st, W, P, blk, a) /\ Linked(E, blk, a) /\ Behind(E, Len(code), b, blk, a)
  BY DEF BlockNote
<1>3. LiveBefore(blk, out)[k] = (out \ Written(blk, k, l + 1))
                  \cup UNION {Uses(blk[j]) \ Written(blk, k, j) : j \in k..l}
  BY <1>1, LiveUnfold
<1>4. ASSUME NEW j \in k..l, r \in Uses(blk[j]) \ Written(blk, k, j)
      PROVE  r \in a[k]
  <2>1. j \in 1..l /\ j \in k..(l + 1)
    BY <1>1
  <2>2. Reads(blk[j]) \subseteq a[j]
    BY <1>2, <2>1 DEF Noted, Holds
  <2>3. r \in a[j]
    BY <1>4, <2>2 DEF Reads
  <2> HIDE DEF blk
  <2> QED
    BY <1>1, <1>2, <1>4, <2>1, <2>3, HeldAbove
<1>5. ASSUME r \in out \ Written(blk, k, l + 1)
      PROVE  r \in a[k]
  <2>1. PICK s \in Succs(code, b) : r \in E[s]
    BY <1>5
  <2>2. ASSUME NEW j \in k..(l + 1), r \in a[j] PROVE r \in a[k]
    <3>1. Written(blk, k, j) \subseteq Written(blk, k, l + 1)
      <4>1. k..(j - 1) \subseteq k..((l + 1) - 1)
        BY <1>1
      <4> QED
        BY <4>1 DEF Written
    <3>2. r \notin Written(blk, k, j)
      BY <1>5, <3>1
    <3> HIDE DEF blk
    <3> QED
      BY <1>1, <1>2, <2>2, <3>2, HeldAbove
  <2>3. ASSUME NEW j \in DOMAIN blk, \A h \in j..Len(blk) : IsJump(blk[h]), s = blk[j].imm
        PROVE  r \in a[k]
    <3>1. IsJump(blk[j])
      BY <1>1, <2>3
    <3>2. j \in k..(l + 1)
      BY <1>1, <3>1
    <3>3. r \in a[j]
      BY <1>1, <1>2, <2>1, <2>3, <3>1 DEF Linked
    <3> QED
      BY <2>2, <3>2, <3>3
  <2>4. ASSUME FallsThrough(code, b), s = b + 1
        PROVE  r \in a[k]
    <3>1. b < Len(code) /\ ~Leaves(blk)
      BY <2>4 DEF FallsThrough, Leaves
    <3>2. r \in a[l + 1]
      BY <1>2, <2>1, <2>4, <3>1 DEF Behind
    <3>3. l + 1 \in k..(l + 1)
      BY <1>1
    <3> QED
      BY <2>2, <3>2, <3>3
  <2> QED
    BY <2>1, <2>3, <2>4 DEF Succs
<1> QED
  BY <1>3, <1>4, <1>5

(* The places that are live into a block are certain to be held before it. *)
LEMMA LiveInHeld ==
  ASSUME CodeOK, LvTyped, Least, \A b \in DOMAIN code : Solved(b),
         NEW st, NEW W, NEW P, NEW E, NEW N,
         \A b \in DOMAIN code : BlockNote(st, W, P, E, Len(code), b, code[b], N[b]),
         NEW b \in DOMAIN code
  PROVE  lv.in[b] \subseteq E[b]
<1> SUFFICES ASSUME NEW r \in lv.in[b] PROVE r \in E[b]
  OBVIOUS
<1> DEFINE F == {s \in DOMAIN code : r \in E[s]}
<1>1. r \in VRegs(code) /\ r \in Nat
  BY CodeFacts DEF LvTyped
<1>2. ASSUME NEW x \in DOMAIN code, NEW out, r \in out => \E s \in Succs(code, x) : r \in E[s],
             NEW k, k = 1, r \in LiveBefore(code[x], out)[k]
      PROVE  r \in E[x]
  <2>1. k \in 1..(Len(code[x]) + 1) /\ \A j \in 1..(k - 1) : ~IsJump(code[x][j])
    BY <1>2, CodeFacts
  <2>2. BlockNote(st, W, P, E, Len(code), x, code[x], N[x])
    OBVIOUS
  <2>3. r \in N[x][k]
    BY <1>1, <1>2, <2>1, <2>2, LiveIsHeld
  <2> QED
    BY <1>2, <2>2, <2>3 DEF BlockNote
<1>3. Carries(code, r, F)
  <2> SUFFICES ASSUME NEW x \in DOMAIN code,
                 r \in LiveBefore(code[x],
                         IF Succs(code, x) \cap F # {} THEN {r} ELSE {})[1]
               PROVE  x \in F
    BY DEF Carries, Blocks
  <2>1. r \in (IF Succs(code, x) \cap F # {} THEN {r} ELSE {}) =>
          \E s \in Succs(code, x) : r \in E[s]
    OBVIOUS
  <2>2. r \in E[x]
    BY <1>2, <2>1
  <2> QED
    BY <2>2
<1>4. F \in SUBSET DOMAIN code
  OBVIOUS
<1>5. b \in Reach(r)
  BY DEF Reach
<1> HIDE DEF F
<1>6. b \in F
  BY <1>1, <1>3, <1>4, <1>5 DEF Least
<1> QED
  BY <1>6 DEF F

LEMMA LiveHeld ==
  ASSUME CodeOK, LvTyped, Least, \A b \in DOMAIN code : Solved(b),
         NEW st, NEW W, NEW P, NEW E, NEW N,
         \A b \in DOMAIN code : BlockNote(st, W, P, E, Len(code), b, code[b], N[b]),
         NEW b \in DOMAIN code, NEW k \in 1..(Len(code[b]) + 1),
         \A j \in 1..(k - 1) : ~IsJump(code[b][j])
  PROVE  LiveBefore(code[b], lv.out[b])[k] \subseteq N[b][k]
<1> SUFFICES ASSUME NEW r \in LiveBefore(code[b], lv.out[b])[k] PROVE r \in N[b][k]
  OBVIOUS
<1>1. lv.out[b] = Flow(b) /\ lv.out[b] \subseteq VRegs(code)
  BY WantedNamed DEF Solved
<1>2. Len(code[b]) \in Nat /\ \A j \in 1..Len(code[b]) : Uses(code[b][j]) \subseteq VRegs(code)
  BY CodeFacts
<1>3. r \in VRegs(code)
  BY <1>1, <1>2, LiveIsNamed
<1>4. r \in Nat /\ Succs(code, b) \subseteq DOMAIN code
  BY <1>3, CodeFacts
<1>5. r \in lv.out[b] => \E s \in Succs(code, b) : r \in E[s]
  <2> SUFFICES ASSUME r \in Flow(b) PROVE \E s \in Succs(code, b) : r \in E[s]
    BY <1>1
  <2>1. PICK s \in Succs(code, b) : r \in lv.in[s]
    BY DEF Flow
  <2>2. lv.in[s] \subseteq E[s]
    BY <1>4, LiveInHeld
  <2> QED
    BY <2>1, <2>2
<1>6. BlockNote(st, W, P, E, Len(code), b, code[b], N[b])
  OBVIOUS
<1> QED
  BY <1>4, <1>5, <1>6, LiveIsHeld, ZenonT(60)

----------------------------------------------------------------------------
(* What the colouring keeps apart.                                         *)

LEMMA PhysAreNumbers == Phys \subseteq Nat /\ NoReg \notin Phys
<1>1. Range(FullPhys) \subseteq Nat /\ Range(CalleePhys) \subseteq Nat
  BY PaletteAssumption DEF Range
<1> QED
  BY <1>1 DEF Phys, NoReg

LEMMA ColorsProper ==
  ASSUME PaintOK, stage = "run", color \in [VRegs(code) -> Phys]
  PROVE  /\ \A r, d \in VRegs(code) :
              d \in buildGraph(lv.out)[r] => color[d] # color[r]
         /\ \A r \in Crossing(lv.out) \cap VRegs(code) : color[r] \in Range(CalleePhys)
<1>1. CFP!ProperColoring /\ GraphOfCode
  BY DEF PaintOK, CFP!Working
<1>2. \A r \in VRegs(code) : color[r] # CFP!NoReg
  BY PhysAreNumbers DEF CFP!NoReg, NoReg
<1>3. \A r \in VRegs(code) : color[r] \in CFP!Range(CFP!Palette(r))
                             /\ \A j \in in.adj[r] : color[j] # color[r]
  BY <1>1, <1>2 DEF CFP!ProperColoring, GraphOfCode
<1>4. \A r \in Crossing(lv.out) : CFP!Range(CFP!Palette(r)) = Range(CalleePhys)
  BY <1>1 DEF GraphOfCode, CFP!Palette, CFP!Range, Range
<1> QED
  BY <1>1, <1>3, <1>4 DEF GraphOfCode

(* An instruction's result does not share a register with what is live     *)
(* behind it, the source of a copy apart.                                  *)
LEMMA Interferes ==
  ASSUME CodeOK, PaintOK, stage = "run", color \in [VRegs(code) -> Phys],
         NEW b \in DOMAIN code, NEW k \in DOMAIN code[b],
         NEW d \in Defs(code[b][k]) \cap VRegs(code), NEW r \in VRegs(code), r # d,
         r \in LiveBefore(code[b], lv.out[b])[k + 1], r \notin CopySource(code[b][k])
  PROVE  color[r] # color[d]
<1> DEFINE after(x, j) == LiveBefore(code[x], lv.out[x])[j + 1]
           edges == UNION {UNION {Conflicts(code[x][j], LiveBefore(code[x], lv.out[x])[j + 1]) :
                                    j \in DOMAIN code[x]} : x \in Blocks(code)}
<1>1. Defs(code[b][k]) = {d}
  BY DEF Defs
<1>2. <<d, r>> \in Conflicts(code[b][k], after(b, k))
  BY <1>1 DEF Conflicts
<1>3. <<d, r>> \in edges
  BY <1>2 DEF Blocks
<1>4. buildGraph(lv.out) =
        [x \in VRegs(code) |-> {s \in VRegs(code) : <<x, s>> \in edges \/ <<s, x>> \in edges}]
  BY DEF buildGraph
<1> HIDE DEF edges
<1>5. r \in buildGraph(lv.out)[d]
  BY <1>3, <1>4
<1> QED
  BY <1>5, ColorsProper

(* What outlives a call is in a register that the callee saves.            *)
LEMMA OutlivesCall ==
  ASSUME CodeOK, PaintOK, stage = "run", color \in [VRegs(code) -> Phys],
         NEW b \in DOMAIN code, NEW k \in DOMAIN code[b], code[b][k].op = "Call",
         NEW r \in VRegs(code), r \notin Defs(code[b][k]),
         r \in LiveBefore(code[b], lv.out[b])[k + 1]
  PROVE  color[r] \in Range(CalleePhys)
<1>1. r \in Crossing(lv.out)
  BY DEF Crossing, Blocks
<1> QED
  BY <1>1, ColorsProper

----------------------------------------------------------------------------
(* What the places contain while the allocated function runs.              *)

(* A place holds a current value: a register the one of the register it    *)
(* stands for, in its colour; a slot the one that was stored to it.        *)
Live(b) == LiveBefore(code[b], lv.out[b])

RunNotes(st, W, E, N) ==
  /\ Knows(st)
  /\ \A b \in DOMAIN code :
       BlockNote(st, W, Room(maxReg(code), spillCount), E, Len(code), b, code[b], N[b])

Current(st, L, M, files, slots) ==
  /\ \A r \in L : orig[r] \in files[color[r]]
  /\ \A s \in DOMAIN slots : Slot(s) \in M => st[Slot(s)] \in slots[s]

RunShape ==
  /\ \A b \in DOMAIN code : JumpsLast(code[b])
  /\ pc.k \in 1..(Len(code[pc.b]) + 1)
  /\ pc.k = Len(code[pc.b]) + 1 => ~Leaves(code[pc.b])
  /\ DOMAIN mem = 0..(spillCount - 1)

RunValues ==
  /\ stage \notin {"run", "stop"} => pc = [b |-> 1, k |-> 1]
  /\ stage = "run" =>
       /\ RunShape
       /\ \E st : \E W : \E E : \E N :
            /\ RunNotes(st, W, E, N)
            /\ Current(st, Live(pc.b)[pc.k], N[pc.b][pc.k], regs, mem)

(* What holds around one instruction: L is live and M held before it, L2   *)
(* and M2 behind it.                                                       *)
Around(st, W, m, L, M, L2, M2) ==
  /\ Holds(st, W, Room(maxReg(code), spillCount), m, M, M2)
  /\ Uses(m) \subseteq L /\ L2 \ Defs(m) \subseteq L
  /\ L2 \subseteq M2 /\ L2 \subseteq VRegs(code)
  /\ VRegs(code) \in SUBSET Nat /\ \A r \in VRegs(code) : st[r] = orig[r]
  /\ Uses(m) \cup Defs(m) \subseteq VRegs(code) /\ Shaped(m)
  /\ color \in [VRegs(code) -> Phys]
  /\ \A d \in Defs(m) : \A r \in L2 :
       r # d /\ r \notin CopySource(m) => color[r] # color[d]
  /\ m.op = "Call" => \A r \in L2 \ Defs(m) : color[r] \in Range(CalleePhys)

LEMMA RunContext ==
  ASSUME AllocInv, stage = "run", RunShape, NEW st, NEW W, NEW E, NEW N,
         RunNotes(st, W, E, N), pc.k <= Len(code[pc.b]), ~IsJump(This)
  PROVE  Around(st, W, This, Live(pc.b)[pc.k], N[pc.b][pc.k],
                Live(pc.b)[pc.k + 1], N[pc.b][pc.k + 1])
<1> DEFINE b == pc.b
           k == pc.k
           l == Len(code[b])
<1>1. CodeOK /\ LvTyped /\ Least /\ (\A x \in DOMAIN code : Solved(x)) /\ PaintOK
      /\ color \in [VRegs(code) -> Phys] /\ \A m \in Insts(code) : Shaped(m)
  BY DEF AllocInv, IInv, LiveOK, RunOK, ShapesOK
<1>2. b \in DOMAIN code /\ DOMAIN code[b] = 1..l /\ l \in Nat
  BY <1>1, CodeFacts DEF AllocInv, IInv, RunOK
<1>3. k \in 1..(l + 1) /\ k <= l
  BY DEF RunShape
<1>4. This = code[b][k]
  BY DEF This
<1>5. k \in 1..l /\ k + 1 \in 1..(l + 1) /\ k \in DOMAIN code[b]
  <2> HIDE DEF b, k, l
  <2> QED
    BY <1>2, <1>3
<1>6. \A j \in 1..((k + 1) - 1) : ~IsJump(code[b][j])
  <2> SUFFICES ASSUME NEW j \in 1..((k + 1) - 1), IsJump(code[b][j]) PROVE FALSE
    OBVIOUS
  <2>1. JumpsLast(code[b])
    BY <1>2 DEF RunShape
  <2> HIDE DEF b, k, l
  <2>2. j \in 1..l /\ (j < k \/ j = k)
    BY <1>2, <1>5
  <2>3. IsJump(code[b][k])
    BY <1>5, <2>1, <2>2 DEF JumpsLast, l
  <2> QED
    BY <1>4, <2>3
<1>7. BlockNote(st, W, Room(maxReg(code), spillCount), E, Len(code), b, code[b], N[b])
  BY <1>2 DEF RunNotes
<1>8. Live(b)[k + 1] \subseteq N[b][k + 1]
  <2>1. \A x \in DOMAIN code :
          BlockNote(st, W, Room(maxReg(code), spillCount), E, Len(code), x, code[x], N[x])
    BY DEF RunNotes
  <2> HIDE DEF b, k
  <2> QED
    BY <1>1, <1>2, <1>5, <1>6, <2>1, LiveHeld DEF Live, l
<1>9. Live(b)[k + 1] \subseteq VRegs(code)
  <2>1. lv.out[b] \subseteq VRegs(code)
    BY <1>1, <1>2 DEF LvTyped
  <2>2. \A j \in 1..l : Uses(code[b][j]) \subseteq VRegs(code)
    BY <1>1, <1>2, CodeFacts
  <2> HIDE DEF b, k
  <2> QED
    BY <1>2, <1>5, <2>1, <2>2, LiveIsNamed DEF Live, l
<1>10. Uses(This) \subseteq Live(b)[k] /\ Live(b)[k + 1] \ Defs(This) \subseteq Live(b)[k]
  <2> HIDE DEF b, k
  <2> QED
    BY <1>2, <1>4, <1>5, LiveStep DEF Live, l
<1>11. Holds(st, W, Room(maxReg(code), spillCount), This, N[b][k], N[b][k + 1])
  BY <1>4, <1>5, <1>7 DEF BlockNote, Noted
<1>12. VRegs(code) \in SUBSET Nat /\ \A r \in VRegs(code) : st[r] = orig[r]
  <2>1. VRegs(code) \subseteq DOMAIN orig
    BY <1>1, RegistersOf DEF CodeOK
  <2> QED
    BY <1>1, <2>1, CodeFacts DEF RunNotes, Knows
<1>13. Uses(This) \cup Defs(This) \subseteq VRegs(code) /\ Shaped(This)
  BY <1>1, <1>2, <1>4, <1>5, CodeFacts, InstsHave
<1>14. \A d \in Defs(This) : \A r \in Live(b)[k + 1] :
         r # d /\ r \notin CopySource(This) => color[r] # color[d]
  <2> SUFFICES ASSUME NEW d \in Defs(This), NEW r \in Live(b)[k + 1], r # d,
                      r \notin CopySource(This)
               PROVE  color[r] # color[d]
    OBVIOUS
  <2>1. d \in Defs(code[b][k]) \cap VRegs(code) /\ r \in VRegs(code)
        /\ r \in LiveBefore(code[b], lv.out[b])[k + 1] /\ r \notin CopySource(code[b][k])
    BY <1>4, <1>9, <1>13 DEF Live
  <2> HIDE DEF b, k
  <2> QED
    BY <1>1, <1>2, <1>5, <2>1, Interferes
<1>15. This.op = "Call" => \A r \in Live(b)[k + 1] \ Defs(This) : color[r] \in Range(CalleePhys)
  <2> SUFFICES ASSUME This.op = "Call", NEW r \in Live(b)[k + 1], r \notin Defs(This)
               PROVE  color[r] \in Range(CalleePhys)
    OBVIOUS
  <2>1. r \in VRegs(code) /\ r \in LiveBefore(code[b], lv.out[b])[k + 1]
        /\ r \notin Defs(code[b][k]) /\ code[b][k].op = "Call"
    BY <1>4, <1>9 DEF Live
  <2> HIDE DEF b, k
  <2> QED
    BY <1>1, <1>2, <1>5, <2>1, OutlivesCall
<1> QED
  BY <1>1, <1>8, <1>9, <1>10, <1>11, <1>12, <1>13, <1>14, <1>15 DEF Around

----------------------------------------------------------------------------
(* The steps of the execution.                                             *)

(* A register other than the one defined keeps its colour to itself and    *)
(* its value, and a slot the value that was stored to it.                  *)
LEMMA Bystanders ==
  ASSUME NEW st, NEW W, NEW m, NEW L, NEW M, NEW L2, NEW M2,
         Around(st, W, m, L, M, L2, M2), m.op \notin {"SpillLw", "SpillSw"},
         NEW d \in Defs(m)
  PROVE  /\ d \in VRegs(code) /\ color[d] \in Phys
         /\ \A r \in L2 : r # d => /\ r \in L /\ r \in VRegs(code) /\ color[r] \in Phys
                                   /\ orig[r] # orig[d]
                                   /\ r \notin CopySource(m) => color[r] # color[d]
         /\ \A s \in Nat : Slot(s) \in M2 => Slot(s) \in M /\ st[Slot(s)] # orig[d]
<1>1. d \in VRegs(code) /\ color[d] \in Phys /\ Defs(m) = {d} /\ d \in Nat /\ st[d] = orig[d]
  BY DEF Around, Defs
<1>2. Sets(m) = {d}
  BY <1>1 DEF Sets
<1>3. \A q \in M2 : q # d => st[q] # st[d] /\ q \in M
  BY <1>1, <1>2 DEF Around, Holds
<1>4. ASSUME NEW r \in L2, r # d
      PROVE  /\ r \in L /\ r \in VRegs(code) /\ color[r] \in Phys
             /\ orig[r] # orig[d]
             /\ r \notin CopySource(m) => color[r] # color[d]
  <2>1. r \in L /\ r \in M2 /\ r \in VRegs(code) /\ st[r] = orig[r]
    BY <1>1, <1>4 DEF Around
  <2>2. color[r] \in Phys
    BY <2>1 DEF Around
  <2>3. st[r] # st[d]
    BY <1>3, <1>4, <2>1
  <2> QED
    BY <1>1, <1>4, <2>1, <2>2, <2>3 DEF Around
<1>5. ASSUME NEW s \in Nat, Slot(s) \in M2 PROVE Slot(s) \in M /\ st[Slot(s)] # orig[d]
  <2>1. Slot(s) # d
    BY <1>1, SlotFacts
  <2> QED
    BY <1>1, <1>3, <1>5, <2>1
<1> QED
  BY <1>1, <1>4, <1>5

(* Nothing is written.                                                     *)
LEMMA QuietStep ==
  ASSUME NEW st, NEW W, NEW m, NEW L, NEW M, NEW L2, NEW M2,
         Around(st, W, m, L, M, L2, M2), m.op \notin {"SpillLw", "SpillSw"}, Defs(m) = {},
         Current(st, L, M, regs, mem)
  PROVE  Current(st, L2, M2, regs, mem)
<1>1. L2 \subseteq L /\ M2 \subseteq M
  BY DEF Around, Holds, Sets
<1> QED
  BY <1>1 DEF Current

LEMMA WriteStep ==
  ASSUME NEW st, NEW W, NEW m, NEW L, NEW M, NEW L2, NEW M2,
         Around(st, W, m, L, M, L2, M2), m.op \notin {"SpillLw", "SpillSw", "Move"},
         NEW d \in Defs(m), NEW files,
         \A r \in L : r \in L2 \ {d} => orig[r] \in files[color[r]],
         \A s \in DOMAIN mem : Slot(s) \in M => st[Slot(s)] \in mem[s],
         DOMAIN mem \subseteq Nat, Write(files, color[d], orig[d])
  PROVE  Current(st, L2, M2, regs', mem')
<1>1. /\ d \in VRegs(code) /\ color[d] \in Phys
      /\ \A r \in L2 : r # d => /\ r \in L /\ r \in VRegs(code) /\ color[r] \in Phys
                                /\ orig[r] # orig[d]
                                /\ r \notin CopySource(m) => color[r] # color[d]
      /\ \A s \in Nat : Slot(s) \in M2 => Slot(s) \in M /\ st[Slot(s)] # orig[d]
  BY Bystanders
<1>2. /\ regs' = [p \in Phys |-> IF p = color[d] THEN {orig[d]} ELSE files[p] \ {orig[d]}]
      /\ mem' = [s \in DOMAIN mem |-> mem[s] \ {orig[d]}]
  BY DEF Write
<1>3. CopySource(m) = {}
  BY DEF CopySource
<1>4. ASSUME NEW r \in L2 PROVE orig[r] \in regs'[color[r]]
  <2>1. CASE r = d
    BY <1>1, <1>2, <2>1
  <2>2. CASE r # d
    <3>1. /\ r \in L /\ color[r] \in Phys /\ orig[r] # orig[d] /\ color[r] # color[d]
      BY <1>1, <1>3, <2>2
    <3>2. orig[r] \in files[color[r]]
      BY <2>2, <3>1
    <3> QED
      BY <1>2, <3>1, <3>2
  <2> QED
    BY <2>1, <2>2
<1>5. ASSUME NEW s \in DOMAIN mem', Slot(s) \in M2 PROVE st[Slot(s)] \in mem'[s]
  <2>1. s \in DOMAIN mem /\ s \in Nat
    BY <1>2
  <2>2. Slot(s) \in M /\ st[Slot(s)] # orig[d]
    BY <1>1, <1>5, <2>1
  <2> QED
    BY <1>2, <2>1, <2>2
<1> QED
  BY <1>4, <1>5 DEF Current

LEMMA ComputeStep ==
  ASSUME NEW st, NEW W, NEW L, NEW M, NEW L2, NEW M2, Around(st, W, This, L, M, L2, M2),
         Current(st, L, M, regs, mem), DOMAIN mem \subseteq Nat, This.dst \in VRegs(code),
         Compute
  PROVE  Current(st, L2, M2, regs', mem')
<1>1. /\ This.op \notin {"SpillLw", "SpillSw", "Move"}
      /\ Write(regs, color[This.dst], orig[This.dst])
  BY DEF Compute, AtInst
<1>2. This.dst \in Defs(This)
  BY DEF Around, Defs, NoReg
<1>3. /\ \A r \in L : r \in L2 \ {This.dst} => orig[r] \in regs[color[r]]
      /\ \A s \in DOMAIN mem : Slot(s) \in M => st[Slot(s)] \in mem[s]
  BY DEF Current
<1> QED
  BY <1>1, <1>2, <1>3, WriteStep

LEMMA CallStep ==
  ASSUME NEW st, NEW W, NEW L, NEW M, NEW L2, NEW M2, Around(st, W, This, L, M, L2, M2),
         Current(st, L, M, regs, mem), DOMAIN mem \subseteq Nat, CallReturns
  PROVE  Current(st, L2, M2, regs', mem')
<1> DEFINE kept == [p \in Phys |-> IF p \in Range(CalleePhys) THEN regs[p] ELSE {}]
<1>1. /\ This.op = "Call"
      /\ IF This.dst = NoReg THEN regs' = kept /\ UNCHANGED mem
         ELSE Write(kept, color[This.dst], orig[This.dst])
  BY DEF CallReturns, AtInst
<1>2. \A r \in L2 \ Defs(This) : orig[r] \in kept[color[r]]
  <2> SUFFICES ASSUME NEW r \in L2, r \notin Defs(This) PROVE orig[r] \in kept[color[r]]
    OBVIOUS
  <2>1. r \in L /\ color[r] \in Phys /\ color[r] \in Range(CalleePhys)
    BY <1>1 DEF Around
  <2> QED
    BY <2>1 DEF Current
<1>3. \A s \in DOMAIN mem : Slot(s) \in M => st[Slot(s)] \in mem[s]
  BY DEF Current
<1> HIDE DEF kept
<1>4. CASE This.dst = NoReg
  <2>1. Defs(This) = {} /\ M2 \subseteq M
    BY <1>1, <1>4 DEF Defs, Around, Holds, Sets
  <2> QED
    BY <1>1, <1>2, <1>3, <1>4, <2>1 DEF Current
<1>5. CASE This.dst # NoReg
  <2>1. This.dst \in Defs(This) /\ Defs(This) = {This.dst}
    BY <1>5 DEF Defs
  <2>2. This.op \notin {"SpillLw", "SpillSw", "Move"}
    BY <1>1
  <2>3. \A r \in L : r \in L2 \ {This.dst} => orig[r] \in kept[color[r]]
    BY <1>2, <2>1
  <2>4. Write(kept, color[This.dst], orig[This.dst])
    BY <1>1, <1>5
  <2> QED
    BY <1>3, <2>1, <2>2, <2>3, <2>4, WriteStep
<1> QED
  BY <1>4, <1>5

LEMMA CopyStep ==
  ASSUME NEW st, NEW W, NEW L, NEW M, NEW L2, NEW M2, Around(st, W, This, L, M, L2, M2),
         Current(st, L, M, regs, mem), DOMAIN mem \subseteq Nat, This.dst \in VRegs(code),
         Copy, Uses(This) = {This.use[1]}
  PROVE  Current(st, L2, M2, regs', mem')
<1> DEFINE u == This.use[1]
           d == This.dst
           copied(h) == IF orig[u] \in h THEN h \cup {orig[d]} ELSE h \ {orig[d]}
<1>1. /\ This.op = "Move"
      /\ regs' = [p \in Phys |-> IF p = color[d] THEN copied(regs[color[u]])
                                 ELSE copied(regs[p])]
      /\ mem' = [k \in DOMAIN mem |-> copied(mem[k])]
  BY DEF Copy, AtInst
<1>2. d \in Defs(This) /\ CopySource(This) = {u}
  BY <1>1 DEF Around, Defs, NoReg, CopySource
<1>3. /\ d \in VRegs(code) /\ color[d] \in Phys
      /\ \A r \in L2 : r # d => /\ r \in L /\ r \in VRegs(code) /\ color[r] \in Phys
                                /\ orig[r] # orig[d]
                                /\ r \notin {u} => color[r] # color[d]
      /\ \A s \in Nat : Slot(s) \in M2 => Slot(s) \in M /\ st[Slot(s)] # orig[d]
  BY <1>1, <1>2, Bystanders
<1>4. u \in L /\ orig[u] \in regs[color[u]]
  BY DEF Around, Current
<1>5. \A h : \A x : x \in h /\ x # orig[d] => x \in copied(h)
  OBVIOUS
<1>6. orig[d] \in copied(regs[color[u]]) /\ orig[u] \in copied(regs[color[u]])
  BY <1>4
<1> HIDE DEF copied, u, d
<1>7. ASSUME NEW r \in L2 PROVE orig[r] \in regs'[color[r]]
  <2>1. CASE r = d
    BY <1>1, <1>3, <1>6, <2>1
  <2>2. CASE r # d
    <3>1. /\ r \in L /\ color[r] \in Phys /\ orig[r] # orig[d]
          /\ r # u => color[r] # color[d]
      BY <1>3, <2>2
    <3>2. orig[r] \in regs[color[r]]
      BY <3>1 DEF Current
    <3>3. CASE color[r] = color[d]
      BY <1>1, <1>6, <3>1, <3>3
    <3>4. CASE color[r] # color[d]
      BY <1>1, <1>5, <3>1, <3>2, <3>4
    <3> QED
      BY <3>3, <3>4
  <2> QED
    BY <2>1, <2>2
<1>8. ASSUME NEW s \in DOMAIN mem', Slot(s) \in M2 PROVE st[Slot(s)] \in mem'[s]
  <2>1. s \in DOMAIN mem /\ s \in Nat
    BY <1>1
  <2>2. Slot(s) \in M /\ st[Slot(s)] # orig[d]
    BY <1>3, <1>8, <2>1
  <2>3. st[Slot(s)] \in mem[s]
    BY <2>1, <2>2 DEF Current
  <2> QED
    BY <1>1, <1>5, <2>1, <2>2, <2>3
<1> QED
  BY <1>7, <1>8 DEF Current

LEMMA SpillStep ==
  ASSUME NEW st, NEW W, NEW L, NEW M, NEW L2, NEW M2, Around(st, W, This, L, M, L2, M2),
         Current(st, L, M, regs, mem), DOMAIN mem \subseteq Nat,
         Spill, Uses(This) = {This.use[1]}
  PROVE  Current(st, L2, M2, regs', mem')
<1> DEFINE u == This.use[1]
<1>1. /\ This.op = "SpillSw" /\ This.imm \in Nat /\ regs' = regs
      /\ mem' = [mem EXCEPT ![This.imm] = regs[color[u]]]
  BY DEF Spill, AtInst, Around, Holds
<1>2. Defs(This) = {}
  BY <1>1 DEF Around, Shaped, Defining, Defs
<1>3. L2 \subseteq L
  BY <1>2 DEF Around
<1>4. st[u] = st[Slot(This.imm)] /\ st[u] = orig[u] /\ orig[u] \in regs[color[u]]
  BY <1>1 DEF Around, Holds, Current
<1> HIDE DEF u
<1>5. ASSUME NEW s \in DOMAIN mem', Slot(s) \in M2 PROVE st[Slot(s)] \in mem'[s]
  <2>1. s \in DOMAIN mem /\ s \in Nat
    BY <1>1
  <2>2. CASE s = This.imm
    BY <1>1, <1>4, <2>1, <2>2
  <2>3. CASE s # This.imm
    <3>1. Slot(s) # Slot(This.imm)
      BY <1>1, <2>1, <2>3, SlotFacts
    <3>2. Slot(s) \in M
      BY <1>1, <1>2, <1>5, <3>1 DEF Around, Holds, Sets
    <3>3. st[Slot(s)] \in mem[s]
      BY <2>1, <3>2 DEF Current
    <3> QED
      BY <1>1, <2>1, <2>3, <3>3
  <2> QED
    BY <2>2, <2>3
<1> QED
  BY <1>1, <1>3, <1>5 DEF Current

LEMMA ReloadStep ==
  ASSUME NEW st, NEW W, NEW L, NEW M, NEW L2, NEW M2, Around(st, W, This, L, M, L2, M2),
         Current(st, L, M, regs, mem), DOMAIN mem = 0..(spillCount - 1), spillCount \in Nat,
         DOMAIN regs = Phys, This.dst \in VRegs(code), M \subseteq Room(maxReg(code), spillCount),
         maxReg(code) \in Nat, Reload
  PROVE  Current(st, L2, M2, regs', mem')
<1> DEFINE d == This.dst
<1>1. /\ This.op = "SpillLw" /\ This.imm \in Nat /\ mem' = mem
      /\ regs' = [regs EXCEPT ![color[d]] = mem[This.imm]]
  BY DEF Reload, AtInst, Around, Holds
<1>2. Defs(This) = {d} /\ CopySource(This) = {} /\ color[d] \in Phys
  BY <1>1 DEF Around, Defs, NoReg, CopySource
<1>3. Slot(This.imm) \in M /\ st[d] = st[Slot(This.imm)] /\ st[d] = orig[d]
  BY <1>1, <1>2 DEF Around, Holds, Reads
<1>4. This.imm \in DOMAIN mem
  BY <1>1, <1>3, SlotFacts
<1>5. orig[d] \in mem[This.imm]
  BY <1>3, <1>4 DEF Current
<1> HIDE DEF d
<1>6. ASSUME NEW r \in L2 PROVE orig[r] \in regs'[color[r]]
  <2>1. CASE r = d
    BY <1>1, <1>2, <1>5, <2>1
  <2>2. CASE r # d
    <3>1. r \in L /\ color[r] \in Phys /\ color[r] # color[d]
      BY <1>2, <2>2 DEF Around
    <3>2. orig[r] \in regs[color[r]]
      BY <3>1 DEF Current
    <3> QED
      BY <1>1, <3>1, <3>2
  <2> QED
    BY <2>1, <2>2
<1>7. ASSUME NEW s \in DOMAIN mem', Slot(s) \in M2 PROVE st[Slot(s)] \in mem'[s]
  <2>1. s \in DOMAIN mem /\ s \in Nat /\ mem'[s] = mem[s]
    BY <1>1
  <2>2. Slot(s) # d
    BY <2>1, SlotFacts DEF Around, d
  <2>3. Slot(s) \in M
    BY <1>1, <1>2, <1>7, <2>2 DEF Around, Holds, Sets
  <2> QED
    BY <2>1, <2>3 DEF Current
<1> QED
  BY <1>6, <1>7 DEF Current

----------------------------------------------------------------------------
(* The control flow of the execution.                                      *)

LEMMA HereFacts ==
  ASSUME AllocInv, stage = "run", RunShape
  PROVE  /\ pc = [b |-> pc.b, k |-> pc.k] /\ pc.b \in DOMAIN code
         /\ Len(code[pc.b]) \in Nat /\ DOMAIN code[pc.b] = 1..Len(code[pc.b])
         /\ pc.b \in 1..Len(code) /\ Len(code) \in Nat /\ DOMAIN code = 1..Len(code)
         /\ pc.k \in 1..(Len(code[pc.b]) + 1)
         /\ pc.k <= Len(code[pc.b]) => pc.k \in DOMAIN code[pc.b] /\ This \in Insts(code)
         /\ pc.k > Len(code[pc.b]) => pc.k = Len(code[pc.b]) + 1
         /\ spillCount \in Nat /\ maxReg(code) \in Nat /\ DOMAIN mem \subseteq Nat
<1>1. CodeOK /\ pc \in [b : 1..Len(code), k : Nat \ {0}]
  BY DEF AllocInv, IInv, RunOK
<1> DEFINE b == pc.b
           k == pc.k
<1>2. pc = [b |-> b, k |-> k] /\ b \in 1..Len(code)
  BY <1>1
<1>3. /\ Len(code) \in Nat /\ DOMAIN code = 1..Len(code) /\ b \in DOMAIN code
      /\ Len(code[b]) \in Nat /\ DOMAIN code[b] = 1..Len(code[b])
      /\ VRegs(code) \in SUBSET Nat /\ IsFiniteSet(VRegs(code))
  BY <1>1, <1>2, CodeFacts
<1>4. k \in 1..(Len(code[b]) + 1) /\ DOMAIN mem = 0..(spillCount - 1)
  BY DEF RunShape
<1>5. maxReg(code) \in Nat
  BY <1>3, MaxRegType
<1>6. spillCount \in Nat /\ DOMAIN mem \subseteq Nat
  BY <1>1, <1>4 DEF CodeOK
<1>7. This = code[b][k]
  BY DEF This
<1> HIDE DEF b, k
<1>8. k <= Len(code[b]) => k \in DOMAIN code[b]
  BY <1>3, <1>4
<1>9. k > Len(code[b]) => k = Len(code[b]) + 1
  BY <1>3, <1>4
<1>10. k <= Len(code[b]) => This \in Insts(code)
  BY <1>3, <1>7, <1>8, InstsHave
<1> QED
  BY <1>2, <1>3, <1>4, <1>5, <1>6, <1>8, <1>9, <1>10 DEF b, k

(* The next instruction of the same block.                                 *)
LEMMA GoesOn ==
  ASSUME AllocInv, stage = "run", RunShape, pc.k <= Len(code[pc.b]),
         This.op \notin {"Jmp", "Ret"}, GoOn, UNCHANGED <<code, spillCount>>,
         DOMAIN mem' = DOMAIN mem
  PROVE  RunShape' /\ pc'.b = pc.b /\ pc'.k = pc.k + 1
<1> DEFINE b == pc.b
           k == pc.k
           l == Len(code[b])
<1>1. /\ pc = [b |-> b, k |-> k] /\ l \in Nat /\ k \in 1..(l + 1)
      /\ k <= l /\ This = code[b][k]
  BY HereFacts DEF This
<1>2. pc' = [b |-> b, k |-> k + 1]
  BY <1>1 DEF GoOn
<1> HIDE DEF b, k, l
<1>3. k + 1 \in 1..(l + 1)
  BY <1>1
<1>4. ASSUME k + 1 = l + 1 PROVE ~Leaves(code[b])
  <2>1. k = l
    BY <1>1, <1>4
  <2> QED
    BY <1>1, <2>1 DEF Leaves, l
<1>5. \A x \in DOMAIN code' : JumpsLast(code'[x])
  BY DEF RunShape
<1>6. DOMAIN mem' = 0..(spillCount' - 1)
  BY DEF RunShape
<1>7. pc'.b = b /\ pc'.k = k + 1 /\ Len(code'[pc'.b]) = l
  BY <1>2 DEF l
<1>8. pc'.k \in 1..(Len(code'[pc'.b]) + 1)
      /\ (pc'.k = Len(code'[pc'.b]) + 1 => ~Leaves(code'[pc'.b]))
  BY <1>3, <1>4, <1>7
<1>9. RunShape'
  BY <1>5, <1>6, <1>8 DEF RunShape
<1> QED
  BY <1>7, <1>9 DEF b, k

(* The start of a block.                                                   *)
LEMMA Enters ==
  ASSUME AllocInv, stage = "run", RunShape, NEW t \in DOMAIN code,
         pc' = [b |-> t, k |-> 1], UNCHANGED <<code, spillCount, mem>>
  PROVE  RunShape' /\ pc'.b = t /\ pc'.k = 1
<1>1. pc'.b = t /\ pc'.k = 1
  OBVIOUS
<1>2. Len(code[t]) \in Nat
  BY CodeFacts DEF AllocInv, IInv
<1>3. 1 \in 1..(Len(code[t]) + 1)
  BY <1>2
<1>4. 1 = Len(code[t]) + 1 => ~Leaves(code[t])
  <2>1. code[t] \in Seq(Instructions(DOMAIN orig, Len(code)))
    BY ProgramFacts DEF AllocInv, IInv, CodeOK
  <2>2. 1 = Len(code[t]) + 1 => code[t] = <<>>
    BY <2>1, <1>2
  <2> QED
    BY <2>2 DEF Leaves
<1>5. \A x \in DOMAIN code' : JumpsLast(code'[x])
  BY DEF RunShape
<1>6. DOMAIN mem' = 0..(spillCount' - 1)
  BY DEF RunShape
<1>7. pc'.k \in 1..(Len(code'[pc'.b]) + 1)
      /\ (pc'.k = Len(code'[pc'.b]) + 1 => ~Leaves(code'[pc'.b]))
  BY <1>1, <1>3, <1>4
<1>8. RunShape'
  BY <1>5, <1>6, <1>7 DEF RunShape
<1> QED
  BY <1>1, <1>8

(* The instructions behind which the block goes on.                        *)
LEMMA StraightStep ==
  ASSUME AllocInv, stage = "run", RunShape, NEW st, NEW W, NEW E, NEW N,
         RunNotes(st, W, E, N),
         Current(st, Live(pc.b)[pc.k], N[pc.b][pc.k], regs, mem),
         Compute \/ StoreWord \/ Copy \/ CallReturns \/ Spill \/ Reload
  PROVE  /\ Current(st, Live(pc.b)[pc.k + 1], N[pc.b][pc.k + 1], regs', mem')
         /\ pc.k <= Len(code[pc.b]) /\ This.op \notin {"Jmp", "Ret"} /\ GoOn
         /\ DOMAIN mem' = DOMAIN mem
<1> DEFINE L == Live(pc.b)[pc.k]
           M == N[pc.b][pc.k]
           L2 == Live(pc.b)[pc.k + 1]
           M2 == N[pc.b][pc.k + 1]
<1>1. /\ pc.k <= Len(code[pc.b]) /\ GoOn
      /\ This.op \in {"Li", "Op", "Lw", "Entry", "Sw", "Move", "Call", "SpillSw", "SpillLw"}
  BY DEF Compute, StoreWord, Copy, CallReturns, Spill, Reload, AtInst
<1>2. ~IsJump(This)
  BY <1>1 DEF IsJump
<1>3. Around(st, W, This, L, M, L2, M2)
  BY <1>1, <1>2, RunContext
<1>4. /\ Current(st, L, M, regs, mem) /\ DOMAIN mem \subseteq Nat
      /\ DOMAIN mem = 0..(spillCount - 1) /\ spillCount \in Nat /\ maxReg(code) \in Nat
      /\ This \in Insts(code) /\ IInv /\ DOMAIN regs = Phys
  BY <1>1, HereFacts DEF RunShape, AllocInv, IInv, RunOK
<1>5. M \subseteq Room(maxReg(code), spillCount)
  <2> DEFINE l == Len(code[pc.b])
             P == Room(maxReg(code), spillCount)
  <2>1. pc.b \in DOMAIN code /\ pc.k \in 1..(l + 1)
    BY HereFacts
  <2>2. N[pc.b] \in [1..(l + 1) -> SUBSET P]
    BY <2>1 DEF RunNotes, BlockNote, Noted
  <2> HIDE DEF P, l
  <2> QED
    BY <2>1, <2>2 DEF P
<1> HIDE DEF L, M, L2, M2
<1>6. ASSUME Compute PROVE Current(st, L2, M2, regs', mem') /\ DOMAIN mem' = DOMAIN mem
  <2>1. AtInst({"Li", "Op", "Lw", "Entry"}) /\ {"Li", "Op", "Lw", "Entry"} \in SUBSET Defining
    BY <1>6 DEF Compute, Defining
  <2>2. This.dst \in VRegs(code)
    BY <1>4, <2>1, DefinesRegister
  <2>3. DOMAIN mem' = DOMAIN mem
    BY <1>6 DEF Compute, Write
  <2> QED
    BY <1>3, <1>4, <1>6, <2>2, <2>3, ComputeStep
<1>7. ASSUME StoreWord PROVE Current(st, L2, M2, regs', mem') /\ DOMAIN mem' = DOMAIN mem
  <2>1. This.op = "Sw" /\ UNCHANGED <<regs, mem>>
    BY <1>7 DEF StoreWord, AtInst
  <2>2. Defs(This) = {} /\ This.op \notin {"SpillLw", "SpillSw"}
    BY <1>3, <2>1 DEF Around, Shaped, Defining, Defs
  <2> QED
    BY <1>3, <1>4, <2>1, <2>2, QuietStep
<1>8. ASSUME This.op \in {"Move", "SpillSw"} PROVE Uses(This) = {This.use[1]}
  <2>1. Len(This.use) = 1
    BY <1>3, <1>8 DEF Around, Shaped
  <2>2. This.use \in Seq(DOMAIN orig)
    BY <1>4, InstsOf DEF IInv, CodeOK, Instructions
  <2>3. DOMAIN This.use = {1}
    BY <2>1, <2>2
  <2> QED
    BY <2>3 DEF Uses, Range
<1>9. ASSUME Copy PROVE Current(st, L2, M2, regs', mem') /\ DOMAIN mem' = DOMAIN mem
  <2>1. AtInst({"Move"}) /\ {"Move"} \in SUBSET Defining /\ This.op = "Move"
    BY <1>9 DEF Copy, Defining, AtInst
  <2>2. This.dst \in VRegs(code)
    BY <1>4, <2>1, DefinesRegister
  <2>3. DOMAIN mem' = DOMAIN mem
    BY <1>9 DEF Copy
  <2> QED
    BY <1>3, <1>4, <1>8, <1>9, <2>1, <2>2, <2>3, CopyStep
<1>10. ASSUME CallReturns PROVE Current(st, L2, M2, regs', mem') /\ DOMAIN mem' = DOMAIN mem
  <2>1. DOMAIN mem' = DOMAIN mem
    BY <1>10 DEF CallReturns, Write
  <2> QED
    BY <1>3, <1>4, <1>10, <2>1, CallStep
<1>11. ASSUME Spill PROVE Current(st, L2, M2, regs', mem') /\ DOMAIN mem' = DOMAIN mem
  <2>1. This.op = "SpillSw"
    BY <1>11 DEF Spill, AtInst
  <2>2. DOMAIN mem' = DOMAIN mem
    BY <1>11 DEF Spill
  <2> QED
    BY <1>3, <1>4, <1>8, <1>11, <2>1, <2>2, SpillStep
<1>12. ASSUME Reload PROVE Current(st, L2, M2, regs', mem') /\ DOMAIN mem' = DOMAIN mem
  <2>1. AtInst({"SpillLw"}) /\ {"SpillLw"} \in SUBSET Defining
    BY <1>12 DEF Reload, Defining
  <2>2. This.dst \in VRegs(code)
    BY <1>4, <2>1, DefinesRegister
  <2>3. DOMAIN mem' = DOMAIN mem
    BY <1>12 DEF Reload
  <2> QED
    BY <1>3, <1>4, <1>5, <1>12, <2>2, <2>3, ReloadStep
<1>13. Current(st, L2, M2, regs', mem') /\ DOMAIN mem' = DOMAIN mem
  BY <1>6, <1>7, <1>9, <1>10, <1>11, <1>12
<1>14. This.op \notin {"Jmp", "Ret"}
  BY <1>1
<1> QED
  BY <1>1, <1>13, <1>14 DEF L2, M2

(* A jump, taken or not, and the end of a block.                           *)
LEMMA JumpStep ==
  ASSUME AllocInv, stage = "run", RunShape, NEW st, NEW W, NEW E, NEW N,
         RunNotes(st, W, E, N),
         Current(st, Live(pc.b)[pc.k], N[pc.b][pc.k], regs, mem),
         pc.k <= Len(code[pc.b]), IsJump(This)
  PROVE  /\ This.imm \in DOMAIN code
         /\ Current(st, Live(This.imm)[1], N[This.imm][1], regs, mem)
         /\ Current(st, Live(pc.b)[pc.k + 1], N[pc.b][pc.k + 1], regs, mem)
<1> DEFINE b == pc.b
           k == pc.k
           l == Len(code[b])
           t == code[b][k].imm
           P == Room(maxReg(code), spillCount)
<1>1. /\ CodeOK /\ (\A x \in DOMAIN code : Solved(x)) /\ IsProgram(code, DOMAIN orig)
      /\ \A m \in Insts(code) : Shaped(m)
  BY DEF AllocInv, IInv, CodeOK, LiveOK, ShapesOK
<1>2. /\ b \in DOMAIN code /\ DOMAIN code[b] = 1..l /\ l \in Nat /\ k \in 1..l
      /\ This = code[b][k] /\ IsJump(code[b][k])
  BY HereFacts DEF This
<1>3. BlockNote(st, W, P, E, Len(code), b, code[b], N[b])
  BY <1>2 DEF RunNotes
<1>4. NoReg \notin DOMAIN orig
  BY <1>1 DEF CodeOK, NoReg
<1>5. JumpsLast(code[b])
  BY <1>2 DEF RunShape
<1> HIDE DEF b, k, l, P, t
<1>6. \A j \in 1..Len(code[b]) : Shaped(code[b][j])
  BY <1>1, <1>2, InstsHave DEF l
<1>7. t \in Succs(code, b) /\ t \in DOMAIN code
      /\ \A h \in k..l : IsJump(code[b][h]) /\ Defs(code[b][h]) = {}
  BY <1>1, <1>2, <1>4, <1>5, <1>6, JumpFacts DEF t, l
<1>8. \A h \in k..Len(code[b]) : Defs(code[b][h]) = {}
  BY <1>7 DEF l
<1>9. k \in 1..(Len(code[b]) + 1) /\ Len(code[b]) \in Nat
  BY <1>2 DEF l
<1>10. lv.out[b] \subseteq Live(b)[k]
  BY <1>8, <1>9, LiveTail DEF Live
<1>11. BlockNote(st, W, P, E, Len(code), t, code[t], N[t])
  BY <1>7 DEF RunNotes, P
<1>12. N[t][1] \subseteq N[b][k]
  <2>1. E[t] \subseteq N[b][k]
    BY <1>2, <1>3 DEF BlockNote, Linked, t, l
  <2> QED
    BY <1>11, <2>1 DEF BlockNote
<1>13. Live(t)[1] \subseteq Live(b)[k]
  <2>1. lv.in[t] = Live(t)[1]
    BY <1>1, <1>7 DEF Solved, Wanted, Live
  <2>2. lv.in[t] \subseteq lv.out[b]
    BY <1>1, <1>2, <1>7 DEF Solved, Flow
  <2> QED
    BY <1>10, <2>1, <2>2
<1>14. Live(b)[k + 1] \subseteq Live(b)[k]
  <2>1. LiveBefore(code[b], lv.out[b])[k + 1] \ Defs(code[b][k])
          \subseteq LiveBefore(code[b], lv.out[b])[k]
    BY <1>2, LiveStep DEF l
  <2>2. Defs(code[b][k]) = {}
    BY <1>2, <1>7
  <2> QED
    BY <2>1, <2>2 DEF Live
<1>15. N[b][k + 1] \subseteq N[b][k]
  <2>1. Holds(st, W, P, code[b][k], N[b][k], N[b][k + 1])
    BY <1>2, <1>3 DEF BlockNote, Noted, l
  <2>2. k \in k..l
    BY <1>2
  <2>3. Defs(code[b][k]) = {}
    BY <1>7, <2>2
  <2>4. code[b][k].op # "SpillSw"
    BY <1>2 DEF IsJump
  <2>5. Sets(code[b][k]) = {}
    BY <2>3, <2>4 DEF Sets
  <2> QED
    BY <2>1, <2>5 DEF Holds
<1>16. Current(st, Live(b)[k], N[b][k], regs, mem)
  BY DEF b, k
<1>17. Current(st, Live(t)[1], N[t][1], regs, mem)
       /\ Current(st, Live(b)[k + 1], N[b][k + 1], regs, mem)
  BY <1>12, <1>13, <1>14, <1>15, <1>16 DEF Current
<1>18. t = This.imm
  BY <1>2 DEF t
<1> QED
  BY <1>7, <1>17, <1>18 DEF b, k

LEMMA FallStep ==
  ASSUME AllocInv, stage = "run", RunShape, NEW st, NEW W, NEW E, NEW N,
         RunNotes(st, W, E, N),
         Current(st, Live(pc.b)[pc.k], N[pc.b][pc.k], regs, mem),
         pc.k > Len(code[pc.b]), pc.b < Len(code)
  PROVE  /\ pc.b + 1 \in DOMAIN code
         /\ Current(st, Live(pc.b + 1)[1], N[pc.b + 1][1], regs, mem)
<1> DEFINE b == pc.b
           l == Len(code[b])
           t == b + 1
           P == Room(maxReg(code), spillCount)
<1>1. CodeOK /\ \A x \in DOMAIN code : Solved(x)
  BY DEF AllocInv, IInv, LiveOK
<1>2. /\ b \in DOMAIN code /\ b \in 1..Len(code) /\ Len(code) \in Nat
      /\ DOMAIN code = 1..Len(code) /\ l \in Nat /\ pc.k = l + 1 /\ b < Len(code)
  BY HereFacts
<1>3. ~Leaves(code[b])
  BY <1>2 DEF RunShape
<1>4. BlockNote(st, W, P, E, Len(code), b, code[b], N[b])
  BY <1>2 DEF RunNotes
<1>5. Current(st, Live(b)[l + 1], N[b][l + 1], regs, mem)
  BY <1>2
<1> HIDE DEF b, l, P
<1>6. t \in DOMAIN code
  BY <1>2
<1>7. t \in Succs(code, b)
  <2>1. FallsThrough(code, b)
    BY <1>2, <1>3 DEF FallsThrough, Leaves
  <2> QED
    BY <2>1 DEF Succs
<1>8. BlockNote(st, W, P, E, Len(code), t, code[t], N[t])
  BY <1>6 DEF RunNotes, P
<1>9. N[t][1] \subseteq N[b][l + 1]
  <2>1. E[t] \subseteq N[b][l + 1]
    BY <1>2, <1>3, <1>4 DEF BlockNote, Behind, l
  <2> QED
    BY <1>8, <2>1 DEF BlockNote
<1>10. lv.out[b] \subseteq Live(b)[l + 1]
  <2>1. l + 1 \in 1..(Len(code[b]) + 1) /\ Len(code[b]) \in Nat
        /\ \A h \in (l + 1)..Len(code[b]) : Defs(code[b][h]) = {}
    BY <1>2 DEF l
  <2> QED
    BY <2>1, LiveTail DEF Live
<1>11. Live(t)[1] \subseteq lv.out[b]
  <2>1. lv.in[t] = Live(t)[1]
    BY <1>1, <1>6 DEF Solved, Wanted, Live
  <2>2. lv.in[t] \subseteq lv.out[b]
    BY <1>1, <1>2, <1>7 DEF Solved, Flow
  <2> QED
    BY <2>1, <2>2
<1>12. Current(st, Live(t)[1], N[t][1], regs, mem)
  BY <1>5, <1>9, <1>10, <1>11 DEF Current
<1> QED
  BY <1>6, <1>12 DEF b

LEMMA ExecuteValues ==
  ASSUME AllocInv, stage = "run", RunShape, NEW st, NEW W, NEW E, NEW N,
         RunNotes(st, W, E, N),
         Current(st, Live(pc.b)[pc.k], N[pc.b][pc.k], regs, mem), Execute
  PROVE  /\ RunShape'
         /\ Current(st, Live(pc'.b)[pc'.k], N[pc'.b][pc'.k], regs', mem')
<1>1. UNCHANGED <<code, spillCount>>
  BY DEF Execute, allocVars
<1>2. CASE Compute \/ StoreWord \/ Copy \/ CallReturns \/ Spill \/ Reload
  <2>1. /\ Current(st, Live(pc.b)[pc.k + 1], N[pc.b][pc.k + 1], regs', mem')
        /\ pc.k <= Len(code[pc.b]) /\ This.op \notin {"Jmp", "Ret"} /\ GoOn
        /\ DOMAIN mem' = DOMAIN mem
    BY <1>2, StraightStep
  <2>2. RunShape' /\ pc'.b = pc.b /\ pc'.k = pc.k + 1
    BY <1>1, <2>1, GoesOn
  <2> QED
    BY <2>1, <2>2
<1>3. CASE Branch
  <2>1. /\ pc.k <= Len(code[pc.b]) /\ This.op \in {"Br", "Jmp"} /\ IsJump(This)
        /\ UNCHANGED <<regs, mem>>
        /\ \/ pc' = [b |-> This.imm, k |-> 1]
           \/ This.op = "Br" /\ GoOn
    BY <1>3 DEF Branch, AtInst, IsJump
  <2>2. /\ This.imm \in DOMAIN code
        /\ Current(st, Live(This.imm)[1], N[This.imm][1], regs, mem)
        /\ Current(st, Live(pc.b)[pc.k + 1], N[pc.b][pc.k + 1], regs, mem)
    BY <2>1, JumpStep
  <2>3. CASE pc' = [b |-> This.imm, k |-> 1]
    <3>1. RunShape' /\ pc'.b = This.imm /\ pc'.k = 1
      BY <1>1, <2>1, <2>2, <2>3, Enters
    <3> QED
      BY <2>1, <2>2, <3>1
  <2>4. CASE This.op = "Br" /\ GoOn
    <3>1. RunShape' /\ pc'.b = pc.b /\ pc'.k = pc.k + 1
      BY <1>1, <2>1, <2>4, GoesOn
    <3> QED
      BY <2>1, <2>2, <3>1
  <2> QED
    BY <2>1, <2>3, <2>4
<1>4. CASE FallThrough
  <2>1. /\ pc.k > Len(code[pc.b]) /\ pc.b < Len(code)
        /\ pc' = [b |-> pc.b + 1, k |-> 1] /\ UNCHANGED <<regs, mem>>
    BY <1>4 DEF FallThrough
  <2>2. /\ pc.b + 1 \in DOMAIN code
        /\ Current(st, Live(pc.b + 1)[1], N[pc.b + 1][1], regs, mem)
    BY <2>1, FallStep
  <2>3. RunShape' /\ pc'.b = pc.b + 1 /\ pc'.k = 1
    BY <1>1, <2>1, <2>2, Enters
  <2> QED
    BY <2>1, <2>2, <2>3
<1> QED
  BY <1>2, <1>3, <1>4 DEF Execute

LEMMA ExecuteRunValues ==
  ASSUME AllocInv, RunValues, Execute
  PROVE  RunValues'
<1>1. stage = "run" /\ stage' = "run" /\ UNCHANGED <<code, orig, spillCount, lv, color>>
  BY ExecuteFacts DEF Execute, allocVars, colorVars, AllocInv
<1>2. RunShape
  BY <1>1 DEF RunValues
<1>3. PICK st : \E W : \E E : \E N :
            /\ RunNotes(st, W, E, N)
            /\ Current(st, Live(pc.b)[pc.k], N[pc.b][pc.k], regs, mem)
  BY <1>1 DEF RunValues
<1>4. PICK W : \E E : \E N :
            /\ RunNotes(st, W, E, N)
            /\ Current(st, Live(pc.b)[pc.k], N[pc.b][pc.k], regs, mem)
  BY <1>3
<1>5. PICK E : \E N :
            /\ RunNotes(st, W, E, N)
            /\ Current(st, Live(pc.b)[pc.k], N[pc.b][pc.k], regs, mem)
  BY <1>4
<1>6. PICK N : /\ RunNotes(st, W, E, N)
               /\ Current(st, Live(pc.b)[pc.k], N[pc.b][pc.k], regs, mem)
  BY <1>5
<1>7. /\ RunShape'
      /\ Current(st, Live(pc'.b)[pc'.k], N[pc'.b][pc'.k], regs', mem')
  BY <1>1, <1>2, <1>6, ExecuteValues
<1>8. RunNotes(st, W, E, N)'
  BY <1>1, <1>6 DEF RunNotes, Knows
<1>9. Current(st, Live(pc.b)[pc.k], N[pc.b][pc.k], regs, mem)'
  BY <1>1, <1>7 DEF Current, Live
<1> QED
  BY <1>1, <1>7, <1>8, <1>9 DEF RunValues

(* Nothing need be held where the function begins.                         *)
LEMMA BakeRunValues ==
  ASSUME AllocInv, NotesOK, RunValues, Bake
  PROVE  RunValues'
<1>1. /\ stage = "color" /\ stage' = "run" /\ UNCHANGED <<code, orig, spillCount, lv, pc>>
      /\ mem' = [s \in 0..(spillCount - 1) |-> {}]
  BY DEF Bake
<1>2. CodeOK /\ LvTyped /\ Least /\ (\A b \in DOMAIN code : Solved(b)) /\ IInv
  BY <1>1 DEF AllocInv, IInv, LiveOK
<1>3. 1 \in DOMAIN code /\ pc = [b |-> 1, k |-> 1] /\ Len(code[1]) \in Nat
  BY <1>1, <1>2, CodeFacts DEF RunValues
<1>4. PICK st \in [Int -> Int] : \E W \in SUBSET Int :
        \E E \in [DOMAIN code -> SUBSET Int] : Annotates(st, W, E)
  BY <1>1 DEF NotesOK
<1>5. PICK W \in SUBSET Int : \E E \in [DOMAIN code -> SUBSET Int] : Annotates(st, W, E)
  BY <1>4
<1>6. PICK E \in [DOMAIN code -> SUBSET Int] : Annotates(st, W, E)
  BY <1>5
<1> DEFINE P == Room(maxReg(code), spillCount)
<1>7. PICK N : \A b \in DOMAIN code : BlockNote(st, W, P, E, Len(code), b, code[b], N[b])
  <2> DEFINE N == [b \in DOMAIN code |->
                     CHOOSE a : BlockNote(st, W, P, E, Len(code), b, code[b], a)]
  <2>1. \A b \in DOMAIN code : BlockNote(st, W, P, E, Len(code), b, code[b], N[b])
    BY <1>6 DEF Annotates
  <2> QED
    BY <2>1
<1>8. E[1] = {} /\ Knows(st)
  BY <1>6 DEF Annotates
<1>9. N[1][1] = {}
  BY <1>3, <1>7, <1>8 DEF BlockNote
<1>10. lv.in[1] = {}
  <2>1. lv.in[1] \subseteq E[1]
    BY <1>2, <1>3, <1>7, LiveInHeld
  <2> QED
    BY <1>8, <2>1
<1>11. Live(1)[1] = {}
  BY <1>2, <1>3, <1>10 DEF Solved, Wanted, Live
<1>12. RunNotes(st, W, E, N)'
  <2>1. RunNotes(st, W, E, N)
    BY <1>7, <1>8 DEF RunNotes
  <2> QED
    BY <1>1, <2>1 DEF RunNotes, Knows
<1>13. Live(1)' = Live(1)
  BY <1>1 DEF Live
<1>14. Current(st, Live(pc.b)[pc.k], N[pc.b][pc.k], regs, mem)'
  <2>1. pc' = [b |-> 1, k |-> 1]
    BY <1>1, <1>3
  <2>2. Live(pc.b)[pc.k]' = {}
    BY <1>11, <1>13, <2>1
  <2>3. (N[pc.b][pc.k])' = {}
    BY <1>9, <2>1
  <2>4. Current(st, {}, {}, regs, mem)'
    BY DEF Current
  <2> QED
    BY <2>2, <2>3, <2>4
<1>15. RunShape'
  <2>1. \A b \in DOMAIN code' : JumpsLast(code'[b])
    BY <1>1 DEF NotesOK
  <2>2. pc'.b = 1 /\ pc'.k = 1 /\ DOMAIN mem' = 0..(spillCount' - 1)
    BY <1>1, <1>3
  <2>3. 1 \in 1..(Len(code[1]) + 1)
    BY <1>3
  <2>4. 1 = Len(code[1]) + 1 => ~Leaves(code[1])
    <3>1. code[1] \in Seq(Instructions(DOMAIN orig, Len(code)))
      BY <1>2, <1>3, ProgramFacts DEF CodeOK
    <3>2. 1 = Len(code[1]) + 1 => code[1] = <<>>
      BY <1>3, <3>1
    <3> QED
      BY <3>2 DEF Leaves
  <2> QED
    BY <1>1, <2>1, <2>2, <2>3, <2>4 DEF RunShape
<1> QED
  BY <1>1, <1>12, <1>14, <1>15 DEF RunValues

LEMMA RunValuesStep ==
  ASSUME AllocInv, AllNotes, RunValues, [Next]_vars
  PROVE  RunValues'
<1>1. CASE Execute
  BY <1>1, ExecuteRunValues
<1>2. CASE Bake
  BY <1>2, BakeRunValues DEF AllNotes
<1>3. CASE Return
  <2>1. stage' = "stop"
    BY <1>3 DEF Return
  <2> QED
    BY <2>1 DEF RunValues
<1>4. CASE TrimPass \/ TrimEnds \/ VisitBlock \/ NextPass \/ BeginColoring \/ ColorStep
           \/ SpillAndRetry \/ SpillEverything \/ SpillInst \/ SpillNextBlock \/ SpillEnds
  <2>1. /\ UNCHANGED pc /\ stage \notin {"run", "stop"}
        /\ stage' \in {"trim", "live", "color", "spill", "failed"}
    BY <1>4 DEF TrimPass, TrimEnds, VisitBlock, NextPass, BeginColoring, ColorStep,
       SpillAndRetry, SpillEverything, SpillInst, SpillNextBlock, SpillEnds, BeginSpilling,
       allocVars, runVars
  <2> QED
    BY <2>1 DEF RunValues
<1>5. CASE UNCHANGED vars
  <2>1. UNCHANGED <<stage, code, orig, spillCount, lv, color, pc, regs, mem>>
    BY <1>5 DEF vars, allocVars, colorVars, runVars
  <2> QED
    BY <2>1 DEF RunValues, RunShape, RunNotes, Knows, Current, Live
<1> QED
  BY <1>1, <1>2, <1>3, <1>4, <1>5 DEF Next

(* Every operand that an instruction reads is in the register that its     *)
(* colour names, and every value that is reloaded in its slot.             *)
LEMMA ValuesFound ==
  ASSUME AllocInv, RunValues
  PROVE  OperandsRight
<1> SUFFICES ASSUME Running, pc.k <= Len(code[pc.b])
             PROVE  /\ \A r \in Uses(This) : orig[r] \in regs[color[r]]
                    /\ This.op = "SpillLw" => orig[This.dst] \in mem[This.imm]
  BY DEF OperandsRight
<1>1. stage = "run" /\ RunShape /\ IInv
  BY DEF Running, RunValues, AllocInv
<1>2. PICK st : \E W : \E E : \E N :
            /\ RunNotes(st, W, E, N)
            /\ Current(st, Live(pc.b)[pc.k], N[pc.b][pc.k], regs, mem)
  BY <1>1 DEF RunValues
<1>3. PICK W : \E E : \E N :
            /\ RunNotes(st, W, E, N)
            /\ Current(st, Live(pc.b)[pc.k], N[pc.b][pc.k], regs, mem)
  BY <1>2
<1>4. PICK E : \E N :
            /\ RunNotes(st, W, E, N)
            /\ Current(st, Live(pc.b)[pc.k], N[pc.b][pc.k], regs, mem)
  BY <1>3
<1>5. PICK N : /\ RunNotes(st, W, E, N)
               /\ Current(st, Live(pc.b)[pc.k], N[pc.b][pc.k], regs, mem)
  BY <1>4
<1>6. /\ pc.b \in DOMAIN code /\ DOMAIN code[pc.b] = 1..Len(code[pc.b])
      /\ Len(code[pc.b]) \in Nat /\ pc.k \in 1..Len(code[pc.b]) /\ This = code[pc.b][pc.k]
      /\ spillCount \in Nat /\ maxReg(code) \in Nat /\ This \in Insts(code)
  BY <1>1, HereFacts DEF This
<1>7. Uses(This) \subseteq Live(pc.b)[pc.k]
  <2> DEFINE b == pc.b
             k == pc.k
  <2> HIDE DEF b, k
  <2>1. Uses(code[b][k]) \subseteq LiveBefore(code[b], lv.out[b])[k]
    BY <1>6, LiveStep DEF b, k
  <2> QED
    BY <1>6, <2>1 DEF Live, b, k
<1>8. ASSUME This.op = "SpillLw" PROVE orig[This.dst] \in mem[This.imm]
  <2> DEFINE M == N[pc.b][pc.k]
             P == Room(maxReg(code), spillCount)
  <2>1. N[pc.b] \in [1..(Len(code[pc.b]) + 1) -> SUBSET P]
        /\ Holds(st, W, P, This, M, N[pc.b][pc.k + 1])
    BY <1>5, <1>6 DEF RunNotes, BlockNote, Noted
  <2>2. M \subseteq P
    <3>1. pc.k \in 1..(Len(code[pc.b]) + 1)
      BY <1>6
    <3> HIDE DEF P
    <3> QED
      BY <2>1, <3>1
  <2>3. Slot(This.imm) \in M /\ This.imm \in Nat /\ st[This.dst] = st[Slot(This.imm)]
    BY <1>8, <2>1 DEF Holds, Reads
  <2>4. This.imm \in DOMAIN mem
    BY <1>1, <1>6, <2>2, <2>3, SlotFacts DEF RunShape
  <2>5. st[This.dst] = orig[This.dst]
    <3>1. This.dst \in DOMAIN orig
      BY <1>1, <1>6, <1>8, InstsOf DEF IInv, CodeOK, Instructions, Defining
    <3> QED
      BY <1>5, <3>1 DEF RunNotes, Knows
  <2> QED
    BY <1>5, <2>3, <2>4, <2>5 DEF Current
<1> QED
  BY <1>5, <1>7, <1>8 DEF Current

(* For every source function in which no register can be read before it is *)
(* defined and jumps end the blocks, any palettes and any number of spill  *)
(* rounds: the register or slot that an instruction of the allocated code  *)
(* reads holds the current value of the program's register it stands for.  *)
THEOREM OperandsAreFound ==
  ASSUME NEW R \in SUBSET Nat, IsFiniteSet(R), NEW f, IsProgram(f, R), IsSource(f),
         \A b \in DOMAIN f : JumpsLast(f[b]), DefinedFirst(f)
  PROVE  StartWith(f) /\ [][Next]_vars => []OperandsRight
<1>1. StartWith(f) => AllocInv /\ AllNotes /\ RunValues
  <2> SUFFICES ASSUME StartWith(f) PROVE AllocInv /\ AllNotes /\ RunValues
    OBVIOUS
  <2>1. AllocInv
    BY StartAllocInv
  <2>2. NotesOK
    BY StartNotes
  <2>3. stage = "trim" /\ pc = [b |-> 1, k |-> 1]
    BY DEF StartWith
  <2> QED
    BY <2>1, <2>2, <2>3 DEF AllNotes, SpillNotes, DraftOK, RunValues
<1>2. /\ AllocInv /\ AllNotes /\ RunValues /\ [Next]_vars
      => (AllocInv /\ AllNotes /\ RunValues)'
  BY NextAllocInv, NotesStep, RunValuesStep
<1>3. AllocInv /\ RunValues => OperandsRight
  BY ValuesFound
<1> QED
  BY <1>1, <1>2, <1>3, PTL

----------------------------------------------------------------------------
(* The argument of a function of one parameter.                            *)

(* The only Entry is the function's first instruction, and nothing jumps   *)
(* back to it.                                                             *)
EntryAlone(blk, b) ==
  \A k \in 1..Len(blk) : /\ blk[k].op = "Entry" => b = 1 /\ k = 1
                         /\ IsJump(blk[k]) => blk[k].imm # 1

EntryFirst ==
  /\ \A b \in DOMAIN code : EntryAlone(code[b], b)
  /\ stage = "spill" => /\ EntryAlone(sp.out, sp.b)
                        /\ sp.k = 1 => sp.out = <<>>

(* What has not been written before the function begins.                   *)
ArgumentThere ==
  stage \notin {"run", "stop"} \/ (stage = "run" /\ pc.b = 1 /\ pc.k = 1) =>
    \A p \in Phys \cap Range(ArgRegs) : -p \in regs[p]

LEMMA ThinnedEntry ==
  ASSUME NEW S, NEW blk \in Seq(S), NEW K \in SUBSET DOMAIN blk, NEW b, EntryAlone(blk, b),
         NEW new, Len(new) = Cardinality(K),
         \A i \in 1..Cardinality(K) : /\ new[i].op = blk[Order(K)[i]].op
                                      /\ new[i].imm = blk[Order(K)[i]].imm
  PROVE  EntryAlone(new, b)
<1> DEFINE l == Len(blk)
           z == Cardinality(K)
           o == Order(K)
<1>1. l \in Nat /\ K \in SUBSET (1..l) /\ Len(new) = z
  OBVIOUS
<1>2. K \in SUBSET Int /\ IsFiniteSet(K)
  <2> HIDE DEF l
  <2>1. IsFiniteSet(1..l)
    BY <1>1, FS_Interval
  <2> QED
    BY <1>1, <2>1, FS_Subset
<1>3. z \in Nat /\ o \in [1..z -> K] /\ \A i, j \in 1..z : i < j => o[i] < o[j]
  BY <1>2, Ordered, OrderRises
<1>4. \A i \in 1..z : new[i].op = blk[o[i]].op /\ new[i].imm = blk[o[i]].imm
  OBVIOUS
<1>5. \A k \in 1..l : /\ blk[k].op = "Entry" => b = 1 /\ k = 1
                      /\ IsJump(blk[k]) => blk[k].imm # 1
  BY DEF EntryAlone
<1> HIDE DEF l, z, o
<1> SUFFICES ASSUME NEW i \in 1..z
             PROVE  /\ new[i].op = "Entry" => b = 1 /\ i = 1
                    /\ IsJump(new[i]) => new[i].imm # 1
  BY <1>1 DEF EntryAlone
<1>6. o[i] \in 1..l
  BY <1>1, <1>3
<1>7. ASSUME new[i].op = "Entry" PROVE b = 1 /\ i = 1
  <2>1. b = 1 /\ o[i] = 1
    BY <1>4, <1>5, <1>6, <1>7
  <2>2. 1 \in 1..z /\ (i = 1 \/ 1 < i)
    BY <1>3
  <2>3. o[1] \in 1..l
    BY <1>1, <1>3, <2>2
  <2>4. 1 < i => o[1] < o[i]
    BY <1>3, <2>2
  <2> QED
    BY <2>1, <2>2, <2>3, <2>4
<1>8. IsJump(new[i]) => new[i].imm # 1
  BY <1>4, <1>5, <1>6 DEF IsJump
<1> QED
  BY <1>7, <1>8

LEMMA TrimmedEntry ==
  ASSUME CodeOK, TrimPass, NEW b \in DOMAIN code, EntryAlone(code[b], b)
  PROVE  EntryAlone(code'[b], b)
<1> DEFINE blk == code[b]
           S == Instructions(DOMAIN orig, Len(code))
           K == {k \in DOMAIN blk : ~IsDead(blk[k])}
           kept == Picked(blk, K)
           new == code'[b]
<1>1. blk \in Seq(S) /\ K \in SUBSET DOMAIN blk
  BY ProgramFacts DEF CodeOK
<1>2. new = [k \in DOMAIN kept |->
               IF kept[k].op = "Call" /\ kept[k].dst \notin UsedRegs
               THEN [kept[k] EXCEPT !.dst = NoReg] ELSE kept[k]]
  BY DEF TrimPass, Trimmed, TrimBlock, Blocks
<1> HIDE DEF blk, S, K, kept, new
<1>3. /\ kept \in Seq(S) /\ Len(kept) = Cardinality(K) /\ Cardinality(K) \in Nat
      /\ \A i \in 1..Cardinality(K) : kept[i] = blk[Order(K)[i]]
  BY <1>1, PickedAt DEF kept
<1>4. DOMAIN kept = 1..Cardinality(K) /\ \A i \in DOMAIN kept : kept[i] \in S
  BY <1>3
<1>5. Len(new) = Cardinality(K)
  <2> DEFINE T == {new[k] : k \in DOMAIN new}
  <2>1. new \in [DOMAIN kept -> T]
    BY <1>2
  <2> HIDE DEF T
  <2> QED
    BY <1>3, <2>1, Mapped
<1>6. ASSUME NEW i \in 1..Cardinality(K)
      PROVE  new[i].op = blk[Order(K)[i]].op /\ new[i].imm = blk[Order(K)[i]].imm
  <2>1. kept[i] \in S /\ kept[i] = blk[Order(K)[i]]
        /\ (new[i] = kept[i] \/ new[i] = [kept[i] EXCEPT !.dst = NoReg])
    BY <1>2, <1>3, <1>4
  <2> QED
    BY <2>1 DEF S, Instructions
<1>7. EntryAlone(blk, b)
  BY DEF blk
<1>8. EntryAlone(new, b)
  BY <1>1, <1>5, <1>6, <1>7, ThinnedEntry
<1> QED
  BY <1>8 DEF new

LEMMA ErasedEntry ==
  ASSUME IInv, SpillEnds, NEW b \in DOMAIN code, EntryAlone(code[b], b)
  PROVE  EntryAlone(code'[b], b)
<1> DEFINE blk == code[b]
           S == Instructions(DOMAIN orig, Len(code))
           K == {k \in DOMAIN blk : blk[k].dst \notin DOMAIN sp.remat}
           new == code'[b]
<1>1. blk \in Seq(S)
  BY ProgramFacts DEF IInv, CodeOK
<1>2. new = Picked(blk, K) /\ K \in SUBSET DOMAIN blk
  BY DEF SpillEnds, Erased, Blocks
<1> HIDE DEF blk, K, new, S
<1>3. /\ Len(new) = Cardinality(K)
      /\ \A i \in 1..Cardinality(K) : new[i] = blk[Order(K)[i]]
  BY <1>1, <1>2, PickedAt
<1>4. \A i \in 1..Cardinality(K) : /\ new[i].op = blk[Order(K)[i]].op
                                   /\ new[i].imm = blk[Order(K)[i]].imm
  BY <1>3
<1>5. EntryAlone(blk, b)
  BY DEF blk
<1>6. EntryAlone(new, b)
  BY <1>1, <1>2, <1>3, <1>4, <1>5, ThinnedEntry
<1> QED
  BY <1>6 DEF new

(* An Entry reads no register, so that nothing is loaded before it.        *)
LEMMA GroupEntry ==
  ASSUME IInv, ShapesOK, SpillInst, NEW i \in 1..Len(Group)
  PROVE  /\ Group[i].op = "Entry" => i = 1 /\ Old.op = "Entry"
         /\ IsJump(Group[i]) => IsJump(Old) /\ Group[i].imm = Old.imm
<1> DEFINE l == Len(Gone)
           z == Len(Group)
<1>1. /\ z = l + 1 + (IF Stored THEN 1 ELSE 0) /\ z \in Nat /\ l \in Nat
      /\ \A j \in 1..l : Group[j] = Loaded(Gone[j], j)
      /\ Group[l + 1] = Body
      /\ Stored => Group[l + 2] = Inst("SpillSw", NoReg, <<Past>>, sp.slot[Old.dst])
  BY GroupFacts, LoadedOnce
<1>2. \A j \in 1..l : Group[j].op \in {"Li", "SpillLw"}
  BY <1>1, LoadedIsLoad
<1>3. Stored => Group[l + 2].op = "SpillSw"
  BY <1>1 DEF Inst
<1>4. Body.op = Old.op /\ Body.imm = Old.imm
  BY BodyFacts
<1>5. Old.op = "Entry" => l = 0
  <2> SUFFICES ASSUME Old.op = "Entry", l # 0 PROVE FALSE
    OBVIOUS
  <2>1. Old.use = <<>>
    BY InHand DEF ShapesOK, Shaped
  <2>2. Uses(Old) = {}
    BY <2>1 DEF Uses, Range
  <2>3. 1 \in DOMAIN Gone /\ Range(Gone) \subseteq Uses(Old)
    BY <1>1, LoadedOnce
  <2> QED
    BY <2>2, <2>3 DEF Range
<1> HIDE DEF l, z
<1>6. i \in 1..l \/ i = l + 1 \/ (Stored /\ i = l + 2)
  BY <1>1 DEF z
<1> QED
  BY <1>1, <1>2, <1>3, <1>4, <1>5, <1>6 DEF IsJump

LEMMA SpillInstEntry ==
  ASSUME IInv, ShapesOK, EntryFirst, SpillInst
  PROVE  EntryFirst'
<1> DEFINE S == {sp.out[i] : i \in DOMAIN sp.out} \cup Range(Group)
           c == sp.out \o Group
<1>1. /\ sp' = [remat |-> sp.remat, slot |-> sp.slot, b |-> sp.b, k |-> sp.k + 1,
                out |-> c, nreg |-> Total]
      /\ sp.out \in Seq(Instructions(DOMAIN orig, Len(code)))
      /\ UNCHANGED <<stage, code>>
  BY SpillInstEffect
<1>2. /\ stage = "spill" /\ sp.b \in DOMAIN code /\ sp.k \in 1..Len(code[sp.b])
      /\ Len(code[sp.b]) \in Nat /\ Old = code[sp.b][sp.k]
  BY InHand, CodeFacts DEF IInv, Old
<1>3. EntryAlone(sp.out, sp.b) /\ EntryAlone(code[sp.b], sp.b)
      /\ (sp.k = 1 => sp.out = <<>>)
  BY <1>2 DEF EntryFirst
<1>4. /\ Old.op = "Entry" => sp.b = 1 /\ sp.out = <<>>
      /\ IsJump(Old) => Old.imm # 1
  BY <1>2, <1>3 DEF EntryAlone
<1>5. sp.out \in Seq(S) /\ Group \in Seq(S)
  <2>1. Group \in Seq(Range(Group))
    BY GroupFacts
  <2>2. sp.out \in [DOMAIN sp.out -> S] /\ sp.out \in Seq(Instructions(DOMAIN orig, Len(code)))
    BY <1>1
  <2>3. Range(Group) \subseteq S
    OBVIOUS
  <2> HIDE DEF S
  <2>4. sp.out \in Seq(S)
    BY <2>2, Mapped
  <2>5. Group \in Seq(S)
    BY <2>1, <2>3, SeqMonotonic
  <2> QED
    BY <2>4, <2>5
<1> HIDE DEF S
<1>6. /\ Len(c) = Len(sp.out) + Len(Group)
      /\ Len(sp.out) \in Nat /\ Len(Group) \in Nat
      /\ \A i \in 1..Len(sp.out) : c[i] = sp.out[i]
      /\ \A j \in 1..Len(Group) : c[Len(sp.out) + j] = Group[j]
  BY <1>5, Joined
<1> HIDE DEF c
<1>7. ASSUME NEW i \in 1..Len(c)
      PROVE  /\ c[i].op = "Entry" => sp.b = 1 /\ i = 1
             /\ IsJump(c[i]) => c[i].imm # 1
  <2>1. CASE i <= Len(sp.out)
    <3>1. i \in 1..Len(sp.out) /\ c[i] = sp.out[i]
      BY <1>6, <2>1
    <3> QED
      BY <1>3, <3>1 DEF EntryAlone
  <2>2. CASE ~(i <= Len(sp.out))
    <3> DEFINE h == i - Len(sp.out)
    <3>1. h \in 1..Len(Group) /\ i = Len(sp.out) + h
      BY <1>6, <2>2
    <3> HIDE DEF h
    <3>2. c[i] = Group[h]
      BY <1>6, <3>1
    <3>3. /\ Group[h].op = "Entry" => h = 1 /\ Old.op = "Entry"
          /\ IsJump(Group[h]) => IsJump(Old) /\ Group[h].imm = Old.imm
      BY <3>1, GroupEntry
    <3>4. sp.out = <<>> => Len(sp.out) = 0
      OBVIOUS
    <3> QED
      BY <1>4, <3>1, <3>2, <3>3, <3>4
  <2> QED
    BY <2>1, <2>2
<1>8. EntryAlone(c, sp.b)
  BY <1>7 DEF EntryAlone
<1>9. sp'.out = c /\ sp'.b = sp.b /\ sp'.k = sp.k + 1 /\ sp.k + 1 # 1
  BY <1>1, <1>2
<1>10. EntryAlone(sp'.out, sp'.b)
  BY <1>8, <1>9
<1> QED
  BY <1>1, <1>2, <1>9, <1>10 DEF EntryFirst, EntryAlone

LEMMA EntryStep ==
  ASSUME IInv, ShapesOK, EntryFirst, [Next]_vars
  PROVE  EntryFirst'
<1>1. CASE TrimPass
  <2>1. stage' = "trim" /\ DOMAIN code' = DOMAIN code
    BY <1>1 DEF TrimPass, Trimmed, Blocks
  <2>2. \A b \in DOMAIN code : EntryAlone(code'[b], b)
    BY <1>1, TrimmedEntry DEF IInv, EntryFirst
  <2> QED
    BY <2>1, <2>2 DEF EntryFirst, EntryAlone
<1>2. CASE SpillInst
  BY <1>2, SpillInstEntry
<1>3. CASE TrimEnds \/ VisitBlock \/ NextPass \/ BeginColoring \/ ColorStep \/ Bake
           \/ Execute \/ Return \/ UNCHANGED vars
  <2>1. code' = code /\ (stage' = "spill" => stage = "spill" /\ sp' = sp)
    BY <1>3 DEF TrimEnds, VisitBlock, NextPass, BeginColoring, ColorStep, Bake, Execute,
                Return, vars, allocVars
  <2> QED
    BY <2>1 DEF EntryFirst, EntryAlone
<1>4. CASE SpillAndRetry \/ SpillEverything
  <2>1. code' = code /\ sp'.out = <<>>
    BY <1>4 DEF SpillAndRetry, SpillEverything, BeginSpilling
  <2>2. \A b : EntryAlone(<<>>, b)
    BY DEF EntryAlone
  <2>3. EntryAlone(sp'.out, sp'.b)
    BY <2>1, <2>2
  <2> QED
    BY <2>1, <2>3 DEF EntryFirst, EntryAlone
<1>5. CASE SpillNextBlock
  <2>1. /\ stage = "spill" /\ code' = [code EXCEPT ![sp.b] = sp.out]
        /\ sp' = [sp EXCEPT !.b = @ + 1, !.k = 1, !.out = <<>>]
    BY <1>5 DEF SpillNextBlock
  <2>2. sp'.out = <<>>
    BY <2>1 DEF IInv, SpillOK
  <2>3. DOMAIN code' = DOMAIN code
        /\ \A b \in DOMAIN code : code'[b] = IF b = sp.b THEN sp.out ELSE code[b]
    BY <2>1
  <2>4. \A b \in DOMAIN code : EntryAlone(code'[b], b)
    <3> SUFFICES ASSUME NEW b \in DOMAIN code PROVE EntryAlone(code'[b], b)
      OBVIOUS
    <3>1. EntryAlone(sp.out, sp.b) /\ EntryAlone(code[b], b)
      BY <2>1 DEF EntryFirst
    <3>2. CASE b = sp.b
      BY <2>3, <3>1, <3>2
    <3>3. CASE b # sp.b
      BY <2>3, <3>1, <3>3
    <3> QED
      BY <3>2, <3>3
  <2>5. \A b : EntryAlone(<<>>, b)
    BY DEF EntryAlone
  <2>6. EntryAlone(sp'.out, sp'.b)
    BY <2>2, <2>5
  <2> QED
    BY <2>2, <2>3, <2>4, <2>6 DEF EntryFirst, EntryAlone
<1>6. CASE SpillEnds
  <2>1. stage' # "spill" /\ DOMAIN code' = DOMAIN code
    BY <1>6 DEF SpillEnds, Blocks
  <2>2. \A b \in DOMAIN code : EntryAlone(code'[b], b)
    BY <1>6, ErasedEntry DEF EntryFirst
  <2> QED
    BY <2>1, <2>2 DEF EntryFirst, EntryAlone
<1> QED
  BY <1>1, <1>2, <1>3, <1>4, <1>5, <1>6 DEF Next

(* The first instruction is executed once, and first.                      *)
LEMMA ArgumentStep ==
  ASSUME AllocInv, RunValues, EntryFirst, ArgumentThere, [Next]_vars
  PROVE  ArgumentThere'
<1>1. CASE Execute
  <2>1. stage = "run" /\ stage' = "run" /\ IInv
    BY <1>1, ExecuteFacts DEF Execute, allocVars, AllocInv
  <2>2. /\ pc = [b |-> pc.b, k |-> pc.k] /\ pc.b \in 1..Len(code) /\ Len(code) \in Nat
        /\ pc.b \in DOMAIN code
        /\ pc.k \in 1..(Len(code[pc.b]) + 1) /\ Len(code[pc.b]) \in Nat
    BY <2>1, HereFacts DEF RunValues
  <2>3. CASE GoOn
    <3>1. pc'.k = pc.k + 1
      BY <2>2, <2>3 DEF GoOn
    <3>2. pc'.k # 1
      <4> DEFINE k == pc.k
                 l == Len(code[pc.b])
      <4>1. k \in 1..(l + 1)
        BY <2>2
      <4> HIDE DEF k, l
      <4>2. k + 1 # 1
        BY <4>1
      <4> QED
        BY <3>1, <4>2 DEF k
    <3> QED
      BY <2>1, <3>2 DEF ArgumentThere
  <2>4. CASE Branch /\ pc' = [b |-> This.imm, k |-> 1]
    <3>1. pc.k <= Len(code[pc.b]) /\ IsJump(This)
      BY <2>4 DEF Branch, AtInst, IsJump
    <3>2. pc.k \in 1..Len(code[pc.b])
      BY <2>2, <3>1
    <3>3. EntryAlone(code[pc.b], pc.b)
      BY <2>2 DEF EntryFirst
    <3>4. This.imm # 1
      BY <3>1, <3>2, <3>3 DEF EntryAlone, This
    <3> QED
      BY <2>1, <2>4, <3>4 DEF ArgumentThere
  <2>5. CASE FallThrough
    <3>1. pc'.b = pc.b + 1
      BY <2>5 DEF FallThrough
    <3>2. pc'.b # 1
      BY <2>2, <3>1
    <3> QED
      BY <2>1, <3>2 DEF ArgumentThere
  <2> QED
    BY <1>1, <2>3, <2>4, <2>5 DEF Execute, Compute, StoreWord, Copy, CallReturns, Spill,
       Reload, Branch
<1>2. CASE Return
  BY <1>2 DEF Return, ArgumentThere
<1>3. CASE Bake \/ TrimPass \/ TrimEnds \/ VisitBlock \/ NextPass \/ BeginColoring
           \/ ColorStep \/ SpillAndRetry \/ SpillEverything \/ SpillInst \/ SpillNextBlock
           \/ SpillEnds
  <2>1. UNCHANGED regs /\ stage \notin {"run", "stop"}
    BY <1>3 DEF Bake, TrimPass, TrimEnds, VisitBlock, NextPass, BeginColoring, ColorStep,
       SpillAndRetry, SpillEverything, SpillInst, SpillNextBlock, SpillEnds, runVars
  <2> QED
    BY <2>1 DEF ArgumentThere
<1>4. CASE UNCHANGED vars
  BY <1>4 DEF ArgumentThere, vars, allocVars, runVars
<1> QED
  BY <1>1, <1>2, <1>3, <1>4 DEF Next

(* Of a function that takes at most one argument in a register, and reads  *)
(* it first, every instruction of the allocated code finds all it reads.   *)
(* (With more of them a reload may come between two Entry instructions and *)
(* take the register that the second one has to read.)                     *)
THEOREM OneArgumentIsRead ==
  ASSUME NEW R \in SUBSET Nat, IsFiniteSet(R), NEW f, IsProgram(f, R), IsSource(f),
         \A b \in DOMAIN f : JumpsLast(f[b]), DefinedFirst(f),
         \A b \in DOMAIN f : EntryAlone(f[b], b), Range(ArgRegs) \subseteq Phys
  PROVE  StartWith(f) /\ [][Next]_vars => []ReadsRight
<1> DEFINE Inv == AllocInv /\ AllNotes /\ RunValues /\ EntryFirst /\ ArgumentThere
<1>1. StartWith(f) => Inv
  <2> SUFFICES ASSUME StartWith(f) PROVE Inv
    OBVIOUS
  <2>1. AllocInv
    BY StartAllocInv
  <2>2. NotesOK
    BY StartNotes
  <2>3. /\ stage = "trim" /\ pc = [b |-> 1, k |-> 1] /\ code = f
        /\ regs = [p \in Phys |-> IF p \in Range(ArgRegs) \cup Range(CalleePhys)
                                  THEN {-p} ELSE {}]
    BY DEF StartWith
  <2>4. EntryFirst /\ ArgumentThere
    BY <2>3 DEF EntryFirst, ArgumentThere
  <2> QED
    BY <2>1, <2>2, <2>3, <2>4 DEF AllNotes, SpillNotes, DraftOK, RunValues
<1>2. Inv /\ [Next]_vars => Inv'
  <2> SUFFICES ASSUME Inv, [Next]_vars PROVE Inv'
    OBVIOUS
  <2>1. AllocInv /\ AllNotes /\ RunValues /\ EntryFirst /\ ArgumentThere
    OBVIOUS
  <2>2. AllocInv' /\ AllNotes' /\ RunValues'
    BY <2>1, NextAllocInv, NotesStep, RunValuesStep
  <2>3. EntryFirst'
    BY <2>1, EntryStep DEF AllocInv
  <2>4. ArgumentThere'
    BY <2>1, ArgumentStep
  <2> QED
    BY <2>2, <2>3, <2>4
<1>3. Inv => ReadsRight
  <2> SUFFICES ASSUME Inv, AtInst({"Entry"}) PROVE -(This.imm) \in regs[This.imm]
    BY ValuesFound DEF ReadsRight
  <2>1. /\ stage = "run" /\ pc.k <= Len(code[pc.b]) /\ This.op = "Entry"
    BY DEF AtInst, Running
  <2>2. /\ pc.b \in DOMAIN code /\ pc.k \in 1..(Len(code[pc.b]) + 1)
        /\ Len(code[pc.b]) \in Nat /\ This \in Insts(code)
    BY <2>1, HereFacts DEF RunValues
  <2>3. pc.k \in 1..Len(code[pc.b])
    BY <2>1, <2>2
  <2>4. pc.b = 1 /\ pc.k = 1
    BY <2>1, <2>2, <2>3 DEF EntryFirst, EntryAlone, This
  <2>5. This.imm \in Phys \cap Range(ArgRegs)
    BY <2>1, <2>2 DEF AllocInv, ShapesOK, Shaped
  <2> QED
    BY <2>1, <2>4, <2>5 DEF ArgumentThere
<1> HIDE DEF Inv
<1> QED
  BY <1>1, <1>2, <1>3, PTL
=============================================================================
