-------------------------- MODULE ColorFileProofs --------------------------
(***************************************************************************)
(* Proofs about ColorFile for every graph, palette and hint table: the     *)
(* colouring is proper, and a node removed by the degree test is never     *)
(* left without a register.                                                *)
(***************************************************************************)
EXTENDS ColorFile, FiniteSetTheorems, SequenceTheorems, TLAPS

(* Neighbours of the k-th removed node that were removed after it: the     *)
(* only ones that can be coloured when select reaches it.                  *)
Later(k) == {j \in in.adj[stack[k]] : \A m \in 1..k : j # stack[m]}

(* A node removed by the degree test keeps more usable registers than it   *)
(* has later neighbours.                                                   *)
Roomy ==
  \A k \in 1..Len(stack) :
    stack[k] \notin cand => Cardinality(Later(k)) < Kof(stack[k])

(* Only popped nodes are coloured, and an uncoloured popped node is a      *)
(* spill candidate.                                                        *)
PoppedOrStacked ==
  /\ \A i \in in.nodes : i \in Range(stack) => color[i] = NoReg
  /\ phase = "simplify" => \A i \in in.nodes : color[i] = NoReg
  /\ phase # "simplify" =>
       \A i \in in.nodes : color[i] = NoReg => i \in cand \cup Range(stack)
  /\ phase = "done" => stack = <<>>
  /\ \A k, m \in 1..Len(stack) : stack[k] = stack[m] => k = m

(* The graph and the machinery of the two loops; what costs and hints are  *)
(* does not matter.                                                        *)
Shape ==
  /\ IsGraph(in)
  /\ phase \in {"simplify", "select", "done"}
  /\ stack \in Seq(in.nodes)
  /\ cand \in SUBSET in.nodes
  /\ color \in [in.nodes -> Phys \cup {NoReg}]

(* A node with fewer neighbours than usable registers, which passes the    *)
(* degree test as long as it is there, is never made a spill candidate.    *)
Easy(i) == Cardinality(in.adj[i]) < Kof(i)

EasyRemoved == \A i \in in.nodes : Easy(i) => i \notin cand

Working == Shape /\ ProperColoring /\ PoppedOrStacked /\ Roomy /\ EasyRemoved

IInv == WellFormed(in) /\ Working

----------------------------------------------------------------------------
(* A set covered by the image of a finite set is no larger than that set.  *)
LEMMA ImageBound ==
  ASSUME NEW S, IsFiniteSet(S), NEW f, NEW A,
         A \subseteq {f[x] : x \in S}
  PROVE  /\ IsFiniteSet(A)
         /\ Cardinality(A) \in Nat /\ Cardinality(S) \in Nat
         /\ Cardinality(A) <= Cardinality(S)
<1> DEFINE T == {f[x] : x \in S}
           g == [x \in S |-> f[x]]
<1>1. g \in Surjection(S, T)
  BY DEF Surjection
<1>2. IsFiniteSet(T) /\ Cardinality(T) <= Cardinality(S)
  BY <1>1, FS_Surjection
<1>3. IsFiniteSet(A) /\ Cardinality(A) <= Cardinality(T)
  BY <1>2, FS_Subset
<1> QED
  BY <1>2, <1>3, FS_CardinalityType

(* Facts about the palettes that the provers need often.                   *)
LEMMA PaletteType ==
  ASSUME NEW i
  PROVE  /\ Range(Palette(i)) \subseteq Phys
         /\ Phys \subseteq Nat
         /\ NoReg \notin Phys
  BY PaletteAssumption DEF Palette, Phys, Range, NoReg

(* Pushing and popping.                                                    *)
LEMMA PushFacts ==
  ASSUME NEW S, NEW s \in Seq(S), NEW x \in S
  PROVE  /\ Append(s, x) \in Seq(S)
         /\ Len(Append(s, x)) = Len(s) + 1
         /\ \A k \in 1..Len(s) : Append(s, x)[k] = s[k]
         /\ Append(s, x)[Len(s) + 1] = x
         /\ Range(Append(s, x)) = Range(s) \cup {x}
<1>1. /\ Append(s, x) \in Seq(S)
      /\ Len(Append(s, x)) = Len(s) + 1
      /\ \A k \in 1..Len(s) : Append(s, x)[k] = s[k]
      /\ Append(s, x)[Len(s) + 1] = x
  OBVIOUS
<1>2. DOMAIN Append(s, x) = 1..(Len(s) + 1) /\ DOMAIN s = 1..Len(s)
      /\ Len(s) \in Nat
  BY <1>1
<1>3. Range(Append(s, x)) = Range(s) \cup {x}
  BY <1>1, <1>2 DEF Range
<1> QED
  BY <1>1, <1>3

Tip(s) == SubSeq(s, 1, Len(s) - 1)

LEMMA PopFacts ==
  ASSUME NEW S, NEW s \in Seq(S), s # <<>>,
         \A k, m \in 1..Len(s) : s[k] = s[m] => k = m
  PROVE  /\ Len(s) \in Nat \ {0} /\ s[Len(s)] \in S
         /\ Tip(s) \in Seq(S) /\ Len(Tip(s)) = Len(s) - 1
         /\ \A k \in 1..(Len(s) - 1) : Tip(s)[k] = s[k]
         /\ Range(Tip(s)) = Range(s) \ {s[Len(s)]}
<1> DEFINE n == Len(s)
           t == Tip(s)
<1>1. n \in Nat \ {0} /\ n - 1 \in Nat /\ s[n] \in S
  OBVIOUS
<1>2. \A k \in 1..(n - 1) : s[k] \in S
  BY <1>1
<1>3. /\ t \in Seq(S)
      /\ Len(t) = IF 1 <= n - 1 THEN (n - 1) - 1 + 1 ELSE 0
      /\ \A k \in 1..((n - 1) - 1 + 1) : t[k] = s[1 + k - 1]
  BY <1>1, <1>2, SubSeqProperties DEF Tip
<1>4. Len(t) = n - 1
  <2> HIDE DEF n
  <2>1. CASE n = 1
    BY <2>1, <1>3
  <2>2. CASE n # 1
    BY <2>2, <1>1, <1>3
  <2> QED
    BY <2>1, <2>2
<1>5. \A k \in 1..(n - 1) : t[k] = s[k]
  BY <1>1, <1>3
<1>6. DOMAIN t = 1..(n - 1) /\ DOMAIN s = 1..n
  BY <1>3, <1>4
<1>7. 1..n = (1..(n - 1)) \cup {n} /\ n \notin 1..(n - 1)
  BY <1>1
<1>8. Range(t) = Range(s) \ {s[n]}
  <2>1. ASSUME NEW x \in Range(t)
        PROVE  x \in Range(s) /\ x # s[n]
    <3>1. PICK k \in 1..(n - 1) : x = t[k]
      BY <1>6 DEF Range
    <3>2. k \in 1..n /\ n \in 1..n /\ k # n
      BY <1>1, <1>7
    <3> QED
      BY <1>5, <1>6, <3>1, <3>2 DEF Range
  <2>2. ASSUME NEW x \in Range(s), x # s[n]
        PROVE  x \in Range(t)
    <3>1. PICK k \in 1..n : x = s[k]
      BY <1>6 DEF Range
    <3>2. k \in 1..(n - 1)
      BY <1>7, <2>2, <3>1
    <3> QED
      BY <1>5, <1>6, <3>1, <3>2 DEF Range
  <2> QED
    BY <2>1, <2>2
<1> QED
  BY <1>1, <1>3, <1>4, <1>5, <1>8

(* No action changes the arguments, so the register counts stay the same.  *)
LEMMA KofStable ==
  ASSUME in' = in
  PROVE  /\ \A i : Palette(i)' = Palette(i)
         /\ \A i : Kof(i)' = Kof(i)
  BY DEF Kof, Palette

(* Nodes below the top of the stack see the same later neighbours whatever *)
(* is pushed or popped above them.                                         *)
LEMMA LaterStable ==
  ASSUME in' = in, NEW k \in Nat,
         \A m \in 1..k : stack'[m] = stack[m], k >= 1
  PROVE  Later(k)' = Later(k)
<1>1. stack'[k] = stack[k]
  OBVIOUS
<1> QED
  BY <1>1 DEF Later

----------------------------------------------------------------------------
(* Removing a node that passes the degree test, or as a candidate.         *)
LEMMA PushPreserves ==
  ASSUME Working, phase = "simplify", NEW i \in Left, Push(i),
         UNCHANGED <<in, phase, color>>,
         cand' = cand \/ cand' = cand \cup {i},
         i \notin cand' => degree(i) < Kof(i),
         i \in cand' => ~Easy(i)
  PROVE  Working'
<1> DEFINE n == Len(stack)
<1> USE DEF Working
<1>1. i \in in.nodes /\ i \notin Range(stack)
  BY DEF Left, Removed
<1>2. stack \in Seq(in.nodes) /\ n \in Nat
  BY DEF Shape
<1>3. /\ stack' \in Seq(in.nodes) /\ Len(stack') = n + 1
      /\ \A k \in 1..n : stack'[k] = stack[k]
      /\ stack'[n + 1] = i
      /\ Range(stack') = Range(stack) \cup {i}
  BY <1>1, <1>2, PushFacts DEF Push
<1>4. Shape'
  BY <1>1, <1>3 DEF Shape
<1>5. ProperColoring'
  BY KofStable DEF ProperColoring
<1>6. PoppedOrStacked'
  <2>1. \A j \in in.nodes : color[j] = NoReg
    BY DEF PoppedOrStacked
  <2>2. \A k \in 1..n : stack[k] # i
    BY <1>1, <1>2 DEF Range
  <2>3. ASSUME NEW k \in 1..(n + 1), NEW m \in 1..(n + 1),
               stack'[k] = stack'[m]
        PROVE  k = m
    <3>1. CASE k = n + 1 /\ m = n + 1
      BY <3>1
    <3>2. CASE k \in 1..n /\ m \in 1..n
      BY <3>2, <2>3, <1>3 DEF PoppedOrStacked
    <3>3. CASE k \in 1..n /\ m = n + 1
      BY <3>3, <2>2, <2>3, <1>3
    <3>4. CASE k = n + 1 /\ m \in 1..n
      BY <3>4, <2>2, <2>3, <1>3
    <3> QED
      BY <3>1, <3>2, <3>3, <3>4, <1>2
  <2> QED
    BY <2>1, <2>3, <1>3 DEF PoppedOrStacked
<1>7. Roomy'
  <2> SUFFICES ASSUME NEW k \in 1..(n + 1), stack'[k] \notin cand'
               PROVE  Cardinality(Later(k)') < Kof(stack'[k])
    BY <1>3, KofStable DEF Roomy
  <2>1. CASE k \in 1..n
    <3>1. k \in Nat /\ k >= 1 /\ \A m \in 1..k : m \in 1..n
      BY <2>1, <1>2
    <3>2. Later(k)' = Later(k)
      BY <3>1, <1>3, LaterStable
    <3> QED
      BY <2>1, <3>2, <1>3 DEF Roomy
  <2>2. CASE k = n + 1
    <3>1. stack'[k] = i /\ i \notin cand'
      BY <2>2, <1>3
    <3>2. DOMAIN stack' = 1..(n + 1)
      BY <1>3
    <3>3. Later(k)' = {j \in in.adj[i] : j \notin Range(stack')}
      BY <2>2, <3>1, <3>2 DEF Later, Range
    <3>4. in.adj[i] \subseteq in.nodes
      BY <1>1 DEF Shape, IsGraph
    <3>5. Later(k)' = {j \in Left : j # i /\ j \in in.adj[i]}
      BY <3>3, <3>4, <1>3 DEF Left, Removed
    <3> QED
      BY <3>1, <3>5 DEF degree
  <2> QED
    BY <2>1, <2>2, <1>2
<1>8. EasyRemoved'
  BY KofStable DEF EasyRemoved, Easy
<1> QED
  BY <1>4, <1>5, <1>6, <1>7, <1>8

(* A popped node that was removed by the degree test has a legal colour:   *)
(* its coloured neighbours were all removed after it.                      *)
LEMMA DegreeTestSuffices ==
  ASSUME Working, phase = "select", stack # <<>>,
         stack[Len(stack)] \notin cand
  PROVE  Legal(stack[Len(stack)]) # {}
<1> DEFINE n == Len(stack)
           i == stack[n]
           avail == Range(Palette(i)) \ in.forbid[i]
<1> USE DEF Working
<1>1. stack \in Seq(in.nodes) /\ n \in Nat /\ n \in 1..n /\ i \in in.nodes
  BY DEF Shape
<1>2. DOMAIN stack = 1..n
  BY <1>1
<1>3. in.adj[i] \subseteq in.nodes /\ IsFiniteSet(in.nodes)
  BY <1>1 DEF Shape, IsGraph
<1>4. IsFiniteSet(Later(n))
  BY <1>3, FS_Subset DEF Later
<1>5. Cardinality(Later(n)) < Cardinality(avail)
  BY <1>1 DEF Roomy, Kof
<1>6. \A j \in in.adj[i] : color[j] # NoReg => j \in Later(n)
  BY <1>1, <1>2, <1>3 DEF PoppedOrStacked, Later, Range
<1>7. SUFFICES ASSUME Legal(i) = {} PROVE FALSE
  OBVIOUS
<1>8. avail \subseteq {color[j] : j \in Later(n)}
  BY <1>6, <1>7 DEF Legal, Used
<1>9. /\ Cardinality(avail) \in Nat /\ Cardinality(Later(n)) \in Nat
      /\ Cardinality(avail) <= Cardinality(Later(n))
  BY <1>4, <1>8, ImageBound
<1> HIDE DEF avail, n
<1> QED
  BY <1>5, <1>9

(* Popping a node, coloured or left in memory.                             *)
LEMMA PopPreserves ==
  ASSUME Working, phase = "select", stack # <<>>, Pop,
         UNCHANGED <<in, phase, cand>>,
         NEW c \in Phys \cup {NoReg},
         color' = [color EXCEPT ![stack[Len(stack)]] = c],
         c = NoReg => stack[Len(stack)] \in cand,
         c # NoReg => c \in Legal(stack[Len(stack)])
  PROVE  Working'
<1> DEFINE n == Len(stack)
           i == stack[n]
<1> USE DEF Working
<1>1. stack \in Seq(in.nodes) /\ color \in [in.nodes -> Phys \cup {NoReg}]
  BY DEF Shape
<1>2. \A k, m \in 1..n : stack[k] = stack[m] => k = m
  BY DEF PoppedOrStacked
<1>3. /\ n \in Nat \ {0} /\ i \in in.nodes
      /\ stack' \in Seq(in.nodes) /\ Len(stack') = n - 1
      /\ \A k \in 1..(n - 1) : stack'[k] = stack[k]
      /\ Range(stack') = Range(stack) \ {i}
  <2>1. stack' = Tip(stack)
    BY DEF Pop, Tip
  <2> QED
    BY <1>1, <1>2, <2>1, PopFacts
<1> HIDE DEF n
<1>4. color' \in [in.nodes -> Phys \cup {NoReg}] /\ color'[i] = c
      /\ \A j \in in.nodes \ {i} : color'[j] = color[j]
  BY <1>1, <1>3 DEF n
<1>5. Shape'
  BY <1>3, <1>4 DEF Shape
<1>6. ProperColoring'
  <2> SUFFICES ASSUME NEW j \in in.nodes, color'[j] # NoReg
               PROVE  /\ color'[j] \in Range(Palette(j)) \ in.forbid[j]
                      /\ \A h \in in.adj[j] : color'[h] # color'[j]
    BY KofStable DEF ProperColoring
  <2>0. /\ \A h \in in.adj[j] : h \in in.nodes /\ h # j /\ j \in in.adj[h]
        /\ \A h \in in.adj[i] : h \in in.nodes /\ h # i
    BY <1>3 DEF Shape, IsGraph
  <2>1. CASE j = i
    <3>1. c \in Legal(i)
      BY <1>4, <2>1 DEF n
    <3> QED
      BY <3>1, <1>4, <2>0, <2>1 DEF Legal, Used
  <2>2. CASE j # i
    <3>1. color'[j] = color[j]
      BY <2>2, <1>4
    <3>2. /\ color[j] \in Range(Palette(j)) \ in.forbid[j]
          /\ \A h \in in.adj[j] : color[h] # color[j]
      BY <3>1 DEF ProperColoring
    <3>3. ASSUME NEW h \in in.adj[j]
          PROVE  color'[h] # color[j]
      <4>1. CASE h # i
        BY <4>1, <2>0, <3>2, <1>4
      <4>2. CASE h = i /\ c = NoReg
        BY <4>2, <3>1, <1>4
      <4>3. CASE h = i /\ c # NoReg
        <5>1. j \in in.adj[i] /\ c \in Legal(i)
          BY <4>3, <2>0 DEF n
        <5>2. color[j] \in Used(i)
          BY <5>1, <3>1 DEF Used
        <5> QED
          BY <5>1, <5>2, <4>3, <1>4 DEF Legal
      <4> QED
        BY <4>1, <4>2, <4>3
    <3> QED
      BY <3>1, <3>2, <3>3
  <2> QED
    BY <2>1, <2>2
<1>7. PoppedOrStacked'
  <2>1. \A j \in in.nodes : j \in Range(stack') => color'[j] = NoReg
    BY <1>3, <1>4 DEF PoppedOrStacked
  <2>2. \A j \in in.nodes :
          color'[j] = NoReg => j \in cand \cup Range(stack')
    BY <1>3, <1>4 DEF PoppedOrStacked, n
  <2>3. \A k, m \in 1..(n - 1) : stack'[k] = stack'[m] => k = m
    <3>1. \A k \in 1..(n - 1) : k \in 1..n
      BY <1>3
    <3> QED
      BY <3>1, <1>2, <1>3 DEF n
  <2> QED
    BY <2>1, <2>2, <2>3, <1>3 DEF PoppedOrStacked
<1>8. Roomy'
  <2> SUFFICES ASSUME NEW k \in 1..(n - 1), stack'[k] \notin cand
               PROVE  Cardinality(Later(k)') < Kof(stack'[k])
    BY <1>3, KofStable DEF Roomy
  <2>1. k \in Nat /\ k >= 1 /\ k \in 1..n
        /\ \A m \in 1..k : m \in 1..(n - 1)
    BY <1>3
  <2>2. Later(k)' = Later(k)
    BY <2>1, <1>3, LaterStable
  <2> QED
    BY <2>1, <2>2, <1>3 DEF Roomy, n
<1>9. EasyRemoved'
  BY KofStable DEF EasyRemoved, Easy
<1> QED
  BY <1>5, <1>6, <1>7, <1>8, <1>9

(* The palette of a node is finite.                                        *)
LEMMA KofType ==
  ASSUME NEW i PROVE Kof(i) \in Nat
<1> DEFINE p == Palette(i)
           n == Len(p)
           S == Range(p) \ in.forbid[i]
<1>1. p \in Seq(Nat)
  BY PaletteAssumption DEF Palette
<1> HIDE DEF p
<1>2. n \in Nat /\ DOMAIN p = 1..n
  BY <1>1
<1>3. S \subseteq {p[k] : k \in 1..n}
  BY <1>2 DEF Range
<1> HIDE DEF n, S
<1>4. IsFiniteSet(1..n)
  BY <1>2, FS_Interval
<1>5. Cardinality(S) \in Nat
  BY <1>3, <1>4, ImageBound
<1> QED
  BY <1>5 DEF Kof, S, p

LEMMA EasyPasses ==
  ASSUME Shape, NEW i \in Left, Easy(i) PROVE i \in Simplifiable
<1> DEFINE A == in.adj[i]
           B == {j \in Left : j # i /\ j \in A}
<1>1. i \in in.nodes /\ IsFiniteSet(in.nodes) /\ A \subseteq in.nodes
  BY DEF Shape, IsGraph, Left
<1>2. IsFiniteSet(A)
  BY <1>1, FS_Subset
<1>3. B \subseteq A
  OBVIOUS
<1>4. Cardinality(B) <= Cardinality(A) /\ Cardinality(B) \in Nat /\ Cardinality(A) \in Nat
  BY <1>2, <1>3, FS_Subset, FS_CardinalityType
<1>5. Cardinality(A) < Kof(i) /\ Kof(i) \in Nat
  BY KofType DEF Easy
<1>6. degree(i) = Cardinality(B)
  BY DEF degree
<1> HIDE DEF A, B
<1>7. degree(i) < Kof(i)
  BY <1>4, <1>5, <1>6
<1> QED
  BY <1>7 DEF Simplifiable

LEMMA StartWorking ==
  ASSUME NEW x, IsGraph(x), StartWith(x) PROVE Working
<1>1. IsGraph(in) /\ in.nodes = x.nodes
  BY DEF StartWith
<1>2. stack = <<>> /\ stack \in Seq(in.nodes) /\ Len(stack) = 0
      /\ Range(stack) = {}
  BY DEF StartWith, Range
<1>3. Shape
  BY <1>1, <1>2 DEF Shape, StartWith
<1>4. \A i \in in.nodes : color[i] = NoReg
  BY <1>1 DEF StartWith
<1>5. PoppedOrStacked /\ EasyRemoved
  BY <1>2, <1>4 DEF PoppedOrStacked, EasyRemoved, StartWith
<1> QED
  BY <1>2, <1>3, <1>4, <1>5 DEF Working, ProperColoring, Roomy

LEMMA NextWorking == Working /\ [Next]_vars => Working'
<1> SUFFICES ASSUME Working, [Next]_vars PROVE Working'
  OBVIOUS
<1>1. CASE Simplify
  <2>1. PICK i \in Simplifiable : Push(i)
    BY <1>1 DEF Simplify
  <2>2. i \in Left /\ (i \in cand => ~Easy(i))
    BY DEF Simplifiable, Left, Working, EasyRemoved
  <2> QED
    BY <1>1, <2>1, <2>2, PushPreserves DEF Simplify, Simplifiable
<1>2. CASE SpillCandidate
  <2>1. PICK i \in Left : cand' = cand \cup {i} /\ Push(i)
    BY <1>2 DEF SpillCandidate
  <2>2. ~Easy(i)
    BY <1>2, EasyPasses DEF SpillCandidate, Working
  <2> QED
    BY <1>2, <2>1, <2>2, PushPreserves DEF SpillCandidate
<1>3. CASE EndSimplify
  <2>1. \A i \in in.nodes : i \in Range(stack)
    BY <1>3 DEF EndSimplify, Left, Removed
  <2>2. /\ Shape' /\ ProperColoring' /\ Roomy' /\ EasyRemoved'
    BY <1>3, KofStable
    DEF EndSimplify, Working, Shape, ProperColoring, Roomy, Later, EasyRemoved, Easy
  <2> QED
    BY <1>3, <2>1, <2>2 DEF EndSimplify, Working, PoppedOrStacked
<1>4. CASE Select
  <2>1. PICK c \in Legal(stack[Len(stack)]) :
          AssignColor(stack[Len(stack)], c)
    BY <1>4 DEF Select
  <2>2. c \in Phys /\ c # NoReg
    BY <2>1, PaletteType DEF Legal
  <2> QED
    BY <1>4, <2>1, <2>2, PopPreserves DEF Select, AssignColor
<1>5. CASE SelectFails
  <2> DEFINE i == stack[Len(stack)]
  <2>1. i \in cand
    BY <1>5, DegreeTestSuffices DEF SelectFails
  <2>2. stack \in Seq(in.nodes) /\ Len(stack) \in 1..Len(stack)
        /\ i \in in.nodes /\ i \in Range(stack)
    BY <1>5 DEF Working, Shape, SelectFails, Range
  <2>3. color[i] = NoReg
    BY <2>2 DEF Working, PoppedOrStacked
  <2>4. color' = [color EXCEPT ![i] = NoReg]
    BY <1>5, <2>2, <2>3 DEF SelectFails, Working, Shape
  <2> QED
    BY <1>5, <2>1, <2>4, PopPreserves DEF SelectFails
<1>6. CASE EndSelect
  <2>1. /\ Shape' /\ ProperColoring' /\ Roomy' /\ EasyRemoved'
    BY <1>6, KofStable
    DEF EndSelect, Working, Shape, ProperColoring, Roomy, Later, EasyRemoved, Easy
  <2> QED
    BY <1>6, <2>1 DEF EndSelect, Working, PoppedOrStacked
<1>7. CASE UNCHANGED vars
  BY <1>7, KofStable
  DEF vars, Working, Shape, ProperColoring, PoppedOrStacked, Roomy, Later,
      EasyRemoved, Easy
<1> QED
  BY <1>1, <1>2, <1>3, <1>4, <1>5, <1>6, <1>7 DEF Next

LEMMA InitIInv == Init => IInv
<1> SUFFICES ASSUME NEW x \in Inputs, StartWith(x) PROVE IInv
  BY DEF Init
<1>1. WellFormed(x) /\ IsGraph(x)
  BY InputsAssumption DEF WellFormed
<1>2. Working
  BY <1>1, StartWorking
<1> QED
  BY <1>1, <1>2 DEF IInv, StartWith

LEMMA NextIInv == IInv /\ [Next]_vars => IInv'
<1> SUFFICES ASSUME IInv, [Next]_vars PROVE IInv'
  OBVIOUS
<1>1. Working'
  BY NextWorking DEF IInv
<1>2. in' = in
  BY DEF Next, vars, Simplify, SpillCandidate, EndSimplify, Select, SelectFails,
         EndSelect
<1> QED
  BY <1>1, <1>2 DEF IInv

----------------------------------------------------------------------------
(* The strengthened invariant holds of every call of colorFile.            *)
THEOREM Inductive == Spec => []IInv
  BY InitIInv, NextIInv, PTL DEF Spec

(* colorFile keeps its data structures well-typed: the stack only holds    *)
(* nodes of this file and colours are palette registers or -1.             *)
THEOREM TypeCorrect == Spec => []TypeOK
<1>1. IInv => TypeOK
  BY DEF IInv, Working, Shape, TypeOK
<1> QED
  BY <1>1, Inductive, PTL

(* For every interference graph, palette pair, forbidden set and hint      *)
(* table, the registers colorFile hands out never clash: neighbours        *)
(* differ, call-crossing values get callee-saved registers and forbidden   *)
(* registers are avoided, at every point of the select loop.               *)
THEOREM ColoringIsProper == Spec => []ProperColoring
<1>1. IInv => ProperColoring
  BY DEF IInv, Working
<1> QED
  BY <1>1, Inductive, PTL

(* For every input, a value left without a register by colorFile was       *)
(* removed as a spill candidate: the degree < Kof test is sufficient even  *)
(* though each node has its own palette and forbidden registers.           *)
THEOREM SpillsAreCandidates == Spec => []OnlyCandidatesSpill
<1>1. IInv => OnlyCandidatesSpill
  <2> SUFFICES ASSUME IInv, phase = "done", NEW i \in in.nodes,
                      color[i] = NoReg
               PROVE  i \in cand
    BY DEF OnlyCandidatesSpill
  <2>1. i \in cand \cup Range(stack) /\ stack = <<>>
    BY DEF IInv, Working, PoppedOrStacked
  <2> QED
    BY <2>1 DEF Range
<1> QED
  BY <1>1, Inductive, PTL
============================================================================
