----------------------------- MODULE ColorFile -----------------------------
(***************************************************************************)
(* One call of Allocator::colorFile (src/backend/RA.cpp): the Briggs-style *)
(* colouring of the interference graph of one register file.               *)
(*                                                                         *)
(* The simplify loop removes one node per step and pushes it; the select   *)
(* loop pops one node per step and gives it a physical register or leaves  *)
(* it uncoloured (an actual spill).  Everything the call is given - graph, *)
(* crossing flags, forbidden registers, spill weights, hints - is the      *)
(* record "in", which no step changes.                                     *)
(***************************************************************************)
EXTENDS Integers, Sequences, FiniteSets, Functions

CONSTANTS
  Inputs,       (* the argument records the call may be given             *)
  FullPhys,     (* palette of a value that is not live across a call      *)
  CalleePhys    (* palette of a value that is: the callee-saved registers *)

NoReg == -1

Phys == Range(FullPhys) \cup Range(CalleePhys)

(* What buildGraph and entryForbid guarantee of a call's arguments: the    *)
(* adjacency matrix is symmetric and has an empty diagonal (RA.cpp:492-507 *)
(* and 520-540 set both entries and skip r1 == r2).                        *)
IsGraph(x) ==
  /\ x.nodes \in SUBSET Nat /\ IsFiniteSet(x.nodes)
  /\ x.adj \in [x.nodes -> SUBSET x.nodes]
  /\ \A i, j \in x.nodes : j \in x.adj[i] => i \in x.adj[j] /\ i # j
  /\ x.crossing \in SUBSET x.nodes
  /\ x.forbid \in [x.nodes -> SUBSET Phys]

(* What computeSpillWeights and abiCopyHints add.                          *)
WellFormed(x) ==
  /\ IsGraph(x)
  /\ x.weight \in [x.nodes -> Nat]
  /\ x.hint \in [x.nodes -> [Phys -> Nat]]
  /\ x.partners \in [x.nodes -> Seq(Nat)]
  /\ x.degreeRule \in BOOLEAN

Injective(s) == \A k, m \in DOMAIN s : s[k] = s[m] => k = m

ASSUME PaletteAssumption ==
  /\ FullPhys \in Seq(Nat) /\ Injective(FullPhys)
  /\ CalleePhys \in Seq(Nat) /\ Injective(CalleePhys)

ASSUME InputsAssumption == \A x \in Inputs : WellFormed(x)

VARIABLES
  in,      (* the arguments of the call                                   *)
  phase,   (* "simplify", then "select", then "done"                      *)
  stack,   (* nodes in the order they were removed                        *)
  cand,    (* nodes removed as spill candidates                           *)
  color    (* node -> physical register, or NoReg                         *)

vars == <<in, phase, stack, cand, color>>

----------------------------------------------------------------------------
(* Helpers: the lambdas of colorFile.                                      *)

Removed == Range(stack)

Left == in.nodes \ Removed

Palette(i) == IF i \in in.crossing THEN CalleePhys ELSE FullPhys

degree(i) == Cardinality({j \in Left : j # i /\ j \in in.adj[i]})

Kof(i) == Cardinality(Range(Palette(i)) \ in.forbid[i])

(* Mutant: a node of degree K taken for one of insignificant degree.       *)
SimplifiableAtK == {i \in Left : degree(i) <= Kof(i)}

Simplifiable == {i \in Left : degree(i) < Kof(i)}

(* The scan keeps the first index it cannot improve on: cross-multiplied   *)
(* weight/degree, a tie of the weights going to the higher degree.         *)
Cheaper(i, j) ==
  LET d(n) == IF degree(n) < 1 THEN 1 ELSE degree(n)
  IN  \/ in.weight[i] * d(j) < in.weight[j] * d(i)
      \/ in.weight[i] = in.weight[j] /\ d(i) > d(j)

BetterSpill(i, j) ==
  IF in.degreeRule THEN degree(i) > degree(j) ELSE Cheaper(i, j)

(* Mutant: only a candidate strictly better than all others is picked.     *)
StrictSpillChoice(i) == \A j \in Left \ {i} : BetterSpill(i, j)

IsSpillChoice(i) ==
  \A j \in Left \ {i} : ~BetterSpill(j, i) /\ (j < i => BetterSpill(i, j))

Push(i) == stack' = Append(stack, i)

(* Mutant: the registers forbidden to an entry parameter are not looked at.*)
UsedByNeighbours(i) == {color[j] : j \in {k \in in.adj[i] : color[k] # NoReg}}

(* The colours a node may still take: not those of a coloured neighbour,   *)
(* not the forbidden ones.                                                 *)
Used(i) ==
  {color[j] : j \in {k \in in.adj[i] : color[k] # NoReg}} \cup in.forbid[i]

Legal(i) == Range(Palette(i)) \ Used(i)

Before(i, c, d) ==
  \E k, m \in DOMAIN Palette(i) :
    k <= m /\ Palette(i)[k] = c /\ Palette(i)[m] = d

(* ABI hint first (the greatest, the earliest of equals), then the colour  *)
(* of the first move partner that has a legal one, then palette order.     *)
Prefers(i, c) ==
  LET hinted == {d \in Legal(i) : in.hint[i][d] > 0}
      near   == {k \in DOMAIN in.partners[i] :
                   /\ in.partners[i][k] \in in.nodes
                   /\ color[in.partners[i][k]] \in Legal(i)}
  IN  IF hinted # {}
        THEN /\ c \in hinted
             /\ \A d \in hinted :
                  \/ in.hint[i][d] < in.hint[i][c]
                  \/ in.hint[i][d] = in.hint[i][c] /\ Before(i, c, d)
      ELSE IF near # {}
        THEN \E k \in near : (\A m \in near : k <= m)
                             /\ c = color[in.partners[i][k]]
      ELSE \A d \in Legal(i) : Before(i, c, d)

----------------------------------------------------------------------------
StartWith(x) ==
  /\ in = x
  /\ phase = "simplify"
  /\ stack = <<>>
  /\ cand = {}
  /\ color = [i \in x.nodes |-> NoReg]

Init == \E x \in Inputs : StartWith(x)

(* The first node of insignificant degree is removed.                      *)
Simplify ==
  /\ phase = "simplify"
  /\ \E i \in Simplifiable :
       /\ \A j \in Simplifiable : i <= j
       /\ Push(i)
  /\ UNCHANGED <<in, phase, cand, color>>

(* No node can be simplified: the best spill candidate is removed.         *)
SpillCandidate ==
  /\ phase = "simplify"
  /\ Simplifiable = {}
  /\ \E i \in Left :
       /\ IsSpillChoice(i)
       /\ cand' = cand \cup {i}
       /\ Push(i)
  /\ UNCHANGED <<in, phase, color>>

(* pick < 0: every node has been removed.                                  *)
EndSimplify ==
  /\ phase = "simplify"
  /\ Left = {}
  /\ phase' = "select"
  /\ UNCHANGED <<in, stack, cand, color>>

Pop == stack' = SubSeq(stack, 1, Len(stack) - 1)

(* Mutant: the index in the palette instead of the register number.        *)
AssignIndex(i, c) ==
  color' = [color EXCEPT ![i] =
              (CHOOSE k \in DOMAIN Palette(i) : Palette(i)[k] = c) - 1]

AssignColor(i, c) == color' = [color EXCEPT ![i] = c]

Select ==
  /\ phase = "select"
  /\ stack # <<>>
  /\ LET i == stack[Len(stack)]
     IN  \E c \in Legal(i) : Prefers(i, c) /\ AssignColor(i, c)
  /\ Pop
  /\ UNCHANGED <<in, phase, cand>>

(* No legal colour is left: the node stays uncoloured and ok is false.     *)
SelectFails ==
  /\ phase = "select"
  /\ stack # <<>>
  /\ Legal(stack[Len(stack)]) = {}
  /\ Pop
  /\ UNCHANGED <<in, phase, cand, color>>

EndSelect ==
  /\ phase = "select"
  /\ stack = <<>>
  /\ phase' = "done"
  /\ UNCHANGED <<in, stack, cand, color>>

Next ==
  \/ Simplify
  \/ SpillCandidate
  \/ EndSimplify
  \/ Select
  \/ SelectFails
  \/ EndSelect

Spec == Init /\ [][Next]_vars

(* colorFile is straight-line code: a step that can be taken is taken.     *)
FairSpec == Spec /\ WF_vars(Next)

----------------------------------------------------------------------------
(* The stack and the candidates are nodes of the graph, and a colour is    *)
(* always a register number of a palette, never an index into one.         *)
TypeOK ==
  /\ WellFormed(in)
  /\ phase \in {"simplify", "select", "done"}
  /\ stack \in Seq(in.nodes)
  /\ cand \in SUBSET in.nodes
  /\ color \in [in.nodes -> Phys \cup {NoReg}]

(* Two values that interfere never share a register, whatever mix of ABI   *)
(* hints, copy partners and palette order chose their colours; and a value *)
(* live across a call only ever sits in a callee-saved register, an entry  *)
(* parameter never in an argument register a later Entry still reads.      *)
ProperColoring ==
  \A i \in in.nodes : color[i] # NoReg =>
    /\ color[i] \in Range(Palette(i)) \ in.forbid[i]
    /\ \A j \in in.adj[i] : color[j] # color[i]

(* Optimistic colouring loses nothing: a value that goes to memory was     *)
(* pushed as a spill candidate.  A node removed with degree < Kof always   *)
(* finds a register, although Kof differs from node to node (palette and   *)
(* forbidden set) and neighbours may have taken any colour.                *)
OnlyCandidatesSpill ==
  phase = "done" => \A i \in in.nodes : color[i] = NoReg => i \in cand

(* Every call returns.                                                     *)
Terminates == <>(phase = "done")
============================================================================
