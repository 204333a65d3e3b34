---------------------------- MODULE MCPhiCopies ----------------------------
(* Every phi list over a few registers: all permutations (swaps, rotations,*)
(* several disjoint cycles), fans, chains and constants among them.        *)
EXTENDS PhiCopies

MCVregs == 0..(FirstTmp - 1)

Distinct(n) == {d \in [1..n -> MCVregs] :
                  \A i, j \in 1..n : d[i] = d[j] => i = j}

MCPhiLists ==
  UNION {{[i \in 1..n |-> [dst |-> d[i], src |-> s[i]]] :
            d \in Distinct(n), s \in [1..n -> MCVregs \cup Consts]} :
         n \in 0..FirstTmp}
============================================================================
