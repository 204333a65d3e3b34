---------------------------- MODULE MCColorFile ----------------------------
(* Every graph on four values, with every set of values live across calls. *)
EXTENDS ColorFile

CONSTANT N   (* number of values to colour *)

Nodes == 0..(N - 1)

Edges == {e \in SUBSET Nodes : Cardinality(e) = 2}

AdjOf(es) == [i \in Nodes |-> {j \in Nodes : {i, j} \in es /\ i # j}]

(* Value 0 is the destination of the first of two Entry instructions: it   *)
(* may not take the argument register the second one reads.                *)
EntryForbids == {[i \in Nodes |-> {}],
                 [i \in Nodes |-> IF i = 0 THEN {2} ELSE {}]}

Weights == {[i \in Nodes |-> IF i = 1 THEN 0 ELSE 1],
            [i \in Nodes |-> 1 + ((2 * i) % 5)]}

NoHint == [i \in Nodes |-> [p \in Phys |-> 0]]

Hints == {NoHint, [NoHint EXCEPT ![1][2] = 4, ![2][3] = 1, ![2][1] = 1]}

Partners == {[i \in Nodes |-> <<>>],
             [i \in Nodes |-> IF i = 0 THEN <<3, 2>>
                              ELSE IF i \in {2, 3} THEN <<0>> ELSE <<>>]}

MCInputs ==
  {[nodes |-> Nodes, adj |-> AdjOf(es), crossing |-> cr, forbid |-> fb,
    weight |-> w, hint |-> h, partners |-> p, degreeRule |-> r] :
     es \in SUBSET Edges, cr \in SUBSET Nodes, fb \in EntryForbids,
     w \in Weights, h \in Hints, p \in Partners, r \in BOOLEAN}

MCFull == <<1, 2, 3>>
MCCallee == <<3>>
============================================================================
