------------------------------- MODULE MCEmit -------------------------------
(* Three machines of code emission, one at a time:                         *)
(*   "words"   strength reduction and peepholes on short functions;        *)
(*   "edges"   phi copies and branches on small control-flow graphs, and   *)
(*             "shared" those of the shape IsShared;                       *)
(*   "frame"   prologue, body and epilogue on every mix of empty, short    *)
(*             and longer areas.                                           *)
(* Families says which; the others rest in a final state.                  *)
EXTENDS WordPeephole, Frame, PhiEdges

CONSTANT Families

----------------------------------------------------------------------------
(* Functions for the peepholes: x in register 0, a constant in 1, an       *)
(* operation in 2 and readers of the result - a store, tests against zero, *)
(* comparisons with constants directly and through an xor, alone and       *)
(* mixed; and short sequences of frame stores, copies, scaled offsets and  *)
(* no-ops around a block boundary.                                         *)
CONSTANT Compared   (* the constants results are compared with             *)

LiC(r, c) == Inst("Li", r, Zero, Zero, c)
Store(r) == Inst("Sw", Zero, r, Zero, 0)
Test(r) == Inst("BrZ", Zero, r, Zero, 0)
Label == Inst("Label", Zero, Zero, Zero, 0)

Plain == {<<Store(2)>>,
          <<LiC(3, 5), Inst("IMul", 4, 3, 2, 0), Store(4)>>,
          <<Inst("IAdd", 4, 2, 0, 0), Store(4)>>}

(* Readers of a remainder.                                                 *)
ZeroTests == {<<Test(2)>>, <<Inst("ISltuZ", 4, 2, Zero, 0), Store(4)>>,
              <<Inst("ICmpEq", 4, 2, Zero, 0), Test(4), Test(2)>>,
              <<Test(2), Store(2)>>}

Compares(c) ==
  {<<LiC(3, c), Inst("ICmpNe", 4, 3, 2, 0), Store(4)>>,
   <<LiC(3, c), Inst("ICmpEq", 4, 2, 3, 0), Test(4), Test(2)>>,
   <<Inst("IXorI", 3, 2, Zero, c), Inst("ICmpEq", 4, 3, Zero, 0), Store(4)>>,
   <<Inst("IXorI", 3, 2, Zero, c), Inst("ICmpEq", 4, 3, Zero, 0), Store(4), Store(3)>>,
   <<LiC(3, c), Inst("ICmpEq", 4, 2, 3, 0), Store(4), Store(2)>>,
   <<LiC(3, c), Inst("ICmpEq", 4, 2, 3, 0), Store(4), LiC(3, 0), Inst("ICmpNe", 4, 2, 3, 0),
     Store(4)>>}

ByConstant ==
  \/ \E c \in Words, op \in {"IMul", "IDiv", "IRem"}, t \in Plain, nn \in {{}, {0}} :
       StartWith(<<LiC(1, c), Inst(op, 2, 0, 1, 0)>> \o t, nn)
  \/ \E c \in Words :
       StartWith(<<LiC(1, c), Inst("IMul", 2, 1, 0, 0), Store(2), LiC(1, 0),
                   Inst("IDiv", 2, 0, 1, 0), Store(2)>>, {})
  \/ \E c \in Words, t \in ZeroTests \cup UNION {Compares(k) : k \in Compared} :
       StartWith(<<LiC(1, c), Inst("IRem", 2, 0, 1, 0)>> \o t, {})

Menu == {LiC(1, 0), LiC(1, 3), Inst("MoveX", 2, 1, Zero, 0), Inst("MoveX", 1, 0, Zero, 0),
         Inst("SwF", Zero, 1, Zero, 0), Inst("SwF", Zero, 1, Zero, 4),
         Inst("SwF", Zero, 2, Zero, 8), Inst("LwF", 2, Zero, Zero, 4),
         Inst("SllI", 1, 0, Zero, 2), Inst("IAddI", 2, 0, Zero, -1),
         Inst("IAddI", 1, 1, Zero, -4), Inst("IAddI", 2, 1, Zero, -4),
         Inst("IAddI", 2, 1, Zero, 0), Inst("IXorI", 1, 2, Zero, 0),
         Inst("ISub", 2, 1, 1, 0), Label}

Tails == {<<Store(1), Store(2)>>, <<Label, Store(2), Store(1)>>}

Straight ==
  \E m1, m2, m3 \in Menu, t \in Tails :
    StartWith(<<LiC(2, 0), m1, m2, m3>> \o t, {})

----------------------------------------------------------------------------
(* Small control-flow graphs with every choice of two phis p and q, a      *)
(* value v computed from one of them and a use u.                          *)
Term(op, c, t, e) == [op |-> op, cond |-> c, thenB |-> t, elseB |-> e]
Br(t) == Term("br", Const, t, t)
If(c, t, e) == Term("condbr", c, t, e)
Stop == Term("ret", Const, 1, 1)

(* The shapes, with the condition of one branch left open.                 *)
Shapes(c) ==
  { <<Br(2), If(c, 2, 3), Stop>>,                          (* rotated loop  *)
    <<Br(2), If(c, 3, 4), Br(2), Stop>>,                   (* while loop    *)
    <<Br(2), If("w", 2, 3), If(c, 2, 4), Stop>>,           (* continue      *)
    <<If("w", 2, 3), If(c, 3, 4), Br(4), Stop>>,           (* critical edge *)
    <<Br(2), If(c, 4, 3), If("w", 3, 2), Stop>>,          (* nested loops  *)
    <<Br(2), If(Const, 3, 4), If(c, 2, 4), Stop>>,         (* constant test *)
    <<Br(2), If(c, 3, 3), If("w", 2, 4), Stop>> }           (* same target   *)

SuccsIn(t, b) == IF t[b].op = "ret" THEN {} ELSE {t[b].thenB, t[b].elseB}
PredsIn(t, b) == {x \in DOMAIN t : b \in SuccsIn(t, x)}

(* The blocks reachable from a block without entering another.             *)
Around(t, from, d) ==
  LET reach[k \in 0..Len(t)] ==
        IF k = 0 THEN {from} \ {d}
        ELSE reach[k-1] \cup UNION {SuccsIn(t, x) \ {d} : x \in reach[k-1]}
  IN  reach[Len(t)]

(* d dominates b: the entry cannot reach b around d.                       *)
Dominates(t, d, b) == b \notin Around(t, 1, d)

(* Some block b branches conditionally to the home of a phi p and gives p  *)
(* a new value; its other arm leads, around that block, to an edge x on    *)
(* which a phi of the same block takes the old value of p.                 *)
IsShared(g) ==
  \E p, q \in DOMAIN g.phi :
    /\ g.phi[p].home = g.phi[q].home
    /\ \E b, x \in DOMAIN g.phi[p].inc :
         /\ g.term[b].op = "condbr" /\ g.phi[p].inc[b] # p
         /\ \E o \in SuccsIn(g.term, b) : x \in Around(g.term, o, g.phi[p].home)
         /\ \/ g.phi[q].inc[x] = p
            \/ g.phi[q].inc[x] = "v" /\ g.ins["v"].lazy

(* Every function of a shape: the conditions are "w", computed in the      *)
(* entry block, or the phi p; v reads a phi, as a computed value or as a   *)
(* pointer expression; u reads p or v.  The phis of the entry edge are     *)
(* constants.  Definitions dominate their uses.  The choices are made one  *)
(* by one so that TLC need not build the set of all functions.             *)
InitOf(t, shared) ==
  LET blocks == DOMAIN t
      dom == [d \in blocks |-> {b \in blocks : Dominates(t, d, b)}]
      merges == {b \in blocks : Cardinality(PredsIn(t, b)) > 1}
      incs(b) == {inc \in [PredsIn(t, b) -> {Const, "p", "q", "v"}] :
                    1 \in DOMAIN inc => inc[1] = Const}
  IN  \E hp, hq \in merges, hv, hu \in blocks :
        LET home == [p |-> hp, q |-> hq, v |-> hv]
            ok(v, b) == v \in DOMAIN home => b \in dom[home[v]]
        IN  /\ \A b \in blocks : ok(t[b].cond, b)
            /\ \E ov \in {"p", "q"}, ou \in {"p", "v"}, lz \in BOOLEAN :
                 /\ ok(ov, hv) /\ ok(ou, hu)
                 /\ \E ip \in incs(hp) :
                      /\ \A x \in DOMAIN ip : ok(ip[x], x)
                      /\ \E iq \in incs(hq) :
                           /\ \A x \in DOMAIN iq : ok(iq[x], x)
                           /\ LET g == [term |-> t,
                                        phi |-> [p |-> [home |-> hp, inc |-> ip],
                                                 q |-> [home |-> hq, inc |-> iq]],
                                        ins |-> [v |-> [home |-> hv, ops |-> {ov},
                                                        lazy |-> lz],
                                                 u |-> [home |-> hu, ops |-> {ou},
                                                        lazy |-> FALSE],
                                                 w |-> [home |-> 1, ops |-> {},
                                                        lazy |-> FALSE]]]
                              IN  IsShared(g) = shared /\ EdgesStartWith(g)

----------------------------------------------------------------------------
(* X registers are 8, 9, 18, float registers 108, 109, ra is 1.            *)
MCFunctions ==
  [maxStkArgBytes : {0, 8}, spillCount : 0..2, localBytes : {0, 4, 12},
   usedCSX : {<<>>, <<8>>, <<8, 9, 18>>}, usedCSF : {<<>>, <<108>>, <<108, 109>>},
   hasCall : BOOLEAN]

----------------------------------------------------------------------------
WordsStart == stage = "strength" /\ (ByConstant \/ Straight)
WordsRest == stage = "done" /\ StartWith(<<>>, {})

EdgesStart(shared) == \E t \in Shapes("w") \cup Shapes("p") : InitOf(t, shared)
EdgesRest ==
  /\ f = [term |-> <<Stop>>, phi |-> <<>>, ins |-> <<>>] /\ blk = 1 /\ pc = "returned"
  /\ taken = TRUE /\ goal = 1 /\ good = <<>>

Leaf == [maxStkArgBytes |-> 0, spillCount |-> 0, localBytes |-> 0, usedCSX |-> <<>>,
         usedCSF |-> <<>>, hasCall |-> FALSE]
FrameRest ==
  /\ mf = Leaf /\ phase = "returned" /\ idx = 0 /\ off = 0
  /\ reg = (Ra :> Ra) /\ mem = <<>>

MCInit ==
  \/ "words" \in Families /\ WordsStart /\ EdgesRest /\ FrameRest
  \/ "edges" \in Families /\ EdgesStart(FALSE) /\ WordsRest /\ FrameRest
  \/ "shared" \in Families /\ EdgesStart(TRUE) /\ WordsRest /\ FrameRest
  \/ "frame" \in Families /\ FrameInit /\ WordsRest /\ EdgesRest

MCNext ==
  \/ WordNext /\ UNCHANGED <<edgeVars, frameVars>>
  \/ EdgesNext /\ UNCHANGED <<vars, stage, frameVars>>
  \/ FrameNext /\ UNCHANGED <<vars, stage, edgeVars>>

MCSpec == MCInit /\ [][MCNext]_<<vars, stage, edgeVars, frameVars>>
=============================================================================
