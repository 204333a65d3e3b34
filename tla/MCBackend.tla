----------------------------- MODULE MCBackend -----------------------------
(* Two families of functions for three registers, of which calls keep one. *)
(* Both start with two parameters and end with reads of what is left.      *)
(* Loads: three more values and a loop.  Pressure: two more values, and a  *)
(* loop of two instructions that may overwrite any of them.                *)
(* EntryLoads says whether a load may stand in the entry block's segment   *)
(* with the Entry instructions; otherwise a store closes that segment.     *)
EXTENDS Backend

CONSTANT EntryLoads

Params == <<Inst("Entry", 0, <<>>, 10), Inst("Entry", 1, <<>>, 11),
            Inst("Li", 2, <<>>, 0)>>

Fence == IF EntryLoads THEN <<>> ELSE <<Inst("Sw", NoReg, <<1, 0>>, 0)>>

FirstDef == {Inst("Lw", 3, <<0>>, 0), Inst("Op", 3, <<1, 2>>, 0),
             Inst("Call", 3, <<1, 2>>, 0)}

SecondDef == {Inst("Lw", 4, <<3>>, 0), Inst("Move", 4, <<1>>, 0),
              Inst("Li", 4, <<>>, 0)}

LoopMenu == {<<Inst("Lw", 5, <<0>>, 0)>>, <<Inst("Lw", 2, <<4>>, 0)>>,
             <<Inst("Op", 5, <<3, 1>>, 0), Inst("Move", 3, <<5>>, 0)>>,
             <<Inst("Move", 4, <<0>>, 0)>>, <<Inst("Call", 4, <<2>>, 0)>>}

LoadExit == <<Inst("Op", 1, <<1, 2>>, 0), Inst("Op", 3, <<3, 4>>, 0),
              Inst("Sw", NoReg, <<3, 0>>, 0), Inst("Ret", NoReg, <<1>>, 0)>>

Loads ==
  \E i \in FirstDef, j \in SecondDef, x, y \in LoopMenu :
    BackendStartWith(<<Params \o Fence \o <<i, j>>,
                       x \o y \o <<Inst("Br", NoReg, <<3>>, 2)>>, LoadExit>>)

----------------------------------------------------------------------------
(* The value the entry block computes last.                                *)
LastDef == {Inst("Move", 3, <<1>>, 0), Inst("Call", 3, <<0, 2>>, 0),
            Inst("Lw", 3, <<0>>, 0)}

InLoop == {Inst("Op", 0, <<0, 2>>, 0), Inst("Op", 3, <<2, 1>>, 0),
           Inst("Op", 4, <<3, 3>>, 0), Inst("Li", 4, <<>>, 0),
           Inst("Move", 0, <<3>>, 0), Inst("Move", 3, <<0>>, 0),
           Inst("Move", 2, <<1>>, 0), Inst("Move", 4, <<2>>, 0),
           Inst("Move", 1, <<0>>, 0), Inst("Op", 1, <<1, 3>>, 0),
           Inst("Op", 2, <<0, 0>>, 0), Inst("Lw", 0, <<1>>, 0),
           Inst("Call", 1, <<3>>, 0), Inst("Call", 4, <<1, 0>>, 0),
           Inst("Call", 0, <<2, 2>>, 0), Inst("Sw", NoReg, <<3, 0>>, 0)}

Exit == {<<Inst("Sw", NoReg, <<3, 0>>, 0), Inst("Ret", NoReg, <<1>>, 0)>>,
         <<Inst("Op", 3, <<3, 2>>, 0), Inst("Op", 3, <<3, 0>>, 0),
           Inst("Sw", NoReg, <<3, 1>>, 0), Inst("Ret", NoReg, <<>>, 0)>>}

Pressure ==
  \E d \in LastDef, i, j \in InLoop, x \in Exit, r \in {0, 3} :
    BackendStartWith(<<Params \o Fence \o <<d>>, <<i, j, Inst("Br", NoReg, <<r>>, 2)>>, x>>)

MCInit == Loads \/ Pressure

MCSpec == MCInit /\ [][BackendNext]_<<vars, schedVars, coalesceVars>>

MCFull == <<10, 11, 8>>
MCCallee == <<8>>
MCArgs == <<10, 11>>
============================================================================
