---------------------------- MODULE MCMachineOpt ----------------------------
(* The passes of the machine optimiser that move or delete instructions,   *)
(* each on a family of small functions of its own: schedule on blocks of   *)
(* four instructions, coalesceMoves on loops of four over virtual          *)
(* registers, removeRedundantMoves on loops of four over three physical    *)
(* registers of which calls keep only one, and finalizeBlockLayout on flow *)
(* graphs.                                                                 *)
EXTENDS Schedule, MoveOpt, MIRRun

CONSTANTS LayoutHorizon, HoistRounds

VARIABLES
  pass,       (* which of the passes runs, on the function in code         *)
  expected,   (* history: the behaviour of the input function              *)
  stage, round, before, plan     (* the state of BlockLayout               *)

copyVars == <<cb, ci, guard, changed, uses>>
schedVars == <<flow, sb, si, sj, boundary, perm>>
layoutVars == <<stage, round, before, plan>>
vars == <<code, copyVars, pass, expected, schedVars, layoutVars>>

Layout == INSTANCE BlockLayout WITH f <- code, Horizon <- LayoutHorizon
Cse == INSTANCE MachineCse

----------------------------------------------------------------------------
(* Copies before and after register allocation.                            *)
Entry == <<Inst("Entry", 0, <<>>, 10), Inst("Entry", 1, <<>>, 11),
           Inst("Li", 2, <<>>, 7), Inst("Op", 3, <<1>>, 3)>>

Menu == {Inst("Move", 0, <<2>>, 0), Inst("Move", 1, <<0>>, 0),
         Inst("Move", 3, <<0>>, 0), Inst("Move", 0, <<3>>, 0),
         Inst("Op", 2, <<0>>, 1), Inst("Op", 3, <<0, 1>>, 2),
         Inst("Call", 2, <<0, 1>>, 0), Inst("Sw", NoReg, <<1, 0>>, 0),
         Inst("Br", NoReg, <<1>>, 3)}

Exit == <<Inst("Sw", NoReg, <<1, 0>>, 0), Inst("Ret", NoReg, <<0>>, 0)>>

PhysMenu == {Inst("Move", 10, <<11>>, 0), Inst("Move", 11, <<10>>, 0),
             Inst("Move", 8, <<10>>, 0), Inst("Move", 10, <<10>>, 0),
             Inst("Move", 10, <<8>>, 0), Inst("Op", 10, <<11>>, 1),
             Inst("Op", 8, <<11, 8>>, 2),
             Inst("Call", 10, <<10, 11>>, 0), Inst("Sw", NoReg, <<10, 8>>, 0),
             Inst("Br", NoReg, <<8>>, 2)}

PhysExit == {<<Inst("Ret", NoReg, <<10>>, 0)>>,
             <<Inst("Sw", NoReg, <<11, 8>>, 0), Inst("Ret", NoReg, <<8>>, 0)>>}

BeforeAllocation ==
  /\ pass = "coalesce"
  /\ \E w, x, y, z \in Menu :
       CoalesceStartWith(<<Entry, <<w, x, y, z, Inst("Br", NoReg, <<0>>, 2)>>, Exit>>)

AfterAllocation ==
  /\ pass = "peephole"
  /\ \E w, x, y, z \in PhysMenu, e \in PhysExit :
       MovesStartWith(<<<<w, x, y, z>>, e>>, {8, 10, 11})

(* Loads with something above them that they may have to stay behind, in a *)
(* loop or not.                                                            *)
LoadMenu == {Inst("Lw", 1, <<0>>, 0), Inst("Lw", 2, <<1>>, 0),
             Inst("Lw", 0, <<0>>, 0), Inst("Move", 0, <<2>>, 0),
             Inst("Op", 2, <<1, 2>>, 0), Inst("Op", 3, <<2, 0>>, 0),
             Inst("Sw", NoReg, <<1, 3>>, 0),
             Inst("Call", 3, <<2>>, 0)}

LoadTails == {<<Inst("Br", NoReg, <<2>>, 1)>>, <<Inst("Jmp", NoReg, <<>>, 2)>>}

LoadExits == {<<Inst("Ret", NoReg, <<1>>, 0)>>,
              <<Inst("Op", 0, <<0, 3>>, 0), Inst("Lw", 1, <<2>>, 0),
                Inst("Ret", NoReg, <<1>>, 0)>>}

Unscheduled ==
  /\ pass = "schedule"
  /\ \E w, x, y, z \in LoadMenu, t \in LoadTails, e \in LoadExits :
       /\ {x, y, z} \cap {m \in LoadMenu : isHoistableLoad(m)} # {}
       /\ ScheduleStartWith(<<<<w, x, y, z>> \o t, e>>)

(* Four instructions, register 3 to 6 for each, in one loop, in a loop     *)
(* with a condition and in a loop within a loop.  Register 2 has another   *)
(* definition before them; what an instruction reads is defined above it.  *)
Fixed(d) == {Inst("Li", d, <<>>, 7), Inst("LeaG", d, <<>>, 10), Inst("LwG", d, <<>>, 10),
             Inst("Op", d, <<0, 1>>, Sum), Inst("Op", d, <<1, 0>>, Sum)}

Moving(d) == {Inst("Op", d, <<2>>, 1), Inst("Lw", d, <<0>>, 0), Inst("Move", 2, <<1>>, 0),
              Inst("SwG", NoReg, <<1>>, 10), Inst("Call", d, <<1>>, 0)}

After(ms, d) ==
  UNION {{Inst("Op", d, <<m.dst>>, 1), Inst("Move", 2, <<m.dst>>, 0)} :
         m \in {m \in ms : m.dst > 2}}

(* Stores of what the instructions define.                                 *)
Shown(ms) ==
  LET regs == SetToSortSeq({m.dst : m \in ms} \ {NoReg}, <)
  IN  [k \in DOMAIN regs |-> Inst("Sw", NoReg, <<regs[k], 0>>, 0)]
        \o <<Inst("Ret", NoReg, <<>>, 0)>>

Preamble == <<Inst("Entry", 0, <<>>, 10), Inst("Entry", 1, <<>>, 11), Inst("Li", 2, <<>>, 7)>>

Branch(r, to) == <<Inst("Br", NoReg, <<r>>, to)>>

Loops(w, x, y, z) ==
  {<<Preamble, <<w, x, y, z>> \o Branch(2, 2), Shown({w, x, y, z})>>,
   <<Preamble, <<w>>, <<x, y>> \o Branch(2, 3), <<z>> \o Branch(1, 2), Shown({w, x, y, z})>>,
   <<Preamble, <<w>> \o Branch(0, 4), <<x, y>>, <<z>> \o Branch(2, 2), Shown({w, z})>>}

Repeated ==
  /\ pass = "cse"
  /\ \E w \in Fixed(3) \cup Moving(3), x \in Fixed(4) \cup Moving(4) :
       \E y \in Moving(5) \cup {Inst("LwG", 5, <<>>, 10)} \cup After({w, x}, 5) :
         \E z \in {Inst("Li", 6, <<>>, 7), Inst("LwG", 6, <<>>, 10),
                    Inst("Op", 6, <<2>>, 1)} \cup After({w}, 6) :
           \E g \in Loops(w, x, y, z) : Cse!CseStartWith(g)

(* Every control-flow graph of four blocks that has a return, and graphs   *)
(* of five with two conditions, a jump and a return behind the entry,      *)
(* written down as lowerTerminator does: a jump to the next block is left  *)
(* out, and a branch goes to the target that is not next.  One block of    *)
(* the smaller graphs may have no instruction of its own, 2 or 4.           *)
Lower(i, targets) ==
  LET far == targets \ {i + 1}
  IN  CASE targets = {} -> <<Layout!Inst("Ret", 0, FALSE, 0)>>
        [] Cardinality(targets) = 1 ->
             IF far = {} THEN <<>> ELSE <<Layout!Jmp(Min(far))>>
        [] Cardinality(targets) = 2 ->
             <<Layout!Inst("Br", i, far # targets, Min(far))>>
               \o (IF far = targets THEN <<Layout!Jmp(Max(far))>> ELSE <<>>)

Body(i, empty) ==
  IF i = empty THEN <<>> ELSE <<Layout!Inst(IF i = 3 THEN "Call" ELSE "Ins", i, FALSE, 0)>>

Function(succ, empty) ==
  [i \in DOMAIN succ |->
     [name |-> i, ins |-> Body(i, empty) \o Lower(i, succ[i])]]

Targets(n, sizes) == {T \in SUBSET (2..n) : Cardinality(T) \in sizes}

FourBlocks ==
  \E empty \in {2, 4, 5}, first \in Targets(4, {1, 2}), x, y, z \in Targets(4, 0..2) :
    /\ {} \in {x, y, z}
    /\ Layout!StartWith(Function(<<first, x, y, z>>, empty))

FiveBlocks ==
  \E first \in {2, 3}, x \in Targets(5, {2}), y \in Targets(5, {2}) \ {{2, 3}},
     z \in Targets(5, {1}), p \in Permutations(2..5) :
    /\ p[2] < p[3]
    /\ Layout!StartWith(Function([i \in 1..5 |->
         IF i = 1 THEN {first} ELSE <<{}, x, y, z, {}>>[p[i]]], 0))

Unplaced == pass = "layout" /\ (FourBlocks \/ FiveBlocks)

----------------------------------------------------------------------------
CopiesIdle == cb = 0 /\ ci = 0 /\ guard = 0 /\ changed = FALSE /\ uses = <<>>
ScheduleIdle ==
  flow = <<>> /\ sb = 0 /\ si = 0 /\ sj = 0 /\ boundary = <<>> /\ perm = <<>>
LayoutIdle == stage = "idle" /\ round = 0 /\ before = <<>> /\ plan = <<>>

Lost == IF pass = "peephole" THEN {10, 11} ELSE {}

MCInit ==
  \/ /\ BeforeAllocation \/ AfterAllocation
     /\ expected = Behaviour(code, Regs, Lost)
     /\ ScheduleIdle /\ LayoutIdle
  \/ /\ Repeated
     /\ expected = Behaviour(code, VRegs(code), {})
     /\ cb = 0 /\ ci = 0 /\ guard = 0 /\ uses = <<>> /\ ScheduleIdle
     /\ round = 0 /\ before = <<>> /\ plan = <<>>
  \/ /\ Unscheduled
     /\ expected = <<>> /\ CopiesIdle /\ LayoutIdle
  \/ /\ Unplaced
     /\ CopiesIdle /\ ScheduleIdle

MCNext ==
  /\ \/ /\ pass = "coalesce" /\ CoalesceNext
        /\ UNCHANGED <<schedVars, layoutVars, expected>>
     \/ /\ pass = "peephole" /\ PeepholeNext
        /\ UNCHANGED <<schedVars, layoutVars, expected>>
     \/ /\ pass = "cse" /\ Cse!CseNext
        /\ UNCHANGED <<cb, ci, guard, uses, schedVars, round, before, plan, expected>>
     \/ /\ pass = "schedule" /\ ScheduleNext
        /\ UNCHANGED <<copyVars, layoutVars, expected>>
     \/ /\ pass = "layout" /\ Layout!Next
        /\ UNCHANGED <<copyVars, schedVars>>
  /\ UNCHANGED pass

MCSpec == MCInit /\ [][MCNext]_vars

(* Folding a copy, deleting a move, renaming a definition or giving a      *)
(* store another source never shows: after every rewrite, which sets       *)
(* changed, the function executes the same stores, calls, branches and     *)
(* return on the same values, along every path.                            *)
SameEvents ==
  pass \in {"coalesce", "peephole", "cse"} /\ changed =>
    Behaviour(code, IF pass = "cse" THEN VRegs(code) ELSE Regs, Lost) = expected

(* Whichever way the conditions turn out, rotation and placement of blocks *)
(* keep the executed instructions: see BlockLayout.  While a placement is  *)
(* worked out, in stages chain and order, the function stays as it was.    *)
SameInstructions ==
  pass = "layout" /\ stage \notin {"chain", "order"} => Layout!SameInstructions

(* A call of finalizeBlockLayoutFn never returns more branches than it was *)
(* given: see BlockLayout.                                                 *)
BranchesNeverGrow == pass = "layout" => Layout!BranchesNeverGrow

(* The loops of finalizeBlockLayout end: see BlockLayout.                  *)
Converges == [][pass = "layout" => Layout!Progress]_vars

MCOracles == [0..2 -> BOOLEAN]
============================================================================
