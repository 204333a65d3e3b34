------------------------------ MODULE Schedule ------------------------------
(***************************************************************************)
(* MachineOptimizer::schedule and scheduleBlock (src/backend/MachineOpt):  *)
(* before register allocation every register-addressed load is hoisted     *)
(* past at most two neighbours, as long as no dependence stands in the way *)
(* and the number of live registers does not rise.  A dataflow iteration   *)
(* finds what is live out of every block; the live sets between the        *)
(* instructions of a block are then computed once and patched at every     *)
(* swap.                                                                   *)
(***************************************************************************)
EXTENDS MIR

CONSTANT latencyWindow   (* 2 in the code *)

VARIABLES
  flow,       (* the iteration: [bi, changed, in, out]                    *)
  sb,         (* the block being scheduled, 0 during the iteration        *)
  si, sj,     (* index of the load, and how far up it has come            *)
  boundary,   (* live set before each instruction of block sb             *)
  perm        (* history: where each instruction of block sb came from    *)

scheduleVars == <<code, flow, sb, si, sj, boundary, perm>>

isBarrier(m) ==
  m.op \in {"Ret", "Jmp", "Br", "Call", "Sw", "SwG", "SpillLw", "SpillSw"}

isHoistableLoad(m) == m.op = "Lw"

(* Mutant: a read of the load's destination does not stop it.              *)
canPassReads(load, prev) ==
  /\ ~isBarrier(prev)
  /\ ~isHoistableLoad(prev)
  /\ Defs(prev) \cap (Uses(load) \cup Defs(load)) = {}

(* May load move up past prev?  RAW, WAW and WAR on registers; stores and  *)
(* calls are barriers; loads stay in order.                                *)
canPass(load, prev) ==
  /\ ~isBarrier(prev)
  /\ ~isHoistableLoad(prev)
  /\ Defs(prev) \cap (Uses(load) \cup Defs(load)) = {}
  /\ Uses(prev) \cap Defs(load) = {}

----------------------------------------------------------------------------
Block == code[sb]

ScheduleDone == sb > Len(code)

(* Mutant: the live set between the two is left as it was.                 *)
BetweenUnchanged == boundary[sj]

(* The live set that would separate the two instructions after a swap.     *)
Between == Through(Block[sj - 1], boundary[sj + 1])

(* Mutant: the pressure is not looked at.                                  *)
ignorePeak == FALSE

increasesPeak ==
  \A k \in (sj - 1)..(sj + 1) : Cardinality(boundary[k]) < Cardinality(Between)

CanHoist ==
  /\ isHoistableLoad(Block[sj])
  /\ sj > 1 /\ si - sj < latencyWindow
  /\ canPass(Block[sj], Block[sj - 1])
  /\ ~increasesPeak

Swap(s) == [s EXCEPT ![sj] = s[sj - 1], ![sj - 1] = s[sj]]

ScheduleStartWith(f) ==
  /\ code = f
  /\ flow = [bi |-> Len(f), changed |-> FALSE,
             in  |-> [b \in Blocks(f) |-> {}],
             out |-> [b \in Blocks(f) |-> {}]]
  /\ sb = 0 /\ si = 2 /\ sj = 2 /\ boundary = <<>> /\ perm = <<>>

(* What flows out of block b and into it.                                  *)
Outs(c, in, b) == UNION {in[s] : s \in Succs(c, b)}

(* One block of the iteration, from the last to the first.                 *)
FlowBlock ==
  /\ sb = 0 /\ flow.bi > 0
  /\ LET b   == flow.bi
         out == Outs(code, flow.in, b)
         in  == LiveBefore(code[b], out)[1]
     IN  flow' = [bi      |-> b - 1,
                  changed |-> flow.changed \/ in # flow.in[b],
                  in      |-> [flow.in EXCEPT ![b] = in],
                  out     |-> [flow.out EXCEPT ![b] = out]]
  /\ UNCHANGED <<code, sb, si, sj, boundary, perm>>

FlowAgain ==
  /\ sb = 0 /\ flow.bi = 0 /\ flow.changed
  /\ flow' = [flow EXCEPT !.bi = Len(code), !.changed = FALSE]
  /\ UNCHANGED <<code, sb, si, sj, boundary, perm>>

Enter(b) ==
  /\ sb' = b /\ si' = 2 /\ sj' = 2
  /\ boundary' = IF b <= Len(code) THEN LiveBefore(code[b], flow.out[b]) ELSE <<>>
  /\ perm' = IF b <= Len(code) THEN [k \in DOMAIN code[b] |-> k] ELSE <<>>
  /\ UNCHANGED <<code, flow>>

FlowEnds ==
  /\ sb = 0 /\ flow.bi = 0 /\ ~flow.changed
  /\ Enter(1)

InBlock == sb \in Blocks(code) /\ si <= Len(Block)

Hoist ==
  /\ InBlock /\ CanHoist
  /\ code' = [code EXCEPT ![sb] = Swap(@)]
  /\ perm' = Swap(perm)
  /\ boundary' = [boundary EXCEPT ![sj] = Between]
  /\ sj' = sj - 1
  /\ UNCHANGED <<flow, sb, si>>

Advance ==
  /\ InBlock /\ ~CanHoist
  /\ si' = si + 1 /\ sj' = si + 1
  /\ UNCHANGED <<code, flow, sb, boundary, perm>>

NextBlock ==
  /\ sb \in Blocks(code) /\ si > Len(Block)
  /\ Enter(sb + 1)

ScheduleNext ==
  \/ FlowBlock \/ FlowAgain \/ FlowEnds
  \/ Hoist \/ Advance \/ NextBlock

(* The scheduling of one function.                                         *)
ScheduleSpec(f) == ScheduleStartWith(f) /\ [][ScheduleNext]_scheduleVars

----------------------------------------------------------------------------
(* The sets live into and out of the blocks agree with one another.        *)
Solves(c, in, out) ==
  \A b \in Blocks(c) : /\ out[b] = Outs(c, in, b)
                       /\ in[b] = LiveBefore(c[b], out[b])[1]

(* "A legal adjacent swap changes only the boundary between the two        *)
(* instructions" (MachineOpt.cpp:307-308): the patched live sets, and the  *)
(* live-out sets computed before any block was touched, stay exact through *)
(* every sequence of swaps.                                                *)
BoundaryExact ==
  sb \in Blocks(code) =>
    /\ Solves(code, flow.in, flow.out)
    /\ boundary = LiveBefore(Block, flow.out[sb])

ReadsMemory(m) == m.op \in {"Lw", "LwG", "Call"}
WritesMemory(m) == m.op \in {"Sw", "SwG", "Call"}
EndsBlock(m) == m.op \in {"Jmp", "Br", "Ret"}

Depends(x, y) ==
  \/ Defs(x) \cap (Uses(y) \cup Defs(y)) # {}
  \/ Uses(x) \cap Defs(y) # {}
  \/ WritesMemory(x) /\ (ReadsMemory(y) \/ WritesMemory(y))
  \/ ReadsMemory(x) /\ WritesMemory(y)
  \/ EndsBlock(x) \/ EndsBlock(y)

(* Whatever is swapped, two instructions that depend on each other through *)
(* a register or memory keep the order they had before scheduling.         *)
DependencesKept ==
  sb \in Blocks(code) =>
    \A k, m \in DOMAIN Block :
      k < m /\ Depends(Block[k], Block[m]) => perm[k] < perm[m]

(* Hoisting never makes the block hold more values at once: wherever a     *)
(* step of a block leaves so many registers live, some place of the block  *)
(* had at least as many before, so that the peak does not rise.            *)
PeakNeverRises ==
  [][sb' = sb =>
       \A k \in DOMAIN boundary' : \E j \in DOMAIN boundary :
         Cardinality(boundary'[k]) <= Cardinality(boundary[j])]_scheduleVars
============================================================================
