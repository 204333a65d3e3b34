-------------------------------- MODULE MIR --------------------------------
(***************************************************************************)
(* Machine IR as the backend stages share it (src/backend/Machine.h,       *)
(* Machine.cpp): a function is a sequence of blocks in layout order, a     *)
(* block a sequence of instructions over virtual registers.  One register  *)
(* file is modelled; the float file goes through the same code with its    *)
(* own opcodes and palettes.  An instruction is a record:                  *)
(*                                                                         *)
(*   op    its kind (Ops below): opcodes that every stage treats alike are *)
(*         one kind, "Op" stands for all pure arithmetic                   *)
(*   dst   the register it defines, or NoReg                               *)
(*   use   the registers it reads: a, b and a Call's register arguments    *)
(*   imm   Entry: the argument register read; SpillLw/SpillSw: the slot;   *)
(*         LeaG, LwG, SwG: ten times a symbol's number plus a displacement;  *)
(*         Br and Jmp: the target block; otherwise 0                       *)
(***************************************************************************)
EXTENDS Integers, Sequences, FiniteSets, SequencesExt

VARIABLE code   (* the function that the stage works on                    *)

NoReg == -1

Ops == {"Li", "Op", "Move", "Lw", "Sw", "Entry", "Call", "Br", "Jmp", "Ret",
        "SpillLw", "SpillSw", "LeaG", "LwG", "SwG"}

Inst(op, dst, use, imm) == [op |-> op, dst |-> dst, use |-> use, imm |-> imm]

Blocks(g) == DOMAIN g

Uses(m) == Range(m.use)

Defs(m) == IF m.dst = NoReg THEN {} ELSE {m.dst}

Insts(g) == UNION {Range(g[b]) : b \in Blocks(g)}

VRegs(g) == UNION {Uses(m) \cup Defs(m) : m \in Insts(g)}

(* nreg: one past the greatest register number in use.                     *)
maxReg(g) == 1 + Max(VRegs(g) \cup {NoReg})

IsJump(m) == m.op \in {"Jmp", "Br"}

(* Control falls into the next block unless the last instruction is a Jmp  *)
(* or Ret.                                                                 *)
FallsThrough(g, b) ==
  /\ g[b] # <<>> => g[b][Len(g[b])].op \notin {"Jmp", "Ret"}
  /\ b < Len(g)

(* Every trailing jump or branch contributes its target, and a block that  *)
(* falls through the one behind it.                                        *)
Succs(g, b) ==
  LET trailing == {k \in DOMAIN g[b] :
                     \A j \in k..Len(g[b]) : IsJump(g[b][j])}
  IN  ({g[b][k].imm : k \in trailing} \cap Blocks(g))
        \cup (IF FallsThrough(g, b) THEN {b + 1} ELSE {})

(* The members of a finite set of numbers in increasing order, and the     *)
(* members of a sequence at the places K: what is left when an erasing     *)
(* loop keeps only them.                                                   *)
Order(K) ==
  [i \in 1..Cardinality(K) |->
     CHOOSE k \in K : Cardinality({j \in K : j <= k}) = i]

Picked(s, K) == [i \in 1..Cardinality(K) |-> s[Order(K)[i]]]

(* live-in = (live-out - def) + uses, in this order: an instruction that   *)
(* updates a register in place keeps it live.                              *)
Through(m, live) == (live \ Defs(m)) \cup Uses(m)

(* The registers some instruction from i up to but not j defines.          *)
Written(blk, i, j) == UNION {Defs(blk[k]) : k \in i..(j - 1)}

(* What is live just before instruction i of a block: what is live out of  *)
(* the block and what an instruction reads, unless it is defined before.   *)
(* This is what taking Through of one instruction after the other, from    *)
(* the last one up, comes to.                                              *)
LiveBefore(blk, out) ==
  [i \in 1..(Len(blk) + 1) |->
     (out \ Written(blk, i, Len(blk) + 1))
       \cup UNION {Uses(blk[j]) \ Written(blk, i, j) : j \in i..Len(blk)}]

(* A set of blocks that r may be live into is closed under the dataflow    *)
(* equations: it has every block into which a successor in the set, or the *)
(* block itself, makes r live.                                             *)
Carries(g, r, F) ==
  \A b \in Blocks(g) :
    r \in LiveBefore(g[b], IF Succs(g, b) \cap F # {} THEN {r} ELSE {})[1]
      => b \in F

(* The registers live out of each block: the least solution, that is what  *)
(* is live into a successor by every closed set.                           *)
LiveOut(g) ==
  [b \in Blocks(g) |->
     {r \in VRegs(g) :
        \A F \in SUBSET Blocks(g) : Carries(g, r, F) => Succs(g, b) \cap F # {}}]
============================================================================
