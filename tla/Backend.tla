------------------------------ MODULE Backend ------------------------------
(***************************************************************************)
(* The backend stages that decide where a value lives, in the order of     *)
(* RISCVBackend::run (src/backend/Pipeline.cpp): the load scheduler moves  *)
(* instructions, coalesceMoves renames definitions, then the register      *)
(* allocator takes the function over; what it makes of it is executed as   *)
(* in RegAlloc.  Checked is RegAlloc's ReadsRight: what the stages before  *)
(* did must not matter to what the allocator takes for granted, in         *)
(* particular that every argument is still in its ABI register when its    *)
(* Entry instruction reads it.                                             *)
(***************************************************************************)
EXTENDS RegAlloc

CONSTANTS latencyWindow, CoalesceRounds

VARIABLES
  flow, sb, si, sj, boundary, perm,   (* the state of Schedule *)
  cb, ci, guard, changed, uses        (* the state of MoveOpt  *)

S == INSTANCE Schedule

C == INSTANCE MoveOpt WITH PeepholeRounds <- 0

schedVars == <<flow, sb, si, sj, boundary, perm>>
coalesceVars == <<cb, ci, guard, changed, uses>>
allocRest == <<stage, orig, spillCount, saved, tries, lv, sp, colorVars, runVars>>

ScheduleStep ==
  /\ S!ScheduleNext
  /\ UNCHANGED <<coalesceVars, allocRest>>

(* Scheduling permutes a block, so the counts of the input still hold.     *)
CoalesceStep ==
  /\ S!ScheduleDone
  /\ C!CoalesceNext
  /\ UNCHANGED <<schedVars, allocRest>>

AllocateStep ==
  /\ S!ScheduleDone /\ C!MovesDone
  /\ Next
  /\ UNCHANGED <<schedVars, coalesceVars>>

BackendStartWith(f) ==
  StartWith(f) /\ S!ScheduleStartWith(f) /\ C!CoalesceStartWith(f)

BackendNext == ScheduleStep \/ CoalesceStep \/ AllocateStep
============================================================================
