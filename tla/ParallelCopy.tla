---------------------------- MODULE ParallelCopy ----------------------------
(***************************************************************************)
(* What a set of simultaneous copies promises, whoever serialises them:    *)
(* in one step every destination receives the value its source held before *)
(* the step, and every other place keeps its own.  The shuffle of register *)
(* arguments (Asm.cpp, planCall) implements it, one move instruction at a  *)
(* time.                                                                   *)
(***************************************************************************)
VARIABLES
  place,    (* place -> the value it holds                                *)
  copies,   (* destination place -> source place, or a constant           *)
  done      (* the copies have happened                                   *)

pvars == <<place, copies, done>>

(* A source that is not a place is a constant and stands for itself.       *)
ValueOf(s) == IF s \in DOMAIN place THEN place[s] ELSE s

(* Before the copies every place holds a value of its own.                 *)
Init ==
  /\ place = [p \in DOMAIN place |-> p]
  /\ DOMAIN copies \subseteq DOMAIN place
  /\ done = FALSE

CopyAll ==
  /\ ~done
  /\ done' = TRUE
  /\ place' = [p \in DOMAIN place |->
                 IF p \in DOMAIN copies THEN ValueOf(copies[p]) ELSE place[p]]
  /\ UNCHANGED copies

Spec == Init /\ [][CopyAll]_pvars
============================================================================
