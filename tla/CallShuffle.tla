---------------------------- MODULE CallShuffle ----------------------------
(***************************************************************************)
(* Passing the arguments of one call, from the caller's values to the      *)
(* callee's parameters:                                                    *)
(*                                                                         *)
(*   lower    ISel lowers the Call: stack arguments are stored (ISel.cpp,  *)
(*            case Op::Call)                                               *)
(*   plan     planCall collects the register copies that are needed        *)
(*   shuffle  planCall serialises them, emitCallShuffle prints them        *)
(*   entry    the callee reads its parameters (emitParamEntries)           *)
(*                                                                         *)
(* Each of the three passes classifies the arguments with a cursor of its  *)
(* own (ArgCursor, Machine.cpp).  A copy is executed when it is emitted:   *)
(* the instructions run in the order they are printed.                     *)
(***************************************************************************)
EXTENDS Integers, Sequences, FiniteSets

CONSTANTS
  Calls,      (* argument lists: sequences of [isF, src]                  *)
  ArgRegs,    (* argument registers per file, 8 in the RISC-V ABI         *)
  A0,         (* number of the first argument register, in both files     *)
  ScratchX2,  (* kScratchX2 and kScratchF2: never allocated               *)
  ScratchF2,
  RegNums     (* register numbers of one file                             *)

Scratch(f) == IF f THEN ScratchF2 ELSE ScratchX2

ArgRegNums == A0..(A0 + ArgRegs - 1)

(* The allocator has replaced virtual registers by physical ones: the      *)
(* value of an argument sits in some register of its file, possibly an     *)
(* argument register, never the scratch.                                   *)
Arg == {a \in [isF : BOOLEAN, src : RegNums] : a.src # Scratch(a.isF)}

ASSUME RegAssumption ==
  /\ ArgRegs \in Nat /\ A0 \in Nat
  /\ RegNums \subseteq Nat /\ ArgRegNums \subseteq RegNums
  /\ {ScratchX2, ScratchF2} \subseteq RegNums \ ArgRegNums

ASSUME CallsAssumption == Calls \subseteq Seq(Arg)

Stored == -1   (* MArg::vreg of an argument already on the stack *)

VARIABLES
  args,      (* the arguments of the call, in order                        *)
  phase,     (* the pass under way                                         *)
  k,         (* the argument it has reached                                *)
  used,      (* ArgCursor: registers handed out per file (gp_, fp_)        *)
  stk,       (* ArgCursor: stack slots handed out (stk_)                   *)
  src,       (* MInst::args[k].vreg, later ShuffleItem::src                *)
  tgt,       (* ShuffleItem::tgt                                           *)
  pending,   (* arguments whose copy is still to be emitted                *)
  regs,      (* file -> register -> value; initially its own name          *)
  out,       (* outgoing stack argument slots written so far               *)
  param      (* what the callee has read                                   *)

cursor == <<used, stk>>
vars == <<args, phase, k, used, stk, src, tgt, pending, regs, out, param>>

Args == 1..Len(args)

----------------------------------------------------------------------------
(* ArgCursor::next.                                                        *)
InReg(f) == used[f] < ArgRegs

NextReg(f) == A0 + used[f]

(* Mutant: the count goes on after the last argument register.             *)
AdvancePastLast(f) ==
  /\ used' = [used EXCEPT ![f] = @ + 1]
  /\ stk' = IF InReg(f) THEN stk ELSE stk + 1

Advance(f) ==
  /\ used' = IF InReg(f) THEN [used EXCEPT ![f] = @ + 1] ELSE used
  /\ stk' = IF InReg(f) THEN stk ELSE stk + 1

(* Mutant: a pass goes on with the registers of the one before it.         *)
ResetStackOnly == used' = used /\ stk' = 0

ResetCursor ==
  /\ used' = [f \in BOOLEAN |-> 0]
  /\ stk' = 0

StartPass(p) ==
  /\ phase' = p
  /\ k' = 1
  /\ ResetCursor

----------------------------------------------------------------------------
Init ==
  /\ args \in Calls
  /\ phase = "lower" /\ k = 1
  /\ used = [f \in BOOLEAN |-> 0] /\ stk = 0
  /\ src = [j \in Args |-> args[j].src]
  /\ tgt = [j \in Args |-> Stored]
  /\ pending = {}
  /\ regs = [f \in BOOLEAN |-> [r \in RegNums |-> <<f, r>>]]
  /\ out = [s \in {} |-> <<>>]
  /\ param = [j \in Args |-> <<>>]

Value(j) == regs[args[j].isF][src[j]]

(* One argument of the Call in instruction selection: an argument without  *)
(* a register is stored to its slot and marked as done.                    *)
LowerArg ==
  /\ phase = "lower" /\ k \in Args
  /\ IF InReg(args[k].isF)
       THEN UNCHANGED <<src, out>>
       ELSE /\ out' = [s \in DOMAIN out \cup {stk} |->
                         IF s = stk THEN Value(k) ELSE out[s]]
            /\ src' = [src EXCEPT ![k] = Stored]
  /\ Advance(args[k].isF)
  /\ k' = k + 1
  /\ UNCHANGED <<args, phase, tgt, pending, regs, param>>

EndLower ==
  /\ phase = "lower" /\ k \notin Args
  /\ StartPass("plan")
  /\ UNCHANGED <<args, src, tgt, pending, regs, out, param>>

(* One argument in the first loop of planCall.                             *)
NeedsCopy(j) ==
  /\ src[j] # Stored
  /\ InReg(args[j].isF)
  /\ NextReg(args[j].isF) # src[j]

PlanArg ==
  /\ phase = "plan" /\ k \in Args
  /\ IF NeedsCopy(k)
       THEN /\ pending' = pending \cup {k}
            /\ tgt' = [tgt EXCEPT ![k] = NextReg(args[k].isF)]
       ELSE UNCHANGED <<pending, tgt>>
  /\ Advance(args[k].isF)
  /\ k' = k + 1
  /\ UNCHANGED <<args, phase, src, regs, out, param>>

EndPlan ==
  /\ phase = "plan" /\ k \notin Args
  /\ phase' = "shuffle"
  /\ UNCHANGED <<args, k, cursor, src, tgt, pending, regs, out, param>>

(* Mutant: only the copies listed after j are looked at.                   *)
ReadyForLater(j) ==
  \A r \in pending : ~(r > j /\ args[r].isF = args[j].isF /\ src[r] = tgt[j])

(* Nobody pending still reads the destination of j.                        *)
Ready(j) ==
  \A r \in pending : ~(args[r].isF = args[j].isF /\ src[r] = tgt[j])

Move(f, to, from) == regs' = [regs EXCEPT ![f][to] = regs[f][from]]

(* The first ready copy is emitted.                                        *)
EmitReady ==
  /\ phase = "shuffle"
  /\ \E j \in pending :
       /\ Ready(j)
       /\ \A r \in pending : Ready(r) => j <= r
       /\ Move(args[j].isF, tgt[j], src[j])
       /\ pending' = pending \ {j}
  /\ UNCHANGED <<args, phase, k, cursor, src, tgt, out, param>>

(* Mutant: the source is saved, but nobody is redirected to it.            *)
BreakCycleUnused ==
  /\ phase = "shuffle"
  /\ \A j \in pending : ~Ready(j)
  /\ \E c \in pending :
       /\ \A r \in pending : c <= r
       /\ Move(args[c].isF, Scratch(args[c].isF), src[c])
  /\ UNCHANGED <<args, phase, k, cursor, src, tgt, pending, out, param>>

(* Mutant: the scratch register of the other file.                         *)
BreakCycleOtherScratch ==
  /\ phase = "shuffle"
  /\ \A j \in pending : ~Ready(j)
  /\ \E c \in pending :
       /\ \A r \in pending : c <= r
       /\ Move(args[c].isF, Scratch(~args[c].isF), src[c])
       /\ src' = [j \in Args |->
                    IF /\ j \in pending
                       /\ args[j].isF = args[c].isF /\ src[j] = src[c]
                      THEN Scratch(~args[c].isF) ELSE src[j]]
  /\ UNCHANGED <<args, phase, k, cursor, tgt, pending, out, param>>

(* Every destination is still read: the source of the first copy is saved  *)
(* in the scratch register and its readers are redirected there.           *)
BreakCycle ==
  /\ phase = "shuffle"
  /\ \A j \in pending : ~Ready(j)
  /\ \E c \in pending :
       /\ \A r \in pending : c <= r
       /\ Move(args[c].isF, Scratch(args[c].isF), src[c])
       /\ src' = [j \in Args |->
                    IF /\ j \in pending
                       /\ args[j].isF = args[c].isF /\ src[j] = src[c]
                      THEN Scratch(args[c].isF) ELSE src[j]]
  /\ UNCHANGED <<args, phase, k, cursor, tgt, pending, out, param>>

(* The call instruction: control reaches the callee.                       *)
Call ==
  /\ phase = "shuffle" /\ pending = {}
  /\ StartPass("entry")
  /\ UNCHANGED <<args, src, tgt, pending, regs, out, param>>

(* One Entry instruction of the callee.                                    *)
EntryParam ==
  /\ phase = "entry" /\ k \in Args
  /\ LET f == args[k].isF
     IN  /\ param' = [param EXCEPT ![k] =
                        IF InReg(f) THEN regs[f][NextReg(f)] ELSE out[stk]]
         /\ Advance(f)
  /\ k' = k + 1
  /\ UNCHANGED <<args, phase, src, tgt, pending, regs, out>>

EndEntry ==
  /\ phase = "entry" /\ k \notin Args
  /\ phase' = "done"
  /\ UNCHANGED <<args, k, cursor, src, tgt, pending, regs, out, param>>

Next ==
  \/ LowerArg \/ EndLower
  \/ PlanArg \/ EndPlan
  \/ EmitReady \/ BreakCycle
  \/ Call
  \/ EntryParam \/ EndEntry

Spec == Init /\ [][Next]_vars

(* The passes and the instructions they emit are sequential code.          *)
FairSpec == Spec /\ WF_vars(Next)

----------------------------------------------------------------------------
Token == (BOOLEAN \X RegNums)

(* A cursor never runs past the last argument register, and targets are    *)
(* argument registers or stack slots.                                      *)
TypeOK ==
  /\ args \in Seq(Arg)
  /\ phase \in {"lower", "plan", "shuffle", "entry", "done"}
  /\ k \in 1..(Len(args) + 1)
  /\ used \in [BOOLEAN -> 0..ArgRegs]
  /\ stk \in Nat
  /\ src \in [Args -> RegNums \cup {Stored}]
  /\ tgt \in [Args -> ArgRegNums \cup {Stored}]
  /\ pending \in SUBSET Args
  /\ regs \in [BOOLEAN -> [RegNums -> Token]]
  /\ out \in [DOMAIN out -> Token] /\ DOMAIN out \subseteq Nat
  /\ param \in [Args -> Token \cup {<<>>}]

Original(j) == <<args[j].isF, args[j].src>>

(* The calling convention: an argument's ordinal among those of its file   *)
(* decides its register, the others fill the stack slots in order.         *)
Before(T, j) == Cardinality(T \cap (1..(j - 1)))
OfFile(f) == {i \in Args : args[i].isF = f}
Ord(j) == Before(OfFile(args[j].isF), j)
OnStack == {j \in Args : Ord(j) >= ArgRegs}
RegArgs == Args \ OnStack
Home(j) == <<args[j].isF, A0 + Ord(j)>>
Slot(j) == Before(OnStack, j)

(* A pending copy still finds the value it was planned for: no emitted     *)
(* move, and no second use of the one scratch register of the file, has    *)
(* overwritten its source.                                                 *)
SourcesIntact == \A j \in pending : Value(j) = Original(j)

(* Every parameter the callee reads is the caller's argument, however      *)
(* integer and float, register and stack arguments are mixed and whatever  *)
(* registers the values sat in: the three cursors agree, and no copy of    *)
(* the shuffle destroys a value a later one needs.                         *)
CalleeReceives ==
  phase = "done" => \A j \in Args : param[j] = Original(j)

(* The shuffle is invisible to everything else: a register that is neither *)
(* an argument register nor the scratch keeps its value up to the call.    *)
OthersUntouched ==
  \A f \in BOOLEAN : \A r \in RegNums \ (ArgRegNums \cup {Scratch(f)}) :
    regs[f][r] = <<f, r>>

(* planCall leaves its loop: breaking a cycle always makes progress.       *)
Terminates == <>(phase = "done")

----------------------------------------------------------------------------
(* The scratch registers are not part of the abstract places.              *)
Places == {t \in Token : t[2] # Scratch(t[1])}

Shuffled == phase \in {"entry", "done"}

PlannedCopies ==
  [t \in {Home(j) : j \in RegArgs} |->
     Original(CHOOSE j \in RegArgs : t = Home(j))]

PC == INSTANCE ParallelCopy WITH
  place <- [t \in Places |-> IF Shuffled THEN regs[t[1]][t[2]] ELSE t],
  copies <- PlannedCopies,
  done <- Shuffled

(* The moves of planCall implement one atomic parallel copy of the         *)
(* register arguments.                                                     *)
ImplementsParallelCopy == PC!Spec
============================================================================
