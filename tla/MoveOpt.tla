------------------------------ MODULE MoveOpt ------------------------------
(***************************************************************************)
(* The passes of MachineOptimizer (src/backend/MachineOpt.cpp) that get    *)
(* rid of copies.                                                          *)
(*                                                                         *)
(* coalesceMoves, before register allocation: a copy whose source has no   *)
(* other reader is folded into the definition of the source.  Read counts  *)
(* are taken once per round over the function, which changes under them.   *)
(*                                                                         *)
(* removeRedundantMoves and postPeepholeBlock, after register allocation:  *)
(* moves that colouring has made superfluous are deleted block by block    *)
(* until nothing changes.  Whether a register has another reader is        *)
(* decided by counts over the whole function taken before the first        *)
(* deletion.                                                               *)
(***************************************************************************)
EXTENDS MIR

CONSTANTS
  CoalesceRounds,   (* 16 in the code *)
  PeepholeRounds    (* 16 in the code *)

VARIABLES
  cb, ci,     (* block and index of the instruction looked at              *)
  guard,      (* the round, from 1                                         *)
  changed,    (* has this round changed the code?                          *)
  uses        (* register -> reads counted, at the start of the round or   *)
              (* of the pass                                               *)

moveVars == <<code, cb, ci, guard, changed, uses>>

(* The operands that read r, by their place in the code.                   *)
ReadsAt(g, r) ==
  UNION {UNION {{<<b, k, n>> : n \in {n \in DOMAIN g[b][k].use :
                                         g[b][k].use[n] = r}} :
                k \in DOMAIN g[b]} : b \in Blocks(g)}

(* Mutant: the arguments of a call are not counted.                        *)
ReadCountNoArgs(g, regs) ==
  [r \in regs |->
     Cardinality({p \in ReadsAt(g, r) : g[p[1]][p[2]].op # "Call"})]

(* How often each register is read, operands and call arguments.           *)
ReadCount(g, regs) == [r \in regs |-> Cardinality(ReadsAt(g, r))]

Regs == DOMAIN uses

MovesDone == cb > Len(code)

InCode == ~MovesDone /\ ci <= Len(code[cb])

Here == code[cb][ci]
Above == code[cb][ci - 1]
Below == code[cb][ci + 1]

IsCopy == InCode /\ Here.op = "Move"

(* Destination and source of the copy looked at.                           *)
Dst == Here.dst
Src == Here.use[1]

IsSelfCopy == IsCopy /\ Src = Dst

(* The copy goes.                                                          *)
Rewrite(blk) ==
  /\ code' = [code EXCEPT ![cb] = RemoveAt(blk, ci)]
  /\ changed' = TRUE
  /\ UNCHANGED <<cb, ci, guard, uses>>

Skip ==
  /\ ci' = ci + 1
  /\ UNCHANGED <<code, cb, guard, changed, uses>>

MovesStartWith(g, regs) ==
  /\ code = g /\ cb = 1 /\ ci = 1 /\ guard = 1 /\ changed = FALSE
  /\ uses = ReadCount(g, regs)

----------------------------------------------------------------------------
(* coalesceMoves.                                                          *)

IsControl(m) == m.op \in {"Ret", "Jmp", "Br"}

(* Mutant: reads between the definition and the copy do not matter.        *)
StopsForDefs(m, s, d) == IsControl(m) \/ m.dst \in {s, d}

(* The upward scan from the copy d := s ends at this instruction.          *)
Stops(m, s, d) == IsControl(m) \/ m.dst \in {s, d} \/ d \in Uses(m)

(* Where the scan ends, 0 at the top of the block.                         *)
ScanEnd(blk, i, s, d) == Max({j \in 1..(i - 1) : Stops(blk[j], s, d)} \cup {0})

ReadOnlyHere(s) == uses[s] = 1

(* The definition that can write the copy's destination, 0 if none.        *)
FoldInto ==
  LET j == ScanEnd(code[cb], ci, Src, Dst)
  IN  IF /\ Here.op = "Move" /\ ReadOnlyHere(Src)
         /\ j > 0 /\ ~IsControl(code[cb][j]) /\ code[cb][j].dst = Src
      THEN j ELSE 0

CoalesceStartWith(g) == MovesStartWith(g, VRegs(g))

DropSelfCopy ==
  /\ IsSelfCopy
  /\ Rewrite(code[cb])

FoldCopy ==
  /\ InCode /\ ~IsSelfCopy /\ FoldInto > 0
  /\ Rewrite([code[cb] EXCEPT ![FoldInto].dst = Dst])

KeepCopy ==
  /\ InCode /\ ~IsSelfCopy /\ FoldInto = 0
  /\ Skip

NextBlockCopies ==
  /\ ~MovesDone /\ ci > Len(code[cb]) /\ cb < Len(code)
  /\ cb' = cb + 1 /\ ci' = 1
  /\ UNCHANGED <<code, guard, changed, uses>>

EndCoalesceRound ==
  /\ cb = Len(code) /\ ci > Len(code[cb])
  /\ IF changed /\ guard < CoalesceRounds
     THEN /\ cb' = 1 /\ ci' = 1 /\ guard' = guard + 1
          /\ changed' = FALSE /\ uses' = ReadCount(code, Regs)
     ELSE cb' = cb + 1 /\ UNCHANGED <<ci, guard, changed, uses>>
  /\ UNCHANGED code

CoalesceNext ==
  \/ DropSelfCopy \/ FoldCopy \/ KeepCopy
  \/ NextBlockCopies \/ EndCoalesceRound

(* The coalescing of one function.                                         *)
CoalesceSpec(g) == CoalesceStartWith(g) /\ [][CoalesceNext]_moveVars

----------------------------------------------------------------------------
(* removeRedundantMoves and postPeepholeBlock.                             *)

IsPingPong ==
  ci > 1 /\ Above.op = "Move" /\ Above.dst = Src /\ Above.use[1] = Dst

nextRedefinesDst(d, next) ==
  next.op # "Call" /\ next.dst = d /\ d \notin Uses(next)

IsOverwritten == ci < Len(code[cb]) /\ nextRedefinesDst(Dst, Below)

IsSuperfluous == IsSelfCopy \/ IsPingPong \/ IsOverwritten

BeforeStore == ci < Len(code[cb]) /\ Below.op = "Sw"

(* mv rd,rs ; sw rd, ... with no other reader of rd.                       *)
IntoStore == Below.use[1] = Dst /\ ReadOnlyHere(Dst)

(* op rs ; mv rd,rs with no other reader of rs.                            *)
AfterDef == ci > 1 /\ Above.dst = Src /\ Above.op # "Call" /\ ReadOnlyHere(Src)

DeleteMove ==
  /\ IsCopy /\ IsSuperfluous
  /\ Rewrite(code[cb])

StoreSource ==
  /\ IsCopy /\ ~IsSuperfluous /\ BeforeStore /\ IntoStore
  /\ Rewrite([code[cb] EXCEPT ![ci + 1].use[1] = Src])

RenameDef ==
  /\ IsCopy /\ ~IsSuperfluous /\ ~BeforeStore /\ AfterDef
  /\ Rewrite([code[cb] EXCEPT ![ci - 1].dst = Dst])

Stays == ~IsSuperfluous /\ IF BeforeStore THEN ~IntoStore ELSE ~AfterDef

KeepMove ==
  /\ InCode /\ (IsCopy => Stays)
  /\ Skip

EndBlockRound ==
  /\ ~MovesDone /\ ci > Len(code[cb])
  /\ ci' = 1 /\ changed' = FALSE
  /\ IF changed /\ guard < PeepholeRounds
     THEN guard' = guard + 1 /\ UNCHANGED cb
     ELSE guard' = 1 /\ cb' = cb + 1
  /\ UNCHANGED <<code, uses>>

PeepholeNext ==
  \/ DeleteMove \/ StoreSource \/ RenameDef \/ KeepMove \/ EndBlockRound

(* The pass over a function on the physical registers regs.                *)
PeepholeSpec(g, regs) == MovesStartWith(g, regs) /\ [][PeepholeNext]_moveVars

----------------------------------------------------------------------------
(* The counts bound the reads of the code as it is now.  coalesceMoves:    *)
(* "within a round they only ever over-count ... a stale count can never   *)
(* enable a rewrite whose source is read elsewhere" (MachineOpt.cpp:2023); *)
(* removeRedundantMoves, which counts once per function: "deletions can    *)
(* only shrink real counts" (MachineOpt.cpp:406), although stores are      *)
(* given other operands on the way.                                        *)
CountsAreBounds == \A r \in Regs : Cardinality(ReadsAt(code, r)) <= uses[r]
============================================================================
