---------------------------- MODULE WordPeephole ----------------------------
(***************************************************************************)
(* MachineOptimizer::zeroFill and peephole (src/backend/MachineOpt.cpp),   *)
(* which RISCVBackend::run calls after strengthReduction, in this order:   *)
(* stores of a constant zero to the frame use the zero register and fuse   *)
(* in pairs; copies are propagated inside their block; scaled offsets are  *)
(* shared; no-op and dead instructions go.                                 *)
(***************************************************************************)
EXTENDS StrengthReduce

VARIABLE stage   (* the stage that comes next                              *)

UsesOf(m) == {m.a, m.b} \ {Zero}

(* How many operands of c read r.                                          *)
Uses(c, r) == Cardinality({k \in DOMAIN c : r = c[k].a}) +
              Cardinality({k \in DOMAIN c : r = c[k].b})

BlockOf(c, k) == Cardinality({j \in 1..k : c[j].op = "Label"})

DefCount(c, r) == Cardinality({k \in DOMAIN c : c[k].dst = r})

Has(m, k, n) == m.op = k /\ m.imm = n

----------------------------------------------------------------------------
(* zeroFill.                                                               *)

isZeroMaterialisation(m) ==
  m.dst # Zero /\ (Has(m, "Li", 0) \/ Has(m, "LiWide", 0))

(* The last definition of r in the block of k, before k, is a zero.        *)
LiveZero(c, k, r) ==
  \E j \in 1..(k - 1) :
    /\ BlockOf(c, j) = BlockOf(c, k) /\ c[j].dst = r /\ isZeroMaterialisation(c[j])
    /\ \A n \in (j + 1)..(k - 1) : c[n].dst # r

zeroFillBlocks(c) ==
  [k \in DOMAIN c |-> IF c[k].op = "SwF" /\ c[k].a # Zero /\ LiveZero(c, k, c[k].a)
                      THEN [c[k] EXCEPT !.a = Zero] ELSE c[k]]

dropDeadZeroMaterialisations(c) ==
  SelectSeq(c, LAMBDA m : ~(isZeroMaterialisation(m) /\ Uses(c, m.dst) = 0))

IsZeroStore(m) == m.op = "SwF" /\ m.a = Zero

(* Mutant: any two neighbouring words fuse, aligned or not.                *)
FusesUnaligned(m, n) == IsZeroStore(m) /\ IsZeroStore(n) /\ n.imm = m.imm + 4

Fuses(m, n) ==
  IsZeroStore(m) /\ IsZeroStore(n) /\ m.imm % 8 = 0 /\ n.imm = m.imm + 4

fuseZeroStores(c) ==
  FoldLeft(LAMBDA out, m :
             IF out # <<>> /\ Fuses(Last(out), m)
             THEN [out EXCEPT ![Len(out)].op = "SdF"] ELSE Append(out, m),
           <<>>, c)

zeroFillFn(c) == fuseZeroStores(dropDeadZeroMaterialisations(zeroFillBlocks(c)))

----------------------------------------------------------------------------
(* propagateCopies: copies is a set of pairs <<destination, source>>.      *)

(* Read in the block b only, and defined once.                             *)
Confined(c, r, b) ==
  /\ DefCount(c, r) = 1
  /\ \A k \in DOMAIN c : r \in UsesOf(c[k]) => BlockOf(c, k) = b

Root(copies, r) == IF \E p \in copies : p[1] = r
                   THEN (CHOOSE p \in copies : p[1] = r)[2] ELSE r

StillCopies(copies, d) == {p \in copies : d = Zero \/ (p[1] # d /\ p[2] # d)}

propagateCopies(c) ==
  LET step(s, k) ==
        LET copies == IF c[k].op = "Label" THEN {} ELSE s.copies
            m == [c[k] EXCEPT !.a = Root(copies, @), !.b = Root(copies, @)]
            left == StillCopies(copies, m.dst)
        IN  [out |-> Append(s.out, m),
             copies |-> IF m.op = "MoveX" /\ Confined(c, m.dst, BlockOf(c, k))
                        THEN left \cup {<<m.dst, m.a>>} ELSE left]
  IN  FoldLeft(step, [out |-> <<>>, copies |-> {}], [k \in DOMAIN c |-> k]).out

----------------------------------------------------------------------------
(* reuseScaledOffsets: (x << k) + c = (x + c/2^k) << k, if x + c/2^k is    *)
(* there already.  available holds the shifts and additions of the block   *)
(* whose result and operand are still what they were.                      *)

ScaledAdds(m, available, c) ==
  {p \in available \X available :
     LET shift == p[1]
         add == p[2]
     IN  /\ m.op = "IAddI" /\ shift.op = "SllI" /\ shift.dst = m.a
         /\ shift.imm > 0 /\ shift.imm < WordBits - 1
         /\ Uses(c, m.a) = 1 /\ m.imm % 2 ^ shift.imm = 0
         /\ add.op = "IAddI" /\ add.a = shift.a
         /\ add.imm = m.imm \div 2 ^ shift.imm}

ReuseOne(m, available, c) ==
  LET found == ScaledAdds(m, available, c)
      p == CHOOSE p \in found : TRUE
  IN  IF found = {} THEN m
      ELSE [m EXCEPT !.op = "SllI", !.a = p[2].dst, !.imm = p[1].imm]

reuseScaledOffsets(c) ==
  LET step(s, m0) ==
        LET m == ReuseOne(m0, s.available, c)
            left == IF m.op = "Label" THEN {}
                    ELSE {x \in s.available : m.dst = Zero \/ m.dst \notin {x.dst, x.a, x.b}}
        IN  [out |-> Append(s.out, m),
             available |-> IF m.op \in {"SllI", "IAddI", "PAddI"} /\ m.dst # m.a
                           THEN left \cup {m} ELSE left]
  IN  FoldLeft(step, [out |-> <<>>, available |-> {}], c).out

----------------------------------------------------------------------------
(* peepholeBlock, with the counts of the whole function.                   *)

isPureDef(m) == m.dst # Zero

WordOps == {"Li", "LwF", "SllI", "SrlI", "SraI", "IMul", "IDiv", "IRem", "ISub",
            "INeg", "IAdd", "IAddI"}

(* The registers that only word operations define.                         *)
wordRegs(c) ==
  {r \in Regs(c) : /\ DefCount(c, r) > 0
                   /\ \A m \in Range(c) : m.dst = r => m.op \in WordOps}

AddsNothing(m, c) ==
  m.imm = 0 /\ (m.op \in {"IXorI", "PAddI"} \/ (m.op = "IAddI" /\ m.a \in wordRegs(c)))

Dropped(m, c) ==
  \/ m.op = "MoveX" /\ m.dst = m.a
  \/ isPureDef(m) /\ Uses(c, m.dst) = 0
  \/ AddsNothing(m, c) /\ m.dst = m.a

Simplified(m, c) ==
  IF AddsNothing(m, c) THEN Inst("MoveX", m.dst, m.a, Zero, 0)
  ELSE IF m.op \in {"ISub", "IXor"} /\ m.a = m.b THEN Inst("Li", m.dst, Zero, Zero, 0)
  ELSE m

peephole(c) ==
  LET kept == SelectSeq(c, LAMBDA m : ~Dropped(m, c))
  IN  [k \in DOMAIN kept |-> Simplified(kept[k], c)]

----------------------------------------------------------------------------
At(s) == stage = s

Pass(s, t, c) ==
  /\ At(s) /\ stage' = t /\ code' = c /\ i' = Len(c) + 1
  /\ UNCHANGED <<orig, nonNeg>>

Strength ==
  /\ At("strength") /\ ~StrengthDone
  /\ StrengthNext /\ UNCHANGED stage

EndStrength ==
  /\ At("strength") /\ StrengthDone
  /\ stage' = "zeroFill" /\ UNCHANGED vars

ZeroFill == Pass("zeroFill", "copies", zeroFillFn(code))
PropagateCopies == Pass("copies", "offsets", propagateCopies(code))
ReuseScaledOffsets == Pass("offsets", "peephole", reuseScaledOffsets(code))
Peephole == Pass("peephole", "done", peephole(code))

WordNext ==
  \/ Strength \/ EndStrength \/ ZeroFill
  \/ PropagateCopies \/ ReuseScaledOffsets \/ Peephole

----------------------------------------------------------------------------
Inputs == {x \in Words : 0 \in nonNeg => x >= 0}

(* "for every |c| in [3, 2^31) the sequence ... equals the C truncating    *)
(* quotient for all x in int32" (MachineOpt.cpp:1270): whatever has been   *)
(* rewritten, stores and tests see the same as before, for every operand,  *)
(* every constant and every mix of readers of the result.                  *)
SameResults ==
  At("done") => \A x \in Inputs : Outcome(code, x) = Outcome(orig, x)

(* "the quotient is left sign-extended, the invariant every downstream i32 *)
(* consumer relies on" (MachineOpt.cpp:1490): the upper half of a register *)
(* the program itself defines repeats the sign of the word.                *)
SignExtended ==
  At("zeroFill") =>
    \A x \in Inputs : LET env == Run(code, x).env
                      IN  \A r \in (Regs(orig) \cap Regs(code)) \ {Zero} : env[r] \in Words
============================================================================
