--------------------------- MODULE StrengthReduce ---------------------------
(***************************************************************************)
(* Machine code whose instructions compute numbers, as the stages of the   *)
(* machine optimiser (src/backend/MachineOpt.cpp) that rewrite arithmetic  *)
(* see it, and the first of them.                                          *)
(*                                                                         *)
(* A word has WordBits bits (32 in the code) and a register twice as many. *)
(* A function is one sequence of instructions over virtual registers in    *)
(* which a Label begins a block; control passes from block to block in     *)
(* order.  a and b are register operands, Zero is the zero register, imm   *)
(* the immediate, the wide constant or the frame offset.  IAddI is an      *)
(* IAddI of type I32 (addiw), PAddI one of type Ptr (addi).                *)
(*                                                                         *)
(* MachineOptimizer::strengthReduction: multiplication, division and       *)
(* remainder by a constant become shifts, adds and one multiplication by a *)
(* magic number.  Every 32, 64, 2^32 and mask of the code is written in    *)
(* terms of WordBits.                                                      *)
(***************************************************************************)
EXTENDS Integers, Sequences, FiniteSets, SequencesExt

CONSTANTS
  WordBits,   (* 32 in the code                                            *)
  ImmBits     (* 11 in the code: masks -2^k up to here fit an andi         *)

ASSUME WordBitsAssumption == WordBits \in Nat /\ WordBits >= 3

ASSUME ImmBitsAssumption == ImmBits \in Nat

Zero == -1

Inst(op, dst, a, b, imm) == [op |-> op, dst |-> dst, a |-> a, b |-> b, imm |-> imm]

----------------------------------------------------------------------------
(* What the instructions compute, on signed integers of 2*WordBits bits.   *)

Two == 2 ^ WordBits
Half == 2 ^ (WordBits - 1)

Words == (-Half)..(Half - 1)

Signed(x, bits) == ((x + 2 ^ (bits - 1)) % (2 ^ bits)) - 2 ^ (bits - 1)
Word(x) == Signed(x, WordBits)
Wide(x) == Signed(x, 2 * WordBits)

Bit(x, n) == (x \div 2 ^ n) % 2

Bitwise(x, y, Op(_, _)) ==
  Wide(FoldLeft(LAMBDA s, n : s + 2 ^ (n - 1) * Op(Bit(x, n - 1), Bit(y, n - 1)),
                0, [n \in 1..(2 * WordBits) |-> n]))

And(x, y) == Bitwise(x, y, LAMBDA p, q : p * q)
Xor(x, y) == Bitwise(x, y, LAMBDA p, q : (p + q) % 2)

Abs(x) == IF x < 0 THEN -x ELSE x

(* C's quotient and remainder, which round towards zero; dividing by zero  *)
(* gives what divw and remw give.                                          *)
TruncDiv(x, c) ==
  IF c = 0 THEN -1
  ELSE IF (x < 0) = (c < 0) THEN Abs(x) \div Abs(c) ELSE -(Abs(x) \div Abs(c))

TruncRem(x, c) == IF c = 0 THEN x ELSE x - c * TruncDiv(x, c)

Truth(p) == IF p THEN 1 ELSE 0

Result(m, x, y) ==
  CASE m.op \in {"Li", "LiWide"} -> m.imm
    [] m.op = "MoveX"  -> x
    [] m.op = "INeg"   -> Word(-x)
    [] m.op = "IAdd"   -> Word(x + y)
    [] m.op = "ISub"   -> Word(x - y)
    [] m.op = "IMul"   -> Word(Word(x) * Word(y))
    [] m.op = "IDiv"   -> Word(TruncDiv(Word(x), Word(y)))
    [] m.op = "IRem"   -> Word(TruncRem(Word(x), Word(y)))
    [] m.op = "IAddI"  -> Word(x + m.imm)
    [] m.op = "PAddI"  -> Wide(x + m.imm)
    [] m.op = "SllI"   -> Word(x * 2 ^ m.imm)
    [] m.op = "SraI"   -> Word(x) \div 2 ^ m.imm
    [] m.op = "SrlI"   -> Word((x % Two) \div 2 ^ m.imm)
    [] m.op = "Shl64I" -> Wide(x * 2 ^ m.imm)
    [] m.op = "Sar64I" -> x \div 2 ^ m.imm
    [] m.op = "Shr64I" -> Wide((x % 2 ^ (2 * WordBits)) \div 2 ^ m.imm)
    [] m.op = "Mul64"  -> Wide(x * y)
    [] m.op = "Mulh"   -> (x * y) \div 2 ^ (2 * WordBits)
    [] m.op = "IAnd"   -> And(x, y)
    [] m.op = "IAndI"  -> And(x, m.imm)
    [] m.op = "IXorI"  -> Xor(x, m.imm)
    [] m.op = "IXor"   -> Xor(x, y)
    [] m.op = "ISltuZ" -> Truth(x # 0)
    [] m.op = "ICmpEq" -> Truth(x = y)
    [] m.op = "ICmpNe" -> Truth(x # y)

(* What a store or a branch lets the rest of the program see.              *)
Seen(m, x) == IF m.op = "Sw" THEN Word(x) ELSE Truth(x = 0)

Slots == {0, 4, 8, 12}   (* offsets of the words of the frame              *)

Regs(c) == UNION {{m.dst, m.a, m.b} : m \in Range(c)} \cup {Zero, 0}

(* One instruction; a word of the frame is written by SwF, two by SdF,     *)
(* which may trap if they are not aligned ("imm % 8 == 0 is exactly the    *)
(* condition for an 8-byte store", MachineOpt.cpp:87).                     *)
Step(s, m) ==
  LET value(r) == IF r = Zero THEN 0 ELSE s.env[r]
  IN  CASE m.op = "Label" -> s
        [] m.op \in {"Sw", "BrZ"} -> [s EXCEPT !.seen = Append(@, Seen(m, value(m.a)))]
        [] m.op = "SwF" -> [s EXCEPT !.mem[m.imm] = Word(value(m.a))]
        [] m.op = "SdF" -> [s EXCEPT !.mem[m.imm] = 0, !.mem[m.imm + 4] = 0,
                                    !.trap = @ \/ m.imm % 8 # 0]
        [] m.op = "LwF" -> [s EXCEPT !.env[m.dst] = s.mem[m.imm]]
        [] m.dst # Zero /\ m.op # "LwF" ->
             [s EXCEPT !.env[m.dst] = Result(m, value(m.a), value(m.b))]

(* Runs a function with the word x in register 0 and in the frame.         *)
Run(c, x) ==
  FoldLeft(Step, [env |-> [r \in Regs(c) |-> x], seen |-> <<>>,
                  mem |-> [k \in Slots |-> x], trap |-> FALSE], c)

(* What is left of a run for others to see.                                *)
Outcome(c, x) == LET end == Run(c, x) IN <<end.seen, end.mem, end.trap>>

----------------------------------------------------------------------------
VARIABLES
  code,       (* the function                                              *)
  orig,       (* the function before the pass, which the analyses read     *)
  nonNeg,     (* registers known to hold no negative value                 *)
  i           (* index of the instruction looked at                        *)

vars == <<code, orig, nonNeg, i>>

----------------------------------------------------------------------------
(* The magic numbers.                                                      *)

(* One doubling step of q = n \div d, r = n % d.                           *)
Doubled(s, d) ==
  IF 2 * s.r >= d THEN [q |-> 2 * s.q + 1, r |-> 2 * s.r - d]
  ELSE [q |-> 2 * s.q, r |-> 2 * s.r]

QuotRem(n, d) == [q |-> n \div d, r |-> n % d]

(* The loop condition of magicFor.                                         *)
NotEnough(one, two, d) ==
  LET delta == d - two.r
  IN  one.q < delta \/ (one.q = delta /\ one.r = 0)

(* magicFor: the multiplier may need one bit more than a word.             *)
magicFor(d) ==
  LET anc == (Two - 1) - ((Two - 1) % d)
      loop[p \in Nat] ==
        LET s == IF p = 0 THEN <<QuotRem(Two, anc), QuotRem(Two, d)>> ELSE loop[p - 1]
        IN  IF p = 0 THEN s
            ELSE IF p > 1 /\ ~NotEnough(s[1], s[2], d) THEN s
            ELSE <<Doubled(s[1], anc), Doubled(s[2], d), p>>
      end == loop[WordBits]
  IN  [magic |-> end[2].q + 1, shift |-> end[3]]

(* magicu: the multiplier is a word; add says that it lacks its top bit.   *)
magicu(d) ==
  LET nc == (Two - 1) - ((Two - d) % d)
      start == [one |-> QuotRem(Half, nc), two |-> QuotRem(Half - 1, d),
                add |-> FALSE, p |-> WordBits - 1]
      over(t) == IF t.r + 1 >= d - t.r THEN t.q >= Half - 1 ELSE t.q >= Half
      next(t) == IF t.r + 1 >= d - t.r
                 THEN [q |-> (2 * t.q + 1) % Two, r |-> 2 * t.r + 1 - d]
                 ELSE [q |-> (2 * t.q) % Two, r |-> 2 * t.r + 1]
      more(s) == LET delta == d - 1 - s.two.r
                 IN  /\ s.p < 2 * WordBits
                     /\ s.one.q < delta \/ (s.one.q = delta /\ s.one.r = 0)
      loop[n \in Nat] ==
        LET s == IF n = 0 THEN start ELSE loop[n - 1]
        IN  IF n = 0 \/ (n > 1 /\ ~more(s)) THEN s
            ELSE [one |-> Doubled(s.one, nc), two |-> next(s.two),
                  add |-> s.add \/ over(s.two), p |-> s.p + 1]
      end == loop[WordBits + 1]
  IN  [M |-> (end.two.q + 1) % Two, s |-> end.p - WordBits, add |-> end.add]

haveUnsignedQuot(d) ==
  LET um == magicu(d)
  IN  IF um.add THEN um.s >= 1 ELSE um.s <= WordBits - 1

----------------------------------------------------------------------------
(* The sequences.  x is the operand, d the register the last instruction   *)
(* defines, n the first of the fresh registers.                            *)

Un(op, d, x, imm) == Inst(op, d, x, Zero, imm)
Bin(op, d, x, y) == Inst(op, d, x, y, 0)

(* 2^k - 1 for a negative x, otherwise 0.                                  *)
signBias(d, x, k, n) ==
  IF k = 1 THEN <<Un("Shr64I", d, x, 2 * WordBits - 1)>>
  ELSE <<Un("Sar64I", n, x, 2 * WordBits - 1), Un("Shr64I", d, n, 2 * WordBits - k)>>

Biased(d, x, k, n) == Append(signBias(n + 1, x, k, n), Bin("IAdd", d, x, n + 1))

pow2Quot(d, x, k, n) == Append(Biased(n + 2, x, k, n), Un("SraI", d, n + 2, k))

magicQuotTo(d, x, c, n) ==
  LET dm == magicFor(c)
      bits == 2 * WordBits - 1
  IN  <<Un("LiWide", n, Zero, dm.magic)>> \o
      IF dm.magic < Two
      THEN <<Bin("Mul64", n + 1, x, n), Un("Sar64I", n + 2, n + 1, WordBits + dm.shift),
             Un("Shr64I", n + 3, n + 1, bits), Bin("IAdd", d, n + 2, n + 3)>>
      ELSE <<Un("Shl64I", n + 1, x, WordBits), Bin("Mulh", n + 2, n + 1, n),
             Un("Sar64I", n + 3, n + 2, dm.shift), Un("Sar64I", n + 4, x, bits),
             Bin("ISub", d, n + 3, n + 4)>>

unsignedQuot(d, x, c, n) ==
  LET um == magicu(c)
  IN  <<Un("LiWide", n, Zero, um.M), Bin("Mul64", n + 1, x, n)>> \o
      IF ~um.add THEN <<Un("Shr64I", d, n + 1, WordBits + um.s)>>
      ELSE <<Un("Shr64I", n + 2, n + 1, WordBits), Bin("ISub", n + 3, x, n + 2),
             Un("SrlI", n + 4, n + 3, 1), Bin("IAdd", n + 5, n + 2, n + 4),
             Un("SrlI", d, n + 5, um.s - 1)>>

(* x / c for c >= 3 that is no power of two.                               *)
Quotient(d, x, c, n, xNonNeg) ==
  IF xNonNeg /\ haveUnsignedQuot(c) THEN unsignedQuot(d, x, c, n)
  ELSE magicQuotTo(d, x, c, n)

(* The exponent of a power of two, -1 for another number.                  *)
Log2(v) == IF \E k \in 0..(WordBits - 1) : v = 2 ^ k
           THEN CHOOSE k \in 0..(WordBits - 1) : v = 2 ^ k ELSE -1

(* For a negative constant the result for its magnitude goes to a register *)
(* t first, and its negation to d.                                         *)
Magnitude(c, d, t) == IF c < 0 THEN t ELSE d
Negation(c, d, t) == IF c < 0 THEN <<Un("INeg", d, t, 0)>> ELSE <<>>

TwoBits(v) == {s \in (0..(WordBits - 1)) \X (0..(WordBits - 1)) :
                 s[1] < s[2] /\ v = 2 ^ s[1] + 2 ^ s[2]}

ShiftAdd(d, x, s, n) ==
  IF s[1] = 0 THEN <<Un("SllI", n, x, s[2]), Bin("IAdd", d, x, n)>>
  ELSE <<Un("SllI", n, x, s[1]), Un("SllI", n + 1, x, s[2]), Bin("IAdd", d, n, n + 1)>>

Mul(m, x, c, n) ==
  LET abs == Abs(c)
      d == Magnitude(c, m.dst, n)
  IN  CASE c = 0 -> <<Un("Li", m.dst, Zero, 0)>>
        [] c = 1 -> <<Un("MoveX", m.dst, x, 0)>>
        [] c = -1 -> <<Un("INeg", m.dst, x, 0)>>
        [] abs > 1 /\ Log2(abs) > 0 ->
             <<Un("SllI", d, x, Log2(abs))>> \o Negation(c, m.dst, n)
        [] abs > 1 /\ Log2(abs) < 0 ->
             IF TwoBits(abs) = {} THEN <<m>>
             ELSE ShiftAdd(d, x, CHOOSE s \in TwoBits(abs) : TRUE, n + 1)
                    \o Negation(c, m.dst, n)

Div(m, x, c, n, xNonNeg) ==
  LET abs == Abs(c)
      d == Magnitude(c, m.dst, n)
  IN  CASE c = 0 -> <<m>>
        [] c = 1 -> <<Un("MoveX", m.dst, x, 0)>>
        [] c = -1 -> <<Un("INeg", m.dst, x, 0)>>
        [] abs > 1 /\ Log2(abs) > 0 ->
             pow2Quot(d, x, Log2(abs), n + 1) \o Negation(c, m.dst, n)
        [] abs > 1 /\ Log2(abs) < 0 ->
             Quotient(d, x, abs, n + 1, xNonNeg) \o Negation(c, m.dst, n)

(* The remainder by 2^k; mask # 0 and zeroOnly say that only comparisons   *)
(* with small constants, or with zero, look at it.                         *)
RemPow2(m, x, k, n, zeroOnly, mask) ==
  IF mask # 0 THEN <<Un("LiWide", n, Zero, mask), Bin("IAnd", m.dst, x, n)>>
  ELSE IF zeroOnly THEN <<Un("SllI", m.dst, x, WordBits - k)>>
  ELSE IF k <= ImmBits
       THEN Biased(n + 2, x, k, n) \o <<Un("IAndI", n + 3, n + 2, -(2 ^ k)),
                                        Bin("ISub", m.dst, x, n + 3)>>
  ELSE pow2Quot(n + 3, x, k, n) \o <<Un("SllI", n + 4, n + 3, k),
                                     Bin("ISub", m.dst, x, n + 4)>>

Rem(m, x, c, n, zeroOnly, mask, xNonNeg) ==
  CASE c = 0 -> <<m>>
    [] Abs(c) = 1 -> <<Un("Li", m.dst, Zero, 0)>>
    [] Abs(c) > 1 /\ Log2(Abs(c)) > 0 ->
         RemPow2(m, x, Log2(Abs(c)), n, zeroOnly, mask)
    [] Abs(c) > 1 /\ Log2(Abs(c)) < 0 ->
         Quotient(n, x, Abs(c), n + 3, xNonNeg)
           \o <<Un("LiWide", n + 1, Zero, Abs(c)), Bin("IMul", n + 2, n, n + 1),
                Bin("ISub", m.dst, x, n + 2)>>

----------------------------------------------------------------------------
(* What the pass knows about registers, from the function before it.       *)

DefsOf(r) == {k \in DOMAIN orig : r # Zero /\ orig[k].dst = r}

HasOneDef(r) == Cardinality(DefsOf(r)) = 1
TheDef(r) == orig[CHOOSE k \in DefsOf(r) : TRUE]

(* Mutant: some definition of the register is a constant.                  *)
IsConstAnyDef(r) == \E k \in DefsOf(r) : orig[k].op \in {"Li", "LiWide"}

IsConst(r) == HasOneDef(r) /\ TheDef(r).op \in {"Li", "LiWide"}

ConstOf(r) == orig[CHOOSE k \in DefsOf(r) : orig[k].op \in {"Li", "LiWide"}].imm

(* The reads of r: instruction and operand.                                *)
Reads(r) ==
  {s \in (DOMAIN orig) \X {1, 2} :
     r # Zero /\ r = IF s[2] = 1 THEN orig[s[1]].a ELSE orig[s[1]].b}

IsCmp(m) == m.op \in {"ICmpEq", "ICmpNe"}

IsZeroTest(m) == m.op \in {"BrZ", "ISltuZ"} \/ (IsCmp(m) /\ m.b = Zero)

ZeroOnly(r) == Reads(r) # {} /\ \A s \in Reads(r) : IsZeroTest(orig[s[1]])

(* A test of t = x ^ C against zero compares x with C, if t's value itself *)
(* is never looked at.                                                     *)
SeesThrough(m) == HasOneDef(m.a) /\ TheDef(m.a).op = "IXorI" /\ ZeroOnly(m.a)

(* The comparisons of r with constants: instruction, operand, constant.    *)
CmpConsts(r) ==
  LET cmps == {k \in DOMAIN orig : IsCmp(orig[k]) /\ orig[k].a # orig[k].b}
  IN  {<<k, 1, TheDef(orig[k].a).imm>> :
         k \in {k \in cmps : orig[k].b = Zero /\ SeesThrough(orig[k])
                               /\ TheDef(orig[k].a).a = r}}
      \cup {<<k, 1, ConstOf(orig[k].b)>> :
              k \in {k \in cmps : orig[k].b # Zero /\ orig[k].a = r /\ IsConst(orig[k].b)}}
      \cup {<<k, 2, ConstOf(orig[k].a)>> :
              k \in {k \in cmps : orig[k].b = r /\ IsConst(orig[k].a)}}

SmallPositive(c, k) == c > 0 /\ c < 2 ^ k

(* Mutant: the mask is not sign-extended.                                  *)
BitMaskUnsigned(k) == Half + 2 ^ k - 1

(* The sign bit and the low k bits.                                        *)
BitMask(k) == Word(Half + 2 ^ k - 1)

(* The mask whose and with the dividend stands for the remainder m; 0 if   *)
(* some reader looks at more than equality with small constants.           *)
BitTest(m) ==
  LET seen == CmpConsts(m.dst)
      k == Log2(Abs(ConstOf(m.b)))
  IN  IF /\ seen # {} /\ Cardinality(seen) = Cardinality(Reads(m.dst))
         /\ HasOneDef(m.dst) /\ k >= 1
         /\ \A s \in seen : SmallPositive(s[3], k)
      THEN BitMask(k) ELSE 0

(* The constant operand and the other one: <<>> if there is none.          *)
Operands(m) ==
  IF m.op \in {"IDiv", "IRem"} /\ IsConst(m.b) THEN <<m.a, ConstOf(m.b)>>
  ELSE IF m.op = "IMul" /\ IsConst(m.a) THEN <<m.b, ConstOf(m.a)>>
  ELSE IF m.op = "IMul" /\ IsConst(m.b) THEN <<m.a, ConstOf(m.b)>>
  ELSE <<>>

buildRewrite(m) ==
  LET n == 1 + Max(Regs(code))
      x == Operands(m)[1]
      c == Operands(m)[2]
      xNonNeg == x \in nonNeg
  IN  CASE m.op = "IMul" -> Mul(m, x, c, n)
        [] m.op = "IDiv" -> Div(m, x, c, n, xNonNeg)
        [] m.op = "IRem" -> Rem(m, x, c, n, ZeroOnly(m.dst), BitTest(m), xNonNeg)

StartWith(f, nn) == code = f /\ orig = f /\ nonNeg = nn /\ i = 1

Rewrite ==
  /\ i <= Len(code) /\ Operands(code[i]) # <<>>
  /\ LET new == buildRewrite(code[i])
     IN  /\ code' = SubSeq(code, 1, i - 1) \o new \o SubSeq(code, i + 1, Len(code))
         /\ i' = i + Len(new)
  /\ UNCHANGED <<orig, nonNeg>>

SkipInst ==
  /\ i <= Len(code) /\ Operands(code[i]) = <<>>
  /\ i' = i + 1
  /\ UNCHANGED <<code, orig, nonNeg>>

StrengthNext == Rewrite \/ SkipInst

StrengthDone == i > Len(code)

=============================================================================
