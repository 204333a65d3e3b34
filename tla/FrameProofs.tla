---------------------------- MODULE FrameProofs ----------------------------
(***************************************************************************)
(* Every frame layoutFrame can produce keeps the caller's registers: for   *)
(* every function, whatever the sizes of its areas.                        *)
(***************************************************************************)
EXTENDS Frame, TLAPS

XLen(m) == Len(m.usedCSX)
FLen(m) == Len(m.usedCSF)
RaSlots(m) == IF m.hasCall THEN 1 ELSE 0

(* Where the k-th register of each file is saved.                          *)
XSlot(m, k) == xBase(m) + (k - 1 + RaSlots(m)) * 8
FSlot(m, k) == fBase(m) + (k - 1) * 8

----------------------------------------------------------------------------
(* Rounding up to a multiple of 8 or 16 (align8, align16) never shrinks.   *)
LEMMA Align ==
  ASSUME NEW v \in Nat
  PROVE  /\ align8(v) \in Nat /\ align8(v) >= v /\ align8(v) % 8 = 0
         /\ align16(v) \in Nat /\ align16(v) >= v /\ align16(v) % 16 = 0
  BY DEF align8, align16

(* A multiple of 8 plus a multiple of 8, or of 4, is a multiple of 4.      *)
LEMMA Multiples ==
  ASSUME NEW a \in Nat, NEW b \in Nat, NEW c \in Nat, a % 8 = 0, b % 4 = 0
  PROVE  /\ (a + c * 8) % 8 = 0 /\ a % 4 = 0
         /\ (a + b) % 4 = 0 /\ (b + c * 8) % 4 = 0
         /\ a + c * 8 \in Nat /\ b + c * 8 \in Nat
  OBVIOUS

(* The areas of a frame follow each other without overlap, and frameSize   *)
(* is past the last of them (layoutFrame).                                 *)
LEMMA Layout ==
  ASSUME NEW m, WellFormed(m)
  PROVE  /\ spillBase(m) \in Nat /\ spillBase(m) >= m.maxStkArgBytes
         /\ spillBase(m) % 8 = 0
         /\ localBase(m) \in Nat /\ localBase(m) = spillBase(m) + m.spillCount * 8
         /\ localBase(m) % 8 = 0
         /\ fBase(m) \in Nat /\ fBase(m) = localBase(m) + m.localBytes
         /\ fBase(m) % 4 = 0
         /\ XLen(m) \in Nat /\ FLen(m) \in Nat /\ RaSlots(m) \in {0, 1}
         /\ xBase(m) \in Nat /\ xBase(m) = fBase(m) + FLen(m) * 8
         /\ xBase(m) % 4 = 0
         /\ frameSize(m) \in Nat
         /\ frameSize(m) >= xBase(m) + (XLen(m) + RaSlots(m)) * 8
  <1>1. /\ m.maxStkArgBytes \in Nat /\ m.spillCount \in Nat
        /\ m.localBytes \in Nat /\ m.localBytes % 4 = 0
        /\ XLen(m) \in Nat /\ FLen(m) \in Nat /\ RaSlots(m) \in {0, 1}
    BY DEF WellFormed, XLen, FLen, RaSlots
  <1>2. /\ spillBase(m) \in Nat /\ spillBase(m) >= m.maxStkArgBytes
        /\ spillBase(m) % 8 = 0
    BY <1>1, Align DEF spillBase
  <1>3. /\ localBase(m) \in Nat /\ localBase(m) = spillBase(m) + m.spillCount * 8
        /\ localBase(m) % 8 = 0
    BY <1>1, <1>2, Multiples DEF localBase
  <1>4. /\ fBase(m) \in Nat /\ fBase(m) = localBase(m) + m.localBytes
        /\ fBase(m) % 4 = 0
    BY <1>1, <1>3, Multiples DEF fBase
  <1>5. /\ xBase(m) \in Nat /\ xBase(m) = fBase(m) + FLen(m) * 8
        /\ xBase(m) % 4 = 0
    BY <1>1, <1>4, Multiples, 0 % 8 = 0 DEF xBase, fN, FLen
  <1>6. xN(m) = XLen(m) + RaSlots(m)
    BY <1>1 DEF xN, XLen, RaSlots
  <1>7. xBase(m) + xN(m) * 8 \in Nat
    BY <1>1, <1>5, <1>6
  <1>8. /\ frameSize(m) \in Nat
        /\ frameSize(m) >= xBase(m) + (XLen(m) + RaSlots(m)) * 8
    BY <1>1, <1>5, <1>6, <1>7, Align DEF frameSize
  <1> QED BY <1>1, <1>2, <1>3, <1>4, <1>5, <1>8

(* The save slots are words of the frame, above every area of the body.    *)
LEMMA Slots ==
  ASSUME NEW m, WellFormed(m)
  PROVE  /\ \A k \in 1..XLen(m) :
              /\ XSlot(m, k) \in FrameWords(m) /\ XSlot(m, k) + 4 \in FrameWords(m)
              /\ XSlot(m, k) >= xBase(m) + RaSlots(m) * 8
              /\ XSlot(m, k) + 8 <= frameSize(m)
         /\ \A k \in 1..FLen(m) :
              /\ FSlot(m, k) \in FrameWords(m)
              /\ FSlot(m, k) >= fBase(m) /\ FSlot(m, k) + 8 <= xBase(m)
         /\ m.hasCall =>
              /\ xBase(m) \in FrameWords(m) /\ xBase(m) + 4 \in FrameWords(m)
              /\ xBase(m) + 8 <= frameSize(m)
  <1>1. ASSUME NEW w \in Nat, w % 4 = 0, w <= frameSize(m)
        PROVE  w \in FrameWords(m) /\ (w + 4 \in FrameWords(m))
    BY <1>1, Layout DEF FrameWords
  <1>2. ASSUME NEW k \in 1..XLen(m)
        PROVE  /\ XSlot(m, k) \in FrameWords(m) /\ XSlot(m, k) + 4 \in FrameWords(m)
               /\ XSlot(m, k) >= xBase(m) + RaSlots(m) * 8
               /\ XSlot(m, k) + 8 <= frameSize(m)
    <2>1. k - 1 + RaSlots(m) \in Nat /\ k \in Nat /\ k >= 1 /\ k <= XLen(m)
      BY Layout
    <2>0. /\ xBase(m) \in Nat /\ RaSlots(m) \in Nat /\ XLen(m) \in Nat
          /\ frameSize(m) \in Nat
          /\ frameSize(m) >= xBase(m) + (XLen(m) + RaSlots(m)) * 8
      BY Layout
    <2>2. /\ XSlot(m, k) \in Nat
          /\ XSlot(m, k) >= xBase(m) + RaSlots(m) * 8
          /\ XSlot(m, k) + 8 <= frameSize(m)
      BY <2>0, <2>1 DEF XSlot
    <2>3. XSlot(m, k) % 4 = 0
      BY <2>1, Layout, Multiples, 0 % 8 = 0 DEF XSlot
    <2> QED BY <1>1, <2>2, <2>3, Layout
  <1>3. ASSUME NEW k \in 1..FLen(m)
        PROVE  /\ FSlot(m, k) \in FrameWords(m)
               /\ FSlot(m, k) >= fBase(m) /\ FSlot(m, k) + 8 <= xBase(m)
    <2>1. k - 1 \in Nat /\ k \in Nat /\ k >= 1 /\ k <= FLen(m)
      BY Layout
    <2>2. FSlot(m, k) \in Nat /\ FSlot(m, k) >= fBase(m)
          /\ FSlot(m, k) + 8 <= xBase(m)
      BY <2>1, Layout DEF FSlot
    <2>3. FSlot(m, k) % 4 = 0
      BY <2>1, Layout, Multiples, 0 % 8 = 0 DEF FSlot
    <2>4. xBase(m) <= frameSize(m)
      BY Layout
    <2> QED BY <1>1, <2>2, <2>3, <2>4, Layout
  <1>4. ASSUME m.hasCall
        PROVE  /\ xBase(m) \in FrameWords(m) /\ xBase(m) + 4 \in FrameWords(m)
               /\ xBase(m) + 8 <= frameSize(m)
    <2>1. RaSlots(m) = 1
      BY <1>4 DEF RaSlots
    <2>2. xBase(m) + 8 <= frameSize(m)
      BY <2>1, Layout
    <2> QED BY <1>1, <2>2, Layout
  <1> QED BY <1>2, <1>3, <1>4

----------------------------------------------------------------------------
(* The inductive invariant.                                                *)

HoldsX(k) == /\ mem[XSlot(mf, k)] = <<mf.usedCSX[k], 0>>
             /\ mem[XSlot(mf, k) + 4] = <<mf.usedCSX[k], 1>>

HoldsF(k) == mem[FSlot(mf, k)] = <<mf.usedCSF[k], 0>>

HoldsRa == mf.hasCall => /\ mem[xBase(mf)] = <<Ra, 0>>
                         /\ mem[xBase(mf) + 4] = <<Ra, 1>>

HoldsAll == /\ HoldsRa
            /\ \A k \in 1..XLen(mf) : HoldsX(k)
            /\ \A k \in 1..FLen(mf) : HoldsF(k)

BackX(k) == reg[mf.usedCSX[k]] = mf.usedCSX[k]
BackF(k) == reg[mf.usedCSF[k]] = mf.usedCSF[k]
BackRa == reg[Ra] = Ra

Types ==
  /\ WellFormed(mf)
  /\ reg = [r \in Saved(mf) |-> reg[r]]
  /\ mem = [w \in FrameWords(mf) |-> mem[w]]

(* Which slots are filled, and which registers are back, in each phase.    *)
Progress ==
  /\ phase = "saveRa" => reg = [r \in Saved(mf) |-> r] /\ off = xBase(mf)
  /\ phase = "saveX" =>
       /\ reg = [r \in Saved(mf) |-> r] /\ HoldsRa
       /\ idx \in 1..(XLen(mf) + 1) /\ off = XSlot(mf, idx)
       /\ \A k \in 1..XLen(mf) : k < idx => HoldsX(k)
  /\ phase = "saveF" =>
       /\ reg = [r \in Saved(mf) |-> r] /\ HoldsRa
       /\ \A k \in 1..XLen(mf) : HoldsX(k)
       /\ idx \in 1..(FLen(mf) + 1) /\ off = FSlot(mf, idx)
       /\ \A k \in 1..FLen(mf) : k < idx => HoldsF(k)
  /\ phase = "body" => HoldsAll /\ (mf.hasCall \/ BackRa)
  /\ phase = "restoreX" =>
       /\ HoldsAll /\ (mf.hasCall \/ BackRa)
       /\ idx \in 0..XLen(mf) /\ off = XSlot(mf, idx)
       /\ \A k \in 1..XLen(mf) : k > idx => BackX(k)
  /\ phase = "restoreF" =>
       /\ HoldsAll /\ BackRa
       /\ \A k \in 1..XLen(mf) : BackX(k)
       /\ idx \in 0..FLen(mf) /\ off = FSlot(mf, idx)
       /\ \A k \in 1..FLen(mf) : k > idx => BackF(k)
  /\ phase = "returned" =>
       /\ BackRa
       /\ \A k \in 1..XLen(mf) : BackX(k)
       /\ \A k \in 1..FLen(mf) : BackF(k)

Phases == {"saveRa", "saveX", "saveF", "body", "restoreX", "restoreF", "returned"}

FrameInv == Types /\ phase \in Phases /\ Progress /\ CallerFrameUntouched

----------------------------------------------------------------------------
(* A step that changes neither the function nor memory keeps every slot.   *)
LEMMA MemoryKept ==
  ASSUME mf' = mf, mem' = mem
  PROVE  /\ HoldsRa' = HoldsRa /\ HoldsAll' = HoldsAll
         /\ \A k : HoldsX(k)' = HoldsX(k) /\ HoldsF(k)' = HoldsF(k)
         /\ CallerFrameUntouched' = CallerFrameUntouched
  BY DEF HoldsRa, HoldsAll, HoldsX, HoldsF, CallerFrameUntouched

(* A store of the body (SpillSw, the local stores, StkArgSw) ends below    *)
(* the save slots.                                                         *)
LEMMA BodyStore ==
  ASSUME Types, HoldsAll, CallerFrameUntouched, mf' = mf,
         NEW ws, \A w \in ws : w \in Int /\ w < fBase(mf),
         WriteWords(ws, <<Junk, 0>>)
  PROVE  HoldsAll' /\ CallerFrameUntouched' /\ mem' = [w \in FrameWords(mf) |-> mem'[w]]
  <1>0. WellFormed(mf) /\ DOMAIN mem = FrameWords(mf)
    BY DEF Types
  <1>1. mem' = [w \in FrameWords(mf) |-> IF w \in ws THEN <<Junk, 0>> ELSE mem[w]]
    BY <1>0 DEF WriteWords
  <1>2. /\ fBase(mf) \in Nat /\ xBase(mf) \in Nat /\ frameSize(mf) \in Nat
        /\ fBase(mf) <= xBase(mf) /\ xBase(mf) <= frameSize(mf)
        /\ RaSlots(mf) \in Nat
    BY <1>0, Layout
  <1>3. ASSUME NEW w \in FrameWords(mf), w >= fBase(mf)
        PROVE  mem'[w] = mem[w]
    <2>1. w \notin ws
      BY <1>3, <1>2 DEF FrameWords
    <2> QED BY <1>1, <2>1
  <1>4. HoldsRa'
    <2>1. ASSUME mf.hasCall
          PROVE  mem'[xBase(mf)] = mem[xBase(mf)] /\ mem'[xBase(mf) + 4] = mem[xBase(mf) + 4]
      BY <2>1, <1>0, <1>2, <1>3, Slots
    <2> QED BY <2>1 DEF HoldsAll, HoldsRa
  <1>5. ASSUME NEW k \in 1..XLen(mf)
        PROVE  HoldsX(k)'
    <2>1. /\ XSlot(mf, k) \in FrameWords(mf) /\ XSlot(mf, k) + 4 \in FrameWords(mf)
          /\ XSlot(mf, k) >= xBase(mf) + RaSlots(mf) * 8
      BY <1>0, Slots
    <2>2. XSlot(mf, k) \in Int
      BY <2>1 DEF FrameWords
    <2>3. XSlot(mf, k) >= fBase(mf) /\ XSlot(mf, k) + 4 >= fBase(mf)
      BY <1>2, <2>1, <2>2
    <2>4. /\ mem'[XSlot(mf, k)] = mem[XSlot(mf, k)]
          /\ mem'[XSlot(mf, k) + 4] = mem[XSlot(mf, k) + 4]
      BY <1>3, <2>1, <2>3
    <2> QED BY <2>4 DEF HoldsAll, HoldsX
  <1>6. ASSUME NEW k \in 1..FLen(mf)
        PROVE  HoldsF(k)'
    <2>1. FSlot(mf, k) \in FrameWords(mf) /\ FSlot(mf, k) >= fBase(mf)
      BY <1>0, Slots
    <2>2. mem'[FSlot(mf, k)] = mem[FSlot(mf, k)]
      BY <1>3, <2>1
    <2> QED BY <2>2 DEF HoldsAll, HoldsF
  <1>7. HoldsAll'
    BY <1>4, <1>5, <1>6 DEF HoldsAll
  <1>8. CallerFrameUntouched'
    <2>1. ASSUME NEW w \in FrameWords(mf), w >= frameSize(mf)
          PROVE  mem'[w] = <<Caller, 0>>
      <3>1. w \in Int
        BY DEF FrameWords
      <3>2. w >= fBase(mf)
        BY <1>2, <2>1, <3>1
      <3>3. mem[w] = <<Caller, 0>>
        BY <1>0, <2>1 DEF CallerFrameUntouched
      <3> QED BY <1>3, <3>2, <3>3
    <2>2. DOMAIN mem' = FrameWords(mf)
      BY <1>1
    <2> QED BY <2>1, <2>2 DEF CallerFrameUntouched
  <1>9. mem' = [w \in FrameWords(mf) |-> mem'[w]]
    BY <1>1
  <1> QED BY <1>7, <1>8, <1>9

(* Saving a register fills its slot and leaves the others, and the         *)
(* caller's words, alone: sd at o changes the words o and o + 4.           *)
LEMMA SaveStore ==
  ASSUME Types, CallerFrameUntouched, mf' = mf,
         NEW r, NEW o \in Int, sd(r, o),
         o \in FrameWords(mf), o + 4 \in FrameWords(mf), o + 8 <= frameSize(mf)
  PROVE  /\ mem'[o] = <<reg[r], 0>> /\ mem'[o + 4] = <<reg[r], 1>>
         /\ \A w \in FrameWords(mf) : w < o \/ w > o + 4 => mem'[w] = mem[w]
         /\ mem' = [w \in FrameWords(mf) |-> mem'[w]]
         /\ CallerFrameUntouched'
  <1>0. WellFormed(mf) /\ DOMAIN mem = FrameWords(mf)
    BY DEF Types
  <1>1. mem' = [w \in FrameWords(mf) |-> IF w = o THEN <<reg[r], 0>>
                                    ELSE IF w = o + 4 THEN <<reg[r], 1>> ELSE mem[w]]
    BY <1>0 DEF sd
  <1>2. /\ mem'[o] = <<reg[r], 0>> /\ mem'[o + 4] = <<reg[r], 1>>
    BY <1>1
  <1>3. \A w \in FrameWords(mf) : w < o \/ w > o + 4 => mem'[w] = mem[w]
    BY <1>1 DEF FrameWords
  <1>4. frameSize(mf) \in Nat
    BY <1>0, Layout
  <1>5. ASSUME NEW w \in FrameWords(mf), w >= frameSize(mf)
        PROVE  mem'[w] = <<Caller, 0>>
    <2>1. w > o + 4
      BY <1>4, <1>5 DEF FrameWords
    <2>2. mem[w] = <<Caller, 0>>
      BY <1>0, <1>5 DEF CallerFrameUntouched
    <2> QED BY <1>3, <2>1, <2>2
  <1>6. CallerFrameUntouched' /\ mem' = [w \in FrameWords(mf) |-> mem'[w]]
    BY <1>1, <1>5 DEF CallerFrameUntouched
  <1> QED BY <1>2, <1>3, <1>6

----------------------------------------------------------------------------
(* The prologue.                                                           *)

(* emitPrologue stores ra in the first slot of the x area.                 *)
LEMMA SaveRaStep == FrameInv /\ SaveRa => FrameInv'
  <1> SUFFICES ASSUME FrameInv, SaveRa PROVE FrameInv'
    OBVIOUS
  <1>0. /\ Types /\ WellFormed(mf) /\ CallerFrameUntouched
        /\ reg = [r \in Saved(mf) |-> r] /\ off = xBase(mf)
        /\ mf' = mf /\ reg' = reg /\ phase' = "saveX" /\ idx' = 1
    BY DEF FrameInv, Types, Progress, SaveRa, Enter
  <1>1. xBase(mf) \in Nat /\ XLen(mf) \in Nat
    BY <1>0, Layout
  <1>2. Ra \in Saved(mf)
    BY DEF Saved
  <1>3. /\ mem' = [w \in FrameWords(mf) |-> mem'[w]] /\ CallerFrameUntouched'
        /\ HoldsRa' /\ off' = XSlot(mf, 1)
    <2>1. CASE mf.hasCall
      <3>1. sd(Ra, xBase(mf)) /\ off' = xBase(mf) + 8
        BY <1>0, <2>1 DEF SaveRa, Enter
      <3>2. /\ xBase(mf) \in FrameWords(mf) /\ xBase(mf) + 4 \in FrameWords(mf)
            /\ xBase(mf) + 8 <= frameSize(mf)
        BY <1>0, <2>1, Slots
      <3>3. /\ mem'[xBase(mf)] = <<reg[Ra], 0>> /\ mem'[xBase(mf) + 4] = <<reg[Ra], 1>>
            /\ mem' = [w \in FrameWords(mf) |-> mem'[w]] /\ CallerFrameUntouched'
        <4>1. xBase(mf) \in Int
          BY <1>1
        <4> QED BY <1>0, <4>1, <3>1, <3>2, SaveStore
      <3>4. reg[Ra] = Ra
        BY <1>0, <1>2
      <3>5. off' = XSlot(mf, 1)
        BY <1>1, <2>1, <3>1 DEF XSlot, RaSlots
      <3> QED BY <1>0, <3>3, <3>4, <3>5 DEF HoldsRa
    <2>2. CASE ~mf.hasCall
      <3>1. mem' = mem /\ off' = xBase(mf)
        BY <1>0, <2>2 DEF SaveRa, Enter
      <3>2. off' = XSlot(mf, 1)
        BY <1>1, <2>2, <3>1 DEF XSlot, RaSlots
      <3>3. HoldsRa'
        BY <1>0, <2>2 DEF HoldsRa
      <3> QED BY <1>0, <3>1, <3>2, <3>3, MemoryKept DEF Types
    <2> QED BY <2>1, <2>2
  <1>4. Types'
    BY <1>0, <1>3 DEF Types
  <1>5. Progress'
    BY <1>0, <1>1, <1>3 DEF Progress
  <1> QED BY <1>0, <1>3, <1>4, <1>5 DEF FrameInv, Phases

(* Each x register goes to the next slot; the ones before stay as they are.*)
LEMMA SaveXStep == FrameInv /\ SaveX => FrameInv'
  <1> SUFFICES ASSUME FrameInv, SaveX PROVE FrameInv'
    OBVIOUS
  <1>0. /\ Types /\ WellFormed(mf) /\ CallerFrameUntouched
        /\ reg = [r \in Saved(mf) |-> r] /\ HoldsRa
        /\ idx \in 1..(XLen(mf) + 1) /\ off = XSlot(mf, idx)
        /\ \A k \in 1..XLen(mf) : k < idx => HoldsX(k)
        /\ mf' = mf /\ reg' = reg /\ phase' = "saveX" /\ idx' = idx + 1
        /\ off' = off + 8 /\ idx <= XLen(mf)
        /\ sd(mf.usedCSX[idx], XSlot(mf, idx))
    BY DEF FrameInv, Types, Progress, SaveX, Enter, XLen
  <1>1. /\ xBase(mf) \in Nat /\ XLen(mf) \in Nat /\ RaSlots(mf) \in {0, 1}
        /\ idx \in 1..XLen(mf)
    BY <1>0, Layout
  <1>2. /\ XSlot(mf, idx) \in FrameWords(mf) /\ XSlot(mf, idx) + 4 \in FrameWords(mf)
        /\ XSlot(mf, idx) + 8 <= frameSize(mf)
        /\ XSlot(mf, idx) >= xBase(mf) + RaSlots(mf) * 8
    BY <1>0, <1>1, Slots
  <1>3. XSlot(mf, idx) \in Int
    BY <1>2 DEF FrameWords
  <1> DEFINE r == mf.usedCSX[idx]
  <1>4. reg[r] = r
    BY <1>0, <1>1 DEF Saved, WellFormed, XLen
  <1>5. /\ mem'[XSlot(mf, idx)] = <<reg[r], 0>> /\ mem'[XSlot(mf, idx) + 4] = <<reg[r], 1>>
        /\ \A w \in FrameWords(mf) : w < XSlot(mf, idx) \/ w > XSlot(mf, idx) + 4 => mem'[w] = mem[w]
        /\ mem' = [w \in FrameWords(mf) |-> mem'[w]]
        /\ CallerFrameUntouched'
    BY <1>0, <1>2, <1>3, SaveStore
  <1>6. HoldsRa'
    <2>1. ASSUME mf.hasCall
          PROVE  mem'[xBase(mf)] = mem[xBase(mf)] /\ mem'[xBase(mf) + 4] = mem[xBase(mf) + 4]
      <3>1. xBase(mf) \in FrameWords(mf) /\ xBase(mf) + 4 \in FrameWords(mf)
        BY <1>0, <2>1, Slots
      <3>2. xBase(mf) + 4 < XSlot(mf, idx) /\ xBase(mf) < XSlot(mf, idx)
        BY <1>1, <1>2, <1>3, <2>1 DEF RaSlots
      <3> QED BY <1>5, <3>1, <3>2
    <2> QED BY <1>0, <2>1 DEF HoldsRa
  <1>7. ASSUME NEW k \in 1..XLen(mf), k < idx + 1
        PROVE  HoldsX(k)'
    <2>1. CASE k = idx
      BY <1>0, <1>4, <1>5, <2>1 DEF HoldsX
    <2>2. CASE k < idx
      <3>1. XSlot(mf, k) \in FrameWords(mf) /\ XSlot(mf, k) + 4 \in FrameWords(mf)
        BY <1>0, Slots
      <3>2. XSlot(mf, k) + 4 < XSlot(mf, idx) /\ XSlot(mf, k) < XSlot(mf, idx)
        BY <1>1, <2>2 DEF XSlot
      <3>3. HoldsX(k)
        BY <1>0, <2>2
      <3> QED BY <1>0, <1>5, <3>1, <3>2, <3>3 DEF HoldsX
    <2> QED BY <1>1, <1>7, <2>1, <2>2
  <1>8. off' = XSlot(mf, idx + 1)
    BY <1>0, <1>1 DEF XSlot
  <1>9. Progress'
    <2>1. idx + 1 \in 1..(XLen(mf) + 1)
      BY <1>1
    <2> QED BY <1>0, <1>6, <1>7, <1>8, <2>1 DEF Progress
  <1> QED BY <1>0, <1>5, <1>9 DEF FrameInv, Types, Phases

(* The loop over usedCSX ends with every x register saved.                 *)
LEMMA SavedXStep == FrameInv /\ SavedX => FrameInv'
  <1> SUFFICES ASSUME FrameInv, SavedX PROVE FrameInv'
    OBVIOUS
  <1>0. /\ Types /\ WellFormed(mf) /\ CallerFrameUntouched
        /\ reg = [r \in Saved(mf) |-> r] /\ HoldsRa
        /\ idx \in 1..(XLen(mf) + 1) /\ idx > XLen(mf)
        /\ \A k \in 1..XLen(mf) : k < idx => HoldsX(k)
        /\ mf' = mf /\ reg' = reg /\ mem' = mem /\ phase' = "saveF" /\ idx' = 1
        /\ off' = fBase(mf)
    BY DEF FrameInv, Types, Progress, SavedX, Enter, XLen
  <1>1. XLen(mf) \in Nat /\ FLen(mf) \in Nat /\ fBase(mf) \in Nat
    BY <1>0, Layout
  <1>2. off' = FSlot(mf, 1)
    BY <1>0, <1>1 DEF FSlot
  <1>3. \A k \in 1..XLen(mf) : HoldsX(k)
    BY <1>0, <1>1
  <1>4. HoldsRa' /\ CallerFrameUntouched' /\ \A k \in 1..XLen(mf) : HoldsX(k)'
    BY <1>0, <1>3, MemoryKept
  <1>5. Progress'
    BY <1>0, <1>1, <1>2, <1>4 DEF Progress
  <1> QED BY <1>0, <1>4, <1>5 DEF FrameInv, Types, Phases

(* An fsw in the f area keeps the x area, which is above it.               *)
LEMMA SaveFStep == FrameInv /\ SaveF => FrameInv'
  <1> SUFFICES ASSUME FrameInv, SaveF PROVE FrameInv'
    OBVIOUS
  <1>0. /\ Types /\ WellFormed(mf) /\ CallerFrameUntouched
        /\ DOMAIN mem = FrameWords(mf)
        /\ reg = [r \in Saved(mf) |-> r] /\ HoldsRa
        /\ \A k \in 1..XLen(mf) : HoldsX(k)
        /\ idx \in 1..(FLen(mf) + 1) /\ off = FSlot(mf, idx)
        /\ \A k \in 1..FLen(mf) : k < idx => HoldsF(k)
        /\ mf' = mf /\ reg' = reg /\ phase' = "saveF" /\ idx' = idx + 1
        /\ off' = off + 8 /\ idx <= FLen(mf)
        /\ fsw(mf.usedCSF[idx], FSlot(mf, idx))
    BY DEF FrameInv, Types, Progress, SaveF, Enter, FLen
  <1>1. /\ fBase(mf) \in Nat /\ xBase(mf) \in Nat /\ frameSize(mf) \in Nat
        /\ FLen(mf) \in Nat /\ XLen(mf) \in Nat /\ RaSlots(mf) \in Nat
        /\ idx \in 1..FLen(mf) /\ xBase(mf) <= frameSize(mf)
    BY <1>0, Layout
  <1>2. FSlot(mf, idx) \in FrameWords(mf) /\ FSlot(mf, idx) + 8 <= xBase(mf)
    BY <1>0, <1>1, Slots
  <1>3. FSlot(mf, idx) \in Int
    BY <1>2 DEF FrameWords
  <1> DEFINE r == mf.usedCSF[idx]
  <1>4. reg[r] = r
    <2>1. idx \in DOMAIN mf.usedCSF
      BY <1>0, <1>1 DEF WellFormed, FLen
    <2>2. r \in Saved(mf)
      BY <2>1 DEF Saved
    <2> HIDE DEF r
    <2> QED BY <1>0, <2>2
  <1>5. mem' = [w \in FrameWords(mf) |-> IF w = FSlot(mf, idx) THEN <<reg[r], 0>> ELSE mem[w]]
    BY <1>0 DEF fsw, WriteWords
  <1>6. /\ mem'[FSlot(mf, idx)] = <<r, 0>>
        /\ \A w \in FrameWords(mf) : w # FSlot(mf, idx) => mem'[w] = mem[w]
        /\ mem' = [w \in FrameWords(mf) |-> mem'[w]]
    BY <1>2, <1>4, <1>5
  <1> HIDE DEF r
  <1>7. ASSUME NEW w \in FrameWords(mf), w >= xBase(mf)
        PROVE  mem'[w] = mem[w]
    <2>1. w # FSlot(mf, idx)
      BY <1>1, <1>2, <1>3, <1>7 DEF FrameWords
    <2> QED BY <1>6, <2>1
  <1>8. HoldsRa'
    <2>1. ASSUME mf.hasCall
          PROVE  mem'[xBase(mf)] = mem[xBase(mf)] /\ mem'[xBase(mf) + 4] = mem[xBase(mf) + 4]
      BY <2>1, <1>0, <1>1, <1>7, Slots
    <2> QED BY <1>0, <2>1 DEF HoldsRa
  <1>9. ASSUME NEW k \in 1..XLen(mf)
        PROVE  HoldsX(k)'
    <2>1. /\ XSlot(mf, k) \in FrameWords(mf) /\ XSlot(mf, k) + 4 \in FrameWords(mf)
          /\ XSlot(mf, k) >= xBase(mf) + RaSlots(mf) * 8
      BY <1>0, Slots
    <2>2. XSlot(mf, k) \in Int
      BY <2>1 DEF FrameWords
    <2>3. XSlot(mf, k) >= xBase(mf) /\ XSlot(mf, k) + 4 >= xBase(mf)
      BY <1>1, <2>1, <2>2
    <2> QED BY <1>0, <1>7, <2>1, <2>3 DEF HoldsX
  <1>10. ASSUME NEW k \in 1..FLen(mf), k < idx + 1
         PROVE  HoldsF(k)'
    <2>1. CASE k = idx
      BY <1>0, <1>6, <2>1 DEF HoldsF, r
    <2>2. CASE k < idx
      <3>1. FSlot(mf, k) \in FrameWords(mf)
        BY <1>0, Slots
      <3>2. FSlot(mf, k) # FSlot(mf, idx)
        BY <1>1, <2>2 DEF FSlot
      <3> QED BY <1>0, <1>6, <2>2, <3>1, <3>2 DEF HoldsF
    <2> QED BY <1>1, <1>10, <2>1, <2>2
  <1>11. off' = FSlot(mf, idx + 1) /\ idx + 1 \in 1..(FLen(mf) + 1)
    BY <1>0, <1>1 DEF FSlot
  <1>12. CallerFrameUntouched'
    <2>1. ASSUME NEW w \in FrameWords(mf), w >= frameSize(mf)
          PROVE  mem'[w] = <<Caller, 0>>
      <3>1. w \in Int
        BY DEF FrameWords
      <3>2. w >= xBase(mf)
        BY <1>1, <2>1, <3>1
      <3>3. mem[w] = <<Caller, 0>>
        BY <1>0, <2>1 DEF CallerFrameUntouched
      <3> QED BY <1>7, <3>2, <3>3
    <2>2. DOMAIN mem' = FrameWords(mf)
      BY <1>6
    <2> QED BY <1>0, <2>1, <2>2 DEF CallerFrameUntouched
  <1>13. Progress'
    BY <1>0, <1>8, <1>9, <1>10, <1>11 DEF Progress
  <1> QED BY <1>0, <1>6, <1>12, <1>13 DEF FrameInv, Types, Phases

(* The prologue ends with every register saved.                            *)
LEMMA SavedFStep == FrameInv /\ SavedF => FrameInv'
  <1> SUFFICES ASSUME FrameInv, SavedF PROVE FrameInv'
    OBVIOUS
  <1>0. /\ Types /\ WellFormed(mf) /\ CallerFrameUntouched
        /\ reg = [r \in Saved(mf) |-> r] /\ HoldsRa
        /\ \A k \in 1..XLen(mf) : HoldsX(k)
        /\ idx \in 1..(FLen(mf) + 1) /\ idx > FLen(mf)
        /\ \A k \in 1..FLen(mf) : k < idx => HoldsF(k)
        /\ mf' = mf /\ reg' = reg /\ mem' = mem /\ phase' = "body"
    BY DEF FrameInv, Types, Progress, SavedF, Enter, FLen
  <1>1. FLen(mf) \in Nat
    BY <1>0, Layout
  <1>2. HoldsAll
    BY <1>0, <1>1 DEF HoldsAll
  <1>3. BackRa'
    BY <1>0 DEF BackRa, Saved
  <1>4. HoldsAll' /\ CallerFrameUntouched'
    BY <1>0, <1>2, MemoryKept
  <1>5. Progress'
    BY <1>0, <1>3, <1>4 DEF Progress
  <1> QED BY <1>0, <1>4, <1>5 DEF FrameInv, Types, Phases

----------------------------------------------------------------------------
(* The body.                                                               *)

(* The body may lose any register it has saved, never a slot.              *)
LEMMA UseRegisterStep == FrameInv /\ UseRegister => FrameInv'
  <1> SUFFICES ASSUME FrameInv, UseRegister PROVE FrameInv'
    OBVIOUS
  <1>0. /\ Types /\ CallerFrameUntouched /\ HoldsAll /\ (mf.hasCall \/ BackRa)
        /\ mf' = mf /\ mem' = mem /\ phase' = "body"
    BY DEF FrameInv, Progress, UseRegister
  <1>1. PICK r \in Saved(mf) \ (IF mf.hasCall THEN {} ELSE {Ra}) :
          reg' = [reg EXCEPT ![r] = Junk]
    BY DEF UseRegister
  <1>2. mf.hasCall \/ BackRa'
    BY <1>0, <1>1 DEF BackRa, Types, Saved
  <1>3. Types'
    BY <1>0, <1>1 DEF Types
  <1>4. HoldsAll' /\ CallerFrameUntouched'
    BY <1>0, MemoryKept
  <1> QED BY <1>0, <1>2, <1>3, <1>4 DEF FrameInv, Progress, Phases

(* The stores of the body keep the slots (BodyStore).                      *)
LEMMA BodyStep ==
  ASSUME FrameInv, SpillSw \/ StoreLocal \/ StkArgSw
  PROVE  FrameInv'
  <1>0. /\ Types /\ WellFormed(mf) /\ CallerFrameUntouched /\ HoldsAll
        /\ (mf.hasCall \/ BackRa)
        /\ mf' = mf /\ reg' = reg /\ phase' = "body"
    BY DEF FrameInv, Types, Progress, SpillSw, StoreLocal, StkArgSw
  <1>1. /\ spillBase(mf) \in Nat /\ localBase(mf) \in Nat /\ fBase(mf) \in Nat
        /\ spillBase(mf) >= mf.maxStkArgBytes
        /\ localBase(mf) = spillBase(mf) + mf.spillCount * 8
        /\ fBase(mf) = localBase(mf) + mf.localBytes
        /\ mf.maxStkArgBytes \in Nat /\ mf.maxStkArgBytes % 8 = 0
        /\ mf.spillCount \in Nat /\ mf.localBytes \in Nat
    BY <1>0, Layout DEF WellFormed
  <1>2. \E ws : /\ \A w \in ws : w \in Int /\ w < fBase(mf)
                /\ WriteWords(ws, <<Junk, 0>>)
    <2>1. CASE SpillSw
      <3>1. PICK s \in 0..(mf.spillCount - 1) :
              WriteWords({spillBase(mf) + s * 8, spillBase(mf) + s * 8 + 4}, <<Junk, 0>>)
        BY <2>1 DEF SpillSw
      <3>2. \A w \in {spillBase(mf) + s * 8, spillBase(mf) + s * 8 + 4} :
              w \in Int /\ w < fBase(mf)
        BY <1>1
      <3> QED BY <3>1, <3>2
    <2>2. CASE StoreLocal
      <3>1. PICK b \in {w \in 0..(mf.localBytes - 1) : w % 4 = 0} :
              WriteWords({localBase(mf) + b}, <<Junk, 0>>)
        BY <2>2 DEF StoreLocal
      <3>2. \A w \in {localBase(mf) + b} : w \in Int /\ w < fBase(mf)
        BY <1>1
      <3> QED BY <3>1, <3>2
    <2>3. CASE StkArgSw
      <3>1. PICK k \in 0..(mf.maxStkArgBytes - 1) :
              k % 8 = 0 /\ WriteWords({k, k + 4}, <<Junk, 0>>)
        BY <2>3 DEF StkArgSw
      <3>2. k \in Int /\ k + 8 <= mf.maxStkArgBytes
        BY <1>1, <3>1
      <3>3. \A w \in {k, k + 4} : w \in Int /\ w < fBase(mf)
        BY <1>1, <3>2
      <3> QED BY <3>1, <3>3
    <2> QED BY <2>1, <2>2, <2>3
  <1>3. HoldsAll' /\ CallerFrameUntouched' /\ mem' = [w \in FrameWords(mf) |-> mem'[w]]
    BY <1>0, <1>2, BodyStore
  <1>4. mf.hasCall \/ BackRa'
    BY <1>0 DEF BackRa
  <1> QED BY <1>0, <1>3, <1>4 DEF FrameInv, Types, Progress, Phases

(* emitEpilogue starts at the slot of the last x register.                 *)
LEMMA ReturnStep == FrameInv /\ Return => FrameInv'
  <1> SUFFICES ASSUME FrameInv, Return PROVE FrameInv'
    OBVIOUS
  <1>0. /\ Types /\ WellFormed(mf) /\ CallerFrameUntouched /\ HoldsAll
        /\ (mf.hasCall \/ BackRa)
        /\ mf' = mf /\ reg' = reg /\ mem' = mem /\ phase' = "restoreX"
        /\ idx' = XLen(mf) /\ off' = xBase(mf) + xN(mf) * 8 - 8
    BY DEF FrameInv, Types, Progress, Return, Enter, XLen
  <1>1. xBase(mf) \in Nat /\ XLen(mf) \in Nat /\ RaSlots(mf) \in {0, 1}
    BY <1>0, Layout
  <1>2. off' = XSlot(mf, XLen(mf))
    <2>1. xN(mf) = XLen(mf) + RaSlots(mf)
      BY DEF xN, XLen, RaSlots
    <2>2. RaSlots(mf) \in Nat
      BY <1>1
    <2> QED BY <1>0, <1>1, <2>1, <2>2 DEF XSlot
  <1>3. HoldsAll' /\ CallerFrameUntouched' /\ (mf.hasCall \/ BackRa')
    BY <1>0, MemoryKept DEF BackRa
  <1>4. Progress'
    BY <1>0, <1>1, <1>2, <1>3 DEF Progress
  <1> QED BY <1>0, <1>3, <1>4 DEF FrameInv, Types, Phases

----------------------------------------------------------------------------
(* The epilogue.                                                           *)

(* Restoring a callee-saved x register brings its own value back and keeps *)
(* the registers restored before it (emitEpilogue).                        *)
LEMMA RestoreXStep == FrameInv /\ RestoreX => FrameInv'
  <1> SUFFICES ASSUME FrameInv, RestoreX PROVE FrameInv'
    OBVIOUS
  <1> DEFINE r == mf.usedCSX[idx]
  <1>0. /\ Types /\ WellFormed(mf) /\ CallerFrameUntouched /\ HoldsAll
        /\ (mf.hasCall \/ BackRa)
        /\ idx \in 0..XLen(mf) /\ idx > 0 /\ off = XSlot(mf, idx)
        /\ \A k \in 1..XLen(mf) : k > idx => BackX(k)
        /\ mf' = mf /\ mem' = mem /\ phase' = "restoreX"
        /\ idx' = idx - 1 /\ off' = off - 8 /\ ld(r, XSlot(mf, idx))
    BY DEF FrameInv, Types, Progress, RestoreX, Enter
  <1>1. /\ xBase(mf) \in Nat /\ XLen(mf) \in Nat /\ RaSlots(mf) \in {0, 1}
        /\ idx \in 1..XLen(mf)
    BY <1>0, Layout
  <1>2. HoldsX(idx)
    BY <1>0, <1>1 DEF HoldsAll
  <1>3. reg' = [reg EXCEPT ![r] = r]
    BY <1>0, <1>2 DEF HoldsX, ld
  <1>4. idx \in DOMAIN mf.usedCSX /\ \A k \in 1..XLen(mf) : k \in DOMAIN mf.usedCSX
    BY <1>1, <1>0 DEF WellFormed, XLen
  <1>5. r # Ra /\ r \in Saved(mf) /\ Ra \in Saved(mf)
    BY <1>0, <1>4 DEF WellFormed, Saved
  <1>6. \A k \in 1..XLen(mf) : mf.usedCSX[k] \in Saved(mf)
    BY <1>4 DEF Saved
  <1>7. DOMAIN reg = Saved(mf)
    BY <1>0 DEF Types
  <1>8. reg' = [q \in Saved(mf) |-> reg'[q]]
    BY <1>3, <1>7
  <1>9. mf.hasCall \/ BackRa'
    BY <1>0, <1>3, <1>5, <1>7 DEF BackRa
  <1>10. ASSUME NEW k \in 1..XLen(mf), k > idx - 1
         PROVE  BackX(k)'
    <2>1. CASE k = idx
      BY <1>0, <1>3, <1>5, <1>7, <2>1 DEF BackX
    <2>2. CASE k > idx
      <3>1. BackX(k)
        BY <1>0, <2>2
      <3>2. mf.usedCSX[k] \in Saved(mf)
        BY <1>6
      <3>3. mf'.usedCSX[k] = mf.usedCSX[k]
        BY <1>0
      <3> QED BY <1>3, <1>7, <3>1, <3>2, <3>3 DEF BackX
    <2> QED BY <1>1, <1>10, <2>1, <2>2
  <1>11. off' = XSlot(mf, idx - 1) /\ idx - 1 \in 0..XLen(mf)
    <2>1. RaSlots(mf) \in Nat /\ off = XSlot(mf, idx) /\ off' = off - 8
      BY <1>0, <1>1
    <2> QED BY <1>1, <2>1 DEF XSlot
  <1>12. HoldsAll' /\ CallerFrameUntouched'
    BY <1>0, MemoryKept
  <1> HIDE DEF r
  <1>13. Progress'
    BY <1>0, <1>9, <1>10, <1>11, <1>12 DEF Progress
  <1> QED BY <1>0, <1>8, <1>12, <1>13 DEF FrameInv, Types, Phases

(* After the x registers the offset is the slot of ra, if ra was saved.    *)
LEMMA RestoreRaStep == FrameInv /\ RestoreRa => FrameInv'
  <1> SUFFICES ASSUME FrameInv, RestoreRa PROVE FrameInv'
    OBVIOUS
  <1>0. /\ Types /\ WellFormed(mf) /\ CallerFrameUntouched /\ HoldsAll
        /\ (mf.hasCall \/ BackRa)
        /\ idx = 0 /\ off = XSlot(mf, 0)
        /\ \A k \in 1..XLen(mf) : k > idx => BackX(k)
        /\ mf' = mf /\ mem' = mem /\ phase' = "restoreF"
        /\ idx' = FLen(mf) /\ off' = fBase(mf) + FLen(mf) * 8 - 8
        /\ IF mf.hasCall THEN ld(Ra, off) ELSE reg' = reg
    BY DEF FrameInv, Types, Progress, RestoreRa, Enter, FLen
  <1>1. /\ xBase(mf) \in Nat /\ XLen(mf) \in Nat /\ FLen(mf) \in Nat
        /\ fBase(mf) \in Nat
    BY <1>0, Layout
  <1>2. DOMAIN reg = Saved(mf) /\ Ra \in Saved(mf)
    BY <1>0 DEF Types, Saved
  <1>3. BackRa' /\ (\A q \in Saved(mf) \ {Ra} : reg'[q] = reg[q])
        /\ reg' = [q \in Saved(mf) |-> reg'[q]]
    <2>1. CASE mf.hasCall
      <3>1. off = xBase(mf)
        BY <1>0, <1>1, <2>1 DEF XSlot, RaSlots
      <3>2. reg' = [reg EXCEPT ![Ra] = Ra]
        BY <1>0, <2>1, <3>1 DEF HoldsAll, HoldsRa, ld
      <3> QED BY <1>2, <3>2 DEF BackRa
    <2>2. CASE ~mf.hasCall
      BY <1>0, <2>2 DEF BackRa, Types
    <2> QED BY <2>1, <2>2
  <1>4. ASSUME NEW k \in 1..XLen(mf)
        PROVE  BackX(k)'
    <2>1. k \in DOMAIN mf.usedCSX /\ k > idx
      BY <1>0, <1>1 DEF WellFormed, XLen
    <2>2. mf.usedCSX[k] \in Saved(mf) \ {Ra}
      BY <1>0, <2>1 DEF Saved, WellFormed
    <2>3. BackX(k)
      BY <1>0, <2>1
    <2> QED BY <1>0, <1>3, <2>2, <2>3 DEF BackX
  <1>5. off' = FSlot(mf, FLen(mf)) /\ FLen(mf) \in 0..FLen(mf)
        /\ \A k \in 1..FLen(mf) : ~(k > FLen(mf))
    BY <1>0, <1>1 DEF FSlot
  <1>6. HoldsAll' /\ CallerFrameUntouched'
    BY <1>0, MemoryKept
  <1>7. Progress'
    BY <1>0, <1>3, <1>4, <1>5, <1>6 DEF Progress
  <1> QED BY <1>0, <1>3, <1>6, <1>7 DEF FrameInv, Types, Phases

(* Restoring an f register keeps ra, the x registers and the f registers   *)
(* restored before it.                                                     *)
LEMMA RestoreFStep == FrameInv /\ RestoreF => FrameInv'
  <1> SUFFICES ASSUME FrameInv, RestoreF PROVE FrameInv'
    OBVIOUS
  <1> DEFINE r == mf.usedCSF[idx]
  <1>0. /\ Types /\ WellFormed(mf) /\ CallerFrameUntouched /\ HoldsAll
        /\ BackRa /\ (\A k \in 1..XLen(mf) : BackX(k))
        /\ idx \in 0..FLen(mf) /\ idx > 0 /\ off = FSlot(mf, idx)
        /\ \A k \in 1..FLen(mf) : k > idx => BackF(k)
        /\ mf' = mf /\ mem' = mem /\ phase' = "restoreF"
        /\ idx' = idx - 1 /\ off' = off - 8 /\ flw(r, FSlot(mf, idx))
    BY DEF FrameInv, Types, Progress, RestoreF, Enter
  <1>1. /\ fBase(mf) \in Nat /\ FLen(mf) \in Nat /\ XLen(mf) \in Nat
        /\ idx \in 1..FLen(mf)
    BY <1>0, Layout
  <1>2. HoldsF(idx)
    BY <1>0, <1>1 DEF HoldsAll
  <1>3. reg' = [reg EXCEPT ![r] = r]
    BY <1>0, <1>2 DEF HoldsF, flw
  <1>4. /\ \A k \in 1..XLen(mf) : k \in DOMAIN mf.usedCSX
        /\ \A k \in 1..FLen(mf) : k \in DOMAIN mf.usedCSF
    BY <1>0 DEF WellFormed, XLen, FLen
  <1>5. /\ Ra \in Saved(mf)
        /\ \A k \in 1..XLen(mf) : mf.usedCSX[k] \in Saved(mf)
        /\ \A k \in 1..FLen(mf) : mf.usedCSF[k] \in Saved(mf)
    BY <1>4 DEF Saved
  <1>6. r \in Saved(mf) /\ DOMAIN reg = Saved(mf)
    BY <1>0, <1>1, <1>5 DEF Types
  <1> HIDE DEF r
  <1>7. \A q \in Saved(mf) : reg[q] = q => reg'[q] = q
    BY <1>3, <1>6
  <1>8. reg'[r] = r /\ reg' = [q \in Saved(mf) |-> reg'[q]]
    BY <1>3, <1>6
  <1>9. BackRa'
    BY <1>0, <1>5, <1>7 DEF BackRa
  <1>10. ASSUME NEW k \in 1..XLen(mf)
         PROVE  BackX(k)'
    <2>1. BackX(k) /\ mf.usedCSX[k] \in Saved(mf)
      BY <1>0, <1>5
    <2> QED BY <1>0, <1>7, <2>1 DEF BackX
  <1>11. ASSUME NEW k \in 1..FLen(mf), k > idx - 1
         PROVE  BackF(k)'
    <2>1. CASE k = idx
      BY <1>0, <1>8, <2>1 DEF BackF, r
    <2>2. CASE k > idx
      <3>1. BackF(k) /\ mf.usedCSF[k] \in Saved(mf)
        BY <1>0, <1>5, <2>2
      <3> QED BY <1>0, <1>7, <3>1 DEF BackF
    <2> QED BY <1>1, <1>11, <2>1, <2>2
  <1>12. off' = FSlot(mf, idx - 1) /\ idx - 1 \in 0..FLen(mf)
    BY <1>0, <1>1 DEF FSlot
  <1>13. HoldsAll' /\ CallerFrameUntouched'
    BY <1>0, MemoryKept
  <1>14. Progress'
    BY <1>0, <1>9, <1>10, <1>11, <1>12, <1>13 DEF Progress
  <1> QED BY <1>0, <1>8, <1>13, <1>14 DEF FrameInv, Types, Phases

(* ret leaves with every register back.                                    *)
LEMMA RetStep == FrameInv /\ Ret => FrameInv'
  <1> SUFFICES ASSUME FrameInv, Ret PROVE FrameInv'
    OBVIOUS
  <1>0. /\ Types /\ WellFormed(mf) /\ CallerFrameUntouched
        /\ BackRa /\ (\A k \in 1..XLen(mf) : BackX(k))
        /\ idx = 0 /\ \A k \in 1..FLen(mf) : k > idx => BackF(k)
        /\ mf' = mf /\ reg' = reg /\ mem' = mem /\ phase' = "returned"
    BY DEF FrameInv, Types, Progress, Ret, Enter
  <1>1. \A k \in 1..FLen(mf) : k > 0
    BY <1>0, Layout
  <1>2. /\ BackRa' /\ \A k \in 1..XLen(mf) : BackX(k)'
        /\ \A k \in 1..FLen(mf) : BackF(k)'
    BY <1>0, <1>1 DEF BackRa, BackX, BackF
  <1>3. CallerFrameUntouched'
    BY <1>0, MemoryKept
  <1>4. Progress'
    BY <1>0, <1>2 DEF Progress
  <1> QED BY <1>0, <1>3, <1>4 DEF FrameInv, Types, Phases

----------------------------------------------------------------------------
(* The theorems.                                                           *)

(* At its first instruction a function has saved nothing, and every        *)
(* register still holds the caller's value.                                *)
LEMMA InitFrame == FrameInit => FrameInv
  <1> SUFFICES ASSUME NEW m \in Functions, FrameStart(m) PROVE FrameInv
    BY DEF FrameInit
  <1>1. WellFormed(m)
    BY FunctionsAssumption
  <1>2. Types
    BY <1>1 DEF FrameStart, Types
  <1>3. Progress /\ phase \in Phases
    BY DEF FrameStart, Progress, Phases
  <1>4. frameSize(m) \in Nat
    BY <1>1, Layout
  <1>5. CallerFrameUntouched
    BY <1>4 DEF FrameStart, CallerFrameUntouched, FrameWords
  <1> QED BY <1>2, <1>3, <1>5 DEF FrameInv

(* Every reachable state of prologue, body and epilogue has, in each       *)
(* phase, exactly the slots filled and the registers back that Progress    *)
(* says.                                                                   *)
THEOREM Inductive == FrameSpec => []FrameInv
  <1>1. FrameInv /\ [FrameNext]_frameVars => FrameInv'
    <2> SUFFICES ASSUME FrameInv, [FrameNext]_frameVars PROVE FrameInv'
      OBVIOUS
    <2>1. CASE UNCHANGED frameVars
      BY <2>1 DEF frameVars, FrameInv, Types, Progress, CallerFrameUntouched,
         HoldsAll, HoldsRa, HoldsX, HoldsF, BackRa, BackX, BackF
    <2>2. CASE FrameNext
      BY <2>2, SaveRaStep, SaveXStep, SavedXStep, SaveFStep, SavedFStep,
         UseRegisterStep, BodyStep, ReturnStep, RestoreXStep, RestoreRaStep,
         RestoreFStep, RetStep DEF FrameNext
    <2> QED BY <2>1, <2>2
  <1> QED BY <1>1, InitFrame, PTL DEF FrameSpec

(* Whatever the sizes of the areas and the registers saved, a function     *)
(* returns with ra and every callee-saved register as its caller left them *)
(* (layoutFrame, emitPrologue, emitEpilogue).                              *)
THEOREM CalleeSavedSurvive == FrameSpec => []CalleeSavedRestored
  <1>1. FrameInv => CalleeSavedRestored
    <2> SUFFICES ASSUME FrameInv, phase = "returned", NEW r \in Saved(mf)
                 PROVE  reg[r] = r
      BY DEF CalleeSavedRestored
    <2>1. /\ BackRa /\ (\A k \in 1..XLen(mf) : BackX(k))
          /\ (\A k \in 1..FLen(mf) : BackF(k)) /\ WellFormed(mf)
      BY DEF FrameInv, Types, Progress
    <2>2. DOMAIN mf.usedCSX = 1..XLen(mf) /\ DOMAIN mf.usedCSF = 1..FLen(mf)
      BY <2>1 DEF WellFormed, XLen, FLen
    <2>3. \/ r = Ra
          \/ \E k \in 1..XLen(mf) : r = mf.usedCSX[k]
          \/ \E k \in 1..FLen(mf) : r = mf.usedCSF[k]
      BY <2>2 DEF Saved
    <2> QED BY <2>1, <2>3 DEF BackRa, BackX, BackF
  <1> QED BY <1>1, Inductive, PTL

(* No store of prologue or body reaches the caller's frame, for every      *)
(* layout (layoutFrame rounds frameSize past its last area).               *)
THEOREM CallerFrameSafe == FrameSpec => []CallerFrameUntouched
  <1>1. FrameInv => CallerFrameUntouched
    BY DEF FrameInv
  <1> QED BY <1>1, Inductive, PTL
============================================================================
