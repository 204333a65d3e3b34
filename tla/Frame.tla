------------------------------- MODULE Frame -------------------------------
(***************************************************************************)
(* The stack frame of a function (src/backend/Asm.cpp): layoutFrame fixes  *)
(* the areas, emitPrologue saves ra and the callee-saved registers that    *)
(* the allocator used, the body writes its spill slots, locals and         *)
(* outgoing arguments, emitEpilogue restores the registers.                *)
(*                                                                         *)
(* Offsets are bytes from sp.  Memory is kept in words of four bytes: an   *)
(* sd writes two of them, an fsw one.                                      *)
(***************************************************************************)
EXTENDS Integers, Sequences, FiniteSets

CONSTANTS
  Functions,   (* [maxStkArgBytes, spillCount, localBytes, usedCSX,        *)
               (*  usedCSF, hasCall]: what layoutFrame reads of a function *)
  Ra           (* the name of register ra                                  *)

Injective(s) == \A k, j \in DOMAIN s : s[k] = s[j] => k = j

(* usedCSX and usedCSF have been sorted and made unique (RA.cpp:1035-1040);*)
(* registers of the two files have different names here.  Locals are       *)
(* arrays of words (frameSlot), outgoing arguments slots of eight bytes    *)
(* (stkOff).                                                               *)
WellFormed(m) ==
  /\ m.maxStkArgBytes \in Nat /\ m.maxStkArgBytes % 8 = 0
  /\ m.spillCount \in Nat
  /\ m.localBytes \in Nat /\ m.localBytes % 4 = 0
  /\ m.usedCSX \in Seq(Nat) /\ Injective(m.usedCSX)
  /\ m.usedCSF \in Seq(Nat) /\ Injective(m.usedCSF)
  /\ \A k \in DOMAIN m.usedCSX : m.usedCSX[k] # Ra
  /\ \A k \in DOMAIN m.usedCSF : m.usedCSF[k] # Ra
  /\ \A k \in DOMAIN m.usedCSX, j \in DOMAIN m.usedCSF :
       m.usedCSX[k] # m.usedCSF[j]
  /\ m.hasCall \in BOOLEAN

ASSUME FunctionsAssumption ==
  /\ Ra \in Nat
  /\ \A m \in Functions : WellFormed(m)

align8(v) == ((v + 7) \div 8) * 8
align16(v) == ((v + 15) \div 16) * 16

xN(m) == Len(m.usedCSX) + (IF m.hasCall THEN 1 ELSE 0)
fN(m) == Len(m.usedCSF)

spillBase(m) == align8(m.maxStkArgBytes)

(* Mutant: the outgoing arguments are counted, the spill slots are not.    *)
localBaseLow(m) == spillBase(m)

localBase(m) == spillBase(m) + m.spillCount * 8
fBase(m) == localBase(m) + m.localBytes
xBase(m) == fBase(m) + fN(m) * 8

(* Mutant: no room is left for ra.                                         *)
frameSizeNoRa(m) == align16(xBase(m) + Len(m.usedCSX) * 8)

frameSize(m) == align16(xBase(m) + xN(m) * 8)

VARIABLES
  mf,      (* the function                                                *)
  phase,   (* the part of its code that is executing                      *)
  idx,     (* register the save or restore loop has reached               *)
  off,     (* the offset it has reached (xo, fo)                          *)
  reg,     (* register -> the value it holds, at first its own name       *)
  mem      (* word of the frame, or above it -> <<value, half>>           *)

frameVars == <<mf, phase, idx, off, reg, mem>>

Junk == -1     (* anything the body may have written *)
Caller == -2   (* what the caller keeps above the frame *)

Saved(m) == {m.usedCSX[k] : k \in DOMAIN m.usedCSX}
              \cup {m.usedCSF[k] : k \in DOMAIN m.usedCSF} \cup {Ra}

(* The frame, and the caller's words right above it.                       *)
FrameWords(m) == {w \in 0..(frameSize(m) + 12) : w % 4 = 0}

----------------------------------------------------------------------------
(* Other words never matter; see FrameWords.                               *)
WriteWords(ws, v) ==
  mem' = [w \in DOMAIN mem |-> IF w \in ws THEN v ELSE mem[w]]

sd(r, o) ==
  mem' = [w \in DOMAIN mem |-> IF w = o THEN <<reg[r], 0>>
                               ELSE IF w = o + 4 THEN <<reg[r], 1>> ELSE mem[w]]
fsw(r, o) == WriteWords({o}, <<reg[r], 0>>)

(* A value is read back whole or not at all.                               *)
ld(r, o) ==
  reg' = [reg EXCEPT ![r] =
            IF mem[o][2] = 0 /\ mem[o + 4] = <<mem[o][1], 1>>
            THEN mem[o][1] ELSE Junk]
flw(r, o) == reg' = [reg EXCEPT ![r] = IF mem[o][2] = 0 THEN mem[o][1] ELSE Junk]

FrameStart(m) ==
  /\ mf = m
  /\ phase = "saveRa" /\ idx = 1 /\ off = xBase(m)
  /\ reg = [r \in Saved(m) |-> r]
  /\ mem = [w \in FrameWords(m) |->
              IF w < frameSize(m) THEN <<Junk, 0>> ELSE <<Caller, 0>>]

FrameInit == \E m \in Functions : FrameStart(m)

Enter(p, k, o) == phase' = p /\ idx' = k /\ off' = o

SaveRa ==
  /\ phase = "saveRa"
  /\ IF mf.hasCall THEN sd(Ra, off) /\ Enter("saveX", 1, off + 8)
     ELSE UNCHANGED mem /\ Enter("saveX", 1, off)
  /\ UNCHANGED <<mf, reg>>

SaveX ==
  /\ phase = "saveX" /\ idx <= Len(mf.usedCSX)
  /\ sd(mf.usedCSX[idx], off)
  /\ Enter("saveX", idx + 1, off + 8)
  /\ UNCHANGED <<mf, reg>>

SavedX ==
  /\ phase = "saveX" /\ idx > Len(mf.usedCSX)
  /\ Enter("saveF", 1, fBase(mf))
  /\ UNCHANGED <<mf, reg, mem>>

SaveF ==
  /\ phase = "saveF" /\ idx <= Len(mf.usedCSF)
  /\ fsw(mf.usedCSF[idx], off)
  /\ Enter("saveF", idx + 1, off + 8)
  /\ UNCHANGED <<mf, reg>>

SavedF ==
  /\ phase = "saveF" /\ idx > Len(mf.usedCSF)
  /\ Enter("body", 0, 0)
  /\ UNCHANGED <<mf, reg, mem>>

----------------------------------------------------------------------------
(* The body: it may use every register it has saved and every word of its  *)
(* own areas.                                                              *)
UseRegister ==
  /\ phase = "body"
  /\ \E r \in Saved(mf) \ (IF mf.hasCall THEN {} ELSE {Ra}) :
       reg' = [reg EXCEPT ![r] = Junk]
  /\ UNCHANGED <<mf, phase, idx, off, mem>>

SpillSw ==
  /\ phase = "body"
  /\ \E s \in 0..(mf.spillCount - 1) :
       WriteWords({spillBase(mf) + s * 8, spillBase(mf) + s * 8 + 4}, <<Junk, 0>>)
  /\ UNCHANGED <<mf, phase, idx, off, reg>>

StoreLocal ==
  /\ phase = "body"
  /\ \E b \in {w \in 0..(mf.localBytes - 1) : w % 4 = 0} :
       WriteWords({localBase(mf) + b}, <<Junk, 0>>)
  /\ UNCHANGED <<mf, phase, idx, off, reg>>

(* StkArgSw: slot k of a call with stack arguments, at sp + 8k.            *)
StkArgSw ==
  /\ phase = "body"
  /\ \E k \in 0..(mf.maxStkArgBytes - 1) :
       /\ k % 8 = 0
       /\ WriteWords({k, k + 4}, <<Junk, 0>>)
  /\ UNCHANGED <<mf, phase, idx, off, reg>>

(* The epilogue walks the saved registers backwards.                       *)
Return ==
  /\ phase = "body"
  /\ Enter("restoreX", Len(mf.usedCSX), xBase(mf) + xN(mf) * 8 - 8)
  /\ UNCHANGED <<mf, reg, mem>>

RestoreX ==
  /\ phase = "restoreX" /\ idx > 0
  /\ ld(mf.usedCSX[idx], off)
  /\ Enter("restoreX", idx - 1, off - 8)
  /\ UNCHANGED <<mf, mem>>

RestoreRa ==
  /\ phase = "restoreX" /\ idx = 0
  /\ IF mf.hasCall THEN ld(Ra, off) ELSE UNCHANGED reg
  /\ Enter("restoreF", Len(mf.usedCSF), fBase(mf) + Len(mf.usedCSF) * 8 - 8)
  /\ UNCHANGED <<mf, mem>>

RestoreF ==
  /\ phase = "restoreF" /\ idx > 0
  /\ flw(mf.usedCSF[idx], off)
  /\ Enter("restoreF", idx - 1, off - 8)
  /\ UNCHANGED <<mf, mem>>

Ret ==
  /\ phase = "restoreF" /\ idx = 0
  /\ Enter("returned", 0, 0)
  /\ UNCHANGED <<mf, reg, mem>>

FrameNext ==
  \/ SaveRa \/ SaveX \/ SavedX \/ SaveF \/ SavedF
  \/ UseRegister \/ SpillSw \/ StoreLocal \/ StkArgSw \/ Return
  \/ RestoreX \/ RestoreRa \/ RestoreF \/ Ret

FrameSpec == FrameInit /\ [][FrameNext]_frameVars

----------------------------------------------------------------------------
(* A caller finds ra and every callee-saved register as it left them,      *)
(* whatever the body stored in its own areas: no area overlaps the save    *)
(* slots, and the restore loops meet the slots the save loops used.        *)
CalleeSavedRestored ==
  phase = "returned" => \A r \in Saved(mf) : reg[r] = r

(* Nothing is stored at or above sp + frameSize, where the caller's        *)
(* outgoing arguments are.                                                 *)
CallerFrameUntouched ==
  \A w \in DOMAIN mem : w >= frameSize(mf) => mem[w] = <<Caller, 0>>
============================================================================
