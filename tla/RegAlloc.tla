------------------------------ MODULE RegAlloc ------------------------------
(***************************************************************************)
(* RegisterAllocator::allocate (src/backend/RA.cpp) on one function: dead  *)
(* code is trimmed, then rounds of liveness, interference graph, colouring *)
(* (the steps of ColorFile) and spilling rewrite the function until every  *)
(* register has a colour; after MaxRounds of them everything is spilled.   *)
(*                                                                         *)
(* The allocated function is then executed, every branch both ways, on     *)
(* physical registers and spill slots.  What a place contains is tracked   *)
(* as the set of the program's own registers whose current value it holds, *)
(* so that a read from the wrong place is visible whatever the values are. *)
(***************************************************************************)
EXTENDS MIR

CONSTANTS
  FullPhys, CalleePhys,   (* the palettes, see ColorFile                   *)
  ArgRegs,                (* sequence of argument registers, a0 first      *)
  TrimRounds,             (* 32 in the code                                *)
  MaxRounds,              (* 24 in the code                                *)
  MaxForced,              (* 8 in the code                                 *)
  RematReads              (* 8 in the code                                 *)

(* The palette of the values that outlive a call; x0 is in neither.        *)
ASSUME CalleeSavedAssumption == Range(CalleePhys) \subseteq Nat \ {0}

(* The palettes are lists of different registers, and some temporary (t2)  *)
(* passes no argument.                                                     *)
ASSUME PaletteAssumption ==
  /\ FullPhys \in Seq(Nat) /\ IsInjective(FullPhys)
  /\ CalleePhys \in Seq(Nat) /\ IsInjective(CalleePhys)
  /\ ArgRegs \in Seq(Nat)
  /\ \E p \in Range(FullPhys) : p \notin Range(ArgRegs)

VARIABLES
  stage,        (* "trim", "live", "color", "spill", "run", "stop",        *)
                (* "failed"                                                *)
  orig,         (* register -> register of the input program it stands for *)
  spillCount,   (* f.spillCount                                            *)
  saved,        (* [usedCS, hasCall]: what the prologue will save          *)
  tries,        (* [trim, round, forced, prev, degreeRule]: loop counters  *)
  lv,           (* computeLiveness: [bi, guard, changed, in, out]          *)
  sp,           (* spillRound: [remat, slot, b, k, out, nreg]              *)
  in, phase, stack, cand, color,   (* the state of ColorFile               *)
  pc,           (* [b, k]: the instruction about to execute                *)
  regs, mem     (* physical register, spill slot -> set of registers held  *)

CF == INSTANCE ColorFile WITH Inputs <- {}

allocVars == <<stage, code, orig, spillCount, saved, tries>>
colorVars == <<in, phase, stack, cand, color>>
runVars == <<pc, regs, mem>>
vars == <<allocVars, lv, sp, colorVars, runVars>>

Phys == Range(FullPhys) \cup Range(CalleePhys)

----------------------------------------------------------------------------
(* trimDead: one pass counts the uses, then erases pure definitions that   *)
(* have none and forgets the unused result of a call.                      *)

IsPure(m) == m.op \in {"Li", "Op", "Move", "Entry"}

UsedRegs == UNION {Uses(m) : m \in Insts(code)}

IsDead(m) == IsPure(m) /\ m.dst # NoReg /\ m.dst \notin UsedRegs

TrimBlock(blk) ==
  LET kept == Picked(blk, {k \in DOMAIN blk : ~IsDead(blk[k])})
  IN  [k \in DOMAIN kept |->
         IF kept[k].op = "Call" /\ kept[k].dst \notin UsedRegs
         THEN [kept[k] EXCEPT !.dst = NoReg] ELSE kept[k]]

Trimmed == [b \in Blocks(code) |-> TrimBlock(code[b])]

----------------------------------------------------------------------------
(* The arguments of colorFile.                                             *)

(* Values live after a call, other than its result.                        *)
Crossing(out) ==
  UNION {LET blk == code[b] IN
           UNION {LiveBefore(blk, out[b])[k + 1] \ Defs(blk[k]) :
                    k \in {j \in DOMAIN blk : blk[j].op = "Call"}} :
         b \in Blocks(code)}

CopySource(m) == IF m.op = "Move" THEN Uses(m) ELSE {}

(* The operands of one instruction conflict with each other, its result    *)
(* with everything live after it except the source of a copy.              *)
Conflicts(m, after) ==
  ((Uses(m) \X Uses(m)) \ {<<r, r>> : r \in Uses(m)})
    \cup (Defs(m) \X ((after \ Defs(m)) \ CopySource(m)))

buildGraph(out) ==
  LET edges == UNION {UNION {Conflicts(code[b][k],
                                       LiveBefore(code[b], out[b])[k + 1]) :
                               k \in DOMAIN code[b]} : b \in Blocks(code)}
  IN  [r \in VRegs(code) |->
         {s \in VRegs(code) : <<r, s>> \in edges \/ <<s, r>> \in edges}]

Flat == FlattenSeq(code)

(* Mutant: no argument register is protected.                              *)
entryForbidNothing == [r \in VRegs(code) |-> {}]

(* The result of an Entry keeps clear of the argument registers that later *)
(* Entry instructions still have to read.                                  *)
entryForbid ==
  LET At(p) == code[p[1]][p[2]]
      entries == {p \in UNION {{b} \X DOMAIN code[b] : b \in Blocks(code)} :
                    At(p).op = "Entry"}
      sooner(p, q) == p[1] < q[1] \/ (p[1] = q[1] /\ p[2] < q[2])
  IN  [r \in VRegs(code) |->
         {At(q).imm : q \in {e \in entries :
                              \E p \in entries : At(p).dst = r /\ sooner(p, e)}}
           \cap Phys]

(* The successors in the order in which buildCFG lists them: the targets   *)
(* of the trailing jumps, then the next block.                             *)
SuccSeq(b) ==
  LET blk   == code[b]
      first == 1 + Max({k \in DOMAIN blk : ~IsJump(blk[k])} \cup {0})
      tail  == SubSeq(blk, first, Len(blk))
  IN  [k \in DOMAIN tail |-> tail[k].imm]
        \o (IF FallsThrough(code, b) THEN <<b + 1>> ELSE <<>>)

(* Loop depth by depth-first search: an edge back to a block on the path   *)
(* adds a level to every block of the path from there on.                  *)
loopDepth ==
  LET dfs[s \in [seen  : SUBSET Blocks(code), depth : [Blocks(code) -> Nat],
                  path  : Seq(Blocks(code)), todo : Seq(Blocks(code))]] ==
        IF s.todo = <<>> THEN s
        ELSE LET v == Head(s.todo)
                 onPath == {k \in DOMAIN s.path : s.path[k] = v}
                 inLoop == {s.path[k] : k \in {j \in DOMAIN s.path :
                                                 \E h \in onPath : h <= j}}
                 deeper == [s EXCEPT !.depth =
                              [b \in DOMAIN @ |-> IF b \in inLoop THEN @[b] + 1
                                                  ELSE @[b]]]
                 visit  == dfs[[seen |-> s.seen \cup {v}, depth |-> s.depth,
                                path |-> Append(s.path, v), todo |-> SuccSeq(v)]]
                 after  == IF onPath # {} THEN deeper
                           ELSE IF v \notin s.seen THEN visit ELSE s
             IN  dfs[[after EXCEPT !.path = s.path, !.todo = Tail(s.todo)]]
  IN  dfs[[seen |-> {}, depth |-> [b \in Blocks(code) |-> 0], path |-> <<>>,
           todo |-> [b \in Blocks(code) |-> b]]].depth

BlockWeight(b) == 2 ^ Min({loopDepth[b], 12})

(* One term per definition and per operand; call arguments are not counted.*)
OccurrencesIn(m, r) ==
  (IF m.dst = r THEN 1 ELSE 0) +
  (IF m.op = "Call" THEN 0 ELSE Cardinality({k \in DOMAIN m.use : m.use[k] = r}))

SumBlocks(f(_, _), r) ==
  LET inBlock(b) == FoldLeft(LAMBDA n, m : n + f(m, r), 0, code[b])
  IN  FoldLeft(LAMBDA n, b : n + inBlock(b) * BlockWeight(b), 0,
               [b \in Blocks(code) |-> b])

spillWeight == [r \in VRegs(code) |-> SumBlocks(OccurrencesIn, r)]

(* What an instruction would save if r sat in physical register p.         *)
AbiUses(m, r, p) ==
  CASE m.op = "Entry" -> IF m.dst = r /\ m.imm = p THEN 1 ELSE 0
    [] m.op = "Ret"   -> IF r \in Uses(m) /\ p = ArgRegs[1] THEN 1 ELSE 0
    [] m.op = "Call"  ->
         Cardinality({k \in DOMAIN m.use : m.use[k] = r /\ ArgRegs[k] = p})
         + (IF m.dst = r /\ p = ArgRegs[1] THEN 1 ELSE 0)
    [] OTHER          -> 0

CopyUses(m, r) ==
  IF m.op = "Move" /\ m.dst # m.use[1] /\ r \in {m.dst, m.use[1]} THEN 1 ELSE 0

(* A hint counts only if it saves more than all copies next to the value.  *)
abiCopyHints ==
  LET raw(r, p) == SumBlocks(LAMBDA m, x : AbiUses(m, x, p), r)
      best(r) == Max({raw(r, p) : p \in Phys})
  IN  [r \in VRegs(code) |->
         IF best(r) <= SumBlocks(CopyUses, r) THEN [p \in Phys |-> 0]
         ELSE [p \in Phys |-> raw(r, p)]]

Partners ==
  LET moves == SelectSeq(Flat, LAMBDA m : m.op = "Move")
      ends(r) == [k \in DOMAIN moves |->
                    (IF moves[k].dst = r THEN <<moves[k].use[1]>> ELSE <<>>) \o
                    (IF moves[k].use[1] = r THEN <<moves[k].dst>> ELSE <<>>)]
  IN  [r \in VRegs(code) |-> FlattenSeq(ends(r))]

ColorInput ==
  [nodes |-> VRegs(code), adj |-> buildGraph(lv.out),
   crossing |-> Crossing(lv.out), forbid |-> entryForbid,
   weight |-> spillWeight, hint |-> abiCopyHints, partners |-> Partners,
   degreeRule |-> tries.degreeRule \/ tries.round >= MaxRounds]

----------------------------------------------------------------------------
(* spillRound.                                                             *)

(* The places where r is defined.                                          *)
DefsOf(r) ==
  UNION {{<<b, k>> : k \in {j \in DOMAIN code[b] : code[b][j].dst = r}} :
           b \in Blocks(code)}

IsDefByLi(m, r) == m.op = "Li" /\ m.dst = r

(* countReads looks at a Ret's operand twice.                              *)
ReadsOf(r) ==
  FoldLeft(LAMBDA n, m :
             n + Cardinality({k \in DOMAIN m.use : m.use[k] = r})
               + (IF m.op = "Ret" /\ r \in Uses(m) THEN 1 ELSE 0), 0, Flat)

rematCandidates ==
  {r \in VRegs(code) : /\ Cardinality(DefsOf(r)) = 1
                       /\ \E m \in Insts(code) : IsDefByLi(m, r)
                       /\ ReadsOf(r) \in 1..RematReads}

(* Slot numbers keep growing across rounds, in register order.             *)
SlotsFor(kept) ==
  [r \in kept |-> spillCount + Cardinality({s \in kept : s < r})]

(* What is spilled gets a slot, unless its one definition is copied to     *)
(* where it is read; the blocks are then rewritten in layout order.        *)
BeginSpilling(spilled, remat) ==
  /\ sp' = [remat |-> [r \in remat |-> CHOOSE m \in Insts(code) : IsDefByLi(m, r)],
            slot |-> SlotsFor(spilled \ remat),
            b |-> 1, k |-> 1, out |-> <<>>, nreg |-> maxReg(code)]
  /\ spillCount' = spillCount + Cardinality(spilled \ remat)
  /\ stage' = "spill"

(* The operands of m that are no longer in a register, each once, in the   *)
(* order in which they are met.                                            *)
GoneFrom(m) ==
  Picked(m.use, {k \in DOMAIN m.use :
                   /\ m.use[k] \in DOMAIN sp.remat \cup DOMAIN sp.slot
                   /\ \A j \in 1..(k - 1) : m.use[j] # m.use[k]})

(* The i-th temporary, for register r: a copy of its definition or a load. *)
Loaded(r, i) ==
  IF r \in DOMAIN sp.remat THEN [sp.remat[r] EXCEPT !.dst = sp.nreg + i - 1]
  ELSE Inst("SpillLw", sp.nreg + i - 1, <<>>, sp.slot[r])

(* One instruction: its operands are loaded into temporaries, its result   *)
(* is stored from one.                                                     *)
SpillInst ==
  /\ stage = "spill" /\ sp.b <= Len(code) /\ sp.k <= Len(code[sp.b])
  /\ LET m      == code[sp.b][sp.k]
         gone   == GoneFrom(m)
         tmp(r) == sp.nreg + (CHOOSE i \in DOMAIN gone : gone[i] = r) - 1
         last   == sp.nreg + Len(gone)
         stored == m.dst \in DOMAIN sp.slot
         body   == [m EXCEPT
                      !.use = [k \in DOMAIN m.use |->
                                 IF m.use[k] \in Range(gone) THEN tmp(m.use[k])
                                 ELSE m.use[k]],
                      !.dst = IF stored THEN last ELSE @]
         store  == IF stored
                   THEN <<Inst("SpillSw", NoReg, <<last>>, sp.slot[m.dst])>>
                   ELSE <<>>
         next   == IF stored THEN last + 1 ELSE last
     IN  /\ sp' = [sp EXCEPT
                     !.k = @ + 1, !.nreg = next,
                     !.out = @ \o [i \in DOMAIN gone |-> Loaded(gone[i], i)]
                               \o <<body>> \o store]
         /\ orig' = [r \in DOMAIN orig \cup sp.nreg..(next - 1) |->
                       IF r \notin sp.nreg..(next - 1) THEN orig[r]
                       ELSE IF r < last THEN orig[gone[r - sp.nreg + 1]]
                       ELSE orig[m.dst]]
  /\ UNCHANGED <<stage, code, spillCount, saved, tries, lv, colorVars, runVars>>

(* b.instrs = std::move(out).                                              *)
SpillNextBlock ==
  /\ stage = "spill" /\ sp.b <= Len(code) /\ sp.k > Len(code[sp.b])
  /\ code' = [code EXCEPT ![sp.b] = sp.out]
  /\ sp' = [sp EXCEPT !.b = @ + 1, !.k = 1, !.out = <<>>]
  /\ UNCHANGED <<stage, orig, spillCount, saved, tries, lv, colorVars, runVars>>

(* The definitions of copied registers go.                                 *)
Erased(blk) ==
  Picked(blk, {k \in DOMAIN blk : blk[k].dst \notin DOMAIN sp.remat})

----------------------------------------------------------------------------
(* The stages of allocate.                                                 *)

NoLiveness == [bi |-> 0, guard |-> 0, changed |-> FALSE, in |-> <<>>, out |-> <<>>]

NoSpill == [remat |-> <<>>, slot |-> <<>>, b |-> 0, k |-> 0, out |-> <<>>, nreg |-> 0]

StartWith(f) ==
  /\ stage = "trim" /\ code = f /\ spillCount = 0
  /\ saved = [usedCS |-> {}, hasCall |-> FALSE]
  /\ orig = [r \in VRegs(f) |-> r]
  /\ tries = [trim |-> 0, round |-> 0, forced |-> 0, prev |-> 2147483647,
              degreeRule |-> FALSE]
  /\ lv = NoLiveness /\ sp = NoSpill
  /\ in = <<>> /\ phase = "none" /\ stack = <<>> /\ cand = {} /\ color = <<>>
  /\ pc = [b |-> 1, k |-> 1]
  /\ regs = [p \in Phys |-> IF p \in Range(ArgRegs) \cup Range(CalleePhys)
                          THEN {-p} ELSE {}]
  /\ mem = <<>>

(* computeLiveness starts over with nothing live, at the last block.       *)
BeginLiveness ==
  lv' = [bi |-> Len(code'), guard |-> 1, changed |-> FALSE,
         in |-> [b \in Blocks(code') |-> {}],
         out |-> [b \in Blocks(code') |-> {}]]

TrimPass ==
  /\ stage = "trim" /\ tries.trim < TrimRounds /\ Trimmed # code
  /\ code' = Trimmed
  /\ tries' = [tries EXCEPT !.trim = @ + 1]
  /\ UNCHANGED <<stage, orig, spillCount, saved, lv, sp, colorVars, runVars>>

TrimEnds ==
  /\ stage = "trim" /\ (tries.trim = TrimRounds \/ Trimmed = code)
  /\ stage' = "live"
  /\ UNCHANGED <<code, orig, spillCount, saved, tries, sp, colorVars, runVars>>
  /\ BeginLiveness

VisitBlock ==
  /\ stage = "live" /\ lv.bi > 0
  /\ LET b    == lv.bi
         outs == UNION {lv.in[s] : s \in Succs(code, b)}
         ins  == LiveBefore(code[b], outs)[1]
     IN  lv' = [lv EXCEPT !.bi = b - 1, !.in[b] = ins, !.out[b] = outs,
                          !.changed = @ \/ outs # lv.out[b] \/ ins # lv.in[b]]
  /\ UNCHANGED <<allocVars, sp, colorVars, runVars>>

(* Mutant: a limit below the number of blocks.                             *)
TooFewPasses == lv.changed /\ lv.guard < Len(code) - 2

MorePasses == lv.changed /\ lv.guard < Len(code) + 8

NextPass ==
  /\ stage = "live" /\ lv.bi = 0 /\ MorePasses
  /\ lv' = [lv EXCEPT !.bi = Len(code), !.guard = @ + 1, !.changed = FALSE]
  /\ UNCHANGED <<allocVars, sp, colorVars, runVars>>

BeginColoring ==
  /\ stage = "live" /\ lv.bi = 0 /\ ~MorePasses
  /\ stage' = "color"
  /\ in' = ColorInput
  /\ phase' = "simplify" /\ stack' = <<>> /\ cand' = {}
  /\ color' = [r \in VRegs(code) |-> NoReg]
  /\ UNCHANGED <<code, orig, spillCount, saved, tries, lv, sp, runVars>>

ColorStep ==
  /\ stage = "color"
  /\ CF!Next
  /\ UNCHANGED <<allocVars, lv, sp, runVars>>

Uncolored == {r \in in.nodes : color[r] = NoReg}

(* Mutant: only values live across a call are taken to need saving.        *)
usedCalleeSavedCrossing ==
  {color[r] : r \in in.crossing} \cap Range(CalleePhys)

usedCalleeSaved == {color[r] : r \in VRegs(code)} \cap Range(CalleePhys)

(* Every register has a colour: record the callee-saved registers used and *)
(* whether there is a call left, then put the colours into the code, which *)
(* below is read through color.                                            *)
Bake ==
  /\ stage = "color" /\ phase = "done" /\ Uncolored = {}
  /\ stage' = "run"
  /\ saved' = [usedCS  |-> usedCalleeSaved,
               hasCall |-> \E m \in Insts(code) : m.op = "Call"]
  /\ mem' = [s \in 0..(spillCount - 1) |-> {}]
  /\ UNCHANGED <<code, orig, spillCount, tries, lv, sp, colorVars, pc, regs>>

(* The colouring failed: spill what has no colour, switching to the degree *)
(* rule for good once a round has not made the uncoloured set smaller.     *)
SpillAndRetry ==
  /\ stage = "color" /\ phase = "done" /\ Uncolored # {}
  /\ tries.round < MaxRounds
  /\ BeginSpilling(Uncolored, rematCandidates \cap Uncolored)
  /\ tries' = [tries EXCEPT
                 !.round = @ + 1, !.prev = Cardinality(Uncolored),
                 !.degreeRule = @ \/ Cardinality(Uncolored) >= tries.prev]
  /\ UNCHANGED <<code, orig, saved, lv, colorVars, runVars>>

(* Mutant: the forced rounds spill no more than the others did.            *)
SpillUncoloredAgain ==
  /\ stage = "color" /\ phase = "done" /\ Uncolored # {}
  /\ tries.round = MaxRounds
  /\ BeginSpilling(Uncolored, {})
  /\ tries' = [tries EXCEPT !.forced = @ + 1]
  /\ UNCHANGED <<code, orig, saved, lv, colorVars, runVars>>

(* The last resort: spill every register there is.                         *)
SpillEverything ==
  /\ stage = "color" /\ phase = "done" /\ Uncolored # {}
  /\ tries.round = MaxRounds
  /\ BeginSpilling(0..(maxReg(code) - 1), {})
  /\ tries' = [tries EXCEPT !.forced = @ + 1]
  /\ UNCHANGED <<code, orig, saved, lv, colorVars, runVars>>

(* The next attempt; assert(converged) fails after the eighth time that    *)
(* everything has been spilled.                                            *)
SpillEnds ==
  /\ stage = "spill" /\ sp.b > Len(code)
  /\ code' = [b \in Blocks(code) |-> Erased(code[b])]
  /\ stage' = IF tries.forced < MaxForced THEN "live" ELSE "failed"
  /\ sp' = NoSpill /\ BeginLiveness
  /\ UNCHANGED <<orig, spillCount, saved, tries, colorVars, runVars>>

----------------------------------------------------------------------------
(* Execution of the allocated function.                                    *)

Running == stage = "run"

This == code[pc.b][pc.k]

AtInst(ops) == Running /\ pc.k <= Len(code[pc.b]) /\ This.op \in ops

GoOn == pc' = [pc EXCEPT !.k = @ + 1]

(* A new value of o is written to register c; every other copy of o's old  *)
(* value is stale.                                                         *)
Write(files, c, o) ==
  /\ regs' = [p \in Phys |-> IF p = c THEN {o} ELSE files[p] \ {o}]
  /\ mem' = [s \in DOMAIN mem |-> mem[s] \ {o}]

Compute ==
  /\ AtInst({"Li", "Op", "Lw", "Entry"})
  /\ Write(regs, color[This.dst], orig[This.dst])
  /\ GoOn

StoreWord ==
  /\ AtInst({"Sw"})
  /\ GoOn /\ UNCHANGED <<regs, mem>>

(* Whatever holds the source's value now holds the destination's too.      *)
Copy ==
  /\ AtInst({"Move"})
  /\ LET s == orig[This.use[1]]
         d == orig[This.dst]
         copied(h) == IF s \in h THEN h \cup {d} ELSE h \ {d}
     IN  /\ regs' = [p \in Phys |->
                       IF p = color[This.dst] THEN copied(regs[color[This.use[1]]])
                       ELSE copied(regs[p])]
         /\ mem' = [k \in DOMAIN mem |-> copied(mem[k])]
  /\ GoOn

(* The callee may overwrite everything that is not callee-saved.           *)
CallReturns ==
  /\ AtInst({"Call"})
  /\ LET kept == [p \in Phys |-> IF p \in Range(CalleePhys) THEN regs[p] ELSE {}]
     IN  IF This.dst = NoReg THEN regs' = kept /\ UNCHANGED mem
         ELSE Write(kept, color[This.dst], orig[This.dst])
  /\ GoOn

Spill ==
  /\ AtInst({"SpillSw"})
  /\ mem' = [mem EXCEPT ![This.imm] = regs[color[This.use[1]]]]
  /\ GoOn /\ UNCHANGED regs

Reload ==
  /\ AtInst({"SpillLw"})
  /\ regs' = [regs EXCEPT ![color[This.dst]] = mem[This.imm]]
  /\ GoOn /\ UNCHANGED mem

(* A conditional branch may go either way.                                 *)
Branch ==
  /\ AtInst({"Br", "Jmp"})
  /\ \/ pc' = [b |-> This.imm, k |-> 1]
     \/ This.op = "Br" /\ GoOn
  /\ UNCHANGED <<regs, mem>>

FallThrough ==
  /\ Running /\ pc.k > Len(code[pc.b]) /\ pc.b < Len(code)
  /\ pc' = [b |-> pc.b + 1, k |-> 1]
  /\ UNCHANGED <<regs, mem>>

Execute ==
  /\ \/ Compute \/ StoreWord \/ Copy \/ CallReturns
     \/ Spill \/ Reload \/ Branch \/ FallThrough
  /\ UNCHANGED <<allocVars, lv, sp, colorVars>>

Return ==
  /\ AtInst({"Ret"})
  /\ stage' = "stop"
  /\ UNCHANGED <<code, orig, spillCount, saved, tries, lv, sp, colorVars, runVars>>

Next ==
  \/ TrimPass \/ TrimEnds
  \/ VisitBlock \/ NextPass \/ BeginColoring \/ ColorStep
  \/ Bake \/ SpillAndRetry \/ SpillEverything
  \/ SpillInst \/ SpillNextBlock \/ SpillEnds
  \/ Execute \/ Return

----------------------------------------------------------------------------
(* Every register of the rewritten code stands for one of the program, the *)
(* loop limits hold, and allocated code has a colour for each register and *)
(* a slot for each spill.                                                  *)
TypeOK ==
  /\ stage \in {"trim", "live", "color", "spill", "run", "stop", "failed"}
  /\ \A m \in Insts(code) : m.op \in Ops
  /\ VRegs(code) \subseteq DOMAIN orig
  /\ tries.round \in 0..MaxRounds /\ tries.forced \in 0..MaxForced
  /\ stage = "color" => CF!TypeOK
  /\ stage = "run" => /\ color \in [VRegs(code) -> Phys]
                      /\ DOMAIN mem = 0..(spillCount - 1)

(* Every operand an instruction reads is found where the allocator put it: *)
(* the register (or the slot a reload reads) holds the current value of    *)
(* the program's own register, after any mix of spills, reloads, clones,   *)
(* shared colours, copies whose ends share a colour, calls and loop trips. *)
OperandsRight ==
  Running /\ pc.k <= Len(code[pc.b]) =>
    /\ \A r \in Uses(This) : orig[r] \in regs[color[r]]
    /\ This.op = "SpillLw" => orig[This.dst] \in mem[This.imm]

(* And an Entry finds the argument that its ABI register was passed in.    *)
ReadsRight ==
  /\ OperandsRight
  /\ AtInst({"Entry"}) => -(This.imm) \in regs[This.imm]

(* Once everything has been spilled the next attempt must succeed          *)
(* (RA.cpp:1009-1014), so that assert(converged) never fires.              *)
FallbackSucceeds ==
  /\ tries.forced <= 1
  /\ tries.forced = 1 /\ stage = "color" /\ phase = "done" => Uncolored = {}

(* A callee-saved register that is not in the list the prologue is given   *)
(* keeps the caller's value throughout, and ra is saved before any call:   *)
(* the list is taken from the last colouring, after every spill round.     *)
UnsavedKept ==
  Running =>
    /\ \A p \in Range(CalleePhys) \ saved.usedCS : -p \in regs[p]
    /\ AtInst({"Call"}) => saved.hasCall

(* The pass limit of computeLiveness never cuts the iteration short: what  *)
(* the graph is built from solves the dataflow equations, and holds live   *)
(* no more than it has to.                                                 *)
LivenessSolved ==
  stage = "color" /\ phase = "simplify" /\ stack = <<>> =>
    /\ lv.out = LiveOut(code)
    /\ \A b \in Blocks(code) : lv.in[b] = LiveBefore(code[b], lv.out[b])[1]
============================================================================
