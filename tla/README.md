# SakuraCompiler: a TLA+ verification project

SakuraCompiler translates SysY (a C subset) to RV64 assembly. This directory
holds TLA+ models of its core algorithms, translated from the C++ under `src/src`,
the TLC configurations that check them and TLAPS proofs of the properties
that matter most. `PROJECT.json` maps every definition to the lines it models
and lists runs, mutants, hazards, findings and theorems.

## 1. The system

A compilation is one sequential pipeline; there are no threads, no messages and
nothing persistent. What makes it hard is *order*: rewrites applied one at a
time that must act as if simultaneous, facts computed before a rewrite and used
after it, stages that rely on what earlier stages left behind, and limits
(registers, rounds, frame bytes).

| Component | State | Operations | Correct when |
|---|---|---|---|
| Frontend: `SysYParser`, `ASTBuilder`, `SemanticAnalysis` | tokens, parse tree, AST, scope stack, constant values | one rule of the grammar each; resolve, fold, check initialisers | grouping as the grammar says, names resolve to the innermost declaration, folding agrees with run-time arithmetic, exactly the illegal texts are refused |
| `IRBuilder` | current function/block, loop stack | one visit per statement, short circuit, affine `for` recognition | control flow of the source is kept |
| IR (`midend/ir`) | functions, blocks, instructions | create, erase, replace uses; range analysis | operands refer to live definitions; ranges contain every value |
| Pass manager (`midend/pass/Pipeline`, `PassManager`) | current layer affine / scf / cf | run pass, switch layer | a pass only meets the layer it declares |
| Midend passes | the module | inline, tail recursion, mem2reg, CSE, LICM, if-conversion, induction variables, rotation, unrolling, splitting, layout | meaning preserved |
| Instruction selection (`ISel`) | value → virtual register, blocks of machine code, split edges | lower instruction, terminator, phi, call, parameters | reads of the machine code see SSA values |
| Machine optimiser (`MachineOpt`) | machine function | strength reduction, zero fill, peephole, CSE, LICM, schedule, coalesce; after allocation: move removal, loop rotation, branch folding | meaning preserved, pressure not raised |
| Register allocator (`RA`) | code, liveness, graph, colours, slots | trim, liveness, graph, colour, spill, bake | every read finds the value the program means |
| Frame and calls (`Asm`, `Machine`) | frame areas, argument cursor | layout, prologue, epilogue, argument shuffle | callee-saved state restored, arguments arrive, caller's memory untouched |

Components interact by handing over data structures: the midend gives ISel a
flat SSA module; ISel gives machine functions over virtual registers; the
machine optimiser and the allocator rewrite these in place in the order of
`RISCVBackend::run`; `Asm` lays out the frame from the counters
(`spillCount`, `localBytes`, `usedCSX`, `usedCSF`, `hasCall`,
`maxStkArgBytes`) that the allocator and ISel recorded. Shared assumptions, not
calls, are where the parts meet: the argument cursor is walked by three
different pieces of code, the allocator assumes that Entry instructions
still find their argument registers, the prologue saves only what the
allocator listed.

Hard behaviours, in short (the full list, each at its line, is under
`hazards` in `PROJECT.json`): parallel assignments emitted as sequences (phi
copies, call arguments); copies placed before a branch that only one arm wants;
counts and live sets that are computed once and used while the code changes;
fixpoint loops with a pass limit; a fallback that must succeed; layout rewrites
that silently rely on fall-through; frame areas of different alignment.

## 2. Plan

The backend came first, because every program goes through it and because its
stages share implicit assumptions; then the mid-end, pass by pass, under one
composition.

1. (done) Parallel copies: `ParallelCopy`, `PhiCopies`, `CallShuffle`, with proofs.
2. (done) Register allocation: `ColorFile` with proofs, `MIR`, `RegAlloc`.
3. (done) Frame: `Frame` with proofs.
4. (done) Edges and layout: `PhiEdges`, `BlockLayout`.
5. (done) Machine passes on virtual and physical registers: `Schedule`,
   `MoveOpt`; composition `Backend`.
6. (done) Machine passes on words: `StrengthReduce`, `WordPeephole`.
7. (done) Mid-end: `IR`, `IRRun`, one module per group of passes, composed by
   `Midend` in the order of `addOptPipeline`.
8. (done) From source to IR: `Source` (what a program means) and `IRBuild`.
9. (done) `MachineCse`: `blockLocalCse`, `licm` and `globalCse` of the machine
   optimiser.
10. (done) Front end: `Parser`, `Sema`, `Frontend`, from a text to the program
    the IR builder makes of it, composed with `Source`.
11. (done) Proofs about `Schedule` (exact live sets, dependences, pressure),
    `PhiEdges` (branches), `MoveOpt` (counts are bounds) and `RegAlloc` (unsaved
    registers).
12. (done) Proofs about the whole of `RegAlloc`: liveness is solved within its
    pass limit, the forced round succeeds.

## 3. Modules and the code they model

Modules named `MC…` choose the inputs for TLC and contain no model of code;
modules named `…Proofs` contain only the inductive invariants and proofs.
Definitions marked *Mutant* are plausible bugs that `PROJECT.json` swaps in to
show that a property can fail; nothing else uses them.

| Module | Code | State and steps |
|---|---|---|
| `ColorFile` | `Allocator::colorFile` (RA.cpp) | input record `in` (graph, palettes, hints), `stack`, `cand`, `color`; one step per node removed (`Simplify`, `SpillCandidate`) and per node popped (`Select`, `SelectFails`) |
| `MIR` | `Machine.h`, `slots`, `buildCFG`, `transfer` | machine instructions as records; the variable `code` that the stages share |
| `RegAlloc` | `RegisterAllocator::allocate` and what it calls | `code`, liveness iteration `lv`, counters `tries`, the state of `ColorFile`, the spill round `sp` (one step per instruction rewritten, block replaced); then `pc`, `regs`, `mem` of the executed result |
| `Schedule` | `schedule`, `scheduleBlock` (MachineOpt.cpp) | the dataflow iteration `flow`, the indices of the load being hoisted, `boundary` live sets; one step per block of the iteration and per swap |
| `MoveOpt` | `coalesceMovesFn`; `removeRedundantMoves`, `postPeepholeBlock` | position, round, `uses` counts; one step per instruction looked at |
| `MachineCse` | `blockLocalCse`, `licm`, `globalCse` (MachineOpt.cpp) | `code`, the `stage` that is next; one step per pass of the pipeline |
| `Backend` | `RISCVBackend::run` | `Schedule`, then coalescing, then `RegAlloc` on one `code` |
| `MIRRun` | – (execution of machine IR) | operators: the events of a function as terms over its inputs |
| `BlockLayout` | `rotateLoopsByLayout`, `finalizeBlockLayout`, `placeMachineBlocks` | the function `f`, `stage`, the placement `plan`; one step per rotation, bypassed block, merged block, chain edge, placed chain, fold |
| `StrengthReduce` | `strengthReduceFn`, `buildRewrite`, `magicFor`, `magicu`; – (execution of machine code on words) | `code` rewritten at position `i`, the input `orig` whose definitions and readers decide; one step per instruction; operators: registers of two word widths, sign extension, words of the frame, what stores and branches show, whether a store may trap |
| `WordPeephole` | `zeroFill`, `peephole` and what they call, after strength reduction | `stage`; one step per pass |
| `IR` | `IR.h`, `OptUtil.cpp`, dominance of `OptPromote.cpp` | a function as a sequence of blocks, regions by owner; no state |
| `IRRun` | – (execution of the IR) | operators: outcome of a module for the inputs of its library calls |
| `Source` | – (meaning of SysY) | operators: outcome of a source program, in the same form |
| `IRBuild` | `IRBuilder` | operators: the affine-layer module of a source program |
| `Scalar` | `OptScalar.cpp`, `OptNorm.cpp`, `OptReassoc.cpp`, `OptChain.cpp` | operators, one per pass |
| `Effects` | `OptEffects.cpp` | operators: summaries of functions, asked about calls |
| `MemOpt` | `OptMem.cpp`, `OptDom.cpp`, `OptPromote.cpp` | operators: mem-cse, redundant-store, dom-cse, mem2reg |
| `LoopOpt` | `OptLoop.cpp`, `OptLoopRotate.cpp`, `OptCfLicm.cpp` | operators: licm and loop-unroll on regions, loop-rotate and licm-cf on blocks |
| `CallOpt` | `OptCall.cpp`, `OptInline.cpp`, tail recursion of `OptCf.cpp` | operators |
| `CfgSimplify` | `OptCf.cpp`, `OptIfConv.cpp` | operators, one per pass |
| `Midend` | `Pipeline.cpp`, `PassManager.cpp`, the lowerings of `Passes.cpp` | the module `prog`, its `layer`, the passes `todo`; one step per pass |
| `Parser` | `SysYParser.cpp` (generated), `ASTBuilder.cpp` | operators, one per rule: tokens to tree, tree to AST |
| `Sema` | `SemanticAnalysis.cpp` | operators: an AST to its analysed form, or a refusal |
| `Frontend` | `main.cpp`, `IRBuilder.cpp` (names, constants, conversions, initialisers, tensors), `TensorLower.cpp` | `text`, `tree`, `ast`, `chk`, `core` and the `stage` reached; one step per part of the compiler |
| `ParallelCopy` | – (abstract) | one atomic simultaneous assignment |
| `PhiCopies` | `emitPhiCopies` (ISel.cpp) | copies `left`, their current `src`, registers; one step per emitted copy or broken cycle |
| `PhiEdges` | `lowerTerminator`: `needsEdge`, `armLabel` | a walk of the lowered function that tracks which values are still the SSA values |
| `CallShuffle` | `ArgCursor`, `case Op::Call`, `planCall`, `emitCallShuffle`, `emitParamEntries` | caller lowering, planning, emitted moves, callee entry as phases of one behaviour |
| `Frame` | `layoutFrame`, `emitPrologue`, `emitEpilogue` and the stores to the frame | memory words, callee-saved registers, save and restore loops |

Abstractions that hold throughout:

* Values are tokens or terms. In `RegAlloc` a register or slot holds *the set of
  program registers whose current value it has*, so a read from a wrong place
  shows whatever the values are. In `MIRRun` a value is the term that computed
  it, so equal events mean equal behaviour for all inputs.
* Opcodes that a stage treats alike are one kind (`Op` for arithmetic, `Lw` for
  register-addressed loads, ...).
* `MIR` has one register file. The float file runs through the same code with
  other opcodes and palettes; where the two meet (arguments, saved registers)
  `CallShuffle` and `Frame` model both.
* Size limits that only save compile time are left out (`placeMachineBlocks` skips
  functions of more than 2048 blocks, the inliners have budgets); where a limit
  decides what happens, it is a constant of the module. The `SAKU_NO_…` environment switches that
  disable single stages are taken as unset, as in a normal compilation.
* The mid-end is sequential and each pass is a function from modules to modules,
  so passes are operators and the steps are those of `PassManager::run`. What a
  pass does is not compared with a second definition of the pass but with the
  meaning of the program: `IRRun` executes the module after each step, `Source`
  executes the program it was built from. Integers have `WordBits` bits in both;
  a program that overflows, divides by zero, reads what nobody wrote or leaves
  an array has no meaning and may do anything.
* `StrengthReduce` gives registers twice the width of a word, as RV64 gives `int`, so
  that a missing sign extension is seen. A store of 8 bytes that is not aligned may
  trap, which is part of what a run shows.
* In the machine modules a branch may go either way; conditions are not evaluated. A constant condition
  in `PhiEdges` always takes the first target, the false one being the same
  function with its targets exchanged.
* The colouring run's choice among equally preferred registers and spill costs
  follows the code's ordering; weights are small numbers in `MCColorFile` and
  computed from loop depth in `RegAlloc`.

## 4. Runs

Every run is exhaustive for its inputs. None restricts the number of steps; the
bounds are on the inputs. Deadlock checking is off because each pass ends.

| Run | Inputs | Shows |
|---|---|---|
| `colorfile` | all graphs on 4 values × all sets live across calls × entry restrictions, weights, hints, partners, both spill rules; palettes of 3 and 1 registers | colours legal (`ProperColoring`), only spill candidates fail (`OnlyCandidatesSpill`), the loops end |
| `callshuffle` | all lists of up to 4 arguments, int or float, in any register; 3 argument registers, so that stack arguments and 3-cycles occur | the callee reads the caller's arguments; no source is lost; other registers untouched; refinement of `ParallelCopy`; ends |
| `phicopies` | all phi lists on 4 registers and a constant, so that two disjoint cycles, a 4-cycle and fans occur | simultaneous assignment; as many scratch registers as cycles (`ScratchPerCycle`); ends |
| `phiedges_shared` | only the graphs with the shape of the finding | the finding of section 7 |
| `backend` | two families of functions: loads, calls and copies in a loop; more live values than registers, on a palette of 3 of which one survives calls; 2 ordinary spill rounds instead of 24 so that the fallback happens | scheduling, coalescing and allocation together find every value; liveness solved within its pass limit; unsaved registers kept; the fallback succeeds at once |
| `backend_entry_loads` | functions with loads next to the Entry instructions | the finding of section 7 |
| `machineopt` | the variable `pass` selects a pass and its family: every loop of 4 instructions out of 9 (virtual) and 10 (physical registers), loops of one block, of two, and around another loop for CSE and LICM, every block of 4 instructions out of 8 in which a load is not the first for the scheduler, all flow graphs of 4 blocks and some of 5 for layout | removing copies, CSE and LICM keep all events and counts taken earlier stay upper bounds; the scheduler's live sets stay exact, dependences are kept and the peak is not raised; layout keeps the executed instructions, adds no branches and ends |
| `emit` | three machines, one chosen at the start. *Words*: short functions around a multiplication, division or remainder by every constant of the word, read by comparisons, bit tests and stores, for every operand; zero fills at every offset; copies and scaled offsets. *Edges*: small graphs with loops, phis, pointers into phis, except those of the finding below. *Frame*: all mixes of empty, short and longer frame areas | the program shows the same, unaligned 8-byte stores included among what shows, and sign extension is dropped only where it is redundant; the lowered code reads SSA values and follows the graph; callee-saved registers and `ra` restored, caller's memory untouched |
| `midend` | 1453 programs in five families (counting loops, other loops, loops in an arm, functions and calls, branches), levels `-O0` and `-O1`, three input streams | after every pass: well-formed phis and targets, definitions before uses in every layout the backend may assume, and the behaviour of the source |
| `midend_aliased` | one program | the finding of section 7 |
| `frontend` | 8559 texts: syntax trees of every kind of expression and statement printed with as few parentheses as C allows, texts cut short, texts that break one rule of the language, initialisers of arrays of one to three dimensions with every placement of braces, tensors, names hidden in scopes | the tree read back is the one printed (`ReadsBack`); a text is refused exactly if the language refuses it (`Verdict`); the program built does what the syntax tree means (`MeaningKept`) |
| `frontend_aliased` | texts in which a tensor is assigned the result of a function that multiplies it | the finding of section 7 |

Bounds and why they suffice: cycles of copies behave alike from length 3 on, and
two of them test the reuse of the scratch register; four graph nodes exceed
both palettes, so optimistic colouring and failure happen; a loop is needed for
loop-carried registers, one loop gives back edges, and two trips repeat what
later trips do; three oracle positions (8 oracles) and four or five events let
every branch of the small functions go both ways in different trips. The texts of `frontend` have at most three operators in an expression and at most
three dimensions; `UnrollLimit` 4 stands for 4096, so that both ways of
initialising an array are taken; words have 10 bits there. A word of
few bits has the same edges as one of 32 (the most negative number, powers of
two, multipliers that need an extra bit), and all of its numbers are tried. The
programs of `midend` were chosen so that each of the 22 passes changes some of
them; `Fuel`, `MaxDepth` and `MaxSteps` are large enough that no program with a
meaning for its inputs is cut off (a program whose
source were cut off would be skipped, a module that were would be reported). The limits of the code (24 rounds, 16 rounds, 32 trimming passes,
blocks + 8 liveness passes, 8 rounds of licm-cf, 4 of algebraic) are those of the
code, except for `MaxRounds` in `backend` and the unroll factor and sizes in
`midend`.

Fairness: weak fairness of the whole next-state relation, in `colorfile`,
`callshuffle` and `phicopies`. It says only that sequential code that can take
a step takes it; nothing is assumed about which step. `BlockLayout` and
`Schedule` state their progress as action properties (`Converges`,
`PeakNeverRises`), which need none.

## 5. Proofs

All proofs are checked by TLAPS for every value of the constants.

* `ColorFileProofs`: `TypeCorrect`, `ColoringIsProper`, `SpillsAreCandidates`.
  Assumed: the palettes are sequences of register numbers and the graph is
  well formed (symmetric, finite). Inductive invariant `IInv`: besides the
  properties, `PoppedOrStacked` (an uncoloured node is still on the stack or a
  candidate, the stack has no duplicates) and `Roomy` (a node removed by the
  degree test has, among the nodes removed later, fewer neighbours than usable
  registers). `Roomy` is what the degree test buys: when the node is popped the
  neighbours that have colours are exactly those removed later, so a colour is
  left although palettes and forbidden sets differ from node to node. `Working`
  is the part of `IInv` that does not mention weights and hints; `EasyRemoved`
  says that a node with fewer neighbours than usable registers never becomes a
  candidate, because it passes the degree test as long as it is there.
  `RegAllocProofs` uses both for the colouring inside the allocator.
* `PhiProofs`, about `PhiCopies`: `TypeCorrect`, `SourcesStayIntact`, `PhisAreSimultaneous`,
  `OneScratchPerCycle`, for any phi list
  with distinct destinations. `IInv` adds `InPlace` (an emitted copy's
  destination has its value and keeps it) and `Untouched` (a register whose copy
  is still to come has its old value, which is why redirecting readers to the
  scratch register at that moment saves the right value). `OneScratchPerCycle` is
  about the graph in which a copy leads from its source to its destination. A
  cycle is a set of copies whose destinations are exactly what they read, and no
  part of which is one. `ScratchInv` says that a redirected copy's phi reads a
  register that has been overwritten, so that a cycle whose copies are all left
  has none of them redirected and every destination read (`IntactCycle`): a leaf
  is never on one. When every destination is read, counting shows that the copies
  left read different registers, all of them destinations (`OnlyCyclesLeft`), and
  then exactly one cycle goes through the copy that is broken (`CycleThrough`).
* `CallShuffleProofs`: `SourcesStayIntact`, `CalleeReceivesArguments`,
  `ShuffleImplementsParallelCopy`, `OthersKeepTheirValues`, for any argument list
  and any number of argument registers. `IInv` says what each cursor has counted (`CursorCounts`),
  so that the three walks agree; that destinations are distinct
  (`HomesDistinct`, a lemma about counting); and, for the shuffle, that what is
  not pending is in place and what is pending still finds its source. The
  scratch register is free whenever a cycle is broken by counting: if every
  pending destination is still read, the pending copies read only each other's
  destinations, and the scratch is nobody's destination (`ScratchIsFree`).
* `FrameProofs`: `CalleeSavedSurvive`, `CallerFrameSafe`, for any frame. `Layout`
  and `Slots` are the arithmetic of the areas; `FrameInv` says which slots are
  filled and which registers are back in each phase.

* `ScheduleProofs`: for every function over a set of registers (a finite one for
  `PeakStaysDown`, which counts) and every latency window. `BoundaryStaysExact`:
  `LiveInv` says that the blocks visited in a round of the iteration that has
  changed nothing so far satisfy the dataflow equations, that all do when it has
  ended, and that `boundary` is what `LiveBefore` says of the block in hand. The
  step that needs work is a hoist: `SwapKeepsLive` shows that swapping two
  independent neighbours leaves every other live set of the block alone, the one
  at its start included, and `SwapKeepsSuccs` that control goes where it went,
  so that the solution found before any block was touched stays one.
  `DependencesStayInOrder` and `PeakStaysDown` need only the types besides;
  `InstructionsArePermuted` says what the history `perm` means: the block is the
  block it was, in that order. `LivenessIsLeast`: what the iteration finds is part
  of every solution (`LiveMonotone`), so nothing is called live in vain. The
  lemmas `LiveMember`, `LiveStep` and `LiveSplit` about `LiveBefore` are the
  reason for writing it as a set of registers instead of a recursion.
* `PhiProofs`, about `PhiEdges`: `ControlIsFollowed`, for every control-flow graph whose
  branches go to blocks. `EdgesInv` gives the goal at every place between two
  blocks; `BranchToArm` is the case analysis of the branches that are left out
  because their target comes next, `EdgeLabels` the fact that labels of edge
  blocks are new.
* `MoveOptProofs`: `CoalesceCountsAreBounds`, `PeepholeCountsAreBounds`, for every
  function in which a copy has one operand. `CountsInv` adds the types. A rewrite
  takes a copy out of its block; `FewerReads` maps the operands that read a
  register afterwards one to one to operands that read it before (`Origin`). When
  a store gets the source of the copy above it, that is the copy's own operand:
  the register is read as often as before, and its count need not be touched.

* `RegAllocProofs`: `UnsavedRegistersSurvive`, for every function over a finite
  set of registers, any palettes without register 0 (`CalleeSavedAssumption`:
  kXCalleePhys has none) and without repetitions (`PaletteAssumption`, which also
  says that some temporary passes no argument, as t2 does in kXFullPhys) and any
  limits on the rounds. `UnsavedKept` alone is not
  inductive: that an instruction leaves an unsaved register alone follows from
  every register of the code having a colour that is in the list, which is
  settled rounds of rewriting earlier. `IInv` therefore says of every stage that
  the code is a function of as many blocks over the registers `orig` knows, in
  which whatever executes as a definition defines one (`CodeOK`), that the same
  holds of the part a spill round has written so far and of the definitions it
  copies (`SpillOK`), and that what is coloured is what the code uses
  (`ColorOK`); `RunOK` then carries the caller's values through the execution. A
  spill round is a step per instruction for this reason. `Ordered` is the lemma
  behind all erasing loops: ranks number a finite set of integers without gaps,
  so that `Order` and `Picked` are what they should be, and a greatest register
  exists.
* `RegAllocProofs`, `LivenessIsSolved`: the limit of blocks + 8 on the passes of
  `computeLiveness` never cuts the iteration short, and what it finds is the least
  solution (`LiveOut` is closed-form: what every set of blocks closed under the
  equations, `Carries`, asks for). No bound by the length of a path is needed.
  `Progress` counts, for one register, the blocks it has been found to be live
  into (`Reach`): as long as some block still lacks it (`Lacking`), a pass adds
  at least one, since the block it lacks is visited in the pass and gets it. A
  register can be added to each block once, so that after as many passes as there
  are blocks nothing is lacking (`NothingLacking`), one more pass settles what
  is live out and the next changes nothing (`Settled`).
* `RegAllocProofs`, `ForcedRoundSucceeds` (`FallbackSucceeds`): for every source
  function, one in which constants and arguments read no register, copies read
  one, and no instruction reads more registers than the palette has
  (`IsSource`; the calls of the back end pass at most eight in registers).
  `PaintOK` says that the graph that is coloured is the graph of the code and that
  the colouring is in a state `ColorFileProofs` speaks of. `FallbackOK` says what a
  forced round has written so far: blocks that are `Tidy` (every operand was
  defined just before it is read, with only reloads in between; a reload is
  read by the first instruction behind it that is not one; any other result is
  all that the next instruction reads) and in which no register is read twice
  (`ReadOnce`). `TidyGroup` shows it of what becomes of one instruction,
  `TidyJoin` that it survives appending. Of tidy code nothing is live from block
  to block (`TidyFlow`, from leastness) or across a call, and two registers
  conflict only if one instruction reads both (`TidyEdges`), so that every node
  has fewer neighbours than registers (`TidyIsEasy`) and the colouring cannot
  fail (`TidySucceeds`). Entry results, which are kept out of argument registers,
  conflict with nothing and find the temporary.
* `RegAllocReads`, `OperandsAreFound` (`OperandsRight`, the part of `ReadsRight`
  that is about operands): for every source function whose jumps end its blocks
  (`JumpsLast`) and in which no register is live at the start (`DefinedFirst`).
  TLC confirms on `backend` that all code given to the allocator is such a
  function. The invariant has to say where values are while a spill round has
  rewritten half of the code. A place is a register or a spill slot; `st` says
  which register of the program each stands for; a note on a block (`BlockNote`)
  says for each of its points which places are certain to hold the current
  value of what they stand for. `Holds` is the rule for one instruction: what it
  reads is held before it, and a new value leaves no older copy of its register
  held. `Linked` and `Behind` say that what a block needs at its start is held
  wherever control comes from. For the source function the notes are the live
  sets (`StartNotes`); trimming takes instructions out (`ThinFacts`);
  `Rewriting` says of a spill round that the blocks behind the cursor have notes
  in terms of the new places and those before it in terms of the old ones,
  `Drafting` the same of the block in hand, one lemma per shape of instruction.
  When the round ends, the constants that are rematerialised are in no note
  (`Clear`), so that their definitions can go. In the run (`RunValues`) what is
  live is held, since the notes ask for it and `LiveOut` is least (`LiveIsHeld`);
  places that are live together have different colours, since the colouring is
  proper for the graph of the code (`PaintOK`); so a definition overwrites no
  register that is still to be read.
* `RegAllocReads`, `OneArgumentIsRead` (`ReadsRight`): if besides the only Entry
  is the first instruction and nothing jumps back to it (`EntryAlone`), the
  argument is found too. Of more arguments it is not true: the results of loads
  between two Entry instructions are kept out of no argument register, whether
  they were hoisted there (section 7) or are the reloads of a second spill round.

Only model-checked, and why:

* Termination (`Terminates`, `Converges`) is liveness under fairness.
* `SameEvents`, `SameResults`, `SignExtended`, `SameInstructions`, `BranchesNeverGrow` and the
  properties of the mid-end and the front end speak of what folds and recursive
  definitions compute (executions, passes over programs), which takes induction
  over data.
* `ReadsRight` for functions that take two or more arguments in registers: that
  each Entry still finds its argument is false for some of them (section 7).
  The operands are proved for all.
* `ReadsSSAValues` is false for some functions (section 7).

The type invariants of `RegAlloc`, `BlockLayout`
and `Midend` stay in their modules without a run: a step that leaves its types
stops TLC or shows in the properties that execute the result.

## 6. Reading the results

A property of the runs on `RegAlloc`, `MCMachineOpt`, `MCEmit`, `MCMidend` and
`MCFrontend` compares an execution of the pass's output with the meaning of its
input. They are therefore statements about the output, not about the steps of
the pass, and hold or fail whatever strategy the pass uses.

## 7. Disagreements found

* `phiedges_shared` / `ReadsSSAValues`: `needsEdge` (ISel.cpp:1168) does not look
  into the block that owns the phi. If the phi is an incoming value of another
  phi of that block on an edge reached through the other arm, the copy is hoisted
  above the branch and overwrites it; the comment at ISel.cpp:963 says that such
  an edge must be split.
* `backend_entry_loads` / `ReadsRight`: `canPass` (MachineOpt.cpp:281) lets a load
  move above an Entry instruction. `entryForbid` (RA.cpp:734) protects only the
  destinations of Entry instructions, so the load's result may take an argument
  register that a later Entry has yet to read, against the comment at RA.cpp:729.

* `midend_aliased` / `Behaves`: `storeAliases` (OptLoop.cpp:66, the same line at
  OptCfLicm.cpp:73) says that no store aliases a load of a local array at a
  constant offset, also when the store goes to that array at a variable offset.
  `licm` hoists the read of `a[0]` out of a loop that stores `a[i]`, against
  the comment at OptLoop.cpp:8-9.

* `frontend_aliased` / `MeaningKept`: `copyAway` (IRBuilder.cpp:1280) copies a
  source of a matrix product away only if it is the destination itself. A tensor
  function writes its result through a pointer, so in `g = f();`, where `f`
  returns `g @ g`, the product is written into `g` while `g` is read, against the
  comment at IRBuilder.cpp:1277.

The passing runs `emit`, `backend`, `midend` and `frontend` exclude these inputs and find
no other violation within their bounds. `midend` also leaves out four more shapes,
which the constant `Family` of `MCMidend` selects instead; for each of them
`Behaves` fails:

* `"rotated"`: `rotateOne` (OptLoopRotate.cpp:319-345) rotates a header whose phi
  takes, along the back edge, a value computed in the header itself.
* `"normalised"`: `normalizeOne` (OptNorm.cpp:135-156) moves an offset across a
  comparison although the new bound does not fit an `int`: `x - 5 < 2147483647`
  becomes a comparison with a small negative number.
* `"guarded"`: `licm` and `licm-cf` execute a load before the condition that kept
  its index within the array.
* `"recursive"`: `Effects::terminates` holds of a recursive function, so a call is
  hoisted out of a loop that is not entered and need not return.

`frontend` leaves out two more families of texts, which `Family` of `MCFrontend`
selects instead:

* `"huge"`, for which `MeaningKept` fails: `emitLocalArrayInit` (IRBuilder.cpp:914)
  asks of a constant leaf whether it is zero in the type of the array, while the
  constant has the type of its expression. With more than 4096 elements
  (`UnrollLimit`) `float a[5000] = {1};` and `int b[5000] = {1.5};` lose their 1.
* `"braced"`, for which `Verdict` fails: `int g = {1};` at top level, which the
  grammar lets through, is neither accepted nor refused. `checkGlobalDef`
  (SemanticAnalysis.cpp:381, :379 for a constant) reads the expression of an
  initialiser that is a list, a null pointer; the model ends in stage "crash".
  SemanticAnalysis.h:12 says that any violation raises a `CompileError`; the same
  text inside a function does, and is among the illegal texts of the run.

Other texts that the language and the code treat differently, refused or accepted
alike by the model and the code: `int a[3] = 5;` is accepted; `int a[2][2] = 5;`
and `1 @ 2` end in an internal error; `0 && 1 / 0` is refused although the division
is never reached; an element of a constant array that its initialiser does not
mention is not a constant expression.

## 8. Not modelled

Listed with reasons under `components` in `PROJECT.json`. Of the backend: range
analysis, per-opcode instruction selection, the assembly text. Of the mid-end:
induction-variable strength reduction and the passes of `-O2` alone; tensors and
floats are built and lowered in the front-end run but not carried through the
passes. Of the IR builder: array parameters in executed code. Of the front end:
the lexer, the prediction machinery of ANTLR below the generated parser, and its
recovery after an error. Misaligned 8-byte accesses that the frame layout can
produce when locals take 4 mod 8 bytes are outside the model: what they do
depends on the machine.
