------------------------- MODULE CallShuffleProofs -------------------------
(***************************************************************************)
(* Proofs about CallShuffle for every argument list and every number of    *)
(* argument registers: the callee receives its arguments, and the emitted  *)
(* moves implement one parallel copy.                                      *)
(***************************************************************************)
EXTENDS CallShuffle, FiniteSetTheorems, TLAPS

(* A cursor counts the arguments it has passed.                            *)
CursorCounts ==
  phase \in {"lower", "plan", "entry"} =>
    /\ \A f \in BOOLEAN :
         used[f] = IF Before(OfFile(f), k) < ArgRegs
                     THEN Before(OfFile(f), k) ELSE ArgRegs
    /\ stk = Before(OnStack, k)

Lowered(j) == phase = "lower" => j < k
Planned(j) == phase \notin {"lower", "plan"} \/ (phase = "plan" /\ j < k)

(* Stack arguments are in their slots once lowered, and only they are.     *)
StackArgs ==
  \A j \in OnStack : Lowered(j) =>
    src[j] = Stored /\ Slot(j) \in DOMAIN out /\ out[Slot(j)] = Original(j)

(* Which copies may be pending, and where they go.                         *)
PendingArgs ==
  /\ \A j \in pending : j \in RegArgs /\ Planned(j)
  /\ \A j \in pending : tgt[j] = A0 + Ord(j) /\ src[j] # Stored
  /\ phase \in {"entry", "done"} => pending = {}

(* Nothing moves before the shuffle.                                       *)
NotYetMoved ==
  phase \in {"lower", "plan"} =>
    /\ \A f \in BOOLEAN : \A r \in RegNums : regs[f][r] = <<f, r>>
    /\ \A j \in RegArgs : src[j] = args[j].src

NotYetLowered ==
  phase = "lower" => \A j \in Args : j >= k => src[j] = args[j].src

(* A register argument that is planned and not pending is in place.        *)
InPlace ==
  \A j \in RegArgs :
    Planned(j) /\ j \notin pending => regs[args[j].isF][A0 + Ord(j)] = Original(j)

(* Registers no argument goes to keep their values.                        *)
Untouched ==
  \A f \in BOOLEAN : \A r \in RegNums \ {Scratch(f)} :
    (\A j \in RegArgs : <<f, r>> # Home(j)) => regs[f][r] = <<f, r>>

Received ==
  /\ phase = "entry" => \A j \in Args : j < k => param[j] = Original(j)
  /\ phase = "done" => \A j \in Args : param[j] = Original(j)

IInv ==
  /\ TypeOK /\ CursorCounts /\ StackArgs /\ PendingArgs /\ NotYetMoved
  /\ NotYetLowered /\ SourcesIntact /\ InPlace /\ Untouched /\ Received

----------------------------------------------------------------------------
(* Counting the members of a set below an index.                           *)
LEMMA BeforeFacts ==
  ASSUME NEW T, NEW j \in Nat \ {0}
  PROVE  /\ Before(T, j) \in Nat
         /\ Before(T, 1) = 0
         /\ Before(T, j + 1) = IF j \in T THEN Before(T, j) + 1
                                          ELSE Before(T, j)
<1> DEFINE S == T \cap (1..(j - 1))
<1>1. IsFiniteSet(1..(j - 1))
  BY FS_Interval
<1>2. IsFiniteSet(S) /\ Cardinality(S) \in Nat
  BY <1>1, FS_Subset, FS_CardinalityType
<1>3. T \cap (1..(1 - 1)) = {}
  OBVIOUS
<1>4. T \cap (1..((j + 1) - 1)) = IF j \in T THEN S \cup {j} ELSE S
  OBVIOUS
<1>5. j \notin S
  OBVIOUS
<1>6. Cardinality(S \cup {j}) = Cardinality(S) + 1
  BY <1>2, <1>5, FS_AddElement
<1> QED
  BY <1>2, <1>3, <1>4, <1>6, FS_EmptySet DEF Before

(* Members of a set are counted in strictly increasing order.              *)
LEMMA BeforeIncreases ==
  ASSUME NEW T, NEW i \in Nat \ {0}, NEW j \in Nat \ {0}, i \in T, i < j
  PROVE  Before(T, i) < Before(T, j)
<1> DEFINE S == T \cap (1..(i - 1))
           U == T \cap (1..(j - 1))
<1>0. IsFiniteSet(1..(i - 1)) /\ IsFiniteSet(1..(j - 1))
  BY FS_Interval
<1>1. IsFiniteSet(U)
  BY <1>0, FS_Subset
<1>2. IsFiniteSet(S) /\ Cardinality(S) \in Nat
  BY <1>0, FS_Subset, FS_CardinalityType
<1>3. i \notin S /\ S \cup {i} \subseteq U
  OBVIOUS
<1>4. Cardinality(S \cup {i}) = Cardinality(S) + 1
  BY <1>2, <1>3, FS_AddElement
<1>5. Cardinality(S \cup {i}) <= Cardinality(U) /\ Cardinality(U) \in Nat
  BY <1>1, <1>3, FS_Subset, FS_CardinalityType
<1> QED
  BY <1>2, <1>4, <1>5 DEF Before

(* No two register arguments share a register, no two stack arguments a    *)
(* slot.                                                                   *)
LEMMA HomesDistinct ==
  ASSUME args \in Seq(Arg), NEW i \in Args, NEW j \in Args, i # j
  PROVE  /\ args[i].isF = args[j].isF => Ord(i) # Ord(j)
         /\ i \in OnStack /\ j \in OnStack => Slot(i) # Slot(j)
         /\ Ord(i) \in Nat /\ Slot(i) \in Nat
<1>1. i \in Nat \ {0} /\ j \in Nat \ {0} /\ (i < j \/ j < i)
  BY DEF Args
<1>2. \A f \in BOOLEAN : Before(OfFile(f), i) \in Nat
                         /\ Before(OfFile(f), j) \in Nat
  BY <1>1, BeforeFacts
<1>3. Before(OnStack, i) \in Nat /\ Before(OnStack, j) \in Nat
  BY <1>1, BeforeFacts
<1>4. args[i].isF \in BOOLEAN /\ args[j].isF \in BOOLEAN
  BY DEF Args, Arg
<1>5. ASSUME args[i].isF = args[j].isF PROVE Ord(i) # Ord(j)
  <2>1. i \in OfFile(args[i].isF) /\ j \in OfFile(args[i].isF)
    BY <1>5 DEF OfFile
  <2> QED
    BY <1>1, <1>2, <1>4, <1>5, <2>1, BeforeIncreases DEF Ord
<1>6. ASSUME i \in OnStack, j \in OnStack PROVE Slot(i) # Slot(j)
  BY <1>1, <1>3, <1>6, BeforeIncreases DEF Slot
<1> QED
  BY <1>2, <1>3, <1>4, <1>5, <1>6 DEF Ord, Slot

(* The classification of the arguments depends on nothing that changes.    *)
LEMMA ArgsStable ==
  ASSUME args' = args
  PROVE  /\ Args' = Args /\ OnStack' = OnStack /\ RegArgs' = RegArgs
         /\ \A j : Ord(j)' = Ord(j) /\ Slot(j)' = Slot(j)
         /\ \A j : Home(j)' = Home(j) /\ Original(j)' = Original(j)
         /\ \A f : OfFile(f)' = OfFile(f)
         /\ \A T, j : Before(T, j)' = Before(T, j)
<1>1. Args' = Args
  BY DEF Args
<1>2. \A f : OfFile(f)' = OfFile(f)
  BY <1>1 DEF OfFile
<1>3. \A j : Ord(j)' = Ord(j)
  BY <1>2 DEF Ord, Before
<1>4. OnStack' = OnStack
  BY <1>1, <1>3 DEF OnStack
<1> QED
  BY <1>1, <1>2, <1>3, <1>4 DEF RegArgs, Slot, Before, Home, Original

(* What the cursor says of the argument it has reached.                    *)
LEMMA CursorFacts ==
  ASSUME IInv, k \in Args, phase \in {"lower", "plan", "entry"}
  PROVE  /\ args[k].isF \in BOOLEAN /\ Ord(k) \in Nat
         /\ InReg(args[k].isF) <=> k \in RegArgs
         /\ ~InReg(args[k].isF) <=> k \in OnStack
         /\ InReg(args[k].isF) => /\ NextReg(args[k].isF) = A0 + Ord(k)
                                  /\ NextReg(args[k].isF) \in ArgRegNums
         /\ stk = Slot(k)
<1>1. args \in Seq(Arg) /\ args[k] \in Arg /\ k \in Nat \ {0}
  BY DEF IInv, TypeOK, Args
<1>2. args[k].isF \in BOOLEAN
  BY <1>1 DEF Arg
<1>3. Ord(k) = Before(OfFile(args[k].isF), k) /\ Ord(k) \in Nat
  BY <1>1, BeforeFacts DEF Ord
<1>4. /\ used[args[k].isF] = IF Ord(k) < ArgRegs THEN Ord(k) ELSE ArgRegs
      /\ stk = Before(OnStack, k)
  BY <1>2, <1>3 DEF IInv, CursorCounts
<1>5. InReg(args[k].isF) <=> Ord(k) < ArgRegs
  BY <1>3, <1>4, RegAssumption DEF InReg
<1>6. k \in OnStack <=> ~(Ord(k) < ArgRegs)
  BY <1>3, RegAssumption DEF OnStack
<1>7. Ord(k) < ArgRegs => NextReg(args[k].isF) = A0 + Ord(k)
                          /\ NextReg(args[k].isF) \in ArgRegNums
  BY <1>3, <1>4, RegAssumption DEF NextReg, ArgRegNums
<1> QED
  BY <1>2, <1>3, <1>4, <1>5, <1>6, <1>7 DEF RegArgs, Slot

(* Passing one argument keeps the cursor's counts.                         *)
LEMMA CursorAdvances ==
  ASSUME IInv, k \in Args, phase \in {"lower", "plan", "entry"},
         Advance(args[k].isF), k' = k + 1, args' = args, phase' = phase
  PROVE  /\ CursorCounts' /\ k' \in 1..(Len(args) + 1) /\ stk' \in Nat
         /\ used' \in [BOOLEAN -> 0..ArgRegs]
<1> DEFINE g == args[k].isF
<1>1. k \in Nat \ {0} /\ Len(args) \in Nat /\ k \in 1..Len(args)
  BY DEF IInv, TypeOK, Args
<1>2. /\ g \in BOOLEAN /\ InReg(g) <=> Ord(k) < ArgRegs
      /\ Ord(k) \in Nat /\ stk = Slot(k) /\ (~InReg(g) <=> k \in OnStack)
  BY CursorFacts, RegAssumption DEF RegArgs, OnStack
<1>3. used \in [BOOLEAN -> 0..ArgRegs] /\ stk \in Nat
  BY DEF IInv, TypeOK
<1>4. \A f \in BOOLEAN : /\ Before(OfFile(f), k) \in Nat
                         /\ Before(OfFile(f), k + 1) =
                              IF f = g THEN Before(OfFile(f), k) + 1
                                       ELSE Before(OfFile(f), k)
  <2> SUFFICES ASSUME NEW f \in BOOLEAN
               PROVE  /\ Before(OfFile(f), k) \in Nat
                      /\ Before(OfFile(f), k + 1) =
                              IF f = g THEN Before(OfFile(f), k) + 1
                                       ELSE Before(OfFile(f), k)
    OBVIOUS
  <2>1. k \in OfFile(f) <=> f = g
    BY DEF OfFile
  <2> QED
    BY <1>1, <2>1, BeforeFacts
<1>5. Before(OnStack, k + 1) = IF k \in OnStack THEN stk + 1 ELSE stk
  BY <1>1, <1>2, BeforeFacts DEF Slot
<1>6. stk' = Before(OnStack, k + 1) /\ stk' \in Nat
  BY <1>2, <1>3, <1>5 DEF Advance
<1>7. ASSUME NEW f \in BOOLEAN
      PROVE  used'[f] = IF Before(OfFile(f), k + 1) < ArgRegs
                          THEN Before(OfFile(f), k + 1) ELSE ArgRegs
  <2> DEFINE b == Before(OfFile(f), k)
  <2>1. used[f] = IF b < ArgRegs THEN b ELSE ArgRegs
    BY DEF IInv, CursorCounts
  <2>2. b \in Nat /\ Before(OfFile(f), k + 1) = IF f = g THEN b + 1 ELSE b
    BY <1>4
  <2>3. f = g => b = Ord(k)
    BY DEF Ord
  <2>4. used'[f] = IF f = g /\ InReg(g) THEN used[f] + 1 ELSE used[f]
    BY <1>2, <1>3 DEF Advance
  <2> HIDE DEF b, g
  <2>5. CASE f # g
    BY <2>5, <2>1, <2>2, <2>4
  <2>6. CASE f = g /\ InReg(g)
    BY <2>6, <2>1, <2>2, <2>3, <2>4, <1>2, RegAssumption
  <2>7. CASE f = g /\ ~InReg(g)
    BY <2>7, <2>1, <2>2, <2>3, <2>4, <1>2, RegAssumption
  <2> QED
    BY <2>5, <2>6, <2>7
<1>8. used' \in [BOOLEAN -> 0..ArgRegs]
  <2>1. \A f \in BOOLEAN : used'[f] \in 0..ArgRegs
    BY <1>4, <1>7, RegAssumption
  <2>2. DOMAIN used' = BOOLEAN /\ used' = [f \in BOOLEAN |-> used'[f]]
    BY <1>3 DEF Advance
  <2> QED
    BY <2>1, <2>2
<1>9. CursorCounts'
  BY <1>6, <1>7, ArgsStable DEF CursorCounts
<1> QED
  BY <1>1, <1>6, <1>8, <1>9

(* A pass starts with nothing counted.                                     *)
LEMMA PassStarts ==
  ASSUME IInv, args' = args, NEW p, StartPass(p)
  PROVE  /\ CursorCounts' /\ k' \in 1..(Len(args) + 1) /\ stk' \in Nat
         /\ used' \in [BOOLEAN -> 0..ArgRegs]
<1>1. Len(args) \in Nat
  BY DEF IInv, TypeOK
<1>2. /\ \A f \in BOOLEAN : Before(OfFile(f), 1) = 0
      /\ Before(OnStack, 1) = 0
  BY BeforeFacts
<1>3. /\ k' = 1 /\ stk' = 0 /\ used' = [f \in BOOLEAN |-> 0]
  BY DEF StartPass, ResetCursor
<1>4. CursorCounts'
  BY <1>2, <1>3, ArgsStable, RegAssumption DEF CursorCounts
<1> QED
  BY <1>1, <1>3, <1>4, RegAssumption

----------------------------------------------------------------------------
LEMMA InitIInv == Init => IInv
<1> SUFFICES ASSUME Init PROVE IInv
  OBVIOUS
<1> USE DEF Init
<1>1. args \in Seq(Arg) /\ Len(args) \in Nat /\ Args = 1..Len(args)
  BY CallsAssumption DEF Args
<1>2. \A j \in Args : args[j] \in Arg /\ args[j].src \in RegNums
  BY <1>1 DEF Arg
<1>3. regs \in [BOOLEAN -> [RegNums -> Token]]
  BY DEF Token
<1>4. TypeOK
  BY <1>1, <1>2, <1>3, RegAssumption DEF TypeOK
<1>5. /\ \A f \in BOOLEAN : Before(OfFile(f), 1) = 0
      /\ Before(OnStack, 1) = 0
  BY BeforeFacts
<1>6. CursorCounts
  BY <1>5, RegAssumption DEF CursorCounts
<1>7. StackArgs /\ InPlace /\ Received
  <2>1. \A j \in Args : ~(j < 1)
    BY <1>1
  <2> QED
    BY <2>1 DEF StackArgs, InPlace, Received, Lowered, Planned, OnStack,
                RegArgs
<1>8. PendingArgs /\ SourcesIntact
  BY DEF PendingArgs, SourcesIntact
<1>9. NotYetMoved /\ NotYetLowered /\ Untouched
  BY DEF NotYetMoved, NotYetLowered, Untouched, RegArgs
<1> QED
  BY <1>4, <1>6, <1>7, <1>8, <1>9 DEF IInv

LEMMA LowerArgIInv == ASSUME IInv, LowerArg PROVE IInv'
<1> USE DEF IInv
<1>1. args' = args /\ phase' = phase /\ phase = "lower" /\ k \in Args
      /\ k' = k + 1 /\ Advance(args[k].isF)
      /\ UNCHANGED <<tgt, pending, regs, param>>
  BY DEF LowerArg
<1>2. /\ CursorCounts' /\ k' \in 1..(Len(args) + 1) /\ stk' \in Nat
      /\ used' \in [BOOLEAN -> 0..ArgRegs]
  BY <1>1, CursorAdvances
<1>3. /\ args[k].isF \in BOOLEAN
      /\ InReg(args[k].isF) <=> k \in RegArgs
      /\ ~InReg(args[k].isF) <=> k \in OnStack
      /\ stk = Slot(k)
  BY <1>1, CursorFacts
<1>4. /\ args \in Seq(Arg) /\ args[k] \in Arg /\ args[k].src \in RegNums
      /\ k \in Nat \ {0} /\ stk \in Nat /\ Args \subseteq Nat
      /\ src \in [Args -> RegNums \cup {Stored}]
      /\ out \in [DOMAIN out -> Token] /\ DOMAIN out \subseteq Nat
      /\ regs \in [BOOLEAN -> [RegNums -> Token]]
  BY <1>1 DEF TypeOK, Args, Arg
<1>5. Value(k) = Original(k) /\ Value(k) \in Token
  BY <1>1, <1>3, <1>4 DEF NotYetLowered, NotYetMoved, Value, Original, Token
<1>6. CASE k \in RegArgs
  <2>1. src' = src /\ out' = out
    BY <1>6, <1>3 DEF LowerArg
  <2>2. TypeOK'
    BY <2>1, <1>1, <1>2, ArgsStable DEF TypeOK
  <2>3. StackArgs'
    <3>1. k \notin OnStack /\ OnStack \subseteq Args
      BY <1>6 DEF RegArgs, OnStack
    <3>2. \A j \in OnStack : j < k + 1 => j < k
      BY <3>1, <1>4
    <3> QED
      BY <3>2, <2>1, <1>1, ArgsStable DEF StackArgs, Lowered
  <2>4. NotYetLowered' /\ NotYetMoved' /\ SourcesIntact'
    <3>1. \A j \in Args : j >= k + 1 => j >= k
      BY <1>4
    <3> QED
      BY <3>1, <2>1, <1>1, ArgsStable
      DEF NotYetLowered, NotYetMoved, SourcesIntact, Value
  <2>5. PendingArgs' /\ InPlace' /\ Untouched' /\ Received'
    BY <2>1, <1>1, ArgsStable
    DEF PendingArgs, InPlace, Untouched, Received, Planned
  <2> QED
    BY <2>2, <2>3, <2>4, <2>5, <1>2
<1>7. CASE k \in OnStack
  <2>1. /\ src' = [src EXCEPT ![k] = Stored]
        /\ out' = [s \in DOMAIN out \cup {stk} |->
                     IF s = stk THEN Value(k) ELSE out[s]]
    BY <1>7, <1>3 DEF LowerArg
  <2>2. TypeOK'
    <3>1. src' \in [Args -> RegNums \cup {Stored}]
      BY <2>1, <1>4
    <3>2. out' \in [DOMAIN out' -> Token] /\ DOMAIN out' \subseteq Nat
      BY <2>1, <1>4, <1>5
    <3> QED
      BY <3>1, <3>2, <1>1, <1>2, ArgsStable DEF TypeOK
  <2>3. StackArgs'
    <3> SUFFICES ASSUME NEW j \in OnStack, j < k + 1
                 PROVE  /\ src'[j] = Stored /\ Slot(j) \in DOMAIN out'
                        /\ out'[Slot(j)] = Original(j)
      BY <1>1, ArgsStable DEF StackArgs, Lowered
    <3>1. j \in Args
      BY DEF OnStack
    <3>2. CASE j = k
      BY <3>2, <2>1, <1>1, <1>3, <1>4, <1>5
    <3>3. CASE j # k
      <4>1. Slot(j) # stk
        BY <3>1, <3>3, <1>1, <1>3, <1>4, <1>7, HomesDistinct
      <4>2. /\ src[j] = Stored /\ Slot(j) \in DOMAIN out
            /\ out[Slot(j)] = Original(j)
        BY <3>1, <3>3, <1>1, <1>4 DEF StackArgs, Lowered
      <4> QED
        BY <4>1, <4>2, <3>1, <3>3, <2>1, <1>4
    <3> QED
      BY <3>2, <3>3
  <2>4. NotYetLowered'
    <3>1. \A j \in Args : j >= k + 1 => j >= k /\ j # k
      BY <1>4
    <3> QED
      BY <3>1, <2>1, <1>1, <1>4, ArgsStable DEF NotYetLowered
  <2>5. NotYetMoved'
    <3>1. \A j \in RegArgs : j # k /\ j \in Args
      BY <1>7 DEF RegArgs
    <3> QED
      BY <3>1, <2>1, <1>1, <1>4, ArgsStable DEF NotYetMoved
  <2>6. pending = {}
    BY <1>1 DEF PendingArgs, Planned
  <2>7. PendingArgs' /\ SourcesIntact' /\ InPlace' /\ Untouched' /\ Received'
    BY <2>6, <1>1, ArgsStable
    DEF PendingArgs, SourcesIntact, InPlace, Untouched, Received, Planned
  <2> QED
    BY <2>2, <2>3, <2>4, <2>5, <2>7, <1>2
<1> QED
  BY <1>3, <1>6, <1>7

LEMMA EndLowerIInv == ASSUME IInv, EndLower PROVE IInv'
<1> USE DEF IInv
<1>1. /\ args' = args /\ phase = "lower" /\ k \notin Args
      /\ phase' = "plan" /\ k' = 1 /\ StartPass("plan")
      /\ UNCHANGED <<src, tgt, pending, regs, out, param>>
  BY DEF EndLower, StartPass
<1>2. /\ CursorCounts' /\ k' \in 1..(Len(args) + 1) /\ stk' \in Nat
      /\ used' \in [BOOLEAN -> 0..ArgRegs]
  BY <1>1, PassStarts
<1>3. TypeOK'
  BY <1>1, <1>2, ArgsStable DEF TypeOK
<1>4. Args \subseteq Nat \ {0} /\ k = Len(args) + 1
      /\ \A j \in Args : j < k /\ ~(j < 1)
  BY <1>1 DEF TypeOK, Args
<1>5. StackArgs'
  BY <1>1, <1>4, ArgsStable DEF StackArgs, Lowered, OnStack
<1>6. pending = {}
  BY <1>1 DEF PendingArgs, Planned
<1>7. PendingArgs' /\ SourcesIntact' /\ Untouched' /\ Received'
  BY <1>1, <1>6, ArgsStable DEF PendingArgs, SourcesIntact, Untouched, Received
<1>8. NotYetMoved' /\ NotYetLowered'
  BY <1>1, ArgsStable DEF NotYetMoved, NotYetLowered
<1>9. InPlace'
  BY <1>1, <1>4, ArgsStable DEF InPlace, Planned, RegArgs
<1> QED
  BY <1>2, <1>3, <1>5, <1>7, <1>8, <1>9

LEMMA PlanArgIInv == ASSUME IInv, PlanArg PROVE IInv'
<1> USE DEF IInv
<1>1. /\ args' = args /\ phase' = phase /\ phase = "plan" /\ k \in Args
      /\ k' = k + 1 /\ Advance(args[k].isF)
      /\ UNCHANGED <<src, regs, out, param>>
  BY DEF PlanArg
<1>2. /\ CursorCounts' /\ k' \in 1..(Len(args) + 1) /\ stk' \in Nat
      /\ used' \in [BOOLEAN -> 0..ArgRegs]
  BY <1>1, CursorAdvances
<1>3. /\ args[k].isF \in BOOLEAN
      /\ InReg(args[k].isF) <=> k \in RegArgs
      /\ ~InReg(args[k].isF) <=> k \in OnStack
      /\ InReg(args[k].isF) => /\ NextReg(args[k].isF) = A0 + Ord(k)
                               /\ NextReg(args[k].isF) \in ArgRegNums
  BY <1>1, CursorFacts
<1>4. /\ args[k] \in Arg /\ args[k].src \in RegNums /\ k \in Nat \ {0}
      /\ Args \subseteq Nat /\ tgt \in [Args -> ArgRegNums \cup {Stored}]
      /\ pending \in SUBSET Args
      /\ args \in Seq(Arg)
  BY <1>1 DEF TypeOK, Args, Arg
<1>5. Stored \notin RegNums
  BY RegAssumption DEF Stored
<1>6. \A j \in RegArgs : src[j] = args[j].src /\ src[j] \in RegNums
                         /\ Value(j) = Original(j) /\ src[j] # Stored
  <2>1. \A j \in Args : args[j] \in Arg
    BY <1>4 DEF Args
  <2> QED
    BY <2>1, <1>1, <1>5 DEF NotYetMoved, RegArgs, Value, Original, Arg
<1>7. /\ pending' = pending \/ (pending' = pending \cup {k} /\ k \in RegArgs)
      /\ \A j \in Args : j # k => tgt'[j] = tgt[j]
      /\ tgt' \in [Args -> ArgRegNums \cup {Stored}]
      /\ k \in pending' => tgt'[k] = A0 + Ord(k) /\ k \in RegArgs
      /\ k \in RegArgs /\ k \notin pending' => src[k] = A0 + Ord(k)
  <2>1. k \notin pending
    BY <1>1, <1>4 DEF PendingArgs, Planned
  <2>2. CASE NeedsCopy(k)
    BY <2>1, <2>2, <1>3, <1>4 DEF PlanArg, NeedsCopy
  <2>3. CASE ~NeedsCopy(k)
    BY <2>1, <2>3, <1>3, <1>4, <1>6 DEF PlanArg, NeedsCopy
  <2> QED
    BY <2>2, <2>3
<1>8. TypeOK'
  BY <1>1, <1>2, <1>4, <1>7, ArgsStable DEF TypeOK
<1>9. StackArgs' /\ NotYetMoved' /\ NotYetLowered' /\ Untouched' /\ Received'
  BY <1>1, ArgsStable
  DEF StackArgs, Lowered, NotYetMoved, NotYetLowered, Untouched, Received
<1>10. PendingArgs'
  <2>1. \A j \in pending : j < k /\ j \in RegArgs /\ j \in Args /\ j # k
                           /\ tgt[j] = A0 + Ord(j) /\ src[j] # Stored
    BY <1>1, <1>4 DEF PendingArgs, Planned
  <2>2. \A j \in pending' : j < k + 1 /\ j \in RegArgs
                            /\ tgt'[j] = A0 + Ord(j) /\ src[j] # Stored
    <3> SUFFICES ASSUME NEW j \in pending'
                 PROVE  j < k + 1 /\ j \in RegArgs
                        /\ tgt'[j] = A0 + Ord(j) /\ src[j] # Stored
      OBVIOUS
    <3>1. CASE j = k
      BY <3>1, <1>4, <1>6, <1>7
    <3>2. CASE j \in pending
      <4>1. j < k + 1
        BY <3>2, <2>1, <1>4
      <4> QED
        BY <3>2, <4>1, <2>1, <1>7
    <3> QED
      BY <3>1, <3>2, <1>7
  <2> QED
    BY <2>2, <1>1, ArgsStable DEF PendingArgs, Planned
<1>11. SourcesIntact'
  <2>1. \A j \in pending' : j \in RegArgs
    BY <1>7 DEF PendingArgs
  <2> QED
    BY <2>1, <1>1, <1>6, ArgsStable DEF SourcesIntact, Value
<1>12. InPlace'
  <2> SUFFICES ASSUME NEW j \in RegArgs, j < k + 1, j \notin pending'
               PROVE  regs[args[j].isF][A0 + Ord(j)] = Original(j)
    BY <1>1, ArgsStable DEF InPlace, Planned
  <2>1. CASE j = k
    BY <2>1, <1>6, <1>7 DEF Value
  <2>2. CASE j # k
    <3>1. j < k /\ j \notin pending
      BY <2>2, <1>4, <1>7 DEF RegArgs
    <3> QED
      BY <3>1, <1>1 DEF InPlace, Planned
  <2> QED
    BY <2>1, <2>2
<1> QED
  BY <1>2, <1>8, <1>9, <1>10, <1>11, <1>12

LEMMA EndPlanIInv == ASSUME IInv, EndPlan PROVE IInv'
<1> USE DEF IInv
<1>1. /\ phase = "plan" /\ k \notin Args /\ phase' = "shuffle"
      /\ UNCHANGED <<args, k, used, stk, src, tgt, pending, regs, out, param>>
  BY DEF EndPlan, cursor
<1>2. \A j \in Args : j < k
  BY <1>1 DEF TypeOK, Args
<1>3. TypeOK'
  BY <1>1, ArgsStable DEF TypeOK
<1>4. /\ CursorCounts' /\ StackArgs' /\ NotYetMoved' /\ NotYetLowered'
      /\ Untouched' /\ Received'
  BY <1>1, ArgsStable DEF CursorCounts, StackArgs, Lowered, NotYetMoved,
                          NotYetLowered, Untouched, Received
<1>5. PendingArgs' /\ SourcesIntact'
  BY <1>1, ArgsStable DEF PendingArgs, Planned, SourcesIntact, Value
<1>6. InPlace'
  BY <1>1, <1>2, ArgsStable DEF InPlace, Planned, RegArgs
<1> QED
  BY <1>3, <1>4, <1>5, <1>6

(* What is known of the copies while the shuffle runs.                     *)
LEMMA ShuffleFacts ==
  ASSUME IInv, phase = "shuffle", NEW j \in pending
  PROVE  /\ j \in RegArgs /\ j \in Args /\ args[j].isF \in BOOLEAN
         /\ tgt[j] = A0 + Ord(j) /\ tgt[j] \in ArgRegNums
         /\ tgt[j] \in RegNums /\ tgt[j] # Scratch(args[j].isF)
         /\ src[j] \in RegNums
         /\ regs[args[j].isF][src[j]] = Original(j)
         /\ Original(j) \in Token
<1> USE DEF IInv
<1>1. j \in RegArgs /\ j \in Args /\ tgt[j] = A0 + Ord(j) /\ src[j] # Stored
  BY DEF PendingArgs, RegArgs
<1>2. args[j] \in Arg /\ j \in Nat \ {0}
  BY <1>1 DEF TypeOK, Args
<1>3. args[j].isF \in BOOLEAN /\ args[j].src \in RegNums
  BY <1>2 DEF Arg
<1>4. Ord(j) \in Nat
  BY <1>2, BeforeFacts DEF Ord
<1>5. tgt[j] \in ArgRegNums
  BY <1>1, <1>4, RegAssumption DEF RegArgs, OnStack, ArgRegNums
<1>6. tgt[j] \in RegNums /\ tgt[j] # Scratch(args[j].isF)
  BY <1>5, RegAssumption DEF Scratch
<1>7. src[j] \in RegNums
  BY <1>1 DEF TypeOK
<1> QED
  BY <1>1, <1>3, <1>5, <1>6, <1>7 DEF SourcesIntact, Value, Original, Token

(* A move changes one register of one file.                                *)
LEMMA MoveFacts ==
  ASSUME TypeOK, NEW f \in BOOLEAN, NEW to \in RegNums, NEW from \in RegNums,
         Move(f, to, from)
  PROVE  /\ regs' \in [BOOLEAN -> [RegNums -> Token]]
         /\ regs'[f][to] = regs[f][from]
         /\ \A g \in BOOLEAN : \A r \in RegNums :
              g # f \/ r # to => regs'[g][r] = regs[g][r]
<1>1. regs \in [BOOLEAN -> [RegNums -> Token]]
  BY DEF TypeOK
<1>2. regs' = [regs EXCEPT ![f][to] = regs[f][from]]
  BY DEF Move
<1> QED
  BY <1>1, <1>2

LEMMA EmitReadyIInv == ASSUME IInv, EmitReady PROVE IInv'
<1> USE DEF IInv
<1>1. /\ phase = "shuffle"
      /\ UNCHANGED <<args, phase, k, used, stk, src, tgt, out, param>>
  BY DEF EmitReady, cursor
<1>2. PICK j \in pending : /\ Ready(j) /\ pending' = pending \ {j}
                           /\ Move(args[j].isF, tgt[j], src[j])
  BY DEF EmitReady
<1> DEFINE f == args[j].isF
<1>3. /\ j \in RegArgs /\ j \in Args /\ f \in BOOLEAN
      /\ tgt[j] = A0 + Ord(j) /\ tgt[j] \in RegNums /\ tgt[j] # Scratch(f)
      /\ src[j] \in RegNums /\ regs[f][src[j]] = Original(j)
  BY <1>1, ShuffleFacts
<1>4. /\ regs' \in [BOOLEAN -> [RegNums -> Token]]
      /\ regs'[f][tgt[j]] = Original(j)
      /\ \A g \in BOOLEAN : \A r \in RegNums :
           g # f \/ r # tgt[j] => regs'[g][r] = regs[g][r]
  BY <1>2, <1>3, MoveFacts
<1>5. TypeOK'
  BY <1>1, <1>2, <1>4, ArgsStable DEF TypeOK
<1>6. /\ CursorCounts' /\ StackArgs' /\ NotYetMoved' /\ NotYetLowered'
      /\ Received' /\ PendingArgs'
  BY <1>1, <1>2, ArgsStable DEF CursorCounts, StackArgs, Lowered, NotYetMoved,
       NotYetLowered, Received, PendingArgs, Planned
<1>7. SourcesIntact'
  <2> SUFFICES ASSUME NEW r \in pending, r # j
               PROVE  regs'[args[r].isF][src[r]] = Original(r)
    BY <1>1, <1>2, ArgsStable DEF SourcesIntact, Value
  <2>1. /\ args[r].isF \in BOOLEAN /\ src[r] \in RegNums
        /\ regs[args[r].isF][src[r]] = Original(r)
    BY <1>1, ShuffleFacts
  <2>2. args[r].isF # f \/ src[r] # tgt[j]
    BY <1>2 DEF Ready
  <2> QED
    BY <2>1, <2>2, <1>4
<1>8. InPlace'
  <2> SUFFICES ASSUME NEW r \in RegArgs, r \notin pending \/ r = j
               PROVE  regs'[args[r].isF][A0 + Ord(r)] = Original(r)
    BY <1>1, <1>2, ArgsStable DEF InPlace
  <2>1. CASE r = j
    BY <2>1, <1>3, <1>4
  <2>2. CASE r # j
    <3>1. /\ r \in Args /\ args[r] \in Arg /\ r \in Nat \ {0}
          /\ args \in Seq(Arg)
      BY DEF TypeOK, RegArgs, Args
    <3>2. args[r].isF \in BOOLEAN /\ Ord(r) \in Nat /\ Ord(j) \in Nat
      BY <3>1, <2>2, <1>3, HomesDistinct DEF Arg
    <3>3. A0 + Ord(r) \in RegNums
      BY <3>2, RegAssumption DEF RegArgs, OnStack, ArgRegNums
    <3>4. args[r].isF # f \/ A0 + Ord(r) # tgt[j]
      <4>1. args[r].isF # f \/ Ord(r) # Ord(j)
        BY <3>1, <2>2, <1>3, HomesDistinct
      <4> QED
        BY <4>1, <3>2, <1>3, RegAssumption
    <3>5. regs[args[r].isF][A0 + Ord(r)] = Original(r)
      BY <2>2, <1>1 DEF InPlace, Planned
    <3> QED
      BY <3>2, <3>3, <3>4, <3>5, <1>4
  <2> QED
    BY <2>1, <2>2
<1>9. Untouched'
  <2> SUFFICES ASSUME NEW g \in BOOLEAN, NEW r \in RegNums \ {Scratch(g)},
                      \A i \in RegArgs : <<g, r>> # Home(i)
               PROVE  regs'[g][r] = <<g, r>>
    BY <1>1, ArgsStable DEF Untouched
  <2>1. g # f \/ r # tgt[j]
    BY <1>3 DEF Home
  <2> QED
    BY <2>1, <1>4 DEF Untouched
<1> QED
  BY <1>5, <1>6, <1>7, <1>8, <1>9

(* The pigeonhole: when every destination is still read, the pending       *)
(* copies of a file are as many as the registers they read, so none of     *)
(* them reads the scratch, which is nobody's destination.                  *)
LEMMA ScratchIsFree ==
  ASSUME IInv, phase = "shuffle", \A j \in pending : ~Ready(j),
         NEW c \in pending, NEW r \in pending, args[r].isF = args[c].isF
  PROVE  src[r] # Scratch(args[c].isF)
<1> DEFINE f == args[c].isF
           P == {j \in pending : args[j].isF = f}
           Q == P \ {r}
           T == {tgt[j] : j \in P}
           S == {src[j] : j \in Q}
<1> SUFFICES ASSUME src[r] = Scratch(f) PROVE FALSE
  OBVIOUS
<1>1. IsFiniteSet(P) /\ r \in P
  <2>1. pending \subseteq Args /\ Args = 1..Len(args) /\ Len(args) \in Nat
    BY DEF IInv, TypeOK, Args
  <2>2. IsFiniteSet(Args)
    BY <2>1, FS_Interval
  <2> QED
    BY <2>1, <2>2, FS_Subset
<1>2. IsFiniteSet(Q) /\ Cardinality(Q) = Cardinality(P) - 1
      /\ Cardinality(P) \in Nat
  BY <1>1, FS_RemoveElement, FS_CardinalityType
<1>3. T \subseteq S
  <2> SUFFICES ASSUME NEW j \in P PROVE tgt[j] \in S
    OBVIOUS
  <2>1. PICK i \in pending : args[i].isF = args[j].isF /\ src[i] = tgt[j]
    BY DEF Ready
  <2>2. tgt[j] # Scratch(f)
    BY ShuffleFacts
  <2> QED
    BY <2>1, <2>2
<1>4. IsFiniteSet(T) /\ Cardinality(T) = Cardinality(P)
  <2> DEFINE g == [j \in P |-> tgt[j]]
  <2>1. \A i, j \in P : i # j => tgt[i] # tgt[j]
    <3> SUFFICES ASSUME NEW i \in P, NEW j \in P, i # j
                 PROVE  tgt[i] # tgt[j]
      OBVIOUS
    <3>1. i \in Args /\ j \in Args /\ tgt[i] = A0 + Ord(i)
          /\ tgt[j] = A0 + Ord(j) /\ args \in Seq(Arg)
      BY ShuffleFacts DEF IInv, TypeOK
    <3>2. Ord(i) # Ord(j) /\ Ord(i) \in Nat /\ Ord(j) \in Nat
      BY <3>1, HomesDistinct
    <3> QED
      BY <3>1, <3>2, RegAssumption
  <2>2. g \in Bijection(P, T)
    BY <2>1 DEF Bijection, Injection, IsInjective, Surjection
  <2> QED
    BY <1>1, <2>2, FS_Bijection DEF ExistsBijection
<1>5. IsFiniteSet(S) /\ Cardinality(S) <= Cardinality(Q)
  <2> DEFINE g == [j \in Q |-> src[j]]
  <2>1. g \in Surjection(Q, S)
    BY DEF Surjection
  <2> QED
    BY <1>2, <2>1, FS_Surjection
<1>6. Cardinality(T) <= Cardinality(S) /\ Cardinality(S) \in Nat
      /\ Cardinality(Q) \in Nat
  BY <1>2, <1>3, <1>5, FS_Subset, FS_CardinalityType
<1> HIDE DEF P, Q, S, T
<1> QED
  BY <1>2, <1>4, <1>5, <1>6

LEMMA BreakCycleIInv == ASSUME IInv, BreakCycle PROVE IInv'
<1> USE DEF IInv
<1>1. /\ phase = "shuffle"
      /\ UNCHANGED <<args, phase, k, used, stk, tgt, pending, out, param>>
  BY DEF BreakCycle, cursor
<1>2. PICK c \in pending :
        /\ Move(args[c].isF, Scratch(args[c].isF), src[c])
        /\ src' = [j \in Args |->
                    IF /\ j \in pending
                       /\ args[j].isF = args[c].isF /\ src[j] = src[c]
                      THEN Scratch(args[c].isF) ELSE src[j]]
  BY DEF BreakCycle
<1> DEFINE f == args[c].isF
<1>3. f \in BOOLEAN /\ src[c] \in RegNums /\ regs[f][src[c]] = Original(c)
  BY <1>1, ShuffleFacts
<1>4. Scratch(f) \in RegNums /\ Scratch(f) \notin ArgRegNums
  BY RegAssumption DEF Scratch
<1>5. /\ regs' \in [BOOLEAN -> [RegNums -> Token]]
      /\ regs'[f][Scratch(f)] = regs[f][src[c]]
      /\ \A g \in BOOLEAN : \A r \in RegNums :
           g # f \/ r # Scratch(f) => regs'[g][r] = regs[g][r]
  BY <1>2, <1>3, <1>4, MoveFacts
<1>6. TypeOK'
  <2>1. src' \in [Args -> RegNums \cup {Stored}]
    BY <1>2, <1>4 DEF TypeOK
  <2> QED
    BY <2>1, <1>1, <1>5, ArgsStable DEF TypeOK
<1>7. StackArgs'
  <2>1. \A j \in OnStack : j \notin pending /\ j \in Args
    BY DEF PendingArgs, RegArgs, OnStack
  <2>2. \A j \in OnStack : src'[j] = src[j]
    BY <2>1, <1>2
  <2> QED
    BY <2>2, <1>1, ArgsStable DEF StackArgs, Lowered
<1>8. /\ CursorCounts' /\ NotYetMoved' /\ NotYetLowered' /\ Received'
  BY <1>1, ArgsStable DEF CursorCounts, NotYetMoved, NotYetLowered, Received
<1>9. PendingArgs'
  <2>1. Scratch(f) # Stored
    BY <1>4, RegAssumption DEF Stored
  <2>2. \A j \in pending : src'[j] # Stored
    BY <2>1, <1>2 DEF PendingArgs, RegArgs
  <2> QED
    BY <2>2, <1>1, ArgsStable DEF PendingArgs, Planned
<1>10. SourcesIntact'
  <2> SUFFICES ASSUME NEW r \in pending
               PROVE  regs'[args[r].isF][src'[r]] = Original(r)
    BY <1>1, ArgsStable DEF SourcesIntact, Value
  <2>1. /\ args[r].isF \in BOOLEAN /\ src[r] \in RegNums /\ r \in Args
        /\ regs[args[r].isF][src[r]] = Original(r)
    BY <1>1, ShuffleFacts
  <2>2. CASE args[r].isF = f /\ src[r] = src[c]
    BY <2>1, <2>2, <1>2, <1>5
  <2>3. CASE args[r].isF # f
    BY <2>1, <2>3, <1>2, <1>5
  <2>4. CASE args[r].isF = f /\ src[r] # src[c]
    <3>1. src[r] # Scratch(f)
      BY <2>4, <1>1, ScratchIsFree DEF BreakCycle
    <3> QED
      BY <3>1, <2>1, <2>4, <1>2, <1>5
  <2> QED
    BY <2>2, <2>3, <2>4
<1>11. InPlace'
  <2> SUFFICES ASSUME NEW r \in RegArgs, r \notin pending
               PROVE  regs'[args[r].isF][A0 + Ord(r)] = Original(r)
    BY <1>1, ArgsStable DEF InPlace
  <2>1. r \in Args /\ args[r] \in Arg /\ r \in Nat \ {0}
    BY DEF TypeOK, RegArgs, Args
  <2>2. args[r].isF \in BOOLEAN /\ Ord(r) \in Nat
    BY <2>1, BeforeFacts DEF Arg, Ord
  <2>3. A0 + Ord(r) \in ArgRegNums /\ A0 + Ord(r) \in RegNums
    BY <2>2, RegAssumption DEF RegArgs, OnStack, ArgRegNums
  <2>4. regs[args[r].isF][A0 + Ord(r)] = Original(r)
    BY <1>1 DEF InPlace, Planned
  <2> QED
    BY <2>2, <2>3, <2>4, <1>4, <1>5
<1>12. Untouched'
  BY <1>1, <1>5, ArgsStable DEF Untouched
<1> QED
  BY <1>6, <1>7, <1>8, <1>9, <1>10, <1>11, <1>12

LEMMA CallIInv == ASSUME IInv, Call PROVE IInv'
<1> USE DEF IInv
<1>1. /\ args' = args /\ phase = "shuffle" /\ pending = {}
      /\ phase' = "entry" /\ k' = 1 /\ StartPass("entry")
      /\ UNCHANGED <<src, tgt, pending, regs, out, param>>
  BY DEF Call, StartPass
<1>2. /\ CursorCounts' /\ k' \in 1..(Len(args) + 1) /\ stk' \in Nat
      /\ used' \in [BOOLEAN -> 0..ArgRegs]
  BY <1>1, PassStarts
<1>3. TypeOK'
  BY <1>1, <1>2, ArgsStable DEF TypeOK
<1>4. \A j \in Args : ~(j < 1)
  BY DEF TypeOK, Args
<1>5. /\ StackArgs' /\ PendingArgs' /\ NotYetMoved' /\ NotYetLowered'
      /\ SourcesIntact' /\ InPlace' /\ Untouched' /\ Received'
  BY <1>1, <1>4, ArgsStable
  DEF StackArgs, Lowered, PendingArgs, NotYetMoved, NotYetLowered,
      SourcesIntact, InPlace, Planned, Untouched, Received
<1> QED
  BY <1>2, <1>3, <1>5

LEMMA EntryParamIInv == ASSUME IInv, EntryParam PROVE IInv'
<1> USE DEF IInv
<1>1. /\ args' = args /\ phase' = phase /\ phase = "entry" /\ k \in Args
      /\ k' = k + 1 /\ Advance(args[k].isF)
      /\ UNCHANGED <<src, tgt, pending, regs, out>>
      /\ param' = [param EXCEPT ![k] =
                     IF InReg(args[k].isF)
                       THEN regs[args[k].isF][NextReg(args[k].isF)]
                       ELSE out[stk]]
  BY DEF EntryParam
<1>2. /\ CursorCounts' /\ k' \in 1..(Len(args) + 1) /\ stk' \in Nat
      /\ used' \in [BOOLEAN -> 0..ArgRegs]
  BY <1>1, CursorAdvances
<1>3. /\ InReg(args[k].isF) <=> k \in RegArgs
      /\ ~InReg(args[k].isF) <=> k \in OnStack
      /\ InReg(args[k].isF) => NextReg(args[k].isF) = A0 + Ord(k)
      /\ stk = Slot(k)
  BY <1>1, CursorFacts
<1>4. /\ param \in [Args -> Token \cup {<<>>}] /\ Args \subseteq Nat
      /\ args[k] \in Arg
  BY <1>1 DEF TypeOK, Args
<1>5. Original(k) \in Token
  BY <1>4 DEF Original, Token, Arg
<1>6. param' = [param EXCEPT ![k] = Original(k)]
  <2>1. CASE k \in RegArgs
    <3>1. regs[args[k].isF][A0 + Ord(k)] = Original(k)
      BY <2>1, <1>1 DEF InPlace, Planned, PendingArgs
    <3> QED
      BY <3>1, <2>1, <1>1, <1>3
  <2>2. CASE k \in OnStack
    <3>1. out[Slot(k)] = Original(k)
      BY <2>2, <1>1 DEF StackArgs, Lowered
    <3> QED
      BY <3>1, <2>2, <1>1, <1>3
  <2> QED
    BY <2>1, <2>2, <1>3
<1>7. TypeOK'
  BY <1>1, <1>2, <1>4, <1>5, <1>6, ArgsStable DEF TypeOK
<1>8. Received'
  <2>1. \A j \in Args : j < k + 1 => j = k \/ j < k
    BY <1>1, <1>4
  <2> QED
    BY <2>1, <1>1, <1>4, <1>6, ArgsStable DEF Received
<1>9. /\ StackArgs' /\ PendingArgs' /\ NotYetMoved' /\ NotYetLowered'
      /\ SourcesIntact' /\ InPlace' /\ Untouched'
  BY <1>1, ArgsStable
  DEF StackArgs, Lowered, PendingArgs, NotYetMoved, NotYetLowered,
      SourcesIntact, Value, InPlace, Planned, Untouched
<1> QED
  BY <1>2, <1>7, <1>8, <1>9

LEMMA EndEntryIInv == ASSUME IInv, EndEntry PROVE IInv'
<1> USE DEF IInv
<1>1. /\ phase = "entry" /\ k \notin Args /\ phase' = "done"
      /\ UNCHANGED <<args, k, used, stk, src, tgt, pending, regs, out, param>>
  BY DEF EndEntry, cursor
<1>2. \A j \in Args : j < k
  BY <1>1 DEF TypeOK, Args
<1>3. TypeOK'
  BY <1>1, ArgsStable DEF TypeOK
<1>4. /\ CursorCounts' /\ StackArgs' /\ PendingArgs' /\ NotYetMoved'
      /\ NotYetLowered' /\ SourcesIntact' /\ InPlace' /\ Untouched'
  BY <1>1, ArgsStable
  DEF CursorCounts, StackArgs, Lowered, PendingArgs, NotYetMoved,
      NotYetLowered, SourcesIntact, Value, InPlace, Planned, Untouched
<1>5. Received'
  BY <1>1, <1>2, ArgsStable DEF Received
<1> QED
  BY <1>3, <1>4, <1>5

LEMMA NextIInv == IInv /\ [Next]_vars => IInv'
<1> SUFFICES ASSUME IInv, [Next]_vars PROVE IInv'
  OBVIOUS
<1>1. CASE UNCHANGED vars
  BY <1>1, ArgsStable
  DEF vars, IInv, TypeOK, CursorCounts, StackArgs, Lowered, PendingArgs,
      NotYetMoved, NotYetLowered, SourcesIntact, Value, InPlace, Planned,
      Untouched, Received
<1> QED
  BY <1>1, LowerArgIInv, EndLowerIInv, PlanArgIInv, EndPlanIInv,
     EmitReadyIInv, BreakCycleIInv, CallIInv, EntryParamIInv, EndEntryIInv
  DEF Next

----------------------------------------------------------------------------
(* The strengthened invariant holds of every call.                         *)
THEOREM Inductive == Spec => []IInv
  BY InitIInv, NextIInv, PTL DEF Spec

(* planCall never overwrites a register a pending argument copy reads, for *)
(* every argument list: in particular one scratch register per file is     *)
(* enough for any number of cycles.                                        *)
THEOREM SourcesStayIntact == Spec => []SourcesIntact
<1>1. IInv => SourcesIntact
  BY DEF IInv
<1> QED
  BY <1>1, Inductive, PTL

(* For every argument list the callee reads exactly the caller's           *)
(* arguments: the cursors of Call lowering, planCall and emitParamEntries  *)
(* agree and the shuffle delivers every register argument.                 *)
THEOREM CalleeReceivesArguments == Spec => []CalleeReceives
<1>1. IInv => CalleeReceives
  BY DEF IInv, Received, CalleeReceives
<1> QED
  BY <1>1, Inductive, PTL

(* For every call, its shuffle writes nothing but argument registers and   *)
(* the scratch registers of the two files.                                 *)
THEOREM OthersKeepTheirValues == Spec => []OthersUntouched
<1>1. ASSUME IInv PROVE OthersUntouched
  <2> SUFFICES ASSUME NEW f \in BOOLEAN,
                      NEW r \in RegNums \ (ArgRegNums \cup {Scratch(f)})
               PROVE  regs[f][r] = <<f, r>>
    BY DEF OthersUntouched
  <2>1. \A j \in Args : j \in Nat \ {0}
    BY <1>1 DEF IInv, TypeOK, Args
  <2>2. \A j \in RegArgs : A0 + Ord(j) \in ArgRegNums
    <3>1. \A j \in Args : Ord(j) \in Nat
      BY <2>1, BeforeFacts DEF Ord
    <3> QED
      BY <3>1, RegAssumption DEF RegArgs, OnStack, ArgRegNums
  <2>3. \A j \in RegArgs : <<f, r>> # Home(j)
    BY <2>2 DEF Home
  <2> QED
    BY <1>1, <2>3 DEF IInv, Untouched
<1> QED
  BY <1>1, Inductive, PTL

----------------------------------------------------------------------------
(* When the call is reached every place holds what a parallel copy of the  *)
(* register arguments would have put there.                                *)
LEMMA AtTheCall ==
  ASSUME IInv, phase = "shuffle", pending = {}, NEW t \in Places
  PROVE  regs[t[1]][t[2]] = IF t \in DOMAIN PlannedCopies
                              THEN PlannedCopies[t] ELSE t
<1> USE DEF IInv
<1>1. t \in Token /\ t[1] \in BOOLEAN /\ t[2] \in RegNums
      /\ t[2] # Scratch(t[1]) /\ t = <<t[1], t[2]>>
  BY DEF Places, Token
<1>2. DOMAIN PlannedCopies = {Home(j) : j \in RegArgs}
  BY DEF PlannedCopies
<1>3. CASE t \in DOMAIN PlannedCopies
  <2> DEFINE j == CHOOSE j \in RegArgs : t = Home(j)
  <2>1. j \in RegArgs /\ t = Home(j)
    BY <1>2, <1>3
  <2>2. PlannedCopies[t] = Original(j)
    BY <1>2, <1>3 DEF PlannedCopies
  <2> HIDE DEF j
  <2>3. regs[args[j].isF][A0 + Ord(j)] = Original(j)
    BY <2>1 DEF InPlace, Planned
  <2>4. t[1] = args[j].isF /\ t[2] = A0 + Ord(j)
    BY <2>1 DEF Home
  <2> QED
    BY <2>2, <2>3, <2>4, <1>3
<1>4. CASE t \notin DOMAIN PlannedCopies
  <2>1. \A j \in RegArgs : <<t[1], t[2]>> # Home(j)
    BY <1>1, <1>2, <1>4
  <2> QED
    BY <2>1, <1>1, <1>4 DEF Untouched
<1> QED
  BY <1>3, <1>4

(* Sources and destinations of the copies are places.                      *)
LEMMA CopiesAreOfPlaces ==
  ASSUME IInv
  PROVE  /\ DOMAIN PlannedCopies \subseteq Places
         /\ \A t \in DOMAIN PlannedCopies : PlannedCopies[t] \in Places
<1>1. \A j \in Args : args[j] \in Arg /\ j \in Nat \ {0}
  BY DEF IInv, TypeOK, Args
<1>2. \A j \in Args : Ord(j) \in Nat
  BY <1>1, BeforeFacts DEF Ord
<1>3. \A j \in RegArgs : j \in Args /\ A0 + Ord(j) \in ArgRegNums
  BY <1>2, RegAssumption DEF RegArgs, OnStack, ArgRegNums
<1>4. \A f : Scratch(f) \notin ArgRegNums
  BY RegAssumption DEF Scratch
<1>5. \A j \in RegArgs : Home(j) \in Places
  <2> SUFFICES ASSUME NEW j \in RegArgs PROVE Home(j) \in Places
    OBVIOUS
  <2>1. args[j].isF \in BOOLEAN
    BY <1>1, <1>3 DEF Arg
  <2>2. A0 + Ord(j) \in RegNums /\ A0 + Ord(j) # Scratch(args[j].isF)
    BY <1>3, <1>4, RegAssumption
  <2> HIDE DEF Ord
  <2>3. Home(j) = <<args[j].isF, A0 + Ord(j)>>
    BY DEF Home
  <2> QED
    BY <2>1, <2>2, <2>3 DEF Places, Token
<1>6. \A j \in RegArgs : Original(j) \in Places
  BY <1>1, <1>3 DEF Original, Places, Token, Arg
<1> QED
  BY <1>5, <1>6 DEF PlannedCopies

LEMMA RefinementStep ==
  ASSUME IInv, [Next]_vars
  PROVE  [PC!CopyAll]_(PC!pvars)
<1> DEFINE pl == [t \in Places |-> IF Shuffled THEN regs[t[1]][t[2]] ELSE t]
<1>1. args' = args
  BY DEF Next, vars, LowerArg, EndLower, PlanArg, EndPlan, EmitReady,
         BreakCycle, Call, EntryParam, EndEntry
<1>2. PlannedCopies' = PlannedCopies /\ Places' = Places
  BY <1>1, ArgsStable DEF PlannedCopies, Places
<1>3. CASE Call
  <2>1. /\ phase = "shuffle" /\ phase' = "entry" /\ pending = {}
        /\ regs' = regs
    BY <1>3 DEF Call, StartPass
  <2>2. ~Shuffled /\ Shuffled'
    BY <2>1 DEF Shuffled
  <2>3. pl = [t \in Places |-> t]
    BY <2>2
  <2>4. pl' = [t \in Places |-> regs[t[1]][t[2]]]
    BY <2>1, <2>2, <1>2
  <2>5. pl' = [t \in Places |-> IF t \in DOMAIN PlannedCopies
                                  THEN PlannedCopies[t] ELSE t]
    BY <2>1, <2>4, AtTheCall
  <2>6. \A t \in DOMAIN PlannedCopies :
          t \in Places /\ PlannedCopies[t] \in Places
    BY CopiesAreOfPlaces
  <2>7. pl' = [p \in DOMAIN pl |->
                 IF p \in DOMAIN PlannedCopies
                   THEN (IF PlannedCopies[p] \in DOMAIN pl
                           THEN pl[PlannedCopies[p]] ELSE PlannedCopies[p])
                   ELSE pl[p]]
    BY <2>3, <2>5, <2>6
  <2> QED
    BY <2>2, <2>7, <1>2 DEF PC!CopyAll, PC!ValueOf
<1>4. CASE [Next]_vars /\ ~Call
  <2>1. Shuffled' = Shuffled
    BY <1>4 DEF Shuffled, Next, vars, LowerArg, EndLower, PlanArg, EndPlan,
         EmitReady, BreakCycle, EntryParam, EndEntry, StartPass
  <2>2. Shuffled => regs' = regs
    BY <1>4 DEF Shuffled, Next, vars, LowerArg, EndLower, PlanArg, EndPlan,
         EmitReady, BreakCycle, EntryParam, EndEntry, StartPass
  <2>3. pl' = pl
    BY <2>1, <2>2, <1>2
  <2> QED
    BY <2>1, <2>3, <1>2 DEF PC!pvars
<1> QED
  BY <1>3, <1>4

(* The moves planCall emits implement one simultaneous assignment of the   *)
(* register arguments: seen at the call, every argument register holds the *)
(* value its source had before the first move, and nothing else changed    *)
(* but the scratch registers.                                              *)
THEOREM ShuffleImplementsParallelCopy == Spec => ImplementsParallelCopy
<1>1. Init => PC!Init
  <2> SUFFICES ASSUME Init PROVE PC!Init
    OBVIOUS
  <2>1. ~Shuffled
    BY DEF Init, Shuffled
  <2>2. DOMAIN PlannedCopies \subseteq Places
    BY InitIInv, CopiesAreOfPlaces
  <2> QED
    BY <2>1, <2>2 DEF PC!Init
<1> QED
  BY <1>1, Inductive, RefinementStep, PTL
  DEF Spec, ImplementsParallelCopy, PC!Spec
============================================================================
