------------------------------ MODULE Effects ------------------------------
(***************************************************************************)
(* What a call may read and write (src/midend/pass/OptEffects.cpp): the    *)
(* union over the functions it reaches, since the code's propagation runs  *)
(* until nothing changes.  Calls of the library are opaque.                *)
(***************************************************************************)
EXTENDS IR

Callees(prog, n) ==
  UNION {IF m.op = "Call" THEN Range(m.to) ELSE {} : m \in Range(AllIns(prog[n]))}

(* The functions, library ones included, that a call of n runs.            *)
Runs(prog, n) ==
  LET grow[k \in 0..Cardinality(DOMAIN prog)] ==
        IF k = 0 THEN {n}
        ELSE LET r == grow[k - 1] IN r \cup UNION {Callees(prog, c) : c \in r \cap DOMAIN prog}
  IN  grow[Cardinality(DOMAIN prog)]

(* v is used as an address only.                                           *)
RECURSIVE addrOnly(_, _)
addrOnly(f, v) ==
  \A m \in {m \in Range(AllIns(f)) : v \in Range(m.ops)} :
    CASE m.op = "Gep" -> addrOnly(f, Res(m.id))
      [] m.op = "Load" -> TRUE
      [] OTHER -> m.op = "Store" /\ m.ops[2] = v

EscapedSlots(f) ==
  {Res(m.id) : m \in {m \in Range(AllIns(f)) : m.op = "Alloca" /\ ~addrOnly(f, Res(m.id))}}

EscapedGlobals(prog, globals) == {g \in globals : \E n \in DOMAIN prog : ~addrOnly(prog[n], g)}

(* The list of a loop's blocks, or of the function, has a cycle.           *)
bodyHasLoop(f) ==
  LET next(S) == UNION {IF Term(b).op \in {"Br", "CondBr"} THEN Succs(b) ELSE {} :
                        b \in {b \in Range(f) : b.name \in S}}
      reach(n) == LET grow[k \in 0..Len(f)] ==
                        IF k = 0 THEN next({n}) ELSE LET r == grow[k - 1] IN r \cup next(r)
                  IN  grow[Len(f)]
  IN  \/ \E b \in Range(f) : Term(b).op \in {"ScfWhile", "AffineFor"}
      \/ \E n \in Names(f) : n \in reach(n)

(* What the loads and stores of one function touch: globals, or "param"    *)
(* for what cannot be named.                                               *)
OwnReads(f) ==
  LET loads == {m \in Range(AllIns(f)) : m.op = "Load"}
      at(m) == addressOf(f, m.ops[1])
  IN  {IF at(m).kind = "Global" THEN at(m).root ELSE Arg(0) :
         m \in {m \in loads : at(m).kind # "Alloca"}}

OwnWrites(f) ==
  LET stores == {m \in Range(AllIns(f)) : m.op = "Store"}
      at(m) == addressOf(f, m.ops[2])
  IN  {IF at(m).kind = "Global" THEN at(m).root ELSE Arg(0) :
         m \in {m \in stores : at(m).kind = "Alloca" => at(m).root \in EscapedSlots(f)}}

Globals(prog) ==
  {v \in UNION {UNION {Range(m.ops) : m \in Range(AllIns(prog[n]))} : n \in DOMAIN prog} :
     v.k = "glob"}

compute(prog) ==
  LET own == [n \in DOMAIN prog |->
                [reads |-> OwnReads(prog[n]), writes |-> OwnWrites(prog[n]),
                 dag |-> ~bodyHasLoop(prog[n])]]
      summary(n) ==
        LET run == Runs(prog, n)
            user == run \cap DOMAIN prog
        IN  [reads |-> UNION {own[c].reads : c \in user},
             writes |-> UNION {own[c].writes : c \in user},
             opaque |-> run # user,
             terminates |-> run = user /\ \A c \in user : own[c].dag]
  IN  [of |-> [n \in DOMAIN prog |-> summary(n)],
       written |-> UNION {own[n].writes : n \in DOMAIN prog},
       globals |-> EscapedGlobals(prog, Globals(prog)),
       slots |-> [n \in DOMAIN prog |-> EscapedSlots(prog[n])]]

callWritesNothing(fx, n) ==
  n \in DOMAIN fx.of /\ fx.of[n].writes = {} /\ ~fx.of[n].opaque

callIsValue(fx, n) ==
  /\ callWritesNothing(fx, n)
  /\ fx.of[n].reads \cap ({Arg(0)} \cup fx.written \cup fx.globals) = {}

terminates(fx, n) == n \in DOMAIN fx.of /\ fx.of[n].terminates

(* A call of n in the function caller may write the object of address a.   *)
callMayWrite(fx, caller, n, a) ==
  \/ n \notin DOMAIN fx.of \/ fx.of[n].opaque
  \/ /\ fx.of[n].writes # {}
     /\ CASE a.kind = "Global" -> \/ a.root \in fx.of[n].writes
                                  \/ Arg(0) \in fx.of[n].writes /\ a.root \in fx.globals
          [] a.kind = "Alloca" -> a.root \in fx.slots[caller]
          [] OTHER -> TRUE
=============================================================================
