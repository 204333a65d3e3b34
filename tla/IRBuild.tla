------------------------------ MODULE IRBuild ------------------------------
(***************************************************************************)
(* From the checked syntax tree to the affine layer of the IR              *)
(* (src/midend/irbuild/IRBuilder.cpp).  The builder b has the blocks so    *)
(* far in the order of their creation, the block and the region that       *)
(* instructions and blocks go to, the next id, the address of each name    *)
(* and the targets of break and continue.  A constant expression is a      *)
(* number: semantic analysis has folded it.                                *)
(***************************************************************************)
EXTENDS Source

newBlock(b) == [b EXCEPT !.f = Append(@, Blk(Len(@) + 1, b.reg, <<>>))]
newName(b) == Len(b.f) + 1           (* the name of the next block         *)

newInstr(b, op, ops, to) ==
  [b EXCEPT !.f[b.cur].ins = Append(@, Ins(op, b.next, ops, to)), !.next = @ + 1]
newRes(b) == Res(b.next)

hasTerminator(blk) == blk.ins # <<>> /\ isTerminator(Last(blk.ins))

Opened(b) ==
  IF hasTerminator(b.f[b.cur]) THEN [newBlock(b) EXCEPT !.cur = newName(b)] ELSE b

IfOpen(b, op, to) ==
  IF hasTerminator(b.f[b.cur]) THEN b ELSE newInstr(b, op, <<>>, to)

In(b, reg, cur) == [b EXCEPT !.reg = reg, !.cur = cur]

----------------------------------------------------------------------------
(* Which loops have a structured form.                                     *)

RECURSIVE Leaves(_, _)
(* The statement returns, or leaves or continues the loop around it.       *)
Leaves(t, own) ==
  CASE t[1] = "block" -> \E i \in DOMAIN t[2] : Leaves(t[2][i], own)
    [] t[1] = "if" -> Leaves(t[3], own)
    [] t[1] = "ifelse" -> Leaves(t[3], own) \/ Leaves(t[4], own)
    [] t[1] = "while" -> Leaves(t[3], FALSE)
    [] t[1] \in {"break", "continue"} -> own
    [] OTHER -> t[1] = "ret"

whileIsClean(t) == ~Leaves(t[3], TRUE)

RECURSIVE exprHasCall(_)
exprHasCall(e) ==
  CASE e[1] = "call" -> TRUE
    [] e[1] = "at" -> exprHasCall(e[3])
    [] e[1] \in {"neg", "not"} -> exprHasCall(e[2])
    [] e[1] \in {"and", "or"} -> exprHasCall(e[2]) \/ exprHasCall(e[3])
    [] e[1] = "bin" -> exprHasCall(e[3]) \/ exprHasCall(e[4])
    [] OTHER -> FALSE

RECURSIVE stmtTreeHasCall(_)
(* An assignment counts for its right side only.                           *)
stmtTreeHasCall(t) ==
  CASE t[1] = "block" -> \E i \in DOMAIN t[2] : stmtTreeHasCall(t[2][i])
    [] t[1] = "set" -> exprHasCall(t[3])
    [] t[1] \in {"do", "ret"} -> exprHasCall(t[2])
    [] t[1] = "if" -> exprHasCall(t[2]) \/ stmtTreeHasCall(t[3])
    [] t[1] = "ifelse" -> exprHasCall(t[2]) \/ stmtTreeHasCall(t[3]) \/ stmtTreeHasCall(t[4])
    [] t[1] = "while" -> exprHasCall(t[2]) \/ stmtTreeHasCall(t[3])
    [] OTHER -> FALSE

RECURSIVE stmtTreeWritesName(_, _)
stmtTreeWritesName(t, x) ==
  CASE t[1] = "block" -> \E i \in DOMAIN t[2] : stmtTreeWritesName(t[2][i], x)
    [] t[1] = "decl" -> t[2] = x
    [] t[1] = "set" -> t[2][2] = x
    [] t[1] = "if" -> stmtTreeWritesName(t[3], x)
    [] t[1] = "ifelse" -> stmtTreeWritesName(t[3], x) \/ stmtTreeWritesName(t[4], x)
    [] t[1] = "while" -> stmtTreeWritesName(t[3], x)
    [] OTHER -> FALSE

boundIsInvariant(b, e, body, iv) ==
  \/ e[1] = "num"
  \/ /\ e[1] = "var" /\ e[2] # iv /\ b.env[e[2]].size = 0
     /\ ~stmtTreeWritesName(body, e[2])
     /\ b.env[e[2]].addr.k = "glob" => ~stmtTreeHasCall(body)

(* The statements of a loop body.                                          *)
BodyOf(t) == IF t[3][1] = "block" THEN t[3][2] ELSE <<t[3]>>

(* while (iv < ub) { ...; iv = iv + K } as [iv, ub, step].                 *)
CountOf(t) ==
  LET mirror == t[2][2] = "Gt"
      tail == Last(BodyOf(t))
      l == tail[3][3]
  IN  [iv |-> t[2][IF mirror THEN 4 ELSE 3], ub |-> t[2][IF mirror THEN 3 ELSE 4],
       step |-> IF l[1] = "num" THEN l ELSE tail[3][4],
       other |-> IF l[1] = "num" THEN tail[3][4] ELSE l]

matchCountingWhile(b, t) ==
  /\ whileIsClean(t)
  /\ t[2][1] = "bin" /\ t[2][2] \in {"Lt", "Gt"}
  /\ BodyOf(t) # <<>>
  /\ LET tail == Last(BodyOf(t))
     IN  /\ tail[1] = "set" /\ tail[2][1] = "var"
         /\ tail[3][1] = "bin" /\ tail[3][2] = "Add"
         /\ LET c == CountOf(t)
            IN  /\ c.iv[1] = "var"
                /\ b.env[c.iv[2]].size = 0 /\ b.env[c.iv[2]].addr.k = "inst"
                /\ tail[2] = c.iv /\ c.other = c.iv
                /\ c.step[1] = "num" /\ c.step[2] > 0
                /\ \A i \in 1..(Len(BodyOf(t)) - 1) : ~stmtTreeWritesName(BodyOf(t)[i], c.iv[2])
                /\ boundIsInvariant(b, c.ub, t[3], c.iv[2])

----------------------------------------------------------------------------
(* Expressions: the builder after them, and their value.                   *)
Made(b, v) == [b |-> b, v |-> v]
emitted(b, op, ops, to) == Made(newInstr(b, op, ops, to), newRes(b))
computed(op, x, others) == emitted(x.b, op, <<x.v>> \o others, <<>>)
called(name, a) == emitted(a.b, "Call", a.v, <<name>>)

RECURSIVE visitExpr(_, _)
RECURSIVE condValue(_, _)
RECURSIVE visitArgs(_, _)

elementOf(base, i) ==
  IF i.v = Const(0) THEN Made(i.b, base) ELSE emitted(i.b, "Gep", <<base, i.v>>, <<>>)

(* The address of an lvalue.                                               *)
lvalAddress(b, e) ==
  IF e[1] = "var" THEN Made(b, b.env[e[2]].addr)
  ELSE elementOf(b.env[e[2]].addr, visitExpr(b, e[3]))

(* The value goes to the slot, and control to block join.                  *)
storedIn(slot, join, r) ==
  [newInstr(newInstr(r.b, "Store", <<r.v, slot>>, <<>>), "Br", <<>>, <<join>>) EXCEPT !.cur = join]

(* The right side, after the left one l, through a slot; block alt decides.*)
throughSlot(isAnd, l, e) ==
  LET slot == newRes(l.b)
      alt == newName(l.b)
      rhs == alt + 1
      join == alt + 2
      decided == Made([newInstr(newBlock(newBlock(newBlock(newInstr(l.b, "Alloca", <<Const(1)>>, <<>>)))),
                                "CondBr", <<l.v>>, IF isAnd THEN <<rhs, alt>> ELSE <<alt, rhs>>)
                         EXCEPT !.cur = alt],
                      Const(IF isAnd THEN 0 ELSE 1))
      other == condValue([storedIn(slot, join, decided) EXCEPT !.cur = rhs], e)
  IN  emitted(storedIn(slot, join, other), "Load", <<slot>>, <<>>)

(* lhs && rhs or lhs || rhs, unless the left side l decides.               *)
LogicalOf(isAnd, l, e) ==
  IF ~IsConst(l.v) THEN throughSlot(isAnd, l, e)
  ELSE IF isAnd = (l.v.n # 0) THEN condValue(l.b, e) ELSE Made(l.b, l.v)

evalLogical(b, e) == LogicalOf(e[1] = "and", condValue(Opened(b), e[2]), e[3])


(* e as 0 or 1.                                                            *)
condValue(b, e) ==
  CASE e[1] = "num" -> Made(b, Const(Truth(e[2] # 0)))
    [] e[1] \in {"and", "or", "not"} \/ (e[1] = "bin" /\ e[2] \in Cmps) -> visitExpr(b, e)
    [] OTHER -> computed("Ne", visitExpr(b, e), <<Const(0)>>)

negated(x) == emitted(x.b, "Sub", <<Const(0), x.v>>, <<>>)
binary(op, l, r) == emitted(r.b, op, <<l.v, r.v>>, <<>>)
binaryOf(op, l, e) == binary(op, l, visitExpr(l.b, e))

visitExpr(b, e) ==
  CASE e[1] = "num" -> Made(b, Const(e[2]))
    [] e[1] \in {"var", "at"} -> computed("Load", lvalAddress(b, e), <<>>)
    [] e[1] = "neg" -> negated(visitExpr(b, e[2]))
    [] e[1] = "not" -> computed("Not", condValue(b, e[2]), <<>>)
    [] e[1] \in {"and", "or"} -> evalLogical(b, e)
    [] e[1] = "bin" -> binaryOf(e[2], visitExpr(b, e[3]), e[4])
    [] e[1] = "call" -> called(e[2], visitArgs(b, e[3]))

WithFirst(x, rest) == Made(rest.b, <<x.v>> \o rest.v)
visitRest(x, es) == WithFirst(x, visitArgs(x.b, es))

visitArgs(b, es) ==
  IF es = <<>> THEN Made(b, <<>>) ELSE visitRest(visitExpr(b, es[1]), Tail(es))

----------------------------------------------------------------------------
RECURSIVE visitStmt(_, _)
RECURSIVE visitBlock(_, _)

visitBlock(b, ss) == IF ss = <<>> THEN b ELSE visitBlock(visitStmt(b, ss[1]), Tail(ss))

Scoped(b, ss) == [visitBlock(b, ss) EXCEPT !.env = b.env]

(* if (c) with the condition's value known or in a branch.                 *)
IfOf(c, t) ==
  LET hasElse == t[1] = "ifelse"
      then == newName(c.b)
      else == then + 1
      join == IF hasElse THEN then + 2 ELSE then + 1
      b1 == IF hasElse THEN newBlock(newBlock(newBlock(c.b))) ELSE newBlock(newBlock(c.b))
      b2 == newInstr(b1, "CondBr", <<c.v>>, <<then, else>>)
      b3 == IfOpen(visitStmt([b2 EXCEPT !.cur = then], t[3]), "Br", <<join>>)
      b4 == IfOpen(visitStmt([b3 EXCEPT !.cur = else], t[4]), "Br", <<join>>)
  IN  IF IsConst(c.v)
      THEN IF c.v.n # 0 THEN visitStmt(c.b, t[3])
           ELSE IF hasElse THEN visitStmt(c.b, t[4]) ELSE c.b
      ELSE [(IF hasElse THEN b4 ELSE b3) EXCEPT !.cur = join]

visitIf(b, t) == IfOf(condValue(b, t[2]), t)

(* A new block of the region, in which the builder goes on.                *)
InNewBlock(b, reg) == In(newBlock([b EXCEPT !.reg = reg]), reg, newName(b))

(* A loop that is left from inside: block cond, the body and the end.      *)
Branched(c, cond) ==
  IF IsConst(c.v)
  THEN newInstr(c.b, "Br", <<>>, <<IF c.v.n # 0 THEN cond + 1 ELSE cond + 2>>)
  ELSE newInstr(c.b, "CondBr", <<c.v>>, <<cond + 1, cond + 2>>)

FlatWhile(b, t) ==
  LET cond == newName(b)
      start == [newInstr(newBlock(newBlock(newBlock(b))), "Br", <<>>, <<cond>>)
                  EXCEPT !.cur = cond, !.loops = <<[cond |-> cond, end |-> cond + 2]>> \o @]
      body == [Branched(condValue(start, t[2]), cond) EXCEPT !.cur = cond + 1]
  IN  [IfOpen(visitStmt(body, t[3]), "Br", <<cond>>) EXCEPT !.cur = cond + 2, !.loops = b.loops]

(* With the bound ub known; the loop is the instruction after the load.    *)
AffineForOf(ub, t, slot, reg) ==
  LET lb == newRes(ub.b)
      exit == newName(ub.b)
      loop == ub.b.next + 1
      head == newInstr(newBlock(newInstr(ub.b, "Load", <<slot>>, <<>>)), "AffineFor",
                       <<slot, lb, ub.v, Const(CountOf(t).step[2])>>, <<exit>>)
  IN  In(IfOpen(Scoped(InNewBlock(head, <<loop, "body">>), Front(BodyOf(t))), "AffineYield", <<>>),
         reg, exit)

tryEmitAffineFor(b, t) ==
  AffineForOf(visitExpr(b, CountOf(t).ub), t, b.env[CountOf(t).iv[2]].addr, b.reg)

(* The condition c is in the block before: the body follows.               *)
ScfBody(c, loop, exit) ==
  LET body == newName(c.b)
  IN  In(newInstr(newBlock([c.b EXCEPT !.reg = <<loop, "body">>]), "ScfCondition", <<c.v>>, <<body, exit>>),
         <<loop, "body">>, body)

ScfWhileOf(b, t) ==
  LET exit == newName(b)
      head == newInstr(newBlock(b), "ScfWhile", <<>>, <<exit>>)
      c == condValue(InNewBlock(head, <<b.next, "cond">>), t[2])
  IN  In(IfOpen(visitStmt(ScfBody(c, b.next, exit), t[3]), "ScfYield", <<>>), b.reg, exit)

visitWhile(b, t) ==
  IF ~whileIsClean(t) THEN FlatWhile(b, t)
  ELSE IF matchCountingWhile(b, t) THEN tryEmitAffineFor(b, t)
  ELSE ScfWhileOf(b, t)

storedTo(a, v) == newInstr(v.b, "Store", <<v.v, a.v>>, <<>>)
assigned(a, e) == storedTo(a, visitExpr(a.b, e))
returned(v) == newInstr(v.b, "Ret", <<v.v>>, <<>>)

visitStmt(b0, t) ==
  LET b == Opened(b0)
  IN  CASE t[1] = "block" -> Scoped(b, t[2])
        [] t[1] = "decl" ->
             [newInstr(b, "Alloca", <<Const(IF t[3] = 0 THEN 1 ELSE t[3])>>, <<>>)
                EXCEPT !.env = (t[2] :> [addr |-> newRes(b), size |-> t[3]]) @@ @]
        [] t[1] = "set" -> assigned(lvalAddress(b, t[2]), t[3])
        [] t[1] = "do" -> visitExpr(b, t[2]).b
        [] t[1] \in {"if", "ifelse"} -> visitIf(b, t)
        [] t[1] = "while" -> visitWhile(b, t)
        [] t[1] = "break" -> newInstr(b, "Br", <<>>, <<b.loops[1].end>>)
        [] t[1] = "continue" -> newInstr(b, "Br", <<>>, <<b.loops[1].cond>>)
        [] t[1] = "ret" -> returned(visitExpr(b, t[2]))

(* Blocks of the function that were left open return 0.                    *)
finishFunction(b) ==
  [b EXCEPT !.f = [i \in DOMAIN @ |->
     IF hasTerminator(@[i]) \/ @[i].in # Root THEN @[i]
     ELSE [@[i] EXCEPT !.ins = Append(@, Ins("Ret", b.next + i, <<Const(0)>>, <<>>))]]]

(* Parameters get slots, then the body; globals have numbers.              *)
buildFunction(u, n) ==
  LET ps == u.funcs[n].params
      globs == [x \in DOMAIN u.globals |->
                  [addr |-> Glob(u.globals[x].obj[2]), size |-> u.globals[x].size]]
      start == newBlock([f |-> <<>>, cur |-> 1, reg |-> Root, next |-> 1, env |-> globs,
                         loops |-> <<>>])
      param(b, i) ==
        LET b1 == newInstr(b, "Alloca", <<Const(1)>>, <<>>)
        IN  [newInstr(b1, "Store", <<Arg(i), newRes(b)>>, <<>>)
               EXCEPT !.env = (ps[i] :> [addr |-> newRes(b), size |-> 0]) @@ @]
      b == FoldLeft(param, start, [i \in DOMAIN ps |-> i])
  IN  Laid(finishFunction(visitStmt(b, u.funcs[n].body)).f, Root)

Built(u) == [n \in DOMAIN u.funcs |-> buildFunction(u, n)]
=============================================================================
