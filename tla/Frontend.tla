------------------------------ MODULE Frontend ------------------------------
(***************************************************************************)
(* From a text to the program the IR builder makes of it (src/main.cpp):   *)
(* parser, AST builder, semantic analysis and the part of                  *)
(* src/midend/irbuild/IRBuilder.cpp that decides what names, constants,    *)
(* conversions, initialisers and tensors become.  Its result is a program  *)
(* of module Source, which says what it means; from there module IRBuild   *)
(* goes on to blocks and instructions.  A variable is named by a number, a *)
(* temporary that the builder makes by the number that is next and a path. *)
(***************************************************************************)
EXTENDS Sema

CONSTANT UnrollLimit    (* longer initialisers get a loop, 4096 in the code *)

VARIABLES
  text,      (* the tokens                                                 *)
  stage,     (* what the compiler has: "text", "tree", "ast", "checked",   *)
             (* "built", or "rejected" and "crash" when it gave up         *)
  tree,      (* the context of the whole text                              *)
  ast,
  chk,       (* the analysed program                                       *)
  core       (* the program built                                          *)

Num(n) == <<"num", n>>
Var(id) == <<"var", id>>
Elem(id, e) == <<"at", id, e>>
Bin(op, l, r) == <<"bin", op, l, r>>
Set(l, e) == <<"set", l, e>>
Block(ss) == <<"block", ss>>

----------------------------------------------------------------------------
(* Names.  The builder b has the object of each name, for each scope the   *)
(* objects that it hid, the number of the next variable, the signatures of *)
(* the functions and the buffer that a tensor is returned in.              *)
NoObj == <<>>
Obj(id, ty, dims) == [id |-> id, ty |-> ty, dims |-> dims]

enterScope(b) == [b EXCEPT !.saved = Append(@, <<>>)]
lookup(b, x) == b.env[x]

bind(b, x, o) ==
  [b EXCEPT !.saved[Len(b.saved)] = Append(@, <<x, IF x \in DOMAIN b.env THEN b.env[x] ELSE NoObj>>),
            !.env = (x :> o) @@ @]

Restored(env, kv) ==
  IF kv[2] # NoObj THEN (kv[1] :> kv[2]) @@ env
  ELSE [y \in DOMAIN env \ {kv[1]} |-> env[y]]

leaveScope(b) ==
  [b EXCEPT !.env = FoldLeft(Restored, @, Last(b.saved)), !.saved = Front(@)]

numElements(dims) ==
  FoldLeft(LAMBDA n, d : IF d < 0 THEN n ELSE n * d, 1, dims)

(* A new variable for x; its number is b.next.                             *)
bindNew(b, x, ty, dims) == bind([b EXCEPT !.next = @ + 1], x, Obj(<<b.next>>, ty, dims))

----------------------------------------------------------------------------
(* Expressions: what they become and the type of their value.              *)
Made(e, ty) == [e |-> e, ty |-> ty]

constOf(c) == Made(Num(c[2]), c[1])

(* Sitofp and Fptosi, on halves.                                           *)
convert(v, ty) ==
  CASE v.ty = ty -> v
    [] v.e[1] = "num" -> constOf(convertConst(ty, <<v.ty, v.e[2]>>))
    [] OTHER -> IF ty = "float" THEN Made(Bin("Mul", v.e, Num(2)), ty)
                ELSE Made(Bin("SDiv", v.e, Num(2)), ty)

(* FAdd, FSub, FMul, FDiv or their integer forms.                          *)
arith(op, ty, l, r) ==
  CASE ty = "float" /\ op = "Mul" -> Bin("SDiv", Bin("Mul", l, r), Num(2))
    [] ty = "float" /\ op = "SDiv" -> Bin("SDiv", Bin("Mul", l, Num(2)), r)
    [] OTHER -> Bin(op, l, r)

RECURSIVE visitExpr(_, _, _)
RECURSIVE emitTensorExprTo(_, _, _, _)
RECURSIVE visitArgs(_, _, _)

(* The subscripts as one: constant terms are added up and come last.       *)
scaleOf(dims, p) == numElements(SubSeq(dims, p + 1, Len(dims)))

flatIndex(dims, is) ==
  LET isConst(p) == is[p][1] = "num"
      const == FoldLeft(LAMBDA s, p : IF isConst(p) THEN s + is[p][2] * scaleOf(dims, p) ELSE s,
                        0, [p \in DOMAIN is |-> p])
      term(p) == IF scaleOf(dims, p) = 1 THEN is[p] ELSE Bin("Mul", is[p], Num(scaleOf(dims, p)))
      dyn == FoldLeft(LAMBDA s, p : IF isConst(p) THEN s
                                    ELSE IF s = <<>> THEN term(p) ELSE Bin("Add", s, term(p)),
                      <<>>, [p \in DOMAIN is |-> p])
  IN  IF dyn = <<>> THEN Num(const) ELSE IF const = 0 THEN dyn ELSE Bin("Add", dyn, Num(const))

addressOf(b, n, path) ==
  LET o == lookup(b, n.x)
  IN  IF o.dims = <<>> THEN Var(o.id)
      ELSE Elem(o.id, flatIndex(o.dims, <<>> \o [p \in DOMAIN n.sub |-> visitExpr(b, n.sub[p], path \o <<p>>).e]))

negated(v) == Made(IF v.ty = "float" THEN Bin("Sub", Num(0), v.e) ELSE <<"neg", v.e>>, v.ty)

binaryOf(op, ty, l, r) ==
  LET t == IF op \in Cmps THEN (IF "float" \in {l.ty, r.ty} THEN "float" ELSE "int")
           ELSE IF op = "SRem" THEN "int" ELSE ty
      le == convert(l, t).e
      re == convert(r, t).e
  IN  IF op \in Cmps THEN Made(Bin(op, le, re), "int") ELSE Made(arith(op, t, le, re), t)

(* The run-time library has the timers under other names.                  *)
calleeOf(b, n) ==
  IF ~b.funcs[n.x].builtin THEN n.x
  ELSE CASE n.x = "starttime" -> "_sysy_starttime" [] n.x = "stoptime" -> "_sysy_stoptime"
         [] OTHER -> n.x

visitExpr(b, n, path) ==
  LET x == visitExpr(b, n.sub[1], path \o <<1>>)
      y == visitExpr(b, n.sub[2], path \o <<2>>)
  IN  CASE valid(n.c) -> constOf(n.c)
        [] n.k = "lval" -> Made(addressOf(b, n, path), n.ty)
        [] n.k = "plus" -> x
        [] n.k = "neg" -> negated(x)
        [] n.k = "not" -> Made(<<"not", x.e>>, "int")
        [] n.k = "bin" /\ n.x = "And" -> Made(<<"and", x.e, y.e>>, "int")
        [] n.k = "bin" /\ n.x = "Or" -> Made(<<"or", x.e, y.e>>, "int")
        [] n.k = "bin" -> binaryOf(n.x, n.ty, x, y)
        [] n.k = "call" -> Made(<<"call", calleeOf(b, n), visitArgs(b, n, path)>>, n.ty)

----------------------------------------------------------------------------
(* Tensors.  The loops are those that module TensorLower.cpp puts in the   *)
(* place of a tensor operation.                                            *)
Tmp(b, path) == <<b.next>> \o path

(* for iv = 0 to ub - 1                                                    *)
emitFor(iv, ub, ss) ==
  <<<<"decl", iv, 0>>, Set(Var(iv), Num(0)),
    <<"while", Bin("Lt", Var(iv), Num(ub)),
      Block(ss \o <<Set(Var(iv), Bin("Add", Var(iv), Num(1)))>>)>>>>

(* dest[i] = value(i), where the value has i in the place of iv.           *)
expandElementwise(b, path, dest, total, value) ==
  <<Block(emitFor(Tmp(b, path), total, <<Set(Elem(dest, Var(Tmp(b, path))), value)>>))>>

emitTensorCopy(b, path, dest, src, shape) ==
  expandElementwise(b, path \o <<1>>, dest, numElements(shape),
                    Elem(src, Var(Tmp(b, path \o <<1>>))))

expandMatmul(b, path, ty, dest, a, c, m, n, p) ==
  LET i == Tmp(b, path \o <<1>>)
      j == Tmp(b, path \o <<2>>)
      k == Tmp(b, path \o <<3>>)
      aik == Tmp(b, path \o <<4>>)
      rowMajor(r, stride, col) == Bin("Add", Bin("Mul", Var(r), Num(stride)), Var(col))
      cell == Elem(dest, rowMajor(i, p, j))
      row == emitFor(j, p, <<Set(cell, Num(0))>>)
      sum == Bin("Add", cell, arith("Mul", ty, Var(aik), Elem(c, rowMajor(k, p, j))))
      column == <<<<"decl", aik, 0>>, Set(Var(aik), Elem(a, rowMajor(i, n, k)))>> \o
                emitFor(j, p, <<Set(cell, sum)>>)
  IN  <<Block(emitFor(i, m, row \o emitFor(k, n, column)))>>

NewTemp(id, shape, ss) == <<<<"decl", id, numElements(shape)>>>> \o ss

(* The buffer of a tensor, and the statements that fill it.                *)
bufferOfTensor(b, n, path) ==
  IF n.k = "lval" THEN [id |-> lookup(b, n.x).id, ss |-> <<>>]
  ELSE LET tmp == Tmp(b, path \o <<0>>)
       IN  [id |-> tmp, ss |-> NewTemp(tmp, n.shape, emitTensorExprTo(b, n, tmp, path \o <<0>>))]

(* Mutant: a source that is the destination is read while it is written.   *)
copyAwayNever(b, src, dest, shape, path) == src

(* A source that is the destination is copied away.                        *)
copyAway(b, src, dest, shape, path) ==
  LET tmp == Tmp(b, path \o <<5>>)
  IN  IF src.id # dest THEN src
      ELSE [id |-> tmp, ss |-> src.ss \o NewTemp(tmp, shape, emitTensorCopy(b, path \o <<6>>, tmp, src.id, shape))]

(* A scalar operand has its value before the loop.                         *)
elementOf(buf, iv) == [e |-> Elem(buf.id, Var(iv)), ss |-> buf.ss]

operandOf(b, n, ty, path, iv) ==
  LET tmp == Tmp(b, path \o <<7>>)
  IN  IF n.ten THEN elementOf(bufferOfTensor(b, n, path), iv)
      ELSE [e |-> Var(tmp),
            ss |-> <<<<"decl", tmp, 0>>, Set(Var(tmp), convert(visitExpr(b, n, path), ty).e)>>]

Negated(b, n, dest, path, src) ==
  src.ss \o expandElementwise(b, path, dest, numElements(n.shape),
                              Bin("Sub", Num(0), Elem(src.id, Var(Tmp(b, path)))))

lowerTensorUnary(b, n, dest, path) ==
  IF n.k = "plus" THEN emitTensorExprTo(b, n.sub[1], dest, path)
  ELSE Negated(b, n, dest, path \o <<8>>, bufferOfTensor(b, n.sub[1], path \o <<1>>))

MatmulOf_(b, n, dest, path, l, r) ==
  l.ss \o r.ss \o
  expandMatmul(b, path, n.ty, dest, l.id, r.id, n.shape[1], n.sub[1].shape[2], n.shape[2])

lowerTensorMatmul(b, n, dest, path) ==
  LET away(p) == copyAway(b, bufferOfTensor(b, n.sub[p], path \o <<p>>), dest, n.sub[p].shape, path \o <<p>>)
  IN  MatmulOf_(b, n, dest, path \o <<3>>, away(1), away(2))

ElementwiseOf(b, n, dest, path, l, r) ==
  l.ss \o r.ss \o expandElementwise(b, path, dest, numElements(n.shape), arith(n.x, n.ty, l.e, r.e))

lowerTensorBinary(b, n, dest, path) ==
  LET iv == Tmp(b, path \o <<8>>)
  IN  IF n.x = "MatMul" THEN lowerTensorMatmul(b, n, dest, path)
      ELSE ElementwiseOf(b, n, dest, path \o <<8>>, operandOf(b, n.sub[1], n.ty, path \o <<1>>, iv),
                         operandOf(b, n.sub[2], n.ty, path \o <<2>>, iv))

emitTensorExprTo(b, n, dest, path) ==
  CASE n.k = "lval" ->
         IF lookup(b, n.x).id = dest THEN <<>>
         ELSE emitTensorCopy(b, path, dest, lookup(b, n.x).id, n.shape)
    [] n.k \in {"plus", "neg"} -> lowerTensorUnary(b, n, dest, path)
    [] n.k = "bin" -> lowerTensorBinary(b, n, dest, path)
    [] n.k = "call" ->
         <<<<"do", <<"call", calleeOf(b, n), <<<<"ref", dest, Num(0)>>>> \o visitArgs(b, n, path)>>>>>>

(* The arguments: arrays by address, tensors in their buffers.             *)
tensorArg(buf) ==
  IF buf.ss = <<>> THEN <<"ref", buf.id, Num(0)>> ELSE <<"seq", buf.ss, <<"ref", buf.id, Num(0)>>>>

codegenArg(b, n, formal, path) ==
  IF formal.isTensor THEN tensorArg(bufferOfTensor(b, n, path))
  ELSE IF formal.dims # <<>> THEN [addressOf(b, n, path) EXCEPT ![1] = "ref"]
  ELSE convert(visitExpr(b, n, path), formal.base).e

visitArgs(b, n, path) ==
  LET ts == b.funcs[n.x].params
  IN  <<>> \o [i \in DOMAIN n.sub |-> codegenArg(b, n.sub[i], ts[i], path \o <<i>>)]

----------------------------------------------------------------------------
(* Declarations: the builder after them and their statements.              *)
Emitted(b, ss) == [b |-> b, ss |-> ss]
After(r, q) == Emitted(q.b, r.ss \o q.ss)

valueOf(b, n, ty) == convert(visitExpr(b, n, <<1>>), ty).e

(* Where InitWalker puts the leaves: an analysed initialiser or Zero at    *)
(* each place.  ok FALSE stands for an internal error.                     *)
InitWalker(dims, init) ==
  IF init[1] = "list" THEN Filled(dims, init)
  ELSE [ok |-> Len(dims) = 1, items |-> <<>>, out |-> <<init>>]

(* The test for a leaf that the loop has written: the field of the         *)
(* constant that it reads is 0 in a constant of the other type.            *)
isZeroLeaf(ty, leaf) ==
  leaf = Zero \/ (valid(leaf[2].c) /\ (leaf[2].c[1] # ty \/ leaf[2].c[2] = 0))

emitArrayZeroFill(b, id, count) ==
  <<Block(emitFor(Tmp(b, <<9>>), count, <<Set(Elem(id, Var(Tmp(b, <<9>>))), Num(0))>>))>>

storeLeaf(b, id, ty, leaf, i) ==
  Set(Elem(id, Num(i - 1)), IF leaf = Zero THEN Num(0) ELSE valueOf(b, leaf[2], ty))

(* A long initialiser is a loop that writes zeros and the stores of the    *)
(* leaves that are not zero.                                               *)
storesOf(b, id, ty, leaves) ==
  LET long == Len(leaves) > UnrollLimit
      kept == SelectSeq([i \in DOMAIN leaves |-> i], LAMBDA i : ~long \/ ~isZeroLeaf(ty, leaves[i]))
  IN  (IF long THEN emitArrayZeroFill(b, id, Len(leaves)) ELSE <<>>) \o
      [k \in DOMAIN kept |-> storeLeaf(b, id, ty, leaves[kept[k]], kept[k])]

LeavesStored(b, id, ty, w) ==
  IF w.ok THEN Emitted(b, storesOf(b, id, ty, w.out)) ELSE Emitted([b EXCEPT !.st = "rejected"], <<>>)

emitLocalArrayInit(b, id, ty, dims, init) == LeavesStored(b, id, ty, InitWalker(dims, init))

(* A constant has no variable: its reads are folded.                       *)
emitLocalVar(b, d, def) ==
  LET id == <<b.next>>
      b1 == bindNew(b, def.name, d.base, def.dims)
      alloc == <<<<"decl", id, IF def.dims = <<>> THEN 0 ELSE numElements(def.dims)>>>>
  IN  CASE def.dims = <<>> /\ d.isConst -> Emitted(b, <<>>)
        [] def.init = NoInit -> Emitted(b1, alloc)
        [] def.dims = <<>> -> Emitted(b1, alloc \o <<Set(Var(id), valueOf(b1, def.init[2], d.base))>>)
        [] OTHER -> After(Emitted(b1, alloc), emitLocalArrayInit(b1, id, d.base, def.dims, def.init))

visitDeclStmt(b, d) ==
  FoldLeft(LAMBDA r, def : After(r, emitLocalVar(r.b, d, def)), Emitted(b, <<>>), d.defs)

(* A global has its number, its size and the values in the data section,   *)
(* written here before main starts.                                        *)
dataOf(id, dims, values) ==
  <<>> \o [i \in DOMAIN values |->
            Set(IF dims = <<>> THEN Var(id) ELSE Elem(id, Num(i - 1)), Num(values[i][2]))]

emitGlobalDef(b, d, def) ==
  LET id == <<b.next>>
      values == IF def.init = NoInit THEN <<>>
                ELSE IF def.dims = <<>> THEN <<convertConst(d.base, def.init[2].c)>>
                ELSE flattenConstInit(d.base, def.dims, def.init).flat
      size == IF def.dims = <<>> THEN 0 ELSE numElements(def.dims)
      b1 == bindNew(b, def.name, d.base, def.dims)
  IN  IF def.dims = <<>> /\ d.isConst THEN b
      ELSE [b1 EXCEPT !.globals = (id :> [obj |-> <<0, b.next>>, size |-> size, off |-> 0]) @@ @,
                      !.data = @ \o dataOf(id, def.dims, values)]

emitGlobals(b, ds) ==
  FoldLeft(LAMBDA c, d : FoldLeft(LAMBDA e, def : emitGlobalDef(e, d, def), c, d.defs), b, ds)

----------------------------------------------------------------------------
(* Statements.                                                             *)
RECURSIVE visitStmt_(_, _)

(* One statement for what t becomes.                                       *)
Whole(ss) == IF Len(ss) = 1 THEN ss[1] ELSE Block(ss)

leaveBlock(r) == Emitted(leaveScope(r.b), <<Block(r.ss)>>)

visitBlock_(b, ts) ==
  leaveBlock(FoldLeft(LAMBDA r, t : After(r, visitStmt_(r.b, t)), Emitted(enterScope(b), <<>>), ts))

visitAssign(b, lv, n) ==
  IF lv.ten THEN <<Block(emitTensorExprTo(b, n, lookup(b, lv.x).id, <<1>>))>>
  ELSE <<Set(addressOf(b, lv, <<2>>), valueOf(b, n, lv.ty))>>

visitReturn(b, t) ==
  IF Len(t) = 1 THEN <<<<"ret", Num(0)>>>>
  ELSE IF b.retBuf # NoObj THEN <<Block(emitTensorExprTo(b, t[2], b.retBuf, <<1>>)), <<"ret", Num(0)>>>>
  ELSE <<<<"ret", valueOf(b, t[2], b.ret)>>>>

(* An if or a while with c before the statement x.                         *)
Guarded(k, c, x) == Emitted(x.b, <<<<k, c, Whole(x.ss)>>>>)
IfElse_(c, x, y) == Emitted(y.b, <<<<"ifelse", c, Whole(x.ss), Whole(y.ss)>>>>)
visitElse(c, x, t) == IfElse_(c, x, visitStmt_(x.b, t))

visitStmt_(b, t) ==
  LET c == visitExpr(b, t[2], <<1>>).e
  IN  CASE t[1] = "decl" -> visitDeclStmt(b, t[2])
        [] t[1] = "block" -> visitBlock_(b, t[2])
        [] t[1] = "set" -> Emitted(b, visitAssign(b, t[2], t[3]))
        [] t[1] = "do" -> Emitted(b, IF Len(t) = 1 THEN <<>> ELSE <<<<"do", c>>>>)
        [] t[1] \in {"if", "while"} -> Guarded(t[1], c, visitStmt_(b, t[3]))
        [] t[1] = "ifelse" -> visitElse(c, visitStmt_(b, t[3]), t[4])
        [] t[1] \in {"break", "continue"} -> Emitted(b, <<t>>)
        [] t[1] = "ret" -> Emitted(b, visitReturn(b, t))

bindParam(r, p, t) ==
  Emitted(bindNew(r.b, p.name, t.base, t.dims), Append(r.ss, <<r.b.next>>))

endFunction(f, params, r) ==
  [leaveScope(leaveScope(r.b)) EXCEPT !.fns = (f.name :> [params |-> params, body |-> r.ss[1]]) @@ @]

withBody(f, body, params) == endFunction(f, params.ss, visitBlock_(enterScope(params.b), body[2]))

(* The parameters, the buffer of a returned tensor first, then the body.   *)
buildFunction_(b, f, body) ==
  LET fi == b.funcs[f.name]
      buf == <<b.next>>
      start == IF f.retIsTensor
               THEN Emitted([enterScope(b) EXCEPT !.retBuf = buf, !.next = @ + 1], <<buf>>)
               ELSE Emitted([enterScope(b) EXCEPT !.retBuf = NoObj, !.ret = f.retType], <<>>)
  IN  withBody(f, body, FoldLeft(LAMBDA r, i : bindParam(r, f.params[i], fi.params[i]), start,
                                 [i \in DOMAIN f.params |-> i]))

(* The program: main starts with the data section.                         *)
Loaded(b) ==
  [funcs |-> [b.fns EXCEPT !["main"].body = Block(Append(b.data, @))], globals |-> b.globals]

built(a, c) ==
  LET start == [env |-> <<>>, saved |-> <<<<>>>>, next |-> 1, st |-> "built", funcs |-> c.funcs,
                globals |-> <<>>, data |-> <<>>, fns |-> <<>>, retBuf |-> NoObj, ret |-> "void"]
  IN  FoldLeft(LAMBDA b, f : buildFunction_(b, f, c.bodies[f.name]),
               emitGlobals(start, c.globals), a.funcs)

----------------------------------------------------------------------------
(* The driver: an error of any stage ends the compilation.                 *)
vars == <<text, stage, tree, ast, chk, core>>

StartWith(tokens) ==
  /\ text = tokens /\ stage = "text"
  /\ tree = <<>> /\ ast = <<>> /\ chk = <<>> /\ core = <<>>

Parse ==
  /\ stage = "text"
  /\ \E p \in {Parsed(text)} :
       IF p.ok THEN stage' = "tree" /\ tree' = p.kids[1]
       ELSE stage' = "rejected" /\ tree' = tree
  /\ UNCHANGED <<text, ast, chk, core>>

BuildAst ==
  /\ stage = "tree"
  /\ stage' = "ast" /\ ast' = visitCompUnit(tree)
  /\ UNCHANGED <<text, tree, chk, core>>

Analyse ==
  /\ stage = "ast"
  /\ \E c \in {analyze(ast)} :
       CASE c.st = "ok" -> stage' = "checked" /\ chk' = c
         [] c.st = "error" -> stage' = "rejected" /\ chk' = chk
         [] c.st = "crash" -> stage' = "crash" /\ chk' = chk
  /\ UNCHANGED <<text, tree, ast, core>>

BuildIR ==
  /\ stage = "checked"
  /\ \E b \in {built(ast, chk)} :
       stage' = b.st /\ core' = (IF b.st = "built" THEN Loaded(b) ELSE core)
  /\ UNCHANGED <<text, tree, ast, chk>>

Next == Parse \/ BuildAst \/ Analyse \/ BuildIR
=============================================================================
