-------------------------------- MODULE Sema --------------------------------
(***************************************************************************)
(* Semantic analysis (src/frontend/SemanticAnalysis.cpp): name resolution, *)
(* type checking and constant folding of the AST that module Parser makes. *)
(* Instead of writing into the tree, each function returns an annotated    *)
(* copy: a node has its kind, its name or operator, the nodes below it and *)
(* what the analysis says of its type, shape and constant value.  ok FALSE *)
(* stands for the CompileError that the code throws.                       *)
(*                                                                         *)
(* A float is a number of halves, rounded towards zero.                    *)
(***************************************************************************)
EXTENDS Parser, TLC

Word(x) == ((x + 2 ^ (WordBits - 1)) % (2 ^ WordBits)) - 2 ^ (WordBits - 1)
Abs(x) == IF x < 0 THEN -x ELSE x
Quot(x, y) == IF (x < 0) = (y < 0) THEN Abs(x) \div Abs(y) ELSE -(Abs(x) \div Abs(y))
Truth(p) == IF p THEN 1 ELSE 0

Cmps == {"Eq", "Ne", "Lt", "Le", "Gt", "Ge"}
Logicals == {"And", "Or"}

----------------------------------------------------------------------------
(* Constants: ConstVal.                                                    *)
None == <<"none", 0>>
intC(n) == <<"int", Word(n)>>
floatC(h) == <<"float", h>>
valid(c) == c[1] # "none"

f2i_trunc(h) == IF Quot(h, 2) = Word(Quot(h, 2)) THEN Quot(h, 2) ELSE -(2 ^ (WordBits - 1))

convertConst(to, c) ==
  IF ~valid(c) \/ c[1] = to THEN c
  ELSE IF to = "int" THEN intC(f2i_trunc(c[2])) ELSE floatC(2 * c[2])

truthy(c) == valid(c) /\ c[2] # 0
toF(c) == convertConst("float", c)[2]

Compared(op, x, y) ==
  CASE op = "Eq" -> x = y [] op = "Ne" -> x # y [] op = "Lt" -> x < y
    [] op = "Le" -> x <= y [] op = "Gt" -> x > y [] op = "Ge" -> x >= y

IntResult(op, x, y) ==
  CASE op = "Add" -> x + y [] op = "Sub" -> x - y [] op = "Mul" -> x * y
    [] op = "SDiv" -> Quot(x, y) [] op = "SRem" -> x - y * Quot(x, y)

FloatResult(op, x, y) ==
  CASE op = "Add" -> x + y [] op = "Sub" -> x - y
    [] op = "Mul" -> Quot(x * y, 2) [] op = "SDiv" -> Quot(2 * x, y)

foldUnary(op, c) ==
  IF ~valid(c) THEN None
  ELSE IF op = "not" THEN intC(Truth(~truthy(c)))
  ELSE LET v == IF op = "neg" THEN -c[2] ELSE c[2]
       IN  IF c[1] = "float" THEN floatC(v) ELSE intC(v)

dividesByZero(op, a, b) ==
  valid(a) /\ valid(b) /\ op \in {"SDiv", "SRem"} /\ b[2] = 0

foldBinary(op, a, b) ==
  LET floats == "float" \in {a[1], b[1]}
      x == IF floats THEN toF(a) ELSE a[2]
      y == IF floats THEN toF(b) ELSE b[2]
  IN  CASE ~valid(a) \/ ~valid(b) \/ op = "MatMul" -> None
        [] op = "And" -> intC(Truth(truthy(a) /\ truthy(b)))
        [] op = "Or" -> intC(Truth(truthy(a) \/ truthy(b)))
        [] op \in Cmps -> intC(Truth(Compared(op, x, y)))
        [] OTHER -> IF floats THEN floatC(FloatResult(op, x, y)) ELSE intC(IntResult(op, x, y))

----------------------------------------------------------------------------
(* Nodes and symbols.  arr is isArrayExpr, ten isTensorVal, c the cval.    *)
Node(k, x, sub) ==
  [ok |-> TRUE, k |-> k, x |-> x, sub |-> sub, ty |-> "int", arr |-> FALSE, ten |-> FALSE,
   shape |-> <<>>, c |-> None]

Error == [Node("error", "", <<>>) EXCEPT !.ok = FALSE]
Require(p, n) == IF p THEN n ELSE Error
AllOk(ns) == \A i \in DOMAIN ns : ns[i].ok

(* requireScalar.                                                          *)
isScalar(n) == n.ok /\ ~n.arr /\ ~n.ten /\ n.ty # "void"

TypeOf_(base, dims, isTensor) == [base |-> base, dims |-> dims, isTensor |-> isTensor]
Symbol_(type, isConst) ==
  [type |-> type, isConst |-> isConst, hasInit |-> FALSE, value |-> None, flat |-> <<>>]

(* env: the scopes, the innermost last, the functions known, the one that  *)
(* is analysed, the loops around; st is "error" after a CompileError.      *)
pushScope(env) == [env EXCEPT !.scopes = Append(@, <<>>)]
popScope(env) == [env EXCEPT !.scopes = Front(@)]
Reject(env) == [env EXCEPT !.st = IF @ = "ok" THEN "error" ELSE @]
Check(env, p) == IF p THEN env ELSE Reject(env)

Homes(env, x) == {i \in DOMAIN env.scopes : x \in DOMAIN env.scopes[i]}
resolve(env, x) == env.scopes[Max(Homes(env, x))][x]

(* Mutant: a name may be declared twice in a scope.                        *)
declareAgain(env, x, sym) == [env EXCEPT !.scopes[Len(env.scopes)] = (x :> sym) @@ @]

declare(env, x, sym) ==
  IF x \in DOMAIN Last(env.scopes) THEN Reject(env)
  ELSE [env EXCEPT !.scopes[Len(env.scopes)] = (x :> sym) @@ @]

RECURSIVE checkExpr(_, _, _, _)
RECURSIVE checkExprs(_, _)
checkExprs(env, es) ==
  IF es = <<>> THEN <<>> ELSE <<checkExpr(env, es[1], TRUE, FALSE)>> \o checkExprs(env, Tail(es))

----------------------------------------------------------------------------
(* Expressions.                                                            *)

(* The element of a constant array whose subscripts are constants.         *)
ConstElement(sym, idx) ==
  LET off == FoldLeft(LAMBDA o, i : o * sym.type.dims[i] + idx[i].c[2], 0,
                      [i \in DOMAIN idx |-> i])
  IN  IF /\ sym.flat # <<>>
         /\ \A i \in DOMAIN idx : idx[i].c[1] = "int"
         /\ off \in 0..(Len(sym.flat) - 1)
      THEN sym.flat[off + 1] ELSE None

LValOf(sym, e, idx, asRvalue) ==
  LET t == sym.type
      whole == t.isTensor /\ idx = <<>>
      element == Len(idx) = Len(t.dims)
  IN  Require(/\ \A i \in DOMAIN idx : isScalar(idx[i]) /\ idx[i].ty = "int"
              /\ Len(idx) <= Len(t.dims)
              /\ t.isTensor => whole \/ element,
              [Node("lval", e[2], idx) EXCEPT
                 !.ty = t.base, !.arr = ~element /\ ~whole, !.ten = whole,
                 !.shape = t.dims,
                 !.c = IF ~sym.isConst \/ ~asRvalue \/ ~element THEN None
                       ELSE IF t.dims = <<>> THEN sym.value ELSE ConstElement(sym, idx)])

checkLValExpr(env, e, asRvalue) ==
  IF Homes(env, e[2]) = {} THEN Error
  ELSE LValOf(resolve(env, e[2]), e, checkExprs(env, e[3]), asRvalue)

(* The first dimension of the formal is open, that of the argument known.  *)
tensorShapeMatches(t, n) ==
  /\ Len(t.dims) = Len(n.shape) /\ n.shape # <<>> /\ n.shape[1] >= 1
  /\ Tail(t.dims) = Tail(n.shape)

ArgOf(t, n) ==
  Require(IF t.isTensor THEN n.ok /\ n.ten /\ n.ty = t.base /\ tensorShapeMatches(t, n)
          ELSE IF t.dims # <<>> THEN n.ok /\ n.arr /\ n.ty = t.base
          ELSE isScalar(n), n)

CallOf(e, fi, args) ==
  Require(AllOk(args), [Node("call", e[2], args) EXCEPT
                          !.ty = fi.ret, !.ten = fi.retIsTensor, !.shape = fi.retDims])

checkCall(env, e) ==
  IF e[2] \notin DOMAIN env.funcs THEN Error
  ELSE LET fi == env.funcs[e[2]]
           ts == fi.params
       IN  IF Len(e[3]) # Len(ts) THEN Error
           ELSE CallOf(e, fi,
                       <<>> \o [i \in DOMAIN ts |->
                         ArgOf(ts[i], checkExpr(env, e[3][i], TRUE, ts[i].dims # <<>> /\ ~ts[i].isTensor))])

TensorNode(k, x, sub, ty, shape) ==
  [Node(k, x, sub) EXCEPT !.ty = ty, !.ten = TRUE, !.shape = shape]

checkTensorUnary(op, n) ==
  Require(op # "not", TensorNode(op, "", <<n>>, n.ty, n.shape))

UnaryOf(op, n) ==
  IF n.ok /\ n.ten THEN checkTensorUnary(op, n)
  ELSE Require(isScalar(n), [Node(op, "", <<n>>) EXCEPT
                               !.ty = IF op = "not" THEN "int" ELSE n.ty, !.c = foldUnary(op, n.c)])

checkUnary(env, e) == UnaryOf(e[1], checkExpr(env, e[2], TRUE, FALSE))

Known(shape) == \A i \in DOMAIN shape : shape[i] >= 1

MatMulOf(l, r) ==
  IF ~l.ten \/ ~r.ten THEN Error
  ELSE IF Len(l.shape) # 2 \/ Len(r.shape) # 2 THEN Error
  ELSE Require(/\ l.ty = r.ty /\ Known(l.shape) /\ Known(r.shape)
               /\ l.shape[2] = r.shape[1],
               TensorNode("bin", "MatMul", <<l, r>>, l.ty, <<l.shape[1], r.shape[2]>>))

checkTensorBinary(op, l, r) ==
  LET t == IF l.ten THEN l ELSE r
  IN  IF op = "MatMul" THEN MatMulOf(l, r)
      ELSE Require(/\ op \notin Cmps \cup Logicals
                   /\ l.ty = r.ty
                   /\ IF l.ten /\ r.ten THEN l.shape = r.shape
                      ELSE isScalar(IF l.ten THEN r ELSE l)
                   /\ ~(op = "SRem" /\ t.ty = "float")
                   /\ Known(t.shape),
                   TensorNode("bin", op, <<l, r>>, t.ty, t.shape))

BinaryOf(op, l, r) ==
  IF ~l.ok \/ ~r.ok THEN Error
  ELSE IF l.ten \/ r.ten THEN checkTensorBinary(op, l, r)
  ELSE LET floats == "float" \in {l.ty, r.ty}
       IN  Require(/\ isScalar(l) /\ isScalar(r)
                   /\ ~(op = "SRem" /\ floats)
                   /\ ~dividesByZero(op, l.c, r.c),
                   [Node("bin", op, <<l, r>>) EXCEPT
                      !.ty = IF floats /\ op \notin Cmps \cup Logicals THEN "float" ELSE "int",
                      !.c = foldBinary(op, l.c, r.c)])

checkBinary(env, op, l, r) ==
  BinaryOf(op, checkExpr(env, l, TRUE, FALSE), checkExpr(env, r, TRUE, FALSE))

ArrayWhereAllowed(n, allowed) == Require(n.ok /\ (n.arr => allowed), n)

checkExpr(env, e, asRvalue, allowArrayResult) ==
  CASE e[1] = "num" -> [Node("num", "", <<>>) EXCEPT !.c = intC(e[2])]
    [] e[1] = "flt" -> [Node("flt", "", <<>>) EXCEPT !.ty = "float", !.c = floatC(e[2])]
    [] e[1] = "str" -> [Node("str", "", <<>>) EXCEPT !.ty = "void"]
    [] e[1] = "lval" ->
         ArrayWhereAllowed(checkLValExpr(env, e, asRvalue), asRvalue => allowArrayResult)
    [] e[1] = "call" -> checkCall(env, e)
    [] e[1] \in {"plus", "neg", "not"} -> checkUnary(env, e)
    [] e[1] = "and" -> checkBinary(env, "And", e[2], e[3])
    [] e[1] = "or" -> checkBinary(env, "Or", e[2], e[3])
    [] e[1] = "bin" -> checkBinary(env, e[2], e[3], e[4])

----------------------------------------------------------------------------
(* Declarations.  An analysed definition has its dimensions as numbers, an *)
(* analysed initialiser has nodes in the place of expressions.             *)
With(env, v) == [env |-> env, v |-> v]

Dims(ns) == <<>> \o [i \in DOMAIN ns |-> ns[i].c[2]]
dimsOk(ns) ==
  \A i \in DOMAIN ns : isScalar(ns[i]) /\ ns[i].ty = "int" /\ valid(ns[i].c) /\ ns[i].c[2] > 0

RECURSIVE checkInitTree(_, _)
checkInitTree(env, init) ==
  CASE init = NoInit -> init
    [] init[1] = "expr" -> <<"expr", checkExpr(env, init[2], TRUE, FALSE)>>
    [] OTHER -> <<"list", <<>> \o [i \in DOMAIN init[2] |-> checkInitTree(env, init[2][i])]>>

RECURSIVE Inits(_)
(* The nodes of an initialiser.                                            *)
Inits(init) ==
  IF init = NoInit THEN <<>>
  ELSE IF init[1] = "expr" THEN <<init[2]>>
  ELSE FlattenSeq([i \in DOMAIN init[2] |-> Inits(init[2][i])])

localInitOk(init) == \A i \in DOMAIN Inits(init) : isScalar(Inits(init)[i])
constInitOk(init) ==
  \A i \in DOMAIN Inits(init) : isScalar(Inits(init)[i]) /\ valid(Inits(init)[i].c)

RECURSIVE Converted(_, _)
(* checkConstInitTree leaves the converted value in the node.              *)
Converted(base, init) ==
  CASE init = NoInit -> init
    [] init[1] = "expr" -> <<"expr", [init[2] EXCEPT !.c = convertConst(base, @)]>>
    [] OTHER -> <<"list", <<>> \o [i \in DOMAIN init[2] |-> Converted(base, init[2][i])]>>

(* Flattener: s has the items of a brace that are left and the leaves so   *)
(* far, an initialiser each or Zero; ok FALSE stands for a CompileError.   *)
Zero == <<>>
Stream(items, out) == [ok |-> TRUE, items |-> items, out |-> out]
Fails(s) == [s EXCEPT !.ok = FALSE]

RECURSIVE Unbraced(_)
Unbraced(item) == IF item[1] = "list" /\ Len(item[2]) = 1 THEN Unbraced(item[2][1]) ELSE item

pushScalarFrom(s, item) ==
  IF Unbraced(item)[1] = "list" THEN Fails(s)
  ELSE [s EXCEPT !.out = Append(@, Unbraced(item))]

Advanced(s) == [s EXCEPT !.items = Tail(@)]

consumeScalar(s) ==
  IF s.items = <<>> THEN [s EXCEPT !.out = Append(@, Zero)]
  ELSE Advanced(pushScalarFrom(s, s.items[1]))

RECURSIVE fillAggregate(_, _)

(* The next element, with dims inside it; braces own all of it.            *)
fillElement(dims, s) ==
  IF s.items = <<>> \/ s.items[1][1] # "list" THEN fillAggregate(dims, s)
  ELSE IF dims = <<>> THEN consumeScalar(s)
  ELSE LET sub == fillAggregate(dims, Stream(s.items[1][2], s.out))
       IN  IF ~sub.ok \/ sub.items # <<>> THEN Fails(s)
           ELSE [Advanced(s) EXCEPT !.out = sub.out]

fillAggregate(dims, s) ==
  IF dims = <<>> THEN consumeScalar(s)
  ELSE FoldLeft(LAMBDA t, i : IF t.ok THEN fillElement(Tail(dims), t) ELSE t, s,
                [i \in 1..dims[1] |-> i])

Filled(dims, init) ==
  LET s == fillAggregate(dims, Stream(init[2], <<>>))
  IN  IF s.items # <<>> THEN Fails(s) ELSE s

(* The values of a constant array; a scalar cannot initialise one.         *)
flattenConstInit(base, dims, init) ==
  IF init[1] # "list" THEN [ok |-> FALSE, flat |-> <<>>]
  ELSE LET s == Filled(dims, init)
       IN  [ok |-> s.ok,
            flat |-> <<>> \o [i \in DOMAIN s.out |->
                      IF s.out[i] = Zero THEN None ELSE convertConst(base, s.out[i][2].c)]]

Analysed(x, t, init) == [name |-> x, dims |-> t.dims, init |-> init]

(* The symbol with the value of its initialiser.                           *)
Valued(sym, init) ==
  LET t == sym.type
      f == flattenConstInit(t.base, t.dims, init)
  IN  CASE init = NoInit -> [ok |-> t.dims # <<>> \/ ~sym.isConst, sym |-> sym]
        [] init # NoInit /\ t.dims = <<>> ->
             [ok |-> TRUE, sym |-> [sym EXCEPT !.hasInit = TRUE, !.value = convertConst(t.base, init[2].c)]]
        [] OTHER -> [ok |-> f.ok, sym |-> [sym EXCEPT !.hasInit = TRUE, !.flat = f.flat]]

(* A braced initialiser of a scalar has no expression: the code follows a  *)
(* null pointer.                                                           *)
GlobalDef(env, d, def, ns, init) ==
  LET t == TypeOf_(d.base, Dims(ns), d.isTensor)
      conv == Converted(d.base, init)
      sym == Valued(Symbol_(t, d.isConst), conv)
      ok == dimsOk(ns) /\ (d.isTensor => ns # <<>>) /\ constInitOk(init)
      env1 == declare(env, def.name, sym.sym)
  IN  CASE ~ok -> With(Reject(env), Analysed(def.name, t, NoInit))
        [] ok /\ ns = <<>> /\ init # NoInit /\ init[1] = "list" ->
             With([env EXCEPT !.st = IF def.name \in DOMAIN Last(env.scopes) THEN "error" ELSE "crash"],
                  Analysed(def.name, t, NoInit))
        [] OTHER -> With(Check(env1, sym.ok), Analysed(def.name, t, conv))

checkGlobalDef(env, d, def) ==
  GlobalDef(env, d, def, checkExprs(env, def.dims), checkInitTree(env, def.init))

Updated(env, x, sym) == [env EXCEPT !.scopes[Len(env.scopes)][x] = sym]

(* The name is in scope in its own initialiser: env1 declares it.          *)
LocalDef(env, env1, d, def, ns, init) ==
  LET t == TypeOf_(d.base, Dims(ns), d.isTensor)
      conv == IF d.isConst /\ ns # <<>> THEN Converted(d.base, init) ELSE init
      sym == Valued(Symbol_(t, TRUE), conv)
      initOk == /\ ns = <<>> /\ init # NoInit => init[1] = "expr"
                /\ IF d.isConst THEN constInitOk(init) ELSE localInitOk(init)
  IN  CASE ~dimsOk(ns) \/ (d.isTensor /\ ns = <<>>) -> With(Reject(env), Analysed(def.name, t, NoInit))
        [] env1.st # "ok" -> With(env1, Analysed(def.name, t, NoInit))
        [] ~initOk -> With(Reject(env1), Analysed(def.name, t, NoInit))
        [] ~d.isConst -> With(env1, Analysed(def.name, t, init))
        [] OTHER -> With(Check(Updated(env1, def.name, sym.sym), sym.ok), Analysed(def.name, t, conv))

InScope(env, env1, d, def, ns) == LocalDef(env, env1, d, def, ns, checkInitTree(env1, def.init))

Sized(env, d, def, ns) ==
  InScope(env, declare(env, def.name, Symbol_(TypeOf_(d.base, Dims(ns), d.isTensor), d.isConst)),
          d, def, ns)

checkLocalDef(env, d, def) == Sized(env, d, def, checkExprs(env, def.dims))

----------------------------------------------------------------------------
(* Statements: the environment after them and the analysed statement.      *)
RECURSIVE checkStmt(_, _)
RECURSIVE checkStmts(_, _)
RECURSIVE checkDefs(_, _, _, _)

checkDef(env, d, def, global) ==
  IF global THEN checkGlobalDef(env, d, def) ELSE checkLocalDef(env, d, def)

Followed(first, rest) == With(rest.env, <<first.v>> \o rest.v)

DefsAfter(first, d, defs, global) == Followed(first, checkDefs(first.env, d, defs, global))

checkDefs(env, d, defs, global) ==
  IF defs = <<>> \/ env.st # "ok" THEN With(env, <<>>)
  ELSE DefsAfter(checkDef(env, d, defs[1], global), d, Tail(defs), global)

WithDefs(d, r) == With(r.env, [d EXCEPT !.defs = r.v])
analyzeDecl(env, d, global) == WithDefs(d, checkDefs(env, d, d.defs, global))

StmtsAfter(first, ss) == Followed(first, checkStmts(first.env, ss))

checkStmts(env, ss) ==
  IF ss = <<>> \/ env.st # "ok" THEN With(env, <<>>)
  ELSE StmtsAfter(checkStmt(env, ss[1]), Tail(ss))

LeaveBlock(env, r) == With([r.env EXCEPT !.scopes = env.scopes], <<"block", r.v>>)
checkBlock(env, t) == LeaveBlock(env, checkStmts(pushScope(env), t[2]))

checkCond(env, e) == checkExpr(env, e, TRUE, FALSE)

assignOk(sym, lv, rhs) ==
  /\ lv.ok /\ rhs.ok /\ ~sym.isConst
  /\ IF lv.ten THEN rhs.ten /\ rhs.ty = lv.ty /\ Known(lv.shape) /\ rhs.shape = lv.shape
     ELSE ~lv.arr /\ isScalar(rhs)

AssignOf(env, t, lv, rhs) ==
  IF ~lv.ok THEN With(Reject(env), t)
  ELSE With(Check(env, assignOk(resolve(env, t[2][2]), lv, rhs)), <<"set", lv, rhs>>)

checkAssign(env, t) ==
  AssignOf(env, t, checkLValExpr(env, t[2], FALSE), checkExpr(env, t[3], TRUE, FALSE))

(* The first return of a tensor function fixes its shape.                  *)
ReturnOf(env, t, f, v) ==
  LET whole == v.ok /\ v.ten /\ v.ty = f.ret /\ Known(v.shape)
               /\ f.retDims \in {<<>>, v.shape}
  IN  CASE Len(t) = 1 -> With(Check(env, f.ret = "void"), t)
        [] Len(t) = 2 /\ f.retIsTensor ->
             With(IF whole THEN [env EXCEPT !.funcs[env.fn].retDims = v.shape] ELSE Reject(env),
                  <<"ret", v>>)
        [] OTHER -> With(Check(env, f.ret # "void" /\ isScalar(v)), <<"ret", v>>)

checkReturn(env, t) == ReturnOf(env, t, env.funcs[env.fn], checkExpr(env, t[2], TRUE, FALSE))

IfElse(c, then, else) == With(else.env, <<"ifelse", c, then.v, else.v>>)

IfAfter(c, then, t) ==
  IF t[1] = "if" THEN With(then.env, <<"if", c, then.v>>)
  ELSE IfElse(c, then, checkStmt(then.env, t[4]))

checkIf(env, c, t) ==
  IF ~isScalar(c) THEN With(Reject(env), t) ELSE IfAfter(c, checkStmt(env, t[3]), t)

WhileAfter(env, c, body) == With([body.env EXCEPT !.loops = env.loops], <<"while", c, body.v>>)

checkWhile(env, c, t) ==
  IF ~isScalar(c) THEN With(Reject(env), t)
  ELSE WhileAfter(env, c, checkStmt([env EXCEPT !.loops = @ + 1], t[3]))

ExprStmt(env, n) == With(Check(env, n.ok /\ ~n.arr /\ ~n.ten), <<"do", n>>)
DeclStmt(r) == With(r.env, <<"decl", r.v>>)

checkStmt(env, t) ==
  CASE t[1] = "decl" -> DeclStmt(analyzeDecl(env, t[2], FALSE))
    [] t[1] = "block" -> checkBlock(env, t)
    [] t[1] = "set" -> checkAssign(env, t)
    [] t[1] = "do" -> IF Len(t) = 1 THEN With(env, t)
                      ELSE ExprStmt(env, checkExpr(env, t[2], TRUE, TRUE))
    [] t[1] \in {"if", "ifelse"} -> checkIf(env, checkCond(env, t[2]), t)
    [] t[1] = "while" -> checkWhile(env, checkCond(env, t[2]), t)
    [] t[1] \in {"break", "continue"} -> With(Check(env, env.loops > 0), t)
    [] t[1] = "ret" -> checkReturn(env, t)

----------------------------------------------------------------------------
(* Functions and the whole unit.                                           *)
Int_ == TypeOf_("int", <<>>, FALSE)
Float_ == TypeOf_("float", <<>>, FALSE)
Array(t) == [t EXCEPT !.dims = <<-1>>]

Info(ret, retIsTensor, params, builtin) ==
  [ret |-> ret, retIsTensor |-> retIsTensor, retDims |-> <<>>, params |-> params, builtin |-> builtin]

addBuiltin(ret, params) == Info(ret, FALSE, params, TRUE)

Builtins ==
  [getint |-> addBuiltin("int", <<>>), getch |-> addBuiltin("int", <<>>),
   getfloat |-> addBuiltin("float", <<>>), putint |-> addBuiltin("void", <<Int_>>),
   putch |-> addBuiltin("void", <<Int_>>), putfloat |-> addBuiltin("void", <<Float_>>),
   getarray |-> addBuiltin("int", <<Array(Int_)>>),
   putarray |-> addBuiltin("void", <<Int_, Array(Int_)>>),
   getfarray |-> addBuiltin("int", <<Array(Float_)>>),
   putfarray |-> addBuiltin("void", <<Int_, Array(Float_)>>),
   starttime |-> addBuiltin("void", <<>>), stoptime |-> addBuiltin("void", <<>>)]

ParamType(p, ns) ==
      [ok |-> dimsOk(ns) /\ (p.isTensor => p.isArray /\ p.firstDimOmitted),
       type |-> TypeOf_(p.base, (IF p.firstDimOmitted THEN <<-1>> ELSE <<>>) \o Dims(ns), p.isTensor)]

resolveParamType(env, p) == ParamType(p, checkExprs(env, p.dims))

Registered(env, f, ps) ==
  IF \/ f.name \in DOMAIN env.funcs /\ ~env.funcs[f.name].builtin
     \/ \E i \in DOMAIN ps : ~ps[i].ok THEN Reject(env)
  ELSE [env EXCEPT !.funcs =
          (f.name :> Info(f.retType, f.retIsTensor, <<>> \o [i \in DOMAIN ps |-> ps[i].type], FALSE)) @@ @]

registerFuncSignature(env, f) ==
  Registered(env, f, <<>> \o [i \in DOMAIN f.params |-> resolveParamType(env, f.params[i])])

registerFuncSignatures(env, unit) ==
  FoldLeft(LAMBDA e, f : IF e.st = "ok" THEN registerFuncSignature(e, f) ELSE e,
           [env EXCEPT !.funcs = Builtins], unit.funcs)

declareParam(env, p, t) ==
  IF env.st # "ok" THEN env ELSE declare(env, p.name, [Symbol_(t, FALSE) EXCEPT !.hasInit = TRUE])

LeaveFunc(env, f, r) ==
  With(Check([r.env EXCEPT !.scopes = env.scopes],
             f.retIsTensor => r.env.funcs[f.name].retDims # <<>>), r.v)

checkBody(env, f) == IF env.st = "ok" THEN checkBlock(env, f.body) ELSE With(env, f.body)

(* Parameters have a scope of their own around that of the body.           *)
analyzeFuncBody(env, f) ==
  LET ts == env.funcs[f.name].params
      env1 == FoldLeft(LAMBDA e, i : declareParam(e, f.params[i], ts[i]),
                       [pushScope(env) EXCEPT !.fn = f.name, !.loops = 0], [i \in DOMAIN ts |-> i])
  IN  LeaveFunc(env, f, checkBody(env1, f))

AddBody(s, f, b) == With(b.env, (f.name :> b.v) @@ s.v)

(* Functions that return tensors go first: their shapes are found.         *)
analyzeBodies(r, funcs, tensors) ==
  FoldLeft(LAMBDA s, f : IF s.env.st # "ok" \/ f.retIsTensor # tensors THEN s
                         ELSE AddBody(s, f, analyzeFuncBody(s.env, f)),
           r, funcs)

AddGlobal(s, r) == With(r.env, Append(s.v, r.v))

analyzeGlobals(env, ds) ==
  FoldLeft(LAMBDA s, d : IF s.env.st # "ok" THEN s ELSE AddGlobal(s, analyzeDecl(s.env, d, TRUE)),
           With(env, <<>>), ds)

signatures(env, unit) == IF env.st = "ok" THEN registerFuncSignatures(env, unit) ELSE env

(* The analysed globals and function bodies, and what is known of each     *)
(* function; st is "error" or, for a null pointer, "crash".                *)
Analysis(g, b) == [st |-> b.env.st, globals |-> g.v, bodies |-> b.v, funcs |-> b.env.funcs]

analyzeFunctions(g, unit) ==
  Analysis(g, FoldLeft(LAMBDA r, tensors : analyzeBodies(r, unit.funcs, tensors),
                       With(signatures(g.env, unit), <<>>), <<TRUE, FALSE>>))

analyze(unit) ==
  analyzeFunctions(analyzeGlobals([st |-> "ok", scopes |-> <<<<>>>>, funcs |-> <<>>, fn |-> "", loops |-> 0],
                                  unit.globals), unit)
=============================================================================
