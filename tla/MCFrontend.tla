----------------------------- MODULE MCFrontend -----------------------------
(* Small texts for the compiler: an AST of each family is printed as its   *)
(* tokens, and what the compiler makes of them is compared with the AST    *)
(* and with Plain, what the AST means without any of the compiler's tables *)
(* and rewritings.  Family chooses the texts: "texts", or one of those     *)
(* that the compiler gets wrong, "aliased", "huge" and "braced".           *)
EXTENDS Frontend

CONSTANTS Family, Fuel, MaxDepth, MaxSteps

VARIABLE given     (* the AST of the text, <<>> for a text without one, and *)
                   (* whether the language allows it                        *)

Src == INSTANCE Source

----------------------------------------------------------------------------
(* The AST, written.                                                       *)
N(n) == <<"num", n>>
H(h) == <<"flt", h>>
V(x) == <<"lval", x, <<>>>>
Ix(x, es) == <<"lval", x, es>>
Call(f, es) == <<"call", f, es>>
Neg(e) == <<"neg", e>>
Not(e) == <<"not", e>>
Op(op, l, r) == IF op \in {"and", "or"} THEN <<op, l, r>> ELSE Bin(op, l, r)
Leaf(e) == <<"expr", e>>
List(is) == <<"list", is>>

Def(x, dims, init) == [name |-> x, dims |-> dims, init |-> init]
Decl(isConst, isTensor, base, defs) ==
  [isConst |-> isConst, isTensor |-> isTensor, base |-> base, defs |-> defs]
Vars(base, defs) == Decl(FALSE, FALSE, base, defs)
Var1(base, x, e) == Vars(base, <<Def(x, <<>>, Leaf(e))>>)
Consts(base, x, dims, init) == Decl(TRUE, FALSE, base, <<Def(x, dims, init)>>)
Tensors(base, xs, dims) ==
  Decl(FALSE, TRUE, base, <<>> \o [i \in DOMAIN xs |-> Def(xs[i], dims, NoInit)])

D(d) == <<"decl", d>>
Do(e) == <<"do", e>>
Ret(e) == <<"ret", e>>
While(c, s) == <<"while", c, s>>
Put(e) == Do(Call("putint", <<e>>))
PutF(e) == Do(Call("putfloat", <<e>>))
PutAs(base, e) == IF base = "float" THEN PutF(e) ELSE Put(e)
Get == Call("getint", <<>>)

Param(base, x) ==
  [name |-> x, base |-> base, isTensor |-> FALSE, isArray |-> FALSE, firstDimOmitted |-> FALSE, dims |-> <<>>]
ArrayParam(base, isTensor, x, open, dims) ==
  [name |-> x, base |-> base, isTensor |-> isTensor, isArray |-> TRUE, firstDimOmitted |-> open, dims |-> dims]
Fun(ret, isTensor, f, params, ss) ==
  [name |-> f, retType |-> ret, retIsTensor |-> isTensor, params |-> params, body |-> Block(ss)]
Main(ss) == Fun("int", FALSE, "main", <<>>, ss)
Unit(globals, funcs) == [globals |-> globals, funcs |-> funcs]

----------------------------------------------------------------------------
(* The AST, printed with the fewest parentheses that C allows.             *)
T(k) == <<<<k, "">>>>
Commas(seqs) ==
  FoldLeft(LAMBDA r, s : IF r = <<>> THEN s ELSE r \o T(",") \o s, <<>>, seqs)

RECURSIVE Digits(_, _)
Digits(n, radix) == IF n = 0 THEN <<>> ELSE Append(Digits(n \div radix, radix), n % radix)
Literal(n) == <<<<"IntConst", IF n = 0 THEN <<"0", <<>>>> ELSE <<"", Digits(n, 10)>>>>>>

Signs ==
  [or |-> "||", and |-> "&&", Eq |-> "==", Ne |-> "!=", Lt |-> "<", Gt |-> ">", Le |-> "<=", Ge |-> ">=",
   Add |-> "+", Sub |-> "-", Mul |-> "*", SDiv |-> "/", SRem |-> "%", MatMul |-> "@"]
Levels ==
  [or |-> 1, and |-> 2, Eq |-> 3, Ne |-> 3, Lt |-> 4, Gt |-> 4, Le |-> 4, Ge |-> 4,
   Add |-> 5, Sub |-> 5, Mul |-> 6, SDiv |-> 6, SRem |-> 6, MatMul |-> 6]
OpOf(e) == IF e[1] = "bin" THEN e[2] ELSE e[1]
LevelOf(e) ==
  IF e[1] \in {"bin", "and", "or"} THEN Levels[OpOf(e)] ELSE IF e[1] \in {"plus", "neg", "not"} THEN 7 ELSE 8

RECURSIVE PrintE(_, _)
Exp1(e) == PrintE(e, 1)
Index(e) == T("[") \o PrintE(e, 1) \o T("]")
PrintE(e, level) ==
  IF LevelOf(e) < level THEN T("(") \o PrintE(e, 1) \o T(")")
  ELSE CASE e[1] = "num" -> Literal(e[2])
         [] e[1] = "flt" -> <<<<"FloatConst", e[2]>>>>
         [] e[1] = "str" -> T("STRING_LITERAL")
         [] e[1] = "lval" -> <<<<"Ident", e[2]>>>> \o FlattenSeq(Each(e[3], Index))
         [] e[1] = "call" -> <<<<"Ident", e[2]>>>> \o T("(") \o Commas(Each(e[3], Exp1)) \o T(")")
         [] LevelOf(e) = 7 ->
              T(CASE e[1] = "plus" -> "+" [] e[1] = "neg" -> "-" [] OTHER -> "!") \o PrintE(e[2], 7)
         [] OTHER -> PrintE(e[Len(e) - 1], LevelOf(e)) \o T(Signs[OpOf(e)]) \o
                     PrintE(e[Len(e)], LevelOf(e) + 1)

RECURSIVE PrintInit(_)
PrintInit(init) ==
  IF init[1] = "expr" THEN Exp1(init[2])
  ELSE T("{") \o Commas(Each(init[2], PrintInit)) \o T("}")

PrintDef(def) ==
  <<<<"Ident", def.name>>>> \o FlattenSeq(Each(def.dims, Index)) \o
  (IF def.init = NoInit THEN <<>> ELSE T("=") \o PrintInit(def.init))

When(p, k) == IF p THEN T(k) ELSE <<>>
PrintDecl(d) ==
  When(d.isConst, "const") \o When(d.isTensor, "tensor") \o T(d.base) \o
  Commas(Each(d.defs, PrintDef)) \o T(";")

RECURSIVE PrintS(_)
PrintS(t) ==
  CASE t[1] = "decl" -> PrintDecl(t[2])
    [] t[1] = "block" -> T("{") \o FlattenSeq(Each(t[2], PrintS)) \o T("}")
    [] t[1] = "set" -> Exp1(t[2]) \o T("=") \o Exp1(t[3]) \o T(";")
    [] t[1] = "do" -> (IF Len(t) = 1 THEN <<>> ELSE Exp1(t[2])) \o T(";")
    [] t[1] \in {"if", "ifelse", "while"} ->
         T(IF t[1] = "while" THEN t[1] ELSE "if") \o T("(") \o Exp1(t[2]) \o T(")") \o PrintS(t[3]) \o
         (IF t[1] = "ifelse" THEN T("else") \o PrintS(t[4]) ELSE <<>>)
    [] t[1] \in {"break", "continue"} -> T(t[1]) \o T(";")
    [] t[1] = "ret" -> T("return") \o (IF Len(t) = 1 THEN <<>> ELSE Exp1(t[2])) \o T(";")

PrintParam(p) ==
  When(p.isTensor, "tensor") \o T(p.base) \o <<<<"Ident", p.name>>>> \o
  (IF p.firstDimOmitted THEN T("[") \o T("]") ELSE <<>>) \o FlattenSeq(Each(p.dims, Index))
PrintFun(f) ==
  When(f.retIsTensor, "tensor") \o T(f.retType) \o <<<<"Ident", f.name>>>> \o T("(") \o
  Commas(Each(f.params, PrintParam)) \o T(")") \o PrintS(f.body)
PrintUnit(u) == FlattenSeq(Each(u.globals, PrintDecl)) \o FlattenSeq(Each(u.funcs, PrintFun))

----------------------------------------------------------------------------
(* Plain: what the AST means.  An object has the number of the place where *)
(* it is declared; a name in scope is its id, type, dimensions and, for a  *)
(* constant, value.  Every tensor expression gets a buffer of its own.     *)
(* env has the names, the functions and what surrounds a return.           *)
Size(dims) == FoldLeft(LAMBDA m, d : m * d, 1, dims)
Thing(id, ty, dims, ten) == [id |-> id, ty |-> ty, dims |-> dims, ten |-> ten, n |-> 0]
Named(env, x, o) == [env EXCEPT !.names = (x :> o) @@ @]
FunOf(env, f) == SelectSeq(env.unit.funcs, LAMBDA g : g.name = f)[1]
IsFun(env, f) == SelectSeq(env.unit.funcs, LAMBDA g : g.name = f) # <<>>

To(v, ty) ==
  IF v.ty = ty THEN v.e ELSE IF ty = "float" THEN Bin("Mul", v.e, Num(2)) ELSE Bin("SDiv", v.e, Num(2))

RECURSIVE Fixed(_, _)
(* The value of a dimension.                                               *)
Fixed(env, e) ==
  CASE e[1] = "num" -> e[2]
    [] e[1] = "lval" -> env.names[e[2]].n
    [] OTHER -> Src!Exact(e[2], Fixed(env, e[3]), Fixed(env, e[4]))
DimsOf(env, es) == <<>> \o [i \in DOMAIN es |-> Fixed(env, es[i])]

LibraryParams ==
  [getint |-> <<>>, putint |-> <<"int">>, putfloat |-> <<"float">>, starttime |-> <<>>]
LibraryName(f) == IF f = "starttime" THEN "_sysy_starttime" ELSE f

RECURSIVE PE(_, _, _)
RECURSIVE PT(_, _, _)

Offset(env, o, is, p) ==
  FoldLeft(LAMBDA s, i : Bin("Add", Bin("Mul", s, Num(IF i = 1 THEN 1 ELSE o.dims[i])),
                             IF i > Len(is) THEN Num(0) ELSE PE(env, is[i], p \o <<i>>).e),
           Num(0), [i \in DOMAIN o.dims |-> i])

PArg(env, e, formal, p) ==
  LET buf == PT(env, e, p)
      o == env.names[e[2]]
  IN  IF formal.isTensor THEN <<"seq", buf.ss, <<"ref", buf.id, Num(0)>>>>
      ELSE IF formal.isArray THEN <<"ref", o.id, Offset(env, o, e[3], p)>>
      ELSE To(PE(env, e, p), formal.base)

PArgs(env, f, es, p) ==
  <<>> \o [i \in DOMAIN es |->
            IF IsFun(env, f) THEN PArg(env, es[i], FunOf(env, f).params[i], p \o <<i>>)
            ELSE To(PE(env, es[i], p \o <<i>>), LibraryParams[f][i])]

PBin(op, l, r) ==
  LET t == IF "float" \in {l.ty, r.ty} THEN "float" ELSE "int"
      x == To(l, t)
      y == To(r, t)
  IN  CASE op \in Cmps -> Made(Bin(op, x, y), "int")
        [] t = "float" /\ op = "Mul" -> Made(Bin("SDiv", Bin("Mul", x, y), Num(2)), t)
        [] t = "float" /\ op = "SDiv" -> Made(Bin("SDiv", Bin("Mul", x, Num(2)), y), t)
        [] OTHER -> Made(Bin(op, x, y), t)

PE(env, e, p) ==
  LET l == PE(env, e[Len(e) - 1], p \o <<1>>)
      r == PE(env, e[Len(e)], p \o <<2>>)
      o == env.names[e[2]]
  IN  CASE e[1] = "num" -> Made(Num(Src!Word(e[2])), "int")
        [] e[1] = "flt" -> Made(Num(e[2]), "float")
        [] e[1] = "lval" ->
             Made(IF o.dims = <<>> THEN Var(o.id) ELSE Elem(o.id, Offset(env, o, e[3], p)), o.ty)
        [] e[1] = "call" ->
             Made(<<"call", LibraryName(e[2]), PArgs(env, e[2], e[3], p)>>,
                  IF IsFun(env, e[2]) THEN FunOf(env, e[2]).retType ELSE "int")
        [] e[1] = "plus" -> r
        [] e[1] = "neg" -> Made(Bin("Sub", Num(0), r.e), r.ty)
        [] e[1] = "not" -> Made(<<"not", r.e>>, "int")
        [] e[1] \in {"and", "or"} -> Made(<<e[1], l.e, r.e>>, "int")
        [] OTHER -> PBin(e[2], l, r)

RECURSIVE IsTensor(_, _)
IsTensor(env, e) ==
  CASE e[1] = "lval" -> env.names[e[2]].ten /\ e[3] = <<>>
    [] e[1] = "call" -> IsFun(env, e[2]) /\ FunOf(env, e[2]).retIsTensor
    [] e[1] \in {"plus", "neg"} -> IsTensor(env, e[2])
    [] e[1] = "bin" -> IsTensor(env, e[3]) \/ IsTensor(env, e[4])
    [] OTHER -> FALSE

Buffer(id, shape, ty, ss) == [id |-> id, shape |-> shape, ty |-> ty, ss |-> ss]
NewBuffer(id, shape) == <<<<"decl", id, Size(shape)>>>>
Each_i(shape, Stmt(_)) == <<>> \o [i \in 1..Size(shape) |-> Stmt(i - 1)]
Copied(dest, id, shape) == Each_i(shape, LAMBDA i : Set(Elem(dest, Num(i)), Elem(id, Num(i))))

RetShape == <<2, 2>>         (* of the functions here that return a tensor *)

PMatMul(l, r, id) ==
  LET w == r.shape[2]
      term(i, k) == PBin("Mul", Made(Elem(l.id, Num(((i \div w) * l.shape[2]) + k)), l.ty),
                                Made(Elem(r.id, Num((k * w) + (i % w))), l.ty)).e
      sum(i) == FoldLeft(LAMBDA s, k : Bin("Add", s, term(i, k - 1)), Num(0), [k \in 1..l.shape[2] |-> k])
      shape == <<l.shape[1], w>>
  IN  Buffer(id, shape, l.ty,
             l.ss \o r.ss \o NewBuffer(id, shape) \o Each_i(shape, LAMBDA i : Set(Elem(id, Num(i)), sum(i))))

POperand(env, e, p) ==
  LET v == PE(env, e, p)
  IN  IF IsTensor(env, e) THEN PT(env, e, p)
      ELSE Buffer(p, <<>>, v.ty, <<<<"decl", p, 0>>, Set(Var(p), v.e)>>)

PElementwise(op, l, r, id) ==
  LET shape == IF l.shape = <<>> THEN r.shape ELSE l.shape
      at(b, i) == Made(IF b.shape = <<>> THEN Var(b.id) ELSE Elem(b.id, Num(i)), b.ty)
  IN  Buffer(id, shape, l.ty,
             l.ss \o r.ss \o NewBuffer(id, shape) \o
             Each_i(shape, LAMBDA i : Set(Elem(id, Num(i)), PBin(op, at(l, i), at(r, i)).e)))

PT(env, e, p) ==
  LET id == p \o <<0>>
      l == POperand(env, e[3], p \o <<1>>)
      r == POperand(env, e[4], p \o <<2>>)
      o == env.names[e[2]]
      zero == Buffer(p, <<>>, PT(env, e[2], p \o <<1>>).ty, <<<<"decl", p, 0>>, Set(Var(p), Num(0))>>)
  IN  CASE e[1] = "lval" -> Buffer(id, o.dims, o.ty, NewBuffer(id, o.dims) \o Copied(id, o.id, o.dims))
        [] e[1] = "call" ->
             Buffer(id, RetShape, FunOf(env, e[2]).retType,
                    NewBuffer(id, RetShape) \o
                    <<Do(Call(e[2], <<<<"ref", id, Num(0)>>>> \o PArgs(env, e[2], e[3], p)))>>)
        [] e[1] = "plus" -> PT(env, e[2], p)
        [] e[1] = "neg" -> PElementwise("Sub", zero, PT(env, e[2], p \o <<1>>), id)
        [] e[2] = "MatMul" -> PMatMul(l, r, id)
        [] OTHER -> PElementwise(e[2], l, r, id)

(* The leaves of an initialiser, as C11 6.7.9 places them: braces are for  *)
(* the largest subobject that starts where the leaves so far end.          *)
RECURSIVE Leaves(_, _)
RECURSIVE Single(_)
Single(item) == IF item[1] = "expr" THEN <<item>> ELSE IF Len(item[2]) = 1 THEN Single(item[2][1]) ELSE <<>>

InBraces(dims, pos, item) ==
  LET starts == {k \in DOMAIN dims : pos % Size(SubSeq(dims, k + 1, Len(dims))) = 0}
      k == CHOOSE k \in starts : \A m \in starts : k <= m
  IN  IF item[1] = "expr" \/ k = Len(dims) THEN [ok |-> Single(item) # <<>>, out |-> Single(item)]
      ELSE Leaves(SubSeq(dims, k + 1, Len(dims)), item[2])

Leaves(dims, items) ==
  LET next(r, item) ==
        LET sub == InBraces(dims, Len(r.out), item)
        IN  IF ~r.ok \/ Len(r.out) = Size(dims) THEN [r EXCEPT !.ok = FALSE]
            ELSE [ok |-> sub.ok, out |-> r.out \o sub.out]
      all == FoldLeft(next, [ok |-> TRUE, out |-> <<>>], items)
  IN  [all EXCEPT !.out = @ \o [i \in 1..(Size(dims) - Len(@)) |-> <<>>]]

Declared(env, d, def, id) ==
  LET lit == d.isConst /\ def.dims = <<>> /\ def.init[2][1] = "num"
  IN  Named(env, def.name, [Thing(id, d.base, DimsOf(env, def.dims), d.isTensor) EXCEPT
                              !.n = IF lit THEN def.init[2][2] ELSE 0])

(* The stores of an initialiser, in the scope of its name.                 *)
Stores(env, d, def, id) ==
  LET leaves == Leaves(DimsOf(env, def.dims), def.init[2]).out
      value(e, p) == To(PE(env, e, p), d.base)
  IN  CASE def.init = NoInit -> <<>>
        [] def.init # NoInit /\ def.dims = <<>> -> <<Set(Var(id), value(def.init[2], id))>>
        [] OTHER -> <<>> \o [i \in DOMAIN leaves |->
                      Set(Elem(id, Num(i - 1)),
                          IF leaves[i] = <<>> THEN Num(0) ELSE value(leaves[i][2], id \o <<i>>))]

RECURSIVE PS(_, _, _)
PSs(env, ts, p) ==
  FoldLeft(LAMBDA r, i : After(r, PS(r.b, ts[i], p \o <<i>>)), Emitted(env, <<>>), [i \in DOMAIN ts |-> i])

PDef(env, d, def, id) ==
  Emitted(env, <<<<"decl", id, IF def.dims = <<>> THEN 0 ELSE Size(env.names[def.name].dims)>>>> \o
               Stores(env, d, def, id))

PDecl(env, d, p) ==
  FoldLeft(LAMBDA r, i : After(r, PDef(Declared(r.b, d, d.defs[i], p \o <<i>>), d, d.defs[i], p \o <<i>>)),
           Emitted(env, <<>>), [i \in DOMAIN d.defs |-> i])

PTensorTo(env, dest, e, p) ==
  LET copy(buf) == buf.ss \o Copied(dest, buf.id, buf.shape) IN copy(PT(env, e, p))

PSet(env, lv, e, p) ==
  LET set(place, v) == <<Set(place.e, To(v, place.ty))>>
  IN  IF IsTensor(env, lv) THEN PTensorTo(env, env.names[lv[2]].id, e, p)
      ELSE set(PE(env, lv, p \o <<1>>), PE(env, e, p \o <<2>>))

PWith(env, t, c, sub) ==
  CASE t[1] = "do" -> Do(c.e)
    [] t[1] \in {"if", "while"} -> <<t[1], c.e, sub[3]>>
    [] t[1] = "ifelse" -> <<"ifelse", c.e, sub[3], sub[4]>>
    [] OTHER -> Ret(To(c, env.fn.retType))

PS(env, t, p) ==
  LET sub == [k \in 3..4 |-> Block(PS(env, t[k], p \o <<k>>).ss)]
  IN  CASE t[1] = "decl" -> PDecl(env, t[2], p)
        [] t[1] = "block" -> Emitted(env, <<Block(PSs(env, t[2], p).ss)>>)
        [] t[1] = "set" -> Emitted(env, PSet(env, t[2], t[3], p))
        [] t[1] = "do" /\ Len(t) = 1 -> Emitted(env, <<>>)
        [] t[1] \in {"break", "continue"} -> Emitted(env, <<t>>)
        [] t[1] = "ret" /\ Len(t) = 1 -> Emitted(env, <<Ret(Num(0))>>)
        [] t[1] = "ret" /\ Len(t) = 2 /\ env.fn.retIsTensor ->
             Emitted(env, PTensorTo(env, env.fn.buf, t[2], p) \o <<Ret(Num(0))>>)
        [] OTHER -> Emitted(env, <<PWith(env, t, PE(env, t[2], p \o <<0>>), sub)>>)

PFun(env, f, k) ==
  LET ids == <<>> \o [i \in DOMAIN f.params |-> <<2, k, i>>]
      dims(q) == (IF q.firstDimOmitted THEN <<0>> ELSE <<>>) \o DimsOf(env, q.dims)
      env1 == FoldLeft(LAMBDA r, i : Named(r, f.params[i].name,
                                           Thing(ids[i], f.params[i].base, dims(f.params[i]), f.params[i].isTensor)),
                       env, [i \in DOMAIN ids |-> i])
      fn == [retIsTensor |-> f.retIsTensor, retType |-> f.retType, buf |-> <<2, k, 0>>]
  IN  [params |-> (IF f.retIsTensor THEN <<fn.buf>> ELSE <<>>) \o ids,
       body |-> Block(PSs([env1 EXCEPT !.fn = fn], f.body[2], <<3, k>>).ss)]

PlainUnit(u, g) ==
  LET objects == SelectSeq(g.ss, LAMBDA t : t[1] = "decl")
      fun(i) == PFun(g.b, u.funcs[i], i)
      main == SelectSeq(g.ss, LAMBDA t : t[1] # "decl")
      index(f) == CHOOSE i \in DOMAIN u.funcs : u.funcs[i].name = f
  IN  [globals |-> [id \in {objects[i][2] : i \in DOMAIN objects} |->
                      LET t == SelectSeq(objects, LAMBDA q : q[2] = id)[1]
                      IN  [obj |-> <<0, id>>, size |-> t[3], off |-> 0]],
       funcs |-> [f \in {u.funcs[i].name : i \in DOMAIN u.funcs} |->
                    [fun(index(f)) EXCEPT !.body = IF f = "main" THEN Block(Append(main, @)) ELSE @]]]

Plain(u) ==
  PlainUnit(u, FoldLeft(LAMBDA r, i : After(r, PDecl(r.b, u.globals[i], <<1, i>>)),
                        Emitted([names |-> <<>>, unit |-> u, fn |-> <<>>], <<>>),
                        [i \in DOMAIN u.globals |-> i]))

----------------------------------------------------------------------------
(* The texts.                                                              *)
Give(u, legal) == StartWith(PrintUnit(u)) /\ given = [ast |-> u, legal |-> legal, cut |-> FALSE]
GiveMain(ss, legal) == Give(Unit(<<>>, <<Main(ss)>>), legal)

Operators == DOMAIN Signs \ {"MatMul"}

(* Operands: variables, constants, literals and mixtures of them.          *)
Operands ==
  { <<V("a"), V("b"), V("x")>>, <<V("c"), V("k"), N(4)>>, <<N(7), N(2), H(3)>>,
    <<V("a"), V("f"), N(2)>>, <<V("d"), N(3), V("k")>>, <<Call("id", <<V("f")>>), H(9), V("a")>> }

ExpressionMain(e) ==
  <<D(Vars("int", <<Def("a", <<>>, Leaf(N(5))), Def("b", <<>>, Leaf(N(2))), Def("x", <<>>, Leaf(N(3)))>>)),
    D(Var1("float", "f", H(5))), D(Consts("int", "c", <<>>, Leaf(H(13)))),
    D(Consts("int", "k", <<>>, Leaf(N(3)))), D(Consts("float", "d", <<>>, Leaf(H(3)))),
    PutF(e), Ret(e)>>

RECURSIVE IsFloat(_)
IsFloat(e) ==
  CASE e[1] \in {"num", "call"} -> FALSE
    [] e[1] = "flt" -> TRUE
    [] e[1] = "lval" -> e[2] \in {"f", "d"}
    [] e[1] = "neg" -> IsFloat(e[2])
    [] e[1] = "bin" -> e[2] \notin Cmps /\ (IsFloat(e[3]) \/ IsFloat(e[4]))
    [] OTHER -> FALSE

RECURSIVE RemIsInt(_)
RemIsInt(e) ==
  CASE e[1] \in {"neg", "not"} -> RemIsInt(e[2])
    [] e[1] \in {"bin", "and", "or"} ->
         /\ RemIsInt(e[Len(e) - 1]) /\ RemIsInt(e[Len(e)])
         /\ ~(e[2] = "SRem" /\ (IsFloat(e[3]) \/ IsFloat(e[4])))
    [] OTHER -> TRUE

Signed(u, e) == IF u = "" THEN e ELSE <<u, e>>

Expressions ==
  \E op1, op2 \in Operators, xs \in Operands, u \in {"", "neg", "not"}, left \in BOOLEAN :
    LET e == IF left THEN Op(op1, Signed(u, Op(op2, xs[1], xs[2])), xs[3])
             ELSE Op(op1, xs[1], Signed(u, Op(op2, xs[2], xs[3])))
    IN  /\ u # "" => xs[1] = V("a")
        /\ Give(Unit(<<>>, <<Fun("int", FALSE, "id", <<Param("int", "p")>>, <<Ret(V("p"))>>),
                             Main(ExpressionMain(e))>>),
                RemIsInt(e))

(* Nested statements; a branch before an else ends in no open if.          *)
Simple == {Put(N(1)), <<"break">>, <<"continue">>}
Ifs(ss) == {<<"if", Get, t>> : t \in ss} \cup {<<"ifelse", Get, t, v>> : t, v \in ss}
Nested == Simple \cup Ifs(Simple) \cup {Block(<<t>>) : t \in Ifs({Put(N(1))})}

RECURSIVE OpenIf(_)
OpenIf(t) ==
  t[1] = "if" \/ (t[1] = "ifelse" /\ OpenIf(t[4])) \/ (t[1] = "while" /\ OpenIf(t[3]))

Statements ==
  \E t \in Ifs(Nested), loop \in BOOLEAN :
    /\ t[1] = "ifelse" => ~OpenIf(t[3])
    /\ GiveMain(<<While(Get, IF loop THEN t ELSE Block(<<t, Put(N(2))>>)), Put(N(3)), Ret(N(0))>>, TRUE)

(* One name at each level: what a use sees is the innermost.               *)
Declares(kind) ==
  CASE kind = "none" -> <<>>
    [] kind = "int" -> <<Var1("int", "v", N(2))>>
    [] kind = "float" -> <<Var1("float", "v", H(7))>>
    [] kind = "const" -> <<Consts("int", "v", <<>>, Leaf(N(4)))>>
    [] kind = "array" -> <<Vars("int", <<Def("v", <<N(2)>>, List(<<Leaf(N(5)), Leaf(N(6))>>))>>)>>

Uses == {<<Put(V("v"))>>, <<<<"set", V("v"), H(11)>>, Put(V("v"))>>, <<Put(Ix("v", <<N(1)>>))>>,
         <<Call("g", <<V("v")>>)>>}
UseAsStmts(use) == IF use[1][1] = "call" THEN <<Put(use[1])>> ELSE use
MayUse(use, kind) ==
  CASE use[1][1] = "call" -> kind = "array"
    [] use[1][1] = "set" -> kind \in {"int", "float"}
    [] use = <<Put(V("v"))>> -> kind \in {"int", "float", "const"}
    [] OTHER -> kind = "array"
Innermost(kinds) ==
  FoldLeft(LAMBDA r, k : IF k = "none" THEN r ELSE k, "none", kinds)

Scopes ==
  \E g \in {"none", "int", "const", "array"}, p \in {"none", "int", "array"},
     outer, inner \in {"none", "float", "const", "array"}, use \in Uses, again \in BOOLEAN :
    LET params == CASE p = "none" -> <<>> [] p = "int" -> <<Param("float", "v")>>
                    [] OTHER -> <<ArrayParam("int", FALSE, "v", TRUE, <<>>)>>
        args == CASE p = "none" -> <<>> [] p = "int" -> <<N(3)>> [] OTHER -> <<V("w")>>
        body == [i \in DOMAIN Declares(outer) |-> D(Declares(outer)[i])] \o
                <<Block([i \in DOMAIN Declares(inner) |-> D(Declares(inner)[i])] \o UseAsStmts(use))>> \o
                UseAsStmts(use)
    IN  Give(Unit(Declares(g),
                  <<Fun("int", FALSE, "g", <<ArrayParam("int", FALSE, "q", FALSE, <<N(2)>>)>>,
                        <<Ret(Ix("q", <<N(0)>>))>>),
                    Fun("void", FALSE, "f", params, body),
                    Main(<<D(Vars("int", <<Def("w", <<N(2)>>, List(<<Leaf(N(8)), Leaf(N(9))>>))>>)),
                           Do(Call("f", args))>> \o (IF again THEN UseAsStmts(use) ELSE <<>>))>>),
             /\ MayUse(use, Innermost(<<g, p, outer, inner>>))
             /\ MayUse(use, Innermost(<<g, p, outer>>))
             /\ again => MayUse(use, g))

(* Initialisers of an array, a number at each leaf; what it holds is       *)
(* written.                                                                *)
Items == {"e", "none", "one", "two", "deep"}
ItemOf(kind, leaf(_)) ==
  CASE kind = "e" -> Leaf(leaf(0)) [] kind = "none" -> List(<<>>)
    [] kind = "one" -> List(<<Leaf(leaf(1))>>) [] kind = "two" -> List(<<Leaf(leaf(2)), Leaf(leaf(3))>>)
    [] kind = "deep" -> List(<<List(<<Leaf(leaf(4))>>), Leaf(leaf(5))>>)

Indices(dims) ==
  IF Len(dims) = 1 THEN [i \in 1..dims[1] |-> <<N(i - 1)>>]
  ELSE [i \in 1..Size(dims) |-> <<N((i - 1) \div dims[2]), N((i - 1) % dims[2])>>]

InitialiserUnit(where, base, dims, init) ==
  LET d == Decl(where = "const", FALSE, base, <<Def("v", [i \in DOMAIN dims |-> N(dims[i])], init)>>)
      n == D(Var1("int", "n", Get))
      uses == [i \in 1..Size(dims) |-> PutAs(base, Ix("v", Indices(dims)[i]))]
  IN  IF where = "global" THEN Unit(<<d>>, <<Main(uses \o <<Ret(N(0))>>)>>)
      ELSE Unit(<<>>, <<Main(<<n, D(d)>> \o uses \o <<Ret(N(0))>>)>>)

(* A long one has values of its own type only.                             *)
LeafOf(base, kind, k) ==
  CASE kind = "same" -> IF base = "float" THEN H(3 * (k % 3)) ELSE N(k % 3)
    [] kind = "other" -> IF base = "float" THEN N(k % 3) ELSE H(3 * (k % 3))
    [] kind = "read" -> V("n")

Initialisers ==
  \E where \in {"local", "global", "const"}, base \in {"int", "float"}, kind \in {"same", "other", "read"},
     dims \in {<<3>>, <<2, 2>>, <<3, 2>>, <<2, 3>>}, n \in 0..3 :
    \E ks \in [1..n -> Items] :
      LET init == List([i \in 1..n |-> ItemOf(ks[i], LAMBDA k : LeafOf(base, kind, (2 * i) + k))])
      IN  /\ kind = "read" => where = "local"
          /\ kind = "other" => Size(dims) <= UnrollLimit /\ n < 3
          /\ base = "float" => kind = "same" /\ n < 3
          /\ where = "const" => n < 3
          /\ Give(InitialiserUnit(where, base, dims, init), Leaves(dims, init[2]).ok)

(* Longer ones lose values of the other type.                              *)
Huge ==
  \E base \in {"int", "float"} :
    Give(InitialiserUnit("local", base, <<3, 2>>,
                         List(<<Leaf(LeafOf(base, "other", 1)), Leaf(LeafOf(base, "other", 2))>>)), TRUE)

(* Arguments and results: arrays from an element on, conversions, a        *)
(* constant of a constant array as a dimension's factor, recursion.        *)
Array2(x, init) == D(Vars("int", <<Def(x, <<N(2), N(2)>>, init)>>))
Numbered == List(<<Leaf(N(1)), Leaf(N(2)), List(<<Leaf(N(3)), Leaf(N(4))>>)>>)
Row == Fun("int", FALSE, "row", <<ArrayParam("int", FALSE, "r", TRUE, <<>>), Param("int", "i")>>,
           <<<<"set", Ix("r", <<V("i")>>), Op("Add", Ix("r", <<V("i")>>), N(5))>>, Ret(Ix("r", <<N(0)>>))>>)
Rows == Fun("int", FALSE, "rows", <<Param("float", "i"), ArrayParam("int", FALSE, "m", TRUE, <<N(2)>>)>>,
            <<Ret(Call("row", <<Ix("m", <<V("i")>>), N(1)>>))>>)
RowsInt == [Rows EXCEPT !.params[1].base = "int"]
Down == Fun("int", FALSE, "down", <<Param("int", "n")>>,
            <<<<"if", Op("Gt", V("n"), N(0)), Block(<<Put(V("n")), Ret(Call("down", <<Op("Sub", V("n"), N(1))>>))>>)>>,
              Ret(V("n"))>>)
Half == Fun("float", FALSE, "half", <<Param("float", "n")>>, <<Ret(Op("SDiv", V("n"), N(2)))>>)

Functions ==
  \E i \in {0, 1}, rows \in {Rows, RowsInt}, arg \in {N(0), N(1), V("i")}, n \in {N(3), H(5), V("i")} :
    Give(Unit(<<Consts("int", "k", <<N(2)>>, List(<<Leaf(N(2)), Leaf(N(3))>>)), Var1("int", "w", Ix("k", <<N(1)>>))>>,
              <<Row, rows, Down, Half,
                Main(<<D(Var1("int", "i", N(i))), Array2("m", Numbered),
                       Put(Call("row", <<Ix("m", <<arg>>), V("i")>>)),
                       Put(Call("rows", <<arg, V("m")>>)),
                       Put(Ix("m", <<N(1), Op("Sub", N(1), arg)>>)),
                       D(Vars("int", <<Def("z", <<Op("Mul", Ix("k", <<N(0)>>), N(1))>>, List(<<>>)), Def("y", <<>>, NoInit)>>)),
                       <<"set", V("y"), Call("half", <<n>>)>>, PutF(Call("half", <<V("y")>>)),
                       Put(Op("Add", Ix("z", <<N(1)>>), V("w"))), Put(Call("down", <<n>>)),
                       Do(Call("starttime", <<>>)), Ret(Call("half", <<n>>))>>)>>),
         rows = RowsInt)

(* Tensors: the destination may be read, directly or in a function.        *)
A == V("A")
B == V("B")
ScalarOps == {Op("Sub", N(3), A), Op("Mul", A, V("i")), Op("SDiv", B, Call("next", <<>>))}
Deep1 == {Op(op, l, r) : op \in {"Add", "Sub", "Mul", "MatMul"}, l \in {A, B}, r \in {A, B}} \cup ScalarOps
         \cup {Neg(A), <<"plus", A>>, A}
Deep2 == {Op(op, t, A) : op \in {"Sub", "MatMul"}, t \in Deep1} \cup
         {Op(op, A, t) : op \in {"Sub", "MatMul"}, t \in Deep1} \cup {Neg(t) : t \in Deep1}

Grid(x, a, b, c, d) ==
  Def(x, <<N(2), N(2)>>, List(<<List(<<Leaf(N(a)), Leaf(N(b))>>), List(<<Leaf(N(c)), Leaf(N(d))>>)>>))
PutGrid(x) == <<>> \o [k \in 1..4 |-> Put(Ix(x, <<N((k - 1) \div 2), N((k - 1) % 2)>>))]
TensorGlobals ==
  <<Decl(FALSE, TRUE, "int", <<Grid("A", 1, 2, 3, 1), Grid("B", 2, 0, 1, 1)>>), Var1("int", "i", N(2))>>
Next_ == Fun("int", FALSE, "next", <<>>,
             <<<<"set", V("i"), Op("Sub", V("i"), N(1))>>, Ret(Op("Add", V("i"), N(1)))>>)
First == Fun("int", FALSE, "first", <<ArrayParam("int", TRUE, "t", TRUE, <<N(2)>>)>>,
             <<Ret(Op("Sub", Ix("t", <<N(0), N(1)>>), Ix("t", <<N(1), N(0)>>)))>>)
Made_(e) == Fun("int", TRUE, "made", <<>>, <<Ret(e)>>)

TensorExpressions ==
  \E e \in Deep2, dest \in {"A", "C"} :
    Give(Unit(TensorGlobals,
              <<Next_, Main(<<D(Tensors("int", <<"C">>, <<N(2), N(2)>>)), <<"set", V(dest), e>>>> \o
                            PutGrid(dest) \o PutGrid("A") \o <<Ret(V("i"))>>)>>), TRUE)

TensorFunctions ==
  \E e \in Deep1, use \in {Call("made", <<>>), Op("Sub", Call("made", <<>>), A), Op("MatMul", A, Call("made", <<>>))} :
    Give(Unit(TensorGlobals,
              <<Next_, First, Made_(e),
                Main(<<D(Tensors("int", <<"C">>, <<N(2), N(2)>>)), <<"set", V("C"), use>>>> \o PutGrid("C") \o
                     <<Ret(Call("first", <<IF use[1] = "call" THEN A ELSE use>>))>>)>>), TRUE)

FloatTensors ==
  \E op \in {"Sub", "Mul", "SDiv", "MatMul"} :
    Give(Unit(<<>>,
              <<Main(<<D(Decl(FALSE, TRUE, "float", <<Grid("A", 1, 2, 3, 1), Grid("B", 2, 1, 1, 2)>>)),
                       D(Tensors("float", <<"C">>, <<N(2), N(2)>>)), D(Tensors("float", <<"R">>, <<N(1), N(2)>>)),
                       <<"set", Ix("R", <<N(0), N(0)>>), N(3)>>, <<"set", Ix("R", <<N(0), N(1)>>), H(5)>>,
                       <<"set", V("R"), Op("MatMul", V("R"), A)>>,
                       <<"set", V("C"), Op(op, A, B)>>,
                       PutF(Ix("C", <<N(0), N(1)>>)), PutF(Ix("C", <<N(1), N(0)>>)),
                       Ret(Op("Sub", Ix("R", <<N(0), N(0)>>), Ix("R", <<N(0), N(1)>>)))>>)>>), TRUE)

Aliased ==
  \E e \in {Op("MatMul", A, B), Op("MatMul", B, A)} :
    Give(Unit(TensorGlobals,
              <<Made_(e), Main(<<<<"set", A, Call("made", <<>>)>>>> \o PutGrid("A") \o <<Ret(N(0))>>)>>), TRUE)

(* Literals of each radix.                                                 *)
InRadix(t, radix) ==
  LET n == FoldLeft(LAMBDA v, d : (10 * v) + d, 0, t[2][2])
  IN  IF t[1] = "IntConst" /\ n # 0
      THEN <<t[1], <<IF radix = 8 THEN "0" ELSE "0x", Digits(n, radix)>>>> ELSE t

Literals ==
  \E n \in {0, 7, 8, 9, 15, 16, 100, 2 ^ (WordBits - 1) - 1, 2 ^ (WordBits - 1), 2 ^ WordBits - 1}, radix \in {8, 10, 16} :
   \E e \in {N(n), Neg(N(n)), Op("Sub", Neg(N(n)), V("a")), Op("Add", N(n), N(1))} :
    LET u == Unit(<<>>, <<Main(<<D(Var1("int", "a", N(0))), Put(e), Ret(N(10))>>)>>)
        ts == PrintUnit(u)
    IN  /\ StartWith(<<>> \o [i \in DOMAIN ts |-> IF radix = 10 THEN ts[i] ELSE InRadix(ts[i], radix)])
        /\ given = [ast |-> u, legal |-> TRUE, cut |-> FALSE]

----------------------------------------------------------------------------
(* Programs that the language does not allow.                              *)
Prelude ==
  <<D(Vars("int", <<Def("a", <<>>, NoInit), Def("m", <<N(2), N(2)>>, NoInit), Def("q", <<N(2)>>, NoInit)>>)),
    D(Consts("int", "c", <<>>, Leaf(N(1)))), D(Var1("float", "f", N(1))),
    D(Tensors("int", <<"A">>, <<N(2), N(2)>>)), D(Tensors("int", <<"R">>, <<N(1), N(2)>>)),
    D(Tensors("float", <<"F">>, <<N(2), N(2)>>))>>
G == Fun("int", FALSE, "g", <<Param("int", "p"), ArrayParam("int", FALSE, "q", TRUE, <<>>)>>, <<Ret(V("p"))>>)
Empty == Fun("void", FALSE, "h", <<>>, <<>>)

IllegalStatements ==
  { <<"set", V("u"), N(1)>>, <<"set", V("c"), N(2)>>, <<"set", V("a"), V("m")>>, <<"set", V("q"), V("q")>>,
    <<"set", V("a"), Call("h", <<>>)>>, <<"set", A, V("R")>>, <<"set", V("a"), A>>, <<"set", A, V("a")>>,
    <<"set", A, V("F")>>, <<"set", A, Op("MatMul", A, V("R"))>>, <<"set", A, Op("Add", A, V("R"))>>,
    <<"set", A, Op("Eq", A, A)>>, <<"set", A, Not(A)>>, <<"set", A, Op("Add", A, V("f"))>>,
    <<"set", A, Op("Mul", A, V("q"))>>, <<"set", V("F"), Op("SRem", V("F"), V("F"))>>,
    Put(V("u")), Put(V("m")), Put(Ix("m", <<N(0)>>)), Put(Ix("q", <<N(0), N(0)>>)), Put(Ix("q", <<V("f")>>)),
    Put(Ix("A", <<N(0)>>)), Put(Ix("a", <<N(0)>>)), Put(Call("g", <<N(1)>>)), Put(Call("g", <<V("q"), V("q")>>)),
    Put(Call("g", <<N(1), V("a")>>)), Put(Call("g", <<N(1), Ix("q", <<N(0)>>)>>)), Put(Call("k", <<>>)), Put(<<"str">>),
    Put(Call("h", <<>>)), Put(Neg(V("q"))), Put(Op("SRem", V("a"), V("f"))), Put(Op("SDiv", V("a"), Call("h", <<>>))),
    Put(Op("SRem", N(1), Op("Sub", V("c"), N(1)))), Do(A), Do(V("m")),
    <<"if", V("m"), Block(<<>>)>>, <<"while", A, Block(<<>>)>>, <<"if", Call("h", <<>>), Block(<<>>)>>,
    <<"break">>, <<"continue">>, Block(<<<<"while", V("a"), Block(<<>>)>>, <<"break">>>>), <<"ret">>, Ret(A), Ret(V("q")),
    D(Vars("int", <<Def("a", <<>>, NoInit)>>)), D(Vars("int", <<Def("z", <<V("a")>>, NoInit)>>)),
    D(Vars("int", <<Def("z", <<N(0)>>, NoInit)>>)), D(Vars("int", <<Def("z", <<Neg(N(1))>>, NoInit)>>)),
    D(Vars("int", <<Def("z", <<H(4)>>, NoInit)>>)), D(Vars("int", <<Def("z", <<>>, List(<<Leaf(N(1))>>))>>)),
    D(Vars("int", <<Def("z", <<N(1)>>, List(<<Leaf(V("q"))>>))>>)), D(Consts("int", "z", <<>>, Leaf(V("a")))),
    D(Consts("int", "z", <<N(2)>>, List(<<Leaf(V("a"))>>))), D(Consts("int", "z", <<>>, Leaf(V("z")))),
    D(Tensors("int", <<"z">>, <<>>)), Block(<<D(Var1("int", "z", N(1))), <<"set", V("y"), V("z")>>>>) }

IllegalFunctions ==
  { <<G, G>>, <<Fun("void", FALSE, "v", <<>>, <<Ret(N(1))>>)>>, <<Fun("int", FALSE, "v", <<Param("int", "p"), Param("float", "p")>>, <<>>)>>,
    <<Fun("int", TRUE, "v", <<>>, <<>>)>>, <<Fun("int", TRUE, "v", <<>>, <<Ret(N(1))>>)>>,
    <<Fun("int", TRUE, "v", <<>>, <<D(Tensors("float", <<"F">>, <<N(2), N(2)>>)), Ret(V("F"))>>)>>,
    <<Fun("int", TRUE, "v", <<>>, <<D(Tensors("int", <<"A">>, <<N(2), N(2)>>)), D(Tensors("int", <<"R">>, <<N(1), N(2)>>)),
                                    <<"if", N(1), Ret(A)>>, Ret(V("R"))>>)>>,
    <<Fun("int", FALSE, "v", <<ArrayParam("int", FALSE, "p", TRUE, <<Get>>)>>, <<>>)>>,
    <<Fun("int", FALSE, "v", <<ArrayParam("int", TRUE, "p", FALSE, <<N(2), N(2)>>)>>, <<>>)>>,
    <<Fun("int", FALSE, "v", <<>>, <<Ret(V("p"))>>), Fun("int", FALSE, "w", <<Param("int", "p")>>, <<Ret(V("p"))>>)>> }

Illegal ==
  \/ \E t \in IllegalStatements, end \in {<<>>, <<Ret(N(0))>>} :
       Give(Unit(<<>>, <<G, Empty, Main(Prelude \o <<t>> \o end)>>), FALSE)
  \/ \E fs \in IllegalFunctions : Give(Unit(<<>>, fs \o <<Main(<<Ret(N(0))>>)>>), FALSE)
  \/ \E d \in {Var1("int", "z", Get), Vars("int", <<Def("z", <<>>, Leaf(N(1))), Def("z", <<>>, NoInit)>>),
               Vars("int", <<Def("z", <<N(1)>>, List(<<Leaf(Get)>>))>>), Vars("int", <<Def("z", <<N(1)>>, Leaf(N(1)))>>),
               Tensors("float", <<"z">>, <<>>)} :
       Give(Unit(<<d>>, <<Main(<<Ret(N(0))>>)>>), FALSE)

(* A text with one token cut out.                                          *)
Whole_ ==
  PrintUnit(Unit(<<Consts("int", "k", <<N(2)>>, List(<<Leaf(N(2)), Leaf(N(3))>>))>>,
                 <<Fun("void", FALSE, "h", <<ArrayParam("float", TRUE, "t", TRUE, <<N(2)>>), Param("int", "p")>>, <<Do(Get)>>),
                   Main(<<D(Var1("float", "f", Op("Mul", Op("Add", N(1), Get), N(2)))),
                          <<"ifelse", Ix("k", <<N(0)>>), Block(<<<<"set", V("f"), N(1)>>>>), <<"while", Get, <<"break">>>>>>,
                          Ret(Call("getch", <<>>))>>)>>))
Cuts ==
  \E i \in {j \in DOMAIN Whole_ : Whole_[j][1] \in {"(", ")", "{", "}", "[", "]", ";", "=", "while"}} :
    /\ StartWith(SubSeq(Whole_, 1, i - 1) \o SubSeq(Whole_, i + 1, Len(Whole_)))
    /\ given = [ast |-> <<>>, legal |-> FALSE, cut |-> TRUE]

(* A global that is no array, initialised in braces.                       *)
Braced ==
  \E isConst \in BOOLEAN, base \in {"int", "float"}, init \in {<<>>, <<Leaf(N(1))>>, <<List(<<Leaf(H(3))>>)>>} :
    Give(Unit(<<Decl(isConst, FALSE, base, <<Def("z", <<>>, List(init))>>)>>, <<Main(<<Ret(N(0))>>)>>), FALSE)

----------------------------------------------------------------------------
MCInit ==
  CASE Family = "texts" ->
         \/ Expressions \/ Statements \/ Scopes \/ Initialisers \/ Functions \/ Literals
         \/ TensorExpressions \/ TensorFunctions \/ FloatTensors \/ Illegal \/ Cuts
    [] Family = "aliased" -> Aliased
    [] Family = "huge" -> Huge
    [] Family = "braced" -> Braced

MCSpec == MCInit /\ [][Next /\ UNCHANGED given]_<<vars, given>>

Inputs ==
  IF \E i \in DOMAIN text : text[i] = <<"Ident", "getint">>
  THEN {<<0>>, <<1>>, <<1, 0>>, <<0, 1>>, <<1, 1, 0>>} ELSE {<<0>>}
Meant(inp) == Src!Meaning(Plain(given.ast), inp)

(* Grouping is kept: the syntax tree of a text says what its writer, who   *)
(* put the fewest parentheses and braces that C allows, had in mind.       *)
ReadsBack == stage \in {"ast", "checked", "built"} /\ ~given.cut => ast = given.ast

(* A text is refused if it breaks a rule of the language or has no defined *)
(* meaning, and only then; a defect is an error message, never a crash.    *)
Verdict ==
  /\ stage = "built" => given.legal
  /\ stage \in {"rejected", "crash"} => ~given.legal \/ \A inp \in Inputs : Meant(inp).st # "done"
  /\ stage # "crash"

Agree(want, got) ==
  want.st = "done" => <<got.st, got.out, got.ret>> = <<want.st, want.out, want.ret>>

(* What the program built writes and returns is what its text means,       *)
(* through scopes, constants, conversions, initialisers and tensors.       *)
MeaningKept ==
  stage = "built" /\ given.legal =>
    \A inp \in Inputs : Agree(Meant(inp), Src!Meaning(core, inp))

=============================================================================
