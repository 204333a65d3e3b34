------------------------------- MODULE Parser -------------------------------
(***************************************************************************)
(* From tokens to the syntax tree: the generated parser                    *)
(* (src/frontend/generate/SysYParser.cpp, from SysY.g4), one operator for  *)
(* each of its rule functions, and the visitor that turns its contexts     *)
(* into AST nodes (src/frontend/ASTBuilder.cpp).                           *)
(*                                                                         *)
(* A token is a pair <<kind, text>>; the text of an integer is a pair      *)
(* <<prefix, digits>>, that of a float its value.  The parser p has the    *)
(* tokens left, the children so far of the context it is in, and ok, FALSE *)
(* after a syntax error: the error listener throws at the first one.  A    *)
(* context is <<rule, label, children>>, a terminal node <<"token", kind,  *)
(* text>>.                                                                 *)
(***************************************************************************)
EXTENDS Integers, Sequences, SequencesExt

CONSTANT WordBits       (* of an int, 32 in the code; an int64 has twice that *)

ASSUME WordBitsAssumption == WordBits \in Nat /\ WordBits > 1

----------------------------------------------------------------------------
(* What the rule functions call.                                           *)
At(p, k) == IF k > Len(p.in) THEN "EOF" ELSE p.in[k][1]
LA(p) == At(p, 1)

match(p, kind) ==
  IF LA(p) # kind THEN [p EXCEPT !.ok = FALSE]
  ELSE IF kind = "EOF" THEN p
  ELSE [p EXCEPT !.in = Tail(@), !.kids = Append(@, <<"token", kind, p.in[1][2]>>)]

enterRule(p) == [p EXCEPT !.kids = <<>>]
exitRule(p, rule, label, q) == [q EXCEPT !.kids = Append(p.kids, <<rule, label, @>>)]

RuleNames ==
  {"compUnit", "decl", "constDecl", "bType", "constDef", "constInitVal", "varDecl", "varDef",
   "initVal", "funcDef", "funcType", "funcFParams", "funcFParam", "block", "blockItem", "stmt",
   "exp", "cond", "lVal", "primaryExp", "number", "unaryExp", "unaryOp", "funcRParams",
   "mulExp", "addExp", "relExp", "eqExp", "lAndExp", "lOrExp", "constExp"}

RECURSIVE parse(_, _)

(* One symbol of an alternative after the other.                           *)
Symbol(p, s) == IF ~p.ok THEN p ELSE IF s \in RuleNames THEN parse(p, s) ELSE match(p, s)
RECURSIVE Symbols(_, _)
Symbols(p, ss) ==
  IF Len(ss) = 1 THEN Symbol(p, ss[1]) ELSE Symbols(Symbol(p, ss[1]), Tail(ss))

RECURSIVE Loop(_, _, _)
(* (start ss)*, decided by the next token.                                 *)
Loop(p, start, ss) == IF p.ok /\ LA(p) = start THEN Loop(Symbols(p, ss), start, ss) ELSE p

ListOf(p, rule) == Loop(Symbols(p, <<rule>>), ",", <<",", rule>>)
Brackets(p, rule) == Loop(p, "[", <<"[", rule, "]">>)

Context(p, rule, label, ss) ==
  [Symbols(enterRule(p), ss) EXCEPT !.kids = Append(p.kids, <<rule, label, @>>)]
NoViableAlt(p) == [p EXCEPT !.ok = FALSE]

DeclStart == {"const", "tensor", "int", "float"}
ExpStart == {"(", "+", "-", "!", "Ident", "IntConst", "FloatConst", "STRING_LITERAL"}
StmtStart == ExpStart \cup {"if", "while", "break", "continue", "return", "{", ";"}

(* adaptivePredict: the alternative by which the tokens can be read on.    *)
AfterType(p) == IF LA(p) = "tensor" THEN 3 ELSE 2
PredictFuncDef(p) == LA(p) = "void" \/ At(p, AfterType(p) + 1) = "("
PredictParam(p) ==
  IF At(p, AfterType(p) + 1) # "[" THEN "scalarParam"
  ELSE IF At(p, AfterType(p) + 2) = "]" THEN "arrayParamNoSize" ELSE "arrayParamWithSize"
PredictAssign(p) == LA(p) = "Ident" /\ LA(parse(p, "lVal")) = "="
PredictCall(p) == LA(p) = "Ident" /\ At(p, 2) = "("
PredictElse(p) == LA(p) = "else"     (* the if that is open last takes it  *)

----------------------------------------------------------------------------
(* Declarations and functions.                                             *)
RECURSIVE UnitItems(_)
UnitItems(p) ==
  IF ~p.ok \/ LA(p) \notin DeclStart \cup {"void"} THEN p
  ELSE UnitItems(parse(p, IF PredictFuncDef(p) THEN "funcDef" ELSE "decl"))

compUnit(p) == exitRule(p, "compUnit", "compUnit", match(UnitItems(enterRule(p)), "EOF"))

decl(p) ==
  CASE LA(p) = "const" -> Context(p, "decl", "constDeclaration", <<"constDecl">>)
    [] LA(p) \in DeclStart \ {"const"} -> Context(p, "decl", "variableDeclaration", <<"varDecl">>)
    [] OTHER -> NoViableAlt(p)

constDecl(p) ==
  exitRule(p, "constDecl", "constDecl",
           match(ListOf(Symbols(enterRule(p), <<"const", "bType">>), "constDef"), ";"))

bType(p) ==
  CASE LA(p) = "tensor" ->
         Context(p, "bType", "typeTensor", <<"tensor", IF At(p, 2) = "int" THEN "int" ELSE "float">>)
    [] LA(p) = "int" -> Context(p, "bType", "typeInt", <<"int">>)
    [] LA(p) = "float" -> Context(p, "bType", "typeFloat", <<"float">>)
    [] OTHER -> NoViableAlt(p)

constDef(p) ==
  exitRule(p, "constDef", "constDef",
           Symbols(Brackets(match(enterRule(p), "Ident"), "constExp"), <<"=", "constInitVal">>))

(* A braced list of a rule, perhaps empty.                                 *)
BracedList(p, rule) ==
  LET q == match(p, "{")
  IN  match(IF LA(q) \in ExpStart \cup {"{"} THEN ListOf(q, rule) ELSE q, "}")

constInitVal(p) ==
  CASE LA(p) \in ExpStart -> Context(p, "constInitVal", "constInitExpr", <<"constExp">>)
    [] LA(p) = "{" -> exitRule(p, "constInitVal", "constInitList",
                               BracedList(enterRule(p), "constInitVal"))
    [] OTHER -> NoViableAlt(p)

varDecl(p) ==
  exitRule(p, "varDecl", "varDecl",
           match(ListOf(Symbols(enterRule(p), <<"bType">>), "varDef"), ";"))

varDef(p) ==
  LET q == Brackets(match(enterRule(p), "Ident"), "constExp")
  IN  exitRule(p, "varDef", "varDef", IF LA(q) = "=" THEN Symbols(q, <<"=", "initVal">>) ELSE q)

initVal(p) ==
  CASE LA(p) \in ExpStart -> Context(p, "initVal", "initExpr", <<"exp">>)
    [] LA(p) = "{" -> exitRule(p, "initVal", "initList", BracedList(enterRule(p), "initVal"))
    [] OTHER -> NoViableAlt(p)

funcDef(p) ==
  LET q == Symbols(enterRule(p), <<"funcType", "Ident", "(">>)
  IN  exitRule(p, "funcDef", "funcDef",
               Symbols(IF LA(q) \in DeclStart \ {"const"} THEN Symbols(q, <<"funcFParams">>) ELSE q,
                       <<")", "block">>))

funcType(p) ==
  CASE LA(p) = "void" -> Context(p, "funcType", "typeVoid", <<"void">>)
    [] LA(p) \in DeclStart \ {"const"} -> Context(p, "funcType", "typeBType", <<"bType">>)
    [] OTHER -> NoViableAlt(p)

funcFParams(p) ==
  exitRule(p, "funcFParams", "funcFParams", ListOf(enterRule(p), "funcFParam"))

funcFParam(p) ==
  LET label == PredictParam(p)
      q == Symbols(enterRule(p), <<"bType", "Ident">>)
  IN  exitRule(p, "funcFParam", label,
               CASE label = "scalarParam" -> q
                 [] label = "arrayParamNoSize" -> Brackets(Symbols(q, <<"[", "]">>), "constExp")
                 [] OTHER -> Brackets(Symbols(q, <<"[", "constExp", "]">>), "constExp"))

----------------------------------------------------------------------------
(* Statements.                                                             *)
RECURSIVE BlockItems(_)
BlockItems(p) ==
  IF p.ok /\ LA(p) \in DeclStart \cup StmtStart THEN BlockItems(parse(p, "blockItem")) ELSE p

block(p) ==
  exitRule(p, "block", "block", match(BlockItems(match(enterRule(p), "{")), "}"))

blockItem(p) ==
  CASE LA(p) \in DeclStart -> Context(p, "blockItem", "itemDecl", <<"decl">>)
    [] LA(p) \in StmtStart -> Context(p, "blockItem", "itemStmt", <<"stmt">>)
    [] OTHER -> NoViableAlt(p)

(* exp? and a semicolon.                                                   *)
OptionalExp(p) == Symbols(p, IF LA(p) \in ExpStart THEN <<"exp", ";">> ELSE <<";">>)

ifStmt(p) ==
  LET q == Symbols(enterRule(p), <<"if", "(", "cond", ")", "stmt">>)
  IN  exitRule(p, "stmt", "ifStmt", IF PredictElse(q) THEN Symbols(q, <<"else", "stmt">>) ELSE q)

stmt(p) ==
  CASE PredictAssign(p) -> Context(p, "stmt", "assignStmt", <<"lVal", "=", "exp", ";">>)
    [] LA(p) \in ExpStart \cup {";"} -> exitRule(p, "stmt", "exprStmt", OptionalExp(enterRule(p)))
    [] LA(p) = "{" -> Context(p, "stmt", "blockStmt", <<"block">>)
    [] LA(p) = "if" -> ifStmt(p)
    [] LA(p) = "while" -> Context(p, "stmt", "whileStmt", <<"while", "(", "cond", ")", "stmt">>)
    [] LA(p) = "break" -> Context(p, "stmt", "breakStmt", <<"break", ";">>)
    [] LA(p) = "continue" -> Context(p, "stmt", "continueStmt", <<"continue", ";">>)
    [] LA(p) = "return" -> exitRule(p, "stmt", "returnStmt", OptionalExp(match(enterRule(p), "return")))
    [] OTHER -> NoViableAlt(p)

----------------------------------------------------------------------------
(* Expressions.                                                            *)
exp(p) == Context(p, "exp", "exp", <<"lOrExp">>)
cond(p) == Context(p, "cond", "cond", <<"lOrExp">>)
constExp(p) == Context(p, "constExp", "constExp", <<"addExp">>)

lVal(p) == exitRule(p, "lVal", "lVal", Brackets(match(enterRule(p), "Ident"), "exp"))

primaryExp(p) ==
  CASE LA(p) = "(" -> Context(p, "primaryExp", "parenExp", <<"(", "exp", ")">>)
    [] LA(p) = "Ident" -> Context(p, "primaryExp", "lValExp", <<"lVal">>)
    [] LA(p) \in {"IntConst", "FloatConst"} -> Context(p, "primaryExp", "numberExp", <<"number">>)
    [] LA(p) = "STRING_LITERAL" ->
         Context(p, "primaryExp", "stringLiteralExp", <<"STRING_LITERAL">>)
    [] OTHER -> NoViableAlt(p)

number(p) ==
  CASE LA(p) = "IntConst" -> Context(p, "number", "intNum", <<"IntConst">>)
    [] LA(p) = "FloatConst" -> Context(p, "number", "floatNum", <<"FloatConst">>)
    [] OTHER -> NoViableAlt(p)

unaryExp(p) ==
  CASE PredictCall(p) ->
         LET q == Symbols(enterRule(p), <<"Ident", "(">>)
         IN  exitRule(p, "unaryExp", "callExp",
                      match(IF LA(q) \in ExpStart THEN Symbols(q, <<"funcRParams">>) ELSE q, ")"))
    [] LA(p) \in {"+", "-", "!"} -> Context(p, "unaryExp", "opUnaryExp", <<"unaryOp", "unaryExp">>)
    [] OTHER -> Context(p, "unaryExp", "toPrimaryExp", <<"primaryExp">>)

unaryOp(p) ==
  CASE LA(p) = "+" -> Context(p, "unaryOp", "opPlus", <<"+">>)
    [] LA(p) = "-" -> Context(p, "unaryOp", "opMinus", <<"-">>)
    [] LA(p) = "!" -> Context(p, "unaryOp", "opNot", <<"!">>)
    [] OTHER -> NoViableAlt(p)

funcRParams(p) == exitRule(p, "funcRParams", "funcRParams", ListOf(enterRule(p), "exp"))

RECURSIVE Climb(_, _, _, _, _)
(* pushNewRecursionContext: the context so far is the first child of a new *)
(* one, while an operator follows.                                         *)
Climb(p, rule, label, ops, operand) ==
  IF p.ok /\ LA(p) \in ops
  THEN LET q == Symbols([p EXCEPT !.kids = <<Last(@)>>], <<LA(p), operand>>)
       IN  Climb([q EXCEPT !.kids = Append(Front(p.kids), <<rule, label, q.kids>>)],
                 rule, label, ops, operand)
  ELSE p

(* Mutant: the right operand takes the operators that follow.              *)
mulExpRight(p) ==
  Climb(Context(p, "mulExp", "toUnaryExp_mul", <<"unaryExp">>),
        "mulExp", "mulDivModExp", {"*", "/", "%", "@"}, "mulExp")

mulExp(p) ==
  Climb(Context(p, "mulExp", "toUnaryExp_mul", <<"unaryExp">>),
        "mulExp", "mulDivModExp", {"*", "/", "%", "@"}, "unaryExp")

addExp(p) ==
  Climb(Context(p, "addExp", "toMulExp_add", <<"mulExp">>),
        "addExp", "addSubExp", {"+", "-"}, "mulExp")

relExp(p) ==
  Climb(Context(p, "relExp", "toAddExp_rel", <<"addExp">>),
        "relExp", "relOpExp", {"<", ">", "<=", ">="}, "addExp")

eqExp(p) ==
  Climb(Context(p, "eqExp", "toRelExp_eq", <<"relExp">>),
        "eqExp", "eqOpExp", {"==", "!="}, "relExp")

lAndExp(p) ==
  Climb(Context(p, "lAndExp", "toEqExp_land", <<"eqExp">>),
        "lAndExp", "landOpExp", {"&&"}, "eqExp")

lOrExp(p) ==
  Climb(Context(p, "lOrExp", "toLAndExp_lor", <<"lAndExp">>),
        "lOrExp", "lorOpExp", {"||"}, "lAndExp")

parse(p, rule) ==
  CASE rule = "compUnit" -> compUnit(p)       [] rule = "decl" -> decl(p)
    [] rule = "constDecl" -> constDecl(p)     [] rule = "bType" -> bType(p)
    [] rule = "constDef" -> constDef(p)       [] rule = "constInitVal" -> constInitVal(p)
    [] rule = "varDecl" -> varDecl(p)         [] rule = "varDef" -> varDef(p)
    [] rule = "initVal" -> initVal(p)         [] rule = "funcDef" -> funcDef(p)
    [] rule = "funcType" -> funcType(p)       [] rule = "funcFParams" -> funcFParams(p)
    [] rule = "funcFParam" -> funcFParam(p)   [] rule = "block" -> block(p)
    [] rule = "blockItem" -> blockItem(p)     [] rule = "stmt" -> stmt(p)
    [] rule = "exp" -> exp(p)                 [] rule = "cond" -> cond(p)
    [] rule = "lVal" -> lVal(p)               [] rule = "primaryExp" -> primaryExp(p)
    [] rule = "number" -> number(p)           [] rule = "unaryExp" -> unaryExp(p)
    [] rule = "unaryOp" -> unaryOp(p)         [] rule = "funcRParams" -> funcRParams(p)
    [] rule = "mulExp" -> mulExp(p)           [] rule = "addExp" -> addExp(p)
    [] rule = "relExp" -> relExp(p)           [] rule = "eqExp" -> eqExp(p)
    [] rule = "lAndExp" -> lAndExp(p)         [] rule = "lOrExp" -> lOrExp(p)
    [] rule = "constExp" -> constExp(p)

(* The parser on a text: its context is the only child.                    *)
Parsed(tokens) == parse([in |-> tokens, kids |-> <<>>, ok |-> TRUE], "compUnit")

----------------------------------------------------------------------------
(* The AST.  Expressions are <<"num", n>>, <<"flt", v>>, <<"str">>,        *)
(* <<"lval", x, indices>>, <<"plus", e>>, <<"neg", e>>, <<"not", e>>,      *)
(* <<"bin", op, l, r>>, <<"call", f, args>>; statements those of module    *)
(* Source, with <<"decl", d>> for a declaration d; an initialiser is       *)
(* <<"expr", e>> or <<"list", initialisers>>.                              *)
Kids(c, rule) == SelectSeq(c[3], LAMBDA k : k[1] = rule)
Kid(c, rule) == Kids(c, rule)[1]
Has(c, rule) == Kids(c, rule) # <<>>
HasToken(c, kind) == \E i \in DOMAIN c[3] : c[3][i][1] = "token" /\ c[3][i][2] = kind
TextOf(c, kind) == SelectSeq(c[3], LAMBDA k : k[1] = "token" /\ k[2] = kind)[1][3]

(* Each element of a sequence of contexts, visited.                        *)
Each(cs, Visit(_)) == <<>> \o [i \in DOMAIN cs |-> Visit(cs[i])]

bTypeOf(c) == IF HasToken(c, "float") THEN "float" ELSE "int"
bTypeIsTensor(c) == HasToken(c, "tensor")

(* strtoull, which saturates, in the radix that the prefix selects, as an  *)
(* int64.                                                                  *)
parseIntLiteral(text) ==
  LET radix == CASE text[1] = "0x" -> 16 [] text[1] = "0" -> 8 [] OTHER -> 10
      top == 4 ^ WordBits - 1
      value == FoldLeft(LAMBDA v, d : IF v * radix + d > top THEN top ELSE v * radix + d, 0, text[2])
  IN  IF value > top \div 2 THEN value - top - 1 ELSE value

RECURSIVE visitExpTree(_)

visitLVal(c) == <<"lval", TextOf(c, "Ident"), Each(Kids(c, "exp"), visitExpTree)>>

visitPrimaryExp(c) ==
  CASE c[2] = "parenExp" -> visitExpTree(Kid(c, "exp"))
    [] c[2] = "lValExp" -> visitLVal(Kid(c, "lVal"))
    [] c[2] = "numberExp" ->
         LET n == Kid(c, "number")
         IN  IF n[2] = "intNum" THEN <<"num", parseIntLiteral(TextOf(n, "IntConst"))>>
             ELSE <<"flt", TextOf(n, "FloatConst")>>
    [] c[2] = "stringLiteralExp" -> <<"str">>

visitUnaryExp(c) ==
  CASE c[2] = "toPrimaryExp" -> visitPrimaryExp(Kid(c, "primaryExp"))
    [] c[2] = "callExp" ->
         <<"call", TextOf(c, "Ident"),
           IF Has(c, "funcRParams") THEN Each(Kids(Kid(c, "funcRParams"), "exp"), visitExpTree)
           ELSE <<>>>>
    [] c[2] = "opUnaryExp" ->
         <<CASE HasToken(Kid(c, "unaryOp"), "+") -> "plus"
             [] HasToken(Kid(c, "unaryOp"), "-") -> "neg"
             [] OTHER -> "not", visitExpTree(Kid(c, "unaryExp"))>>

(* The binary expression of a context with the operands l and r.           *)
visitMulDivModExp(c, l, r) ==
  <<"bin", CASE HasToken(c, "*") -> "Mul" [] HasToken(c, "/") -> "SDiv"
             [] HasToken(c, "%") -> "SRem" [] OTHER -> "MatMul", l, r>>
visitAddSubExp(c, l, r) == <<"bin", IF HasToken(c, "+") THEN "Add" ELSE "Sub", l, r>>
visitRelOpExp(c, l, r) ==
  <<"bin", CASE HasToken(c, "<") -> "Lt" [] HasToken(c, ">") -> "Gt"
             [] HasToken(c, "<=") -> "Le" [] OTHER -> "Ge", l, r>>
visitEqOpExp(c, l, r) == <<"bin", IF HasToken(c, "==") THEN "Eq" ELSE "Ne", l, r>>
visitLandOpExp(c, l, r) == <<"and", l, r>>
visitLorOpExp(c, l, r) == <<"or", l, r>>

visitExpTree(c) ==
  LET l == visitExpTree(c[3][1])
      r == visitExpTree(c[3][3])
  IN  CASE c[1] = "unaryExp" -> visitUnaryExp(c)
        [] c[1] = "lVal" -> visitLVal(c)
        [] c[2] = "mulDivModExp" -> visitMulDivModExp(c, l, r)
        [] c[2] = "addSubExp" -> visitAddSubExp(c, l, r)
        [] c[2] = "relOpExp" -> visitRelOpExp(c, l, r)
        [] c[2] = "eqOpExp" -> visitEqOpExp(c, l, r)
        [] c[2] = "landOpExp" -> visitLandOpExp(c, l, r)
        [] c[2] = "lorOpExp" -> visitLorOpExp(c, l, r)
        [] OTHER -> l                  (* exp, cond, constExp, to...Exp    *)

RECURSIVE visitInit(_)
(* initVal and constInitVal.                                               *)
visitInit(c) ==
  IF c[2] \in {"initList", "constInitList"} THEN <<"list", Each(Kids(c, c[1]), visitInit)>>
  ELSE <<"expr", visitExpTree(c[3][1])>>

NoInit == <<>>

buildVarDef(c) ==
  [name |-> TextOf(c, "Ident"), dims |-> Each(Kids(c, "constExp"), visitExpTree),
   init |-> IF Has(c, "initVal") THEN visitInit(Kid(c, "initVal")) ELSE NoInit]

visitVarDecl(c) ==
  [isConst |-> FALSE, isTensor |-> bTypeIsTensor(Kid(c, "bType")), base |-> bTypeOf(Kid(c, "bType")),
   defs |-> Each(Kids(c, "varDef"), buildVarDef)]

buildConstDef(c) ==
  [name |-> TextOf(c, "Ident"), dims |-> Each(Kids(c, "constExp"), visitExpTree),
   init |-> visitInit(Kid(c, "constInitVal"))]

visitConstDecl(c) ==
  [isConst |-> TRUE, isTensor |-> bTypeIsTensor(Kid(c, "bType")), base |-> bTypeOf(Kid(c, "bType")),
   defs |-> Each(Kids(c, "constDef"), buildConstDef)]

visitDecl(c) ==
  IF c[2] = "constDeclaration" THEN visitConstDecl(Kid(c, "constDecl"))
  ELSE visitVarDecl(Kid(c, "varDecl"))

RECURSIVE visitStmt(_)

visitBlockItem(c) ==
  IF c[2] = "itemDecl" THEN <<"decl", visitDecl(Kid(c, "decl"))>> ELSE visitStmt(Kid(c, "stmt"))

visitBlock(c) == <<"block", Each(Kids(c, "blockItem"), visitBlockItem)>>

visitIfStmt(c) ==
  LET stmts == Kids(c, "stmt")
      test == visitExpTree(Kid(c, "cond"))
  IN  IF Len(stmts) > 1 THEN <<"ifelse", test, visitStmt(stmts[1]), visitStmt(stmts[2])>>
      ELSE <<"if", test, visitStmt(stmts[1])>>

(* An expression that may be missing.                                      *)
visitOptional(kind, c) ==
  IF Has(c, "exp") THEN <<kind, visitExpTree(Kid(c, "exp"))>> ELSE <<kind>>

visitStmt(c) ==
  CASE c[2] = "assignStmt" ->
         <<"set", visitExpTree(Kid(c, "lVal")), visitExpTree(Kid(c, "exp"))>>
    [] c[2] = "exprStmt" -> visitOptional("do", c)
    [] c[2] = "blockStmt" -> visitBlock(Kid(c, "block"))
    [] c[2] = "ifStmt" -> visitIfStmt(c)
    [] c[2] = "whileStmt" ->
         <<"while", visitExpTree(Kid(c, "cond")), visitStmt(Kid(c, "stmt"))>>
    [] c[2] = "breakStmt" -> <<"break">>
    [] c[2] = "continueStmt" -> <<"continue">>
    [] c[2] = "returnStmt" -> visitOptional("ret", c)

(* scalarParam, arrayParamNoSize, arrayParamWithSize.                      *)
visitParam(c) ==
  [name |-> TextOf(c, "Ident"), base |-> bTypeOf(Kid(c, "bType")),
   isTensor |-> bTypeIsTensor(Kid(c, "bType")), isArray |-> c[2] # "scalarParam",
   firstDimOmitted |-> c[2] = "arrayParamNoSize",
   dims |-> Each(Kids(c, "constExp"), visitExpTree)]

visitFuncDef(c) ==
  LET type == Kid(c, "funcType")
      void == type[2] = "typeVoid"
  IN  [name |-> TextOf(c, "Ident"),
       retType |-> IF void THEN "void" ELSE bTypeOf(Kid(type, "bType")),
       retIsTensor |-> ~void /\ bTypeIsTensor(Kid(type, "bType")),
       params |-> IF Has(c, "funcFParams") THEN Each(Kids(Kid(c, "funcFParams"), "funcFParam"), visitParam)
                  ELSE <<>>,
       body |-> visitBlock(Kid(c, "block"))]

(* Globals and functions are two lists: their order is lost.               *)
visitCompUnit(c) ==
  [globals |-> Each(Kids(c, "decl"), visitDecl), funcs |-> Each(Kids(c, "funcDef"), visitFuncDef)]
=============================================================================
