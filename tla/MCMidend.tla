------------------------------ MODULE MCMidend ------------------------------
(* Small programs on which every pass of the pipeline has something to do. *)
(* main reads n, zeroes s and i, and may use an array a of three, a        *)
(* variable j and a global g.  Family chooses the programs: "passes", or   *)
(* one of the shapes that a pass gets wrong.                               *)
EXTENDS Midend

CONSTANT Family

V(x) == <<"var", x>>
N(n) == <<"num", n>>
B(op, l, r) == <<"bin", op, l, r>>
A(e) == <<"at", "a", e>>
Set(l, e) == <<"set", l, e>>
Call(f, e) == <<"call", f, <<e>>>>
Put(e) == <<"do", Call("putint", e)>>
Block(ss) == <<"block", ss>>
If(c, t) == <<"if", c, Block(t)>>
IfElse(c, t, e) == <<"ifelse", c, Block(t), Block(e)>>
While(c, ss) == <<"while", c, Block(ss)>>
Ret(e) == <<"ret", e>>
Break == <<"break">>
Continue == <<"continue">>
Inc(x, n) == Set(x, B("Add", x, N(n)))

i == V("i")
j == V("j")
s == V("s")
n == V("n")
g == V("g")
x == V("x")

Fun(params, ss) == [params |-> params, body |-> Block(ss)]

Main(ss) ==
  "main" :> Fun(<<>>, [k \in 1..4 |-> <<"decl", <<"i", "j", "s", "n">>[k], 0>>] \o
                      <<<<"decl", "a", 3>>, Set(n, <<"call", "getint", <<>>>>),
                        Set(s, N(0)), Set(i, N(0))>> \o ss)

Program(funcs) == [funcs |-> funcs, globals |-> ("g" :> ObjectAt(<<0, 1>>, 0))]

Ends == {<<Ret(B("Add", s, i))>>, <<Set(g, s), Ret(n)>>}

----------------------------------------------------------------------------
(* Loops that count, which the builder turns into an AffineFor.            *)
Filled == <<Set(A(N(0)), N(1)), Set(A(N(1)), n), Set(A(N(2)), N(2))>>

CountingBodies ==
  { <<Set(s, B("Add", s, i))>>,
    <<Set(A(i), s), Set(s, B("Add", s, A(i)))>>,
    <<Set(s, B("Sub", s, B("Mul", i, N(2)))), Put(s)>>,
    <<Set(g, B("Add", g, n)), Set(s, g)>>,
    <<Set(s, B("Add", A(i), s))>>,
    <<If(B("Lt", s, n), <<Set(s, B("Add", s, n))>>)>>,
    <<Set(j, N(0)), While(B("Lt", j, N(2)), <<Set(s, B("Add", s, j)), Inc(j, 1)>>)>>,
    <<Set(j, i), While(B("Lt", j, n), <<Set(s, B("Add", s, B("Add", n, N(1)))), Inc(j, 1)>>)>>,
    <<Set(A(B("Sub", N(2), i)), A(i))>> }

CountingLoops ==
  \E filled \in {<<>>, Filled}, body \in CountingBodies, bound \in {n, N(3), g, N(0)},
     step \in {1, 2}, end \in Ends, level \in {0, 1} :
    /\ bound = N(0) => filled = Filled /\ step = 1 /\ level = 1
    /\ level = 0 => end = <<Ret(B("Add", s, i))>> /\ filled = Filled
    /\ Given(Program(Main(filled \o <<While(B("Lt", i, bound), body \o <<Inc(i, step)>>)>> \o end)),
             level)

(* Loops that do not count, or that are left in the middle.                *)
Tests ==
  { B("Lt", i, n), B("Le", i, N(2)), N(1), B("Ne", i, n), <<"not", B("Eq", i, n)>>,
    <<"and", B("Lt", i, N(3)), n>>, <<"or", B("Lt", i, n), B("Gt", s, N(3))>> }

Exits ==
  { <<>>, <<If(B("Gt", i, N(2)), <<Break>>)>>, <<If(B("Eq", i, n), <<Ret(i)>>)>>,
    <<IfElse(B("Lt", s, n), <<Inc(i, 2), Continue>>, <<Set(s, N(1))>>)>>,
    <<If(s, <<Put(i)>>)>> }

Progress ==
  { <<Inc(i, 1)>>, <<Set(s, i), Inc(i, 1)>>, <<Inc(i, 1), Inc(s, 2)>>,
    <<Put(i), Inc(i, 1)>>, <<Inc(i, 1), If(B("Gt", i, N(3)), <<Ret(s)>>)>> }

OtherLoops ==
  \E c \in Tests, e \in Exits, p \in Progress, end \in Ends :
    /\ N(1) = c => end # <<Ret(B("Add", s, i))>>
    /\ \E body \in {e \o p, p \o e} : Given(Program(Main(<<While(c, body)>> \o end)), 1)

(* A loop in an arm of an if, with values that do not change in it.        *)
GuardedLoops ==
  \E c \in {B("Gt", n, N(0)), B("Ne", i, n)}, e \in {<<>>, <<Set(s, N(1))>>},
     test \in {B("Lt", i, B("Mul", n, N(2))), B("Le", B("Add", i, n), N(3))},
     v \in {B("Mul", n, n), B("Sub", s, B("Mul", n, N(3))), A(N(2))}, end \in Ends :
    Given(Program(Main(<<Set(A(N(2)), n),
      IfElse(c, <<While(test, <<Inc(i, 1), Set(s, v), Put(s)>>)>>, e)>> \o end)), 1)

(* A function f, small or not, recursive or not, and its calls.            *)
CalleeBodies ==
  { <<Ret(B("Add", x, N(1)))>>,
    <<Set(g, B("Add", g, x)), Ret(g)>>,
    <<If(B("Lt", x, N(1)), <<Ret(N(0))>>), Ret(B("Add", x, N(2)))>>,
    <<If(B("Lt", x, N(1)), <<Ret(g)>>), Ret(Call("f", B("Sub", x, N(1))))>>,
    <<If(B("Lt", x, N(1)), <<Ret(N(0))>>), Ret(B("Add", x, Call("f", B("Sub", x, N(1)))))>>,
    <<<<"decl", "y", 0>>, Set(V("y"), N(0)), While(B("Lt", V("y"), x), <<Inc(V("y"), 2)>>), Ret(V("y"))>>,
    <<If(B("Lt", x, N(1)), <<Set(x, N(1))>>), Put(x), Ret(x)>> }

CallerBodies ==
  LET fi == Call("f", B("Add", i, N(1)))
      fn == Call("f", n)
  IN  { <<Set(s, fi)>>, <<Set(s, B("Add", fi, fn))>>, <<Set(s, B("Add", fi, fi))>>,
        <<While(B("Lt", i, n), <<Set(s, B("Add", s, fi)), Inc(i, 1)>>)>>,
        <<While(B("Lt", Call("f", i), n), <<Inc(i, 2)>>)>>,
        <<Set(g, n), Set(s, fi), Set(s, B("Add", s, g))>>,
        <<If(<<"and", fi, B("Gt", fn, N(1))>>, <<Set(s, n)>>)>> }

FunctionCalls ==
  \E callee \in CalleeBodies, caller \in CallerBodies, end \in Ends, level \in {0, 1} :
    Given(Program(("f" :> Fun(<<"x">>, callee)) @@ Main(caller \o end)), level)

(* An if, with conditions that fold and arms that may become selects.      *)
Conditions ==
  { B("Lt", n, N(1)), B("Gt", B("Add", n, N(1)), N(2)), <<"not", n>>,
    <<"or", B("Lt", n, N(0)), s>>, B("Ge", N(3), B("Sub", n, N(2))),
    B("Eq", N(1), B("Add", N(1), n)) }

Thens ==
  { <<Set(s, N(1))>>, <<Set(s, B("Add", n, N(1)))>>, <<Set(s, B("SDiv", N(6), n))>>,
    <<Set(s, A(n))>>, <<Put(n)>>, <<Ret(n)>>, <<Set(s, n), Set(i, s)>> }

Elses ==
  { <<>>, <<Set(s, N(2))>>, <<Set(i, N(5)), Set(s, B("Mul", n, N(2)))>>,
    <<Set(A(N(1)), n), Set(s, A(N(1)))>> }

Branches ==
  \E c \in Conditions, t \in Thens, e \in Elses, end \in Ends :
    Given(Program(Main(
      <<Set(A(N(2)), N(2)), IfElse(c, t, e),
        Put(B("Sub", B("Add", B("Add", s, N(1)), n), B("Add", n, N(2)))),
        Set(s, B("Add", B("Add", s, N(1)), N(3)))>> \o end)), 1)

----------------------------------------------------------------------------
(* The shapes that a pass gets wrong.                                      *)
(* An element of a local array is read at a constant index in a loop that  *)
(* stores to the array at the index i.                                     *)
Aliased ==
  Filled \o <<While(B("Lt", i, n), <<Set(s, B("Add", s, A(N(0)))), Set(A(i), N(5)), Inc(i, 1)>>)>>

(* The value that the next round tests is computed in the loop's header.   *)
Rotated_ ==
  <<While(N(1), <<Inc(i, 1), IfElse(B("Le", i, n), <<Put(N(7))>>, <<Ret(N(3))>>)>>)>>

(* A comparison whose bound leaves the word when the offset is moved to it.*)
Normalised == <<If(B("Lt", B("Sub", n, N(5)), N(2^(WordBits - 1) - 1)), <<Put(n)>>)>>

(* A read whose index only the guard keeps within the array.               *)
Guarded ==
  Filled \o <<While(B("Lt", i, N(2)), <<If(B("Ge", n, N(0)), <<Set(s, B("Add", s, A(n)))>>), Inc(i, 1)>>)>>

(* A recursion that need not end, called in a loop that is not entered.    *)
Recursive ==
  <<While(B("Lt", i, n), <<Set(s, B("Add", s, Call("f", n))), Inc(i, 1)>>)>>

Recurses == Fun(<<"x">>, <<If(B("Eq", x, N(0)), <<Ret(N(0))>>), Ret(B("Add", Call("f", B("Sub", x, N(1))), N(2)))>>)

MCInit ==
  /\ CASE Family = "passes" ->
           CountingLoops \/ OtherLoops \/ GuardedLoops \/ FunctionCalls \/ Branches
      [] Family = "aliased" -> Given(Program(Main(Aliased \o <<Ret(s)>>)), 1)
      [] Family = "rotated" -> Given(Program(Main(Rotated_ \o <<Ret(s)>>)), 1)
      [] Family = "normalised" -> Given(Program(Main(Normalised \o <<Ret(s)>>)), 1)
      [] Family = "guarded" -> Given(Program(Main(Guarded \o <<Ret(s)>>)), 1)
      [] Family = "recursive" ->
           Given(Program(("f" :> Recurses) @@ Main(Recursive \o <<Ret(s)>>)), 1)
  /\ Start

MCSpec == MCInit /\ [][RunPass]_vars

Inputs == {<<0>>, <<2>>, <<-1, 3>>}

(* Every pass keeps what a program does, whatever the library's getint     *)
(* reads: see SameBehaviour.                                               *)
Behaves == SameBehaviour(Inputs)
=============================================================================
