------------------------------- MODULE Source -------------------------------
(***************************************************************************)
(* What a SysY program means: the reference for the mid-end.  An           *)
(* expression or a statement is a tuple that starts with its kind,         *)
(*   num n, var x, at x e, bin op l r, neg e, not e, and l r, or l r,      *)
(*   call f args, ref x e, seq ss e; block ss, decl x size, set lval e,    *)
(*   do e, if c s, ifelse c s t, while c s, break, continue, ret e         *)
(* where a decl with a size declares an array and one with 0 an int, ref   *)
(* is the array x from an element on and seq runs statements first.  A     *)
(* function has parameters and a body; a unit maps names to functions and  *)
(* has the names of the globals.  Calls of other names are calls of the    *)
(* library.                                                                *)
(*                                                                         *)
(* Signed overflow, division by zero, the use of an uninitialised object   *)
(* and an index outside its array have no defined meaning.                 *)
(***************************************************************************)
EXTENDS IRRun

CONSTANT MaxSteps        (* iterations that a loop may make                *)

ASSUME StepsAssumption == MaxSteps \in Nat

(* s.st is "run", "break", "continue" or, after a return, "done"; a meaning *)
(* is not followed past MaxSteps ("long") or MaxDepth ("deep").            *)
With(s, v) == [s |-> s, v |-> v]
Fail(s) == With(Bad(s), Int_(0))

InWord(x) == x = Word(x)

(* An object has a place in memory, the elements of its array and, for a   *)
(* parameter that is an array, the element it starts at.                   *)
Object(s, x) == s.names[x]
ObjectAt(obj, size) == [obj |-> obj, size |-> size, off |-> 0]

RECURSIVE Value_(_, _, _)
RECURSIVE Values(_, _, _)
RECURSIVE Do(_, _, _)
RECURSIVE DoAll(_, _, _)
RECURSIVE DoWhile(_, _, _, _)
RECURSIVE Apply(_, _, _, _)

(* The address of an lvalue: object and index.                             *)
ElementAt(o, i) ==
  IF i.s.st = "run" /\ o.off + i.v[2] \notin 0..(o.size - 1) THEN Fail(i.s)
  ELSE With(i.s, Addr(o.obj, o.off + i.v[2]))

Place(u, s, e) ==
  IF e[1] = "var" THEN With(s, Addr(Object(s, e[2]).obj, 0))
  ELSE ElementAt(Object(s, e[2]), Value_(u, s, e[3]))

Loaded_(p) ==
  LET v == Contents(p.s.mem, p.v)
  IN  IF p.s.st = "run" /\ v = Undef THEN Fail(p.s) ELSE With(p.s, v)

Value_(u, s, e) ==
  LET x == Value_(u, s, e[2])
      l == Value_(u, s, e[3])
      r == Value_(u, l.s, e[4])
      y == Value_(u, x.s, e[3])
      truth(p) == Int_(Truth(p))
  IN  CASE s.st # "run" -> With(s, Int_(0))
        [] e[1] = "num" -> With(s, Int_(e[2]))
        [] e[1] \in {"var", "at"} ->
             Loaded_(Place(u, s, e))
        [] e[1] = "neg" -> IF InWord(-x.v[2]) THEN With(x.s, Int_(-x.v[2])) ELSE Fail(x.s)
        [] e[1] = "not" -> With(x.s, truth(x.v[2] = 0))
        [] e[1] = "and" -> IF x.v[2] = 0 THEN With(x.s, truth(FALSE))
                           ELSE With(y.s, truth(y.v[2] # 0))
        [] e[1] = "or" -> IF x.v[2] # 0 THEN With(x.s, truth(TRUE))
                          ELSE With(y.s, truth(y.v[2] # 0))
        [] e[1] = "bin" ->
             IF r.s.st # "run" THEN r
             ELSE IF \/ e[2] \in {"SDiv", "SRem"} /\ r.v[2] = 0
                     \/ ~InWord(Exact(e[2], l.v[2], r.v[2])) THEN Fail(r.s)
             ELSE With(r.s, Int_(Exact(e[2], l.v[2], r.v[2])))
        [] e[1] = "ref" ->
             LET p == Place(u, s, e)
             IN  With(p.s, <<"ref", [Object(s, e[2]) EXCEPT !.off = p.v[3]]>>)
        [] e[1] = "seq" ->
             LET t == Value_(u, DoAll(u, s, e[2]), e[3])
             IN  With([t.s EXCEPT !.names = s.names], t.v)
        [] e[1] = "call" ->
             LET a == Values(u, s, e[3])
             IN  IF a.s.st # "run" THEN With(a.s, Int_(0))
                 ELSE IF e[2] \in DOMAIN u.funcs THEN Apply(u, e[2], a.v, a.s)
                 ELSE With([a.s EXCEPT !.out = Append(@, <<e[2], a.v>>)], Input(a.s))

Values(u, s, es) ==
  IF es = <<>> THEN With(s, <<>>)
  ELSE LET x == Value_(u, s, es[1])
           rest == Values(u, x.s, Tail(es))
       IN  With(rest.s, <<x.v>> \o rest.v)

DoAll(u, s, ss) ==
  IF s.st # "run" \/ ss = <<>> THEN s ELSE DoAll(u, Do(u, s, ss[1]), Tail(ss))

AfterBody(u, t, k, b) ==
  CASE b.st = "break" -> [b EXCEPT !.st = "run"]
    [] b.st \in {"run", "continue"} -> DoWhile(u, [b EXCEPT !.st = "run"], t, k - 1)
    [] OTHER -> b

AfterTest(u, t, k, c) ==
  CASE c.s.st # "run" \/ c.v[2] = 0 -> c.s
    [] k = 0 -> [c.s EXCEPT !.st = "long"]
    [] OTHER -> AfterBody(u, t, k, Do(u, c.s, t[3]))

DoWhile(u, s, t, k) == AfterTest(u, t, k, Value_(u, s, t[2]))

Stored(p, v) == IF v.s.st # "run" THEN v.s ELSE [v.s EXCEPT !.mem = (p.v :> v.v) @@ @]
DoSet(u, p, e) == Stored(p, Value_(u, p.s, e))

(* A statement that starts with the value c.                               *)
DoWith(u, c, t) ==
  CASE t[1] = "do" \/ c.s.st # "run" -> c.s
    [] t[1] = "ret" -> [c.s EXCEPT !.st = "done", !.ret = c.v]
    [] t[1] \in {"if", "ifelse"} ->
         IF c.v[2] # 0 THEN Do(u, c.s, t[3]) ELSE IF t[1] = "ifelse" THEN Do(u, c.s, t[4]) ELSE c.s

Do(u, s, t) ==
  CASE s.st # "run" -> s
    [] t[1] = "block" -> [DoAll(u, s, t[2]) EXCEPT !.names = s.names]
    [] t[1] = "decl" ->
         [s EXCEPT !.names = (t[2] :> ObjectAt(<<1, s.fresh>>, t[3])) @@ @,
                   !.fresh = @ + 1]
    [] t[1] = "set" -> DoSet(u, Place(u, s, t[2]), t[3])
    [] t[1] = "while" -> DoWhile(u, s, t, MaxSteps)
    [] t[1] \in {"break", "continue"} -> [s EXCEPT !.st = t[1]]
    [] OTHER -> DoWith(u, Value_(u, s, t[2]), t)

(* Back in the caller s from a call that ended as out.                     *)
Returned(s, out) ==
  With([out EXCEPT !.st = IF @ = "done" THEN "run" ELSE @,
                   !.names = s.names, !.depth = s.depth, !.ret = s.ret], out.ret)

(* A call: parameters are fresh objects, but for the arrays; falling off   *)
(* the end returns 0.                                                      *)
Apply(u, n, args, s) ==
  LET f == u.funcs[n]
      k == Len(f.params)
      objs == [x \in Range(f.params) |->
                 LET i == CHOOSE i \in 1..k : f.params[i] = x
                 IN  IF args[i][1] = "ref" THEN args[i][2] ELSE ObjectAt(<<1, s.fresh + i>>, 0)]
      mem == [a \in {Addr(<<1, s.fresh + i>>, 0) : i \in 1..k} |-> args[a[2][2] - s.fresh]]
      in == [s EXCEPT !.names = objs @@ u.globals, !.mem = mem @@ @,
                      !.fresh = @ + k + 1, !.depth = @ + 1, !.ret = Int_(0)]
  IN  IF s.depth >= MaxDepth THEN With([s EXCEPT !.st = "deep"], Int_(0))
      ELSE Returned(s, Do(u, in, f.body))

(* What is seen of main: the form of Outcome.                              *)
SeenOf(r) ==
  LET seen == {a \in DOMAIN r.s.mem : IsGlobal(a) /\ r.s.mem[a] # Int_(0)}
  IN  [st |-> IF r.s.st = "run" THEN "done" ELSE r.s.st, out |-> r.s.out, ret |-> r.v,
       globs |-> {<<a, r.s.mem[a]>> : a \in seen}]

Meaning(u, inp) ==
  LET s == [st |-> "run", names |-> u.globals, mem |-> <<>>, inp |-> inp, out |-> <<>>,
            ret |-> Int_(0), fresh |-> 1, depth |-> 0]
  IN  SeenOf(Apply(u, "main", <<>>, s))
=============================================================================
