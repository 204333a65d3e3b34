------------------------------- MODULE IRRun -------------------------------
(***************************************************************************)
(* What the functions of a module do.  A program maps function names to    *)
(* functions of IR; calls of other names are calls of the library, and     *)
(* with the result and the globals they are what can be seen from outside. *)
(* The k-th call of the library returns the k-th input.  Integers wrap at  *)
(* WordBits bits; the value of memory nobody wrote, and what is computed   *)
(* from it, is Undef, and a program whose branches, calls, addresses,      *)
(* stores to globals or result depend on it has no defined behaviour.  Nor *)
(* has one that reads or writes outside its objects, which may trap.       *)
(***************************************************************************)
EXTENDS IR, TLC

CONSTANTS
  Fuel,        (* blocks that a call may execute                           *)
  MaxDepth     (* calls that may be active                                 *)

ASSUME RunAssumption == Fuel \in Nat /\ MaxDepth \in Nat

(* Values at run time: integers, addresses and Undef.                      *)
Int_(n) == <<"int", Word(n), 0>>
Addr(obj, off) == <<"addr", obj, off>>
Undef == <<"undef", 0, 0>>

Lookup(fn, x) == IF x \in DOMAIN fn THEN fn[x] ELSE Undef

(* Globals start as 0.                                                     *)
IsGlobal(a) == a[1] = "addr" /\ a[2][1] = 0
(* The object of a has a place at its offset.                              *)
Valid(s, a) ==
  /\ a[1] = "addr"
  /\ a[3] \in 0..((IF IsGlobal(a) THEN s.sizes[a[2][2]] ELSE a[2][3]) - 1)

Contents(mem, a) == IF a \in DOMAIN mem THEN mem[a] ELSE IF IsGlobal(a) THEN Int_(0) ELSE Undef

Eval(s, v) ==
  CASE v.k = "const" -> Int_(v.n)
    [] v.k = "inst" -> Lookup(s.env, v.n)
    [] v.k = "arg" -> s.args[v.n]
    [] v.k = "glob" -> Addr(<<0, v.n>>, 0)

Bad(s) == [s EXCEPT !.st = "undefined"]

Sets(s, m, v) == [s EXCEPT !.env = (m.id :> v) @@ @]

Input(s) == Int_(s.inp[(Len(s.out) % Len(s.inp)) + 1])

RECURSIVE CallOf(_, _, _, _)

(* One instruction that is no terminator and no phi; x and y its operands. *)
Exec(prog, s, m) ==
  LET x == Eval(s, m.ops[1])
      y == Eval(s, m.ops[2])
      args == [j \in DOMAIN m.ops |-> Eval(s, m.ops[j])]
  IN  CASE s.st # "run" -> s
        [] m.op = "Alloca" -> Sets(s, m, Addr(<<s.depth, m.id, m.ops[1].n>>, 0))
        [] m.op = "Gep" -> Sets(s, m, IF x[1] = "addr" /\ y[1] = "int"
                                      THEN Addr(x[2], x[3] + y[2]) ELSE Undef)
        [] m.op = "Load" -> IF Valid(s, x) THEN Sets(s, m, Contents(s.mem, x)) ELSE Bad(s)
        [] m.op = "Store" ->
             IF ~Valid(s, y) \/ (IsGlobal(y) /\ x = Undef) THEN Bad(s)
             ELSE [s EXCEPT !.mem = (y :> x) @@ @]
        [] m.op = "Select" ->
             IF x = Undef THEN Sets(s, m, Undef)
             ELSE Sets(s, m, IF x[2] # 0 THEN y ELSE Eval(s, m.ops[3]))
        [] m.op = "Not" -> Sets(s, m, IF x = Undef THEN x ELSE Int_(foldArith("Not", x[2], 0)))
        [] m.op \in Ariths \cup Cmps ->
             Sets(s, m, IF x[1] = "int" /\ y[1] = "int"
                        THEN Int_(foldArith(m.op, x[2], y[2])) ELSE Undef)
        [] m.op = "Call" ->
             IF m.to[1] \in DOMAIN prog
             THEN LET r == CallOf(prog, m.to[1], args, s)
                  IN  [s EXCEPT !.st = IF r.st = "done" THEN "run" ELSE r.st,
                                !.mem = r.mem, !.out = r.out,
                                !.env = (m.id :> r.ret) @@ @]
             ELSE IF Undef \in Range(args) THEN Bad(s)
             ELSE [s EXCEPT !.out = Append(@, <<m.to[1], args>>),
                            !.env = (m.id :> Input(s)) @@ @]

Go(s, b, n) == [s EXCEPT !.b = n, !.prev = b.name]

(* affine.for with the counter at v.                                       *)
Count(f, s, b, m, v) ==
  LET slot == Eval(s, m.ops[1])
      ub == Eval(s, m.ops[3])
      set == [s EXCEPT !.mem = (slot :> v) @@ @]
  IN  IF Undef \in {v, ub} THEN Bad(s)
      ELSE IF v[2] < ub[2] THEN Go(set, b, EntryOf(f, m.id, "body"))
      ELSE Go(set, b, m.to[1])

Terminate(f, s, b) ==
  LET m == Term(b)
      x == Eval(s, m.ops[1])
  IN  CASE s.st # "run" -> s
        [] m.op = "Br" -> Go(s, b, m.to[1])
        [] m.op \in {"CondBr", "ScfCondition"} ->
             IF x = Undef THEN Bad(s) ELSE Go(s, b, m.to[IF x[2] # 0 THEN 1 ELSE 2])
        [] m.op = "ScfWhile" -> Go(s, b, EntryOf(f, m.id, "cond"))
        [] m.op = "ScfYield" -> Go(s, b, EntryOf(f, b.in[1], "cond"))
        [] m.op = "AffineFor" -> Count(f, s, b, m, Eval(s, m.ops[2]))
        [] m.op = "AffineYield" ->
             LET loop == LoopOf(f, b)
                 v == Contents(s.mem, Eval(s, loop.ops[1]))
             IN  Count(f, s, b, loop, IF v = Undef THEN v ELSE Int_(v[2] + loop.ops[4].n))
        [] m.op = "Ret" -> [s EXCEPT !.st = "done",
                                     !.ret = IF m.ops = <<>> THEN Undef ELSE x]

(* A phi reads the operand of the edge taken, before any phi is written.   *)
EnterBlock(s, b) ==
  LET phis == Range(Phis(b))
      in(m) == LET js == {j \in DOMAIN m.to : m.to[j] = s.prev}
               IN  IF js = {} THEN Undef ELSE Eval(s, m.ops[Min(js)])
  IN  [s EXCEPT !.env = [n \in {m.id : m \in phis} |->
                           in(CHOOSE m \in phis : m.id = n)] @@ @]

RunBlock(prog, f, s) ==
  LET b == f[At(f, s.b)]
      body == SelectSeq(Front(b.ins), LAMBDA m : m.op # "Phi")
  IN  IF s.st # "run" THEN s
      ELSE Terminate(f, FoldLeft(LAMBDA t, m : Exec(prog, t, m), EnterBlock(s, b), body), b)

(* Runs function n; s gives the depth, the memory and the calls so far.    *)
CallOf(prog, n, args, s) ==
  LET f == prog[n]
      start == [st |-> IF s.depth < MaxDepth THEN "run" ELSE "deep",
                b |-> Entry(f), prev |-> 0, depth |-> s.depth + 1, args |-> args,
                env |-> <<>>, mem |-> s.mem, inp |-> s.inp, out |-> s.out, sizes |-> s.sizes, ret |-> Undef]
      after[k \in 0..Fuel] ==
        IF k = 0 THEN {start} ELSE {RunBlock(prog, f, t) : t \in after[k - 1]}
  IN  CHOOSE t \in after[Fuel] : TRUE

(* What is seen of main when the library returns inp; sizes has the number *)
(* of elements of each global.                                             *)
Outcome(prog, sizes, inp) ==
  LET s == CallOf(prog, "main", <<>>,
                  [depth |-> 0, mem |-> <<>>, inp |-> inp, out |-> <<>>, sizes |-> sizes])
      seen == {a \in DOMAIN s.mem : IsGlobal(a) /\ s.mem[a] # Int_(0)}
  IN  [st |-> s.st, out |-> s.out, ret |-> s.ret, globs |-> {<<a, s.mem[a]>> : a \in seen}]
=============================================================================
