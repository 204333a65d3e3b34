------------------------------ MODULE CallOpt ------------------------------
(***************************************************************************)
(* The passes over calls at the cf layer: inline-small                     *)
(* (src/midend/pass/OptCall.cpp), inline-general (OptInline.cpp, without   *)
(* the specialisation of constants that only -O2 asks for) and             *)
(* tail-rec-elim (OptCf.cpp).                                              *)
(***************************************************************************)
EXTENDS Effects

(* The instruction before which f[i] is split, and its place.              *)
CallSites(f) == SelectSeq(AllIns(f), LAMBDA m : m.op = "Call")

PlaceOf(b, m) == CHOOSE j \in DOMAIN b.ins : b.ins[j] = m

(* A callee's value, where its arguments are args and its ids start at id. *)
Resolved(v, args, id) ==
  CASE v.k = "arg" -> args[v.n]
    [] v.k = "inst" -> Res(id + v.n)
    [] OTHER -> v

Cloned(m, args, id) ==
  [m EXCEPT !.id = id + @, !.ops = [j \in DOMAIN @ |-> Resolved(@[j], args, id)]]

----------------------------------------------------------------------------
(* A leaf of one block without slots is copied to where it is called.      *)
inlineableSmall(prog, caller, m) ==
  /\ m.to[1] \in DOMAIN prog \ {caller}
  /\ LET g == prog[m.to[1]]
     IN  /\ Len(g) = 1 /\ Term(g[1]).op = "Ret" /\ Len(g[1].ins) - 1 <= 20
         /\ \A u \in Range(g[1].ins) : u.op \notin {"Call", "Alloca"}

doInlineSmall(prog, caller, m) ==
  LET f == prog[caller]
      g == prog[m.to[1]]
      i == Owner(f, m.id)
      at == PlaceOf(f[i], m)
      id == FreshId(f)
      body == Front(g[1].ins)
      copy == [k \in DOMAIN body |-> Cloned(body[k], m.ops, id)]
      spliced == [f EXCEPT ![i].ins = SubSeq(@, 1, at - 1) \o copy \o SubSeq(@, at + 1, Len(@))]
  IN  replaceAllUses(spliced, Res(m.id), Resolved(Term(g[1]).ops[1], m.ops, id))

(* Until no call is left to inline: what the code counts per function is   *)
(* counted anew in each of its rounds, and stops none.                     *)
RECURSIVE inlineSmall(_)
inlineSmall(prog) ==
  LET sites(n) == SelectSeq(CallSites(prog[n]), LAMBDA m : inlineableSmall(prog, n, m))
      callers == {n \in DOMAIN prog : sites(n) # <<>>}
      n == CHOOSE n \in callers : TRUE
  IN  IF callers = {} THEN prog
      ELSE inlineSmall([prog EXCEPT ![n] = doInlineSmall(prog, n, sites(n)[1])])

----------------------------------------------------------------------------
calleeCost(f) == Len(AllIns(f))

(* The functions that calls of n reach; n itself if it is recursive.       *)
ReachedBy(prog, n) == UNION {Runs(prog, c) : c \in Callees(prog, n)}

(* st has what was computed before the first inlining, reach and sites,    *)
(* and what each caller has grown by.                                      *)
eligible(prog, st, caller, m) ==
  LET callee == m.to[1]
      rare == st.sites[callee] \in 1..2
  IN  /\ callee \in DOMAIN prog \ {caller, "main"}
      /\ {callee, caller} \cap st.reach[callee] = {}
      /\ calleeCost(prog[callee]) <= IF rare THEN 320 ELSE 64
      /\ \E u \in Range(AllIns(prog[callee])) : u.op = "Ret"
      /\ st.grown[caller] + calleeCost(prog[callee]) <= IF rare THEN 1400 ELSE 400

(* The block of the call is split after it, the callee's blocks go between *)
(* and return to the second half, where their results meet.                *)
doInline(f, g, m) ==
  LET i == Owner(f, m.id)
      at == PlaceOf(f[i], m)
      id == FreshId(f)
      name == FreshName(f)
      after == name + Max(Names(g)) + 1
      back(u) == Ins("Br", id + u.id, <<>>, <<after>>)
      moved(u) == IF u.op = "Call" THEN u
                  ELSE [u EXCEPT !.to = [j \in DOMAIN @ |-> name + @[j]]]
      clone(b) == Blk(name + b.name, Root,
                      [j \in DOMAIN b.ins |-> IF b.ins[j].op = "Ret" THEN back(b.ins[j])
                                              ELSE moved(Cloned(b.ins[j], m.ops, id))])
      rets == SelectSeq(g, LAMBDA b : Term(b).op = "Ret")
      value(b) == Resolved(Term(b).ops[1], m.ops, id)
      next == id + FreshId(g)
      phi == Ins("Phi", next, [k \in DOMAIN rets |-> value(rets[k])],
                 [k \in DOMAIN rets |-> name + rets[k].name])
      one == Len(rets) = 1
      rekeyed == MapIns(f, LAMBDA u : ReKeyed(u, f[i].name, after))
      head == Blk(f[i].name, Root, Append(SubSeq(rekeyed[i].ins, 1, at - 1),
                                          Ins("Br", next + 1, <<>>, <<name + Entry(g)>>)))
      tail == Blk(after, Root, (IF one THEN <<>> ELSE <<phi>>) \o
                               SubSeq(f[i].ins, at + 1, Len(f[i].ins)))
      spliced == SubSeq(rekeyed, 1, i - 1) \o <<head>> \o [k \in DOMAIN g |-> clone(g[k])] \o
                 <<tail>> \o SubSeq(rekeyed, i + 1, Len(f))
  IN  replaceAllUses(spliced, Res(m.id), IF one THEN value(rets[1]) ELSE Res(next))

RECURSIVE InlineAll(_, _)
InlineAll(prog, st) ==
  LET sites(n) == SelectSeq(CallSites(prog[n]), LAMBDA m : eligible(prog, st, n, m))
      callers == {n \in DOMAIN prog : sites(n) # <<>>}
      n == CHOOSE n \in callers : TRUE
      m == sites(n)[1]
  IN  IF callers = {} THEN prog
      ELSE InlineAll([prog EXCEPT ![n] = doInline(@, prog[m.to[1]], m)],
                     [st EXCEPT !.grown[n] = @ + calleeCost(prog[m.to[1]])])

inlineGeneral(prog) ==
  LET calls(n, c) == Len(SelectSeq(CallSites(prog[n]), LAMBDA m : m.to[1] = c))
      called == UNION {Callees(prog, n) : n \in DOMAIN prog}
      sites(c) == FoldSet(LAMBDA n, k : k + calls(n, c), 0, DOMAIN prog)
  IN  InlineAll(prog, [reach |-> [n \in DOMAIN prog |-> ReachedBy(prog, n)],
                       sites |-> [c \in called |-> sites(c)],
                       grown |-> [n \in DOMAIN prog |-> 0]])

----------------------------------------------------------------------------
(* A call of n by itself that is returned at once.                         *)
TailSite(n, b) ==
  /\ Len(b.ins) > 1 /\ Term(b).op = "Ret"
  /\ LET m == b.ins[Len(b.ins) - 1]
     IN  m.op = "Call" /\ m.to[1] = n /\ m.ops # <<>> /\ Term(b).ops = <<Res(m.id)>>

(* The arguments live in slots that a block before the old entry fills     *)
(* once; the entry reads them, and the calls write them and jump there.    *)
tailRecElim(n, f) ==
  LET sites == {i \in DOMAIN f : TailSite(n, f[i])}
      call(b) == b.ins[Len(b.ins) - 1]
      k == Len(call(f[Min(sites)]).ops)
      id == FreshId(f)
      slot(p) == Res(id + p)
      pre == Blk(FreshName(f), Root,
                 FlattenSeq([p \in 1..k |-> <<Ins("Alloca", id + p, <<Const(1)>>, <<>>),
                                              Ins("Store", id + k + p, <<Arg(p), slot(p)>>, <<>>)>>])
                 \o <<Ins("Br", id, <<>>, <<Entry(f)>>)>>)
      loads == [p \in 1..k |-> Ins("Load", id + 2 * k + p, <<slot(p)>>, <<>>)]
      reading(m) == [m EXCEPT !.ops = [j \in DOMAIN @ |->
                       IF @[j].k = "arg" THEN Res(id + 2 * k + @[j].n) ELSE @[j]]]
      read == MapIns(f, reading)
      again(i) == [p \in 1..k |-> Ins("Store", id + (2 + i) * k + p,
                                      <<call(read[i]).ops[p], slot(p)>>, <<>>)]
      looped == [i \in DOMAIN f |->
                   IF i \notin sites THEN read[i]
                   ELSE [read[i] EXCEPT !.ins = Front(Front(@)) \o again(i) \o
                           <<Ins("Br", Term(f[i]).id, <<>>, <<Entry(f)>>)>>]]
  IN  IF sites = {} THEN f
      ELSE <<pre>> \o [looped EXCEPT ![1].ins = loads \o @]
=============================================================================
