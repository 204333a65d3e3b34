------------------------------- MODULE MIRRun -------------------------------
(***************************************************************************)
(* What a machine function does, seen from outside: the stores, calls,     *)
(* branches and the return it executes, with the values they use.  A value *)
(* is a term <<op, number, arguments>> that says how it was computed, so   *)
(* that two functions agree for all inputs if they agree here.  Loads and  *)
(* call results are told apart by the events before them.  An Op of the    *)
(* menus carries its operation in imm.                                     *)
(***************************************************************************)
EXTENDS MIR

CONSTANTS
  Oracles,      (* which way branches go: functions from 0..2 to BOOLEAN   *)
  Horizon       (* events that are compared                                *)

(* The one Op whose operands may be swapped.                               *)
Sum == 4

Commutes(m) == m.op = "Op" /\ m.imm = Sum

(* The instruction without the symbol it may carry: an access of a global  *)
(* is one through its address.                                             *)
Kind(m) == CASE m.op = "LwG" -> "Lw" [] m.op = "SwG" -> "Sw" [] OTHER -> m.op

Read(m, s) ==
  [k \in DOMAIN m.use |-> s.env[m.use[k]]]
    \o (IF Kind(m) = m.op THEN <<>> ELSE <<<<"LeaG", m.imm, <<>>>>>>)

(* The term an instruction computes, after the events of s.                *)
Term(m, s) ==
  <<Kind(m), IF Kind(m) \in {"Lw", "Call"} THEN Len(s.events) ELSE m.imm,
    IF Commutes(m) THEN Range(Read(m, s)) ELSE Read(m, s)>>

IsEvent(m) == Kind(m) \in {"Sw", "Call", "Br", "Ret"}

(* One instruction of s.  A call leaves nothing known in the registers of  *)
(* lost; a branch goes by the oracle and the number of events.             *)
Step(g, lost, oracle, s) ==
  LET m    == g[s.b][s.k]
      t    == Term(m, s)
      seen == IF IsEvent(m) THEN Append(s.events, <<Kind(m), t[3]>>) ELSE s.events
      kept == IF m.op # "Call" THEN s.env
              ELSE [r \in DOMAIN s.env |->
                      IF r \in lost THEN <<"lost", r, <<>>>> ELSE s.env[r]]
      env  == IF m.dst = NoReg THEN kept
              ELSE [kept EXCEPT ![m.dst] = IF m.op = "Move" THEN t[3][1] ELSE t]
      goes == m.op = "Jmp" \/ (m.op = "Br" /\ oracle[Len(s.events) % 3])
  IN  IF s.b > Len(g) \/ Len(s.events) = Horizon \/ s.over THEN s
      ELSE IF s.k > Len(g[s.b]) THEN [s EXCEPT !.b = @ + 1, !.k = 1]
      ELSE [b |-> IF goes THEN m.imm ELSE s.b, k |-> IF goes THEN 1 ELSE s.k + 1,
            env |-> env, events |-> seen, over |-> m.op = "Ret"]

(* The events of a run, as a set of one sequence.                          *)
Events(g, regs, lost, oracle) ==
  LET size == Len(FlattenSeq(g)) + Len(g)
      after[n \in 0..(size * Horizon)] ==
        IF n = 0 THEN {[b |-> 1, k |-> 1, events |-> <<>>, over |-> FALSE,
                        env |-> [r \in regs |-> <<"input", r, <<>>>>]]}
        ELSE {Step(g, lost, oracle, s) : s \in after[n - 1]}
  IN  {s.events : s \in after[size * Horizon]}

Behaviour(g, regs, lost) ==
  [o \in Oracles |-> Events(g, regs, lost, o)]
============================================================================
