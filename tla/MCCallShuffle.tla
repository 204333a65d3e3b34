--------------------------- MODULE MCCallShuffle ---------------------------
(* All calls with up to MaxArgs arguments, every source register of the    *)
(* file but the scratch, in an ABI with few argument registers.            *)
EXTENDS CallShuffle

CONSTANT MaxArgs

MCCalls == UNION {[1..n -> Arg] : n \in 0..MaxArgs}
============================================================================
