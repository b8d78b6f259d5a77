----------------------------- MODULE MCLimiter -----------------------------
(* Two goroutines on one key; a plan that limits everything, and one with   *)
(* another slot limit and no token limit.                                   *)
EXTENDS Limiter
CONSTANTS r1, r2, k1

MCKeyOf == [r \in Reqs |-> k1]
MCLimits ==
  { [rpm |-> 2, tpm |-> 3, concurrency |-> 1],
    [rpm |-> 1, tpm |-> 0, concurrency |-> 2] }
MCEstimates == {-1, 2}
============================================================================
