---------------------------- MODULE MCDispatch ----------------------------
(* Two requests over two accounts of one provider; an upstream names no     *)
(* reset time, or one beyond every local cooldown but the longest.          *)
EXTENDS Dispatch
CONSTANTS r1, r2, a1, a2

MCPriority == <<a1, a2>>
MCSymmetry == Permutations(Reqs)
============================================================================
