---------------------------- MODULE MCGuardrails ----------------------------
(* One request after another under a global policy and that of its key.     *)
EXTENDS Guardrails
MCRows == {[enabled |-> TRUE, rule |-> "block"], [enabled |-> TRUE, rule |-> "pass"],
           [enabled |-> FALSE, rule |-> "block"]}
=============================================================================
