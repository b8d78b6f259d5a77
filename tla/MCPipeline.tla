----------------------------- MODULE MCPipeline -----------------------------
(* Two requests of one key and one tenant.                                   *)
EXTENDS Pipeline
CONSTANTS r1, r2, k1, tenant

MCKeyOf == [r \in Reqs |-> k1]
MCScopesOf == [r \in Reqs |-> {tenant}]
MCLimits == { [rpm |-> 1, tpm |-> 0, concurrency |-> 1], [rpm |-> 0, tpm |-> 1, concurrency |-> 2] }
MCOnePlan == { [rpm |-> 0, tpm |-> 0, concurrency |-> 1] }
=============================================================================
