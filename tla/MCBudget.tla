------------------------------ MODULE MCBudget ------------------------------
(* One request of a key and its tenant, one of the tenant alone; a scope has *)
(* no budget, or one that only alerts and one that blocks after one billed   *)
(* request.                                                                  *)
EXTENDS Budget
CONSTANTS r1, r2, key, tenant

MCScopesOf == [r \in Reqs |-> IF r = r1 THEN <<key, tenant>> ELSE <<tenant>>]
MCCost == [micros |-> 1, tokens |-> 1]
Limit(l, t, h) == [limit |-> l, tokens |-> t, hard |-> h]
MCMaxUsed == [buffered \in BOOLEAN |-> IF buffered THEN 1 ELSE 3]
MCDefs == { <<>>, <<Limit(1, 1, FALSE), Limit(1, 0, TRUE)>> }
=============================================================================
