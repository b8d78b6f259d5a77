------------------------------- MODULE MCKeys -------------------------------
(* One key, one plan, two requests and two handlers at once.                *)
EXTENDS Keys
CONSTANTS m1, m2
MCPlanRows == [models : {{}, {m1}}, rate : {1}]
MCLists    == {{}, {m1}}
=============================================================================
