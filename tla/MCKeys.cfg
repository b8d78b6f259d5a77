SPECIFICATION Spec
CONSTANTS
  m1 = m1
  m2 = m2
  None = None
  Keys = {k1}
  Plans = {p1}
  Models = {m1, m2}
  PlanRows <- MCPlanRows
  Lists <- MCLists
  Requests = {r1, r2}
  Admins = {a1, a2}
  Ttl = 1
  AuthMax = 1
INVARIANTS
  RevokedUnlessOutrun
  RestrictedStays
  FailsOnlyIfCrossed
PROPERTIES
  RevocationLands
