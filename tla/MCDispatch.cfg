SPECIFICATION Spec
CONSTANTS
  r1 = r1
  r2 = r2
  a1 = a1
  a2 = a2
  Reqs = {r1, r2}
  Accounts = {a1, a2}
  Probed = {a1}
  Priority <- MCPriority
  StickyLimit = 1
  BackoffBase = 1
  BackoffMax = 2
  BackoffMaxLevel = 1
  TransientCooldown = 1
  LongCooldown = 1
  RetryAfters = {0}
  MaxTime = 2
  MaxPlans = 2
SYMMETRY MCSymmetry
INVARIANTS
  TypeOK
  LevelCovered
PROPERTIES
  PlanAvoids
  PlanComplete
