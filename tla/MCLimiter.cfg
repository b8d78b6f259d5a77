SPECIFICATION Spec
CONSTANTS
  r1 = r1
  r2 = r2
  k1 = k1
  Reqs = {r1, r2}
  Keys = {k1}
  NoKey = NoKey
  KeyOf <- MCKeyOf
  LimitChoices <- MCLimits
  Estimates <- MCEstimates
  MaxWindow = 1
INVARIANTS
  TypeOK
  SlotAccounting
PROPERTIES
  WindowCap
  ImplementsPool
