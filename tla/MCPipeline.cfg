SPECIFICATION Spec
CONSTANTS
  r1 = r1
  r2 = r2
  k1 = k1
  tenant = tenant
  Reqs = {r1, r2}
  Keys = {k1}
  NoKey = NoKey
  KeyOf <- MCKeyOf
  LimitChoices <- MCLimits
  Estimates = {1}
  MaxWindow = 0
  Scopes = {tenant}
  ScopesOf <- MCScopesOf
  MaxAttempts = 2
  MaxRetries = 1
INVARIANTS
  OneRow
  SlotReturned
  SlotWhileUpstream
PROPERTIES
  EveryRequestEnds
CHECK_DEADLOCK FALSE
