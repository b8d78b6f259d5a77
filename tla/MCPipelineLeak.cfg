SPECIFICATION Spec
CONSTANTS
  r1 = r1
  r2 = r2
  k1 = k1
  tenant = tenant
  Reqs = {r1, r2}
  Keys = {k1}
  NoKey = NoKey
  KeyOf <- MCKeyOf
  LimitChoices <- MCOnePlan
  Estimates = {1}
  MaxWindow = 0
  Scopes = {tenant}
  ScopesOf <- MCScopesOf
  MaxAttempts = 2
  MaxRetries = 1
INVARIANT
  ReservationsSettled
CHECK_DEADLOCK FALSE
