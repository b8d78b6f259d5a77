SPECIFICATION Spec
CONSTANTS
  r1 = r1
  r2 = r2
  key = key
  tenant = tenant
  Reqs = {r1, r2}
  Scopes = {key, tenant}
  ScopesOf <- MCScopesOf
  DefChoices <- MCDefs
  Estimate = 0
  Cost <- MCCost
  TTL = 1
  MaxTime = 1
  MaxUsed <- MCMaxUsed
INVARIANTS
  TypeOK
  Shut
  OvershootBounded
  
