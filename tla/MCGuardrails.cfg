SPECIFICATION Spec
CONSTANTS
  None = None
  Depth = 2
  Rows <- MCRows
  Requests = {r1}
  Ttl = 2
INVARIANTS
  Stale
PROPERTIES
  BlockingLands
