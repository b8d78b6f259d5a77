SPECIFICATION Spec
CONSTANTS
  h1 = h1
  h2 = h2
  h3 = h3
  pump = pump
  Recs = {h1, h2, h3, pump}
  Detached = {pump}
  QueueSize = 2
  BatchSize = 2
INVARIANTS
  Conservation
  AwaitedNeverPanics
PROPERTIES
  EventuallyWritten
CHECK_DEADLOCK FALSE
