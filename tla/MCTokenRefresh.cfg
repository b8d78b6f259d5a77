SPECIFICATION Spec
CONSTANTS
  request = request
  keepalive = keepalive
  test = test
  NoOne = NoOne
  Callers = {request, keepalive, test}
  Automatic = {request, keepalive}
  MaxTokens = 2
INVARIANTS
  StoredTokenLive
  RefusedIsStale
PROPERTIES
  NeverBackwards
  EveryCallerReturns
