SPECIFICATION Spec
CONSTANTS
  Providers = {"openai", "anthropic", "responses", "gemini", "ollama", "kiro"}
  Clients = {"openai", "anthropic", "responses", "gemini", "ollama"}
  Deltas <- MCDeltas
  MaxChunks = 6
  MaxCalls = 2
INVARIANTS
  TypeOK
  
  TextWhole
  WellFormed
  FoldedWhole
CHECK_DEADLOCK FALSE
