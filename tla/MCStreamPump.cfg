SPECIFICATION Spec
CONSTANTS
  InCap = 1
  OutCap = 1
  Window = 3
  IncludeUsage = TRUE
  MaxChunks = 5
INVARIANTS
  SuccessIsWhole
  BlameIsFair
  SettledOnce
  BannedIsCaught
PROPERTIES
  StreamEnds
  ReaderEnds
