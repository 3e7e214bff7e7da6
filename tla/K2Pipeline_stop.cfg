SPECIFICATION MCSpec
CONSTANTS
  Legacy <- MCLegacy
  Sessions <- MCSessions
  Public <- MCPublic
  ErrorShare = 2
  MaxStarts = 2
  MaxCrashes = 1
  MaxChars = 11
  ToolMax = 2
  Marker = 1
  PublicN = 1
INVARIANT StopRestores
CHECK_DEADLOCK FALSE
