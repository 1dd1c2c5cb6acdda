CONSTANTS
  MaxSessions = 2
  MaxChunks = 2
  Backlog = 1
  Slots = {c1, c2}
  MaxKeys = 1
  MaxMoves = 1
  MaxLosses = 1
SPECIFICATION TFairSpec
INVARIANTS
  TTypeOK
  ShownUpToCursor
  InputReachesItsSession
PROPERTIES
  Reaped
CHECK_DEADLOCK FALSE
