CONSTANTS
  Null = Null
  Versions = {1, 2, 3}
  Sizes <- MCSize
  Loops = {1, 2, 3}
  MaxStarts = 2
  MaxClicks = 3
  MaxLosses = 1
SPECIFICATION DSpec
INVARIANTS
  DTypeOK
  ChunksInPlace
  RunningIsServed
CHECK_DEADLOCK FALSE
