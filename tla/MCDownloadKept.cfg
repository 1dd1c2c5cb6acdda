CONSTANTS
  Null = Null
  Versions = {1}
  Sizes <- MCSize
  Loops = {1, 2, 3}
  MaxStarts = 1
  MaxClicks = 3
  MaxLosses = 0
SPECIFICATION DSpec
INVARIANTS
  ChunksAreKept
CHECK_DEADLOCK FALSE
