CONSTANTS
  None = None
  Pids = {1, 2, 3}
  Programs <- MCPrograms
  Running <- MCRunning
  Boxes = {own, b}
  Own = own
  Requests = {r1, r2}
  Tolerance = 0
  MaxTime = 1
  MaxBirths = 5
  MaxActs = 2
  MaxOutside = 2
  MaxFaults = 1
SYMMETRY Symmetric
SPECIFICATION Spec
INVARIANTS
  TypeOK
  HitsWhatWasShown
  RunsOnce
CHECK_DEADLOCK FALSE
