CONSTANTS
  None = None
  Old = Old
  Torn = Torn
  t1 = t1
  t2 = t2
  Tabs = {t1, t2}
  Names = {"a", "b"}
  Chosen <- MCChosen
  Before <- MCBefore
  Ops = {1, 2, 3}
  MaxCopies = 3
  MaxFaults = 1
SPECIFICATION Spec
INVARIANTS
  TypeOK
  FilesKept
  SuccessIsWhole
CHECK_DEADLOCK FALSE
