CONSTANTS
  Paths <- MCPaths
  Folder <- MCFolder
  Root = ""
  Excluded <- MCExcluded
  Handlers = {h1, h2}
  Retries = 1
  MaxVersion = 3
  MaxFaults = 2
SPECIFICATION FairSpec
INVARIANTS
  TypeOK
  SameTimeSameContent
  SuccessCopied
  DeletedWasUnlisted
PROPERTIES
  Converges
CHECK_DEADLOCK FALSE
