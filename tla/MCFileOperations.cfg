CONSTANTS
  Total = 2
  Workers = {w1, w2}
  Pages = {p1, p2}
  Nobody = Nobody
  MaxRequests = 2
  MaxFaults = 1
SPECIFICATION FairSpec
INVARIANTS
  TypeOK
  NothingLost
  ReportIsTrue
  OverlapNeedsStaleRequest
PROPERTIES
  OperationEnds
CHECK_DEADLOCK FALSE
