CONSTANTS
  AlertRules = {1, 2}
  ReportRules = {1}
  Mode <- MCMode
  Window <- MCWindow
  Need <- MCNeed
  Cooldown <- MCCooldown
  Values = {0, 2}
  Threshold = 1
  Interval = 1
  Retention = 3
  Cadence = 2
  Period = 4
  TargetPoints = 2
  MaxTime = 6
  MaxFaults = 1
  MaxEdits = 1
SPECIFICATION Spec
INVARIANTS
  TypeOK
  AlertsAreTrue
  OccasionsReportedOnce
  ReportTellsGaps
CHECK_DEADLOCK FALSE
