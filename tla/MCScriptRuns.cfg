CONSTANTS
  Jobs = {j1}
  Runs = {r1, r2}
  Web = {w1}
  Scheduler = sched
  NoJob = NoJob
  NoRun = NoRun
  MaxRequests = 1
  MaxFaults = 1
SPECIFICATION Spec
INVARIANTS
  TypeOK
  ScriptRunsAreSafe
PROPERTY
  ScriptLedgerKept
