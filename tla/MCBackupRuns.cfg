CONSTANTS
  Jobs = {j1}
  LocalJobs = {j1}
  TimedJobs = {}
  Runs = {r1, r2}
  Web = {w1}
  Scheduler = sched
  NoJob = NoJob
  NoRun = NoRun
  MaxRequests = 1
  MaxFaults = 1
SPECIFICATION Spec
INVARIANTS
  TypeOK
  BusyRunIsRunning
  SchedulerNeverDoubles
  CancelledWasAsked
PROPERTY
  LedgerKept
