CONSTANTS
  Jobs = {j1, j2}
  LocalJobs = {j1}
  TimedJobs = {j2}
  Runs = {r1}
  Web = {w1}
  Scheduler = sched
  NoJob = NoJob
  NoRun = NoRun
  MaxRequests = 1
  MaxFaults = 1
SPECIFICATION FairSpecOne
PROPERTY RunSettles
