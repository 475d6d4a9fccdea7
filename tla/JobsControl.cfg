SPECIFICATION FairSpec
CONSTANTS
  j1 = j1
  Jobs = {j1}
  MaxRetries = 1
  MaxFailures = 1
  MaxLoops = 2
  MaxStarts = 2
INVARIANTS
  StoppedIsQuiet
  NoOrphanLoops
PROPERTIES
  ScheduledJobsRun
  RunsEnd
CHECK_DEADLOCK FALSE
