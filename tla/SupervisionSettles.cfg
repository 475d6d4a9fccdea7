SPECIFICATION FairSpec
CONSTANTS
  t1 = t1
  t2 = t2
  t3 = t3
  p1 = p1
  p2 = p2
  mock = mock
  Tasks = {t1}
  Providers = {p1, p2}
  Mock = mock
  Default = mock
  TestTasks = {}
  UnknownRoles = {}
  Volatile = {}
  MaxAttempts = 3
  WorkerCount = 2
  PromptLoop = FALSE
  MaxBacklog = 4
  Capable <- AllCapable
INVARIANTS
  FailedOnlyWhenExhausted
PROPERTIES
  RecoveryTerminates
  TasksSettle
  NoGhostAgents
CHECK_DEADLOCK FALSE
