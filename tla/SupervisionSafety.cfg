SPECIFICATION Spec
CONSTANTS
  t1 = t1
  t2 = t2
  t3 = t3
  p1 = p1
  p2 = p2
  mock = mock
  Tasks = {t1, t2}
  Providers = {p1, p2, mock}
  Mock = mock
  Default = mock
  TestTasks = {}
  UnknownRoles = {t2}
  Volatile = {p1}
  MaxAttempts = 2
  WorkerCount = 2
  PromptLoop = FALSE
  MaxBacklog = 3
  Capable <- AllCapable
INVARIANTS
  AttemptsBounded
  ExecutionsAccounted
  OneLoopPerAgent
CHECK_DEADLOCK FALSE
