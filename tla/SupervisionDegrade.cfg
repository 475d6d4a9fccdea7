SPECIFICATION Spec
CONSTANTS
  t1 = t1
  t2 = t2
  t3 = t3
  p1 = p1
  p2 = p2
  mock = mock
  Tasks = {t1, t2, t3}
  Providers = {p1}
  Mock = mock
  Default = mock
  TestTasks = {}
  UnknownRoles = {}
  Volatile = {}
  MaxAttempts = 3
  WorkerCount = 2
  PromptLoop = TRUE
  MaxBacklog = 5
  Capable <- AllCapable
INVARIANTS
  NoConcurrentExecution
CHECK_DEADLOCK FALSE
