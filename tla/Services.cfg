SPECIFICATION Spec
CONSTANTS
  Calls = {"c1", "c2", "c3"}
  Streams = {"c3"}
  IdOf <- MCIdOf
  NoCall = "no call"
  MaxRetries = 1
  Providers = {"p1"}
  Threshold = 2
  MinRequests = 2
  ProbeCount = 2
  WindowSize = 2
  Requests = {"r1", "r2"}
  Candidates <- MCCandidates
  Policies <- MCPolicies
  NoPolicy = "no policy"
  TotalLimit <- MCTotalLimit
  DailyLimit <- MCDailyLimit
  Costs = {1, 2}
  MaxReservations = 2
  Algorithms = {"adaptive_hybrid", "edf", "fair", "fifo", "priority", "rr"}
  Groups = {"g1", "g2"}
  NoGroup = "no group"
  Levels = {1, 2}
  Delays = {0, 1}
  MaxQueue = 1
  WorkerPool = 2
  MaxItems = 3
  MaxTime = 2
  DTasks = {"t1", "t2"}
  DispatchRetries = 2
  Peers = {"n1", "n2", "n3"}
  Publishers = {"n1", "n2"}
  Writers = {"n1", "n2"}
  EventIds = {"e1", "e2"}
  Keys = {"k"}
  MaxSeen = 1
  MaxVersion = 1
  Nodes = {1, 2}
  MaxSequence = 1
  MaxTerm = 1
  PStages = {"a", "b"}
  PipelineGraphs <- MCGraphs
  StageRetries = 1
  MaxPExecs = 2
  MaxPTasks = 2
  Handlers = {"h1", "h2"}
  Kernel = "kernel"
  Monitor = "monitor"
  RestartLimit = 1
  MaxConns = 2
  MaxReconnects = 2
  MaxUsers = 1
  MaxProcesses = 2
  MaxLoops = 2
  Limits <- MCLimits
  LimitKinds = {"fixed_window", "leaky_bucket", "sliding_window", "token_bucket"}
  Capacity = 2
  RefillRate = 2
  RefillInterval = 2
  Burst = 1
  LeakDepth = 2
  WindowMax = 2
  WindowTicks = 2
  DelayQueue = 1
  PermitTtl = 1
  MaxCount = 4
  MaxPermits = 1
  MaxTicks = 5
INVARIANTS
  CancelReachesInvocation
  ProbeTrafficLimited
  ChargedOnce
  NothingStaysBlocked
  WaitsInOnePlace
  RatesKept
  PublishedOnce
  NewestKept
  RetryPolicyKept
  OutcomeEarned
  RunningIsServed
  ConnectionsAccounted
  ConnectedListens
PROPERTIES
  LosersStop
  DeadlinesKept
  ExecutionsEnd
  DispatchReturns
CHECK_DEADLOCK FALSE
