SPECIFICATION TrafficSpec
CONSTANTS
  Providers = {"p1", "p2"}
  Threshold = 2
  MinRequests = 2
  ProbeCount = 1
  WindowSize = 2
  Requests = {"r1"}
  Candidates <- MCCandidates
PROPERTY HalfOpenResolves
