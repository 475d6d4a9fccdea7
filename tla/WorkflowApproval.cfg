SPECIFICATION Spec
CONSTANTS
  Ids <- Two
  Nodes <- Two
  Gates <- Gate
  Points <- FromTheStart
  Graphs <- TwoGraphs
  MaxExecs = 1
  MaxLoops = 1
  MaxWaiting = 1
CHECK_DEADLOCK FALSE
INVARIANT RunningHasATask
