SPECIFICATION Spec
CONSTANTS
  Ids <- Two
  Nodes <- Two
  Gates <- Gate
  Points <- FromTheStart
  Graphs <- OneGraph
  MaxExecs = 1
  MaxLoops = 3
  MaxWaiting = 1
CHECK_DEADLOCK FALSE
INVARIANTS NodesRunOnce EndedMeansIdle LoopsAreReachable
PROPERTY OutcomeStands
