SPECIFICATION FairSpec
CONSTANTS
  Ids <- ThreeAndOne
  Nodes <- Three
  Gates = {}
  Points <- Anywhere
  Graphs <- ThreeGraphs
  MaxExecs = 1
  MaxLoops = 1
  MaxWaiting = 1
CHECK_DEADLOCK FALSE
INVARIANT CompletesValidGraphs
PROPERTY LoopsEnd
