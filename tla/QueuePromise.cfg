SPECIFICATION Spec
CONSTANTS
  i1 = i1
  i2 = i2
  w1 = w1
  w2 = w2
  Ids = {i1, i2}
  Workers = {w1, w2}
  MaxAttempts = 2
  MaxLeases = 3
  Priority <- SecondIsUrgent
INVARIANTS
  WaitingIsQueued
PROPERTIES
  KeepsPromise
SYMMETRY WorkerSymmetry
CHECK_DEADLOCK FALSE
