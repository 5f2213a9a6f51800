SPECIFICATION OrderSpec
CONSTANTS
  t1 = t1
  t2 = t2
  Threads <- TwoThreads
  Elements <- SixElements
  Priority <- PriorityOf
  max_size = 5
  PointerSize = 8
  None = None
CHECK_DEADLOCK FALSE
SYMMETRY Symmetry
INVARIANTS
  TypeOK
  NothingLost
  FirstIsBest
  NobodySleepsOnData
