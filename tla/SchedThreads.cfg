CONSTANTS
  NumCpus = 2
  ThreadCapacity = 5
  MaxGen = 1
  MaxSeq = 1
  MaxDepth = 0
  MaxBatch = 1
  WaitKinds = {}
  None = None
  JoinError = JoinError
SPECIFICATION FairSpec
PROPERTIES ThreadsProgress
CHECK_DEADLOCK FALSE
