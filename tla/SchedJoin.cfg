CONSTANTS
  NumCpus = 2
  ThreadCapacity = 4
  MaxGen = 2
  MaxSeq = 2
  MaxDepth = 0
  MaxBatch = 1
  WaitKinds = {"owner"}
  None = None
  JoinError = JoinError
SPECIFICATION Spec
INVARIANTS ValidateInvariants IpiNotLost UserRoots JoinIsExact
CHECK_DEADLOCK FALSE
