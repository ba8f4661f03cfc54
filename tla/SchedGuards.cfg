CONSTANTS
  NumCpus = 2
  ThreadCapacity = 4
  MaxGen = 1
  MaxSeq = 1
  MaxDepth = 2
  MaxBatch = 2
  WaitKinds = {"owner", "timed", "sleep", "refused"}
  None = None
  JoinError = JoinError
SPECIFICATION Spec
PROPERTIES NoSwitchWhileDisabled
CHECK_DEADLOCK FALSE
