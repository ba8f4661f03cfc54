CONSTANTS
  NumCpus = 2
  ThreadCapacity = 4
  MaxGen = 1
  MaxSeq = 2
  MaxDepth = 0
  MaxBatch = 2
  WaitKinds = {"owner", "timed", "sleep", "refused"}
  None = None
  JoinError = JoinError
SPECIFICATION Spec
INVARIANTS NoPanic EventsMatchThreads
PROPERTIES ExactWake ImplementsWaits
CHECK_DEADLOCK FALSE
