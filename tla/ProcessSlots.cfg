CONSTANTS
  Threads = {0, 1, 2}
  NumThreads = 3
  MaxProcesses = 2
  NumCpus = 2
  NumSpaces = 3
  MaxGen = 3
  MaxThreadGen = 2
  MaxSeq = 2
  None = None
SPECIFICATION Spec
INVARIANTS ResourcesSound
CHECK_DEADLOCK FALSE
