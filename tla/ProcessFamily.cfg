CONSTANTS
  Threads = {0, 1, 2}
  NumThreads = 3
  MaxProcesses = 3
  NumCpus = 1
  NumSpaces = 3
  MaxGen = 1
  MaxThreadGen = 2
  MaxSeq = 1
  None = None
SPECIFICATION FairSpec
INVARIANTS FamilySound
PROPERTIES ParentReturns
CHECK_DEADLOCK FALSE
