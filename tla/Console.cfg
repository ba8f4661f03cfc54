CONSTANTS
  Threads = {t1, t2}
  MaxSeq = 2
  TxCapacity = 3
  Chunk = 2
  RxCapacity = 1
  MaxRead = 2
  Formats <- MCFormats
  MaxMessages = 2
  MaxBytes = 2
  None = None
SPECIFICATION FairSpec
INVARIANTS OutputIsSound StdinIsSound
PROPERTIES ConsoleServes
CHECK_DEADLOCK FALSE
