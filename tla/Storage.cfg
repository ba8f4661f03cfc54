CONSTANTS
  MemoryFrame = {0, 1, 2, 3, 4, 5}
  SpaceFrame = {1,2,3,4,5,6,7,8,9,10,11,12,13,14,15,16,17}
  TableFrame = {1, 2, 3, 4, 5, 6, 7}
  PAGE_SIZE = 2
  AddrLimit = 13
  MaxRanges = 3
  MaxRegions = 5
  HeapFrames = 1
  RunLengths = {2, 3}
  Aligns = {0, 1, 2, 3}
  Levels = 3
  Entries = 2
  Procs = {p1, p2}
  First = p1
  StackPages = 1
  USER_TEXT_BASE = 0
  USER_STACK_TOP = 16
  MaxCalls = 3
  HighBase = 4
  Walked = {0, 2}
  MaxOps = 3
  MaxSpare = 2
  None = None
  Junk = Junk
  Reserved = Reserved
SPECIFICATION Spec
INVARIANTS MemoryIsExact FramesConserved ImageIsExact TablesAreSound
PROPERTIES ImplementsFrames CallIsAtomic
CHECK_DEADLOCK FALSE
