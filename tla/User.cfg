CONSTANTS
  None = None
  Archives <- MCArchives
  RunArchives <- MCRunArchives
  Inputs <- MCInputs
  Passed <- MCPassed
  Flags <- MCFlags
  Counts = {1, 3}
  PATH_MAX = 5
  MAX_USER_COPY = 3
  Fd = {3, 4}
  Procs = {p1, p2}
  First = p1
  MaxCalls = 6
  PAGE_SIZE = 8
  USER_TEXT_BASE = 8
  USER_STACK_TOP = 48
  MaxAddr = 63
  CopyMax = 10
  COPY_WORD_BYTES = 4
  Layouts <- MCLayouts
  Texts <- MCTexts
  Limits = {0, 3, 9}
  USER_STACK_SIZE = 40
  STACK_ALIGN = 8
  ArgLists <- MCArgLists
  NANOSECONDS_PER_SECOND = 10
  MaxCounter = 14
  MaxNow = 9
  Frequencies = {0, 1, 3, 7, 10, 13}
  Seconds <- MCSeconds
  Nanoseconds = {0, 1, 5, 9, 10}
  Sleepers = {a, b}
  Configs <- MCConfigs
  Deadlines = {1, 2}
  MaxTime = 2
  MaxSleeps = 3
  MaxIrqs = 3
  idle = idle
  Users = {t1, t2}
  FirstUser = t1
  i0 = i0
  i1 = i1
  Idle <- MCIdle
  MaxSvcs = 2
  Roots = {1, 2, 3}
SPECIFICATION Spec
INVARIANTS FilesAreFaithful CopiesAreExact TimeIsExact ProfileIsExact
PROPERTIES ThreadsSeeThemselves StateIsKept
CHECK_DEADLOCK FALSE
