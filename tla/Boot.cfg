CONSTANTS
  CAPACITY = 3
  Hardware = {0, 1, 2, 3}
  Threads = {"a", "b", "c"}
  CPUs = {"cpu0", "cpu1"}
  Cores = {0, 1}
  MaxRaises = 4
  Callers = {0, 1}
  Actors = {"p", "q", "r"}
  SERIAL_CHANNEL_CAPACITY = 1
  MaxFaults = 1
  None = None
SPECIFICATION FairSpec
INVARIANTS StartsWhole EndsAsAsked VerdictIsTrue
PROPERTIES  InterruptsAreServed AllEnd
CHECK_DEADLOCK FALSE
