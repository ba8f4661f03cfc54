CONSTANTS
  Waits <- TwoWaits
  Quanta <- SlotQuanta
  Capacity = 6
  MaxTime = 1
  None = None
SPECIFICATION FairSpec
PROPERTIES ImplementsDeadlines TimerServes
CHECK_DEADLOCK FALSE
