CONSTANTS
  t1 = t1
  t2 = t2
  t3 = t3
  m1 = m1
  Threads = {t1, t2, t3}
  Senders = {t1, t2}
  Receivers = {t1}
  Timed = {t1}
  Msgs = {m1, m2}
  Capacity = 2
  WaiterCapacity = 2
  MaxSeq = 2
  None = None
SPECIFICATION MCSpec
INVARIANTS CallsLeaveNothing NobodyStranded
PROPERTIES EachWaiterServed ImplementsFifo
CHECK_DEADLOCK FALSE
