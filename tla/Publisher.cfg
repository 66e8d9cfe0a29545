CONSTANTS
  p1 = p1
  p2 = p2
  c1 = c1
  c2 = c2
  i1 = i1
  i2 = i2
  i3 = i3
  Callers = {p1, p2}
  Consumers = {c1, c2}
  Items = {i1, i2, i3}
  NoItem = NoItem
  NConn = 2
  QueueSize = 1
SPECIFICATION FairSpec
INVARIANTS
  EveryItemInOnePlace
  NoLostWakeup
  StatisticsTellTruth
PROPERTIES
  StopIsFinal
  StopTerminates
  ImplementsContract
CHECK_DEADLOCK FALSE
