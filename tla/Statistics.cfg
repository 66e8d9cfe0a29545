CONSTANTS
  t1 = t1
  t2 = t2
  Threads = {t1, t2}
  s1 = s1
  Sources = {s1}
  NoSource = NoSource
  MaxFiles = 2
  Start = 4
  MaxTime = 8
  Offsets <- MCOffsets
  Day = 3
  Minute = 2
  Age = 1
  Zone = 0
SPECIFICATION FairSpec
INVARIANTS
  CountersTellTruth
  SuperviseTellsTruth
PROPERTIES
  OnlyOldEntriesRemoved
  StopTerminates
CHECK_DEADLOCK FALSE
