CONSTANTS
  i1 = i1
  i2 = i2
  p1 = p1
  c1 = c1
  c2 = c2
  NoItem = NoItem
  Callers = {p1}
  Consumers = {c1, c2}
  Items = {i1, i2}
  NConn = 1
  QueueSize = 1
  Subscribers = {1, 2}
  NrFiles = 1
  FileKinds <- MCFileKinds
SPECIFICATION ZSpec
INVARIANTS
  StoredIsWhatWasSent
  
PROPERTIES
  ImplementsContract
CHECK_DEADLOCK FALSE
