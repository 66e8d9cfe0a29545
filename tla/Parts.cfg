CONSTANTS
  t1 = t1
  t2 = t2
  t3 = t3
  h1 = h1
  h2 = h2
  h3 = h3
  Threads = {t1, t2, t3}
  Hashes = {h1, h2, h3}
  NoHash = NoHash
  NoThread = NoThread
  Limit = 2
  MaxAdds = 5
  f1 = f1
  f2 = f2
  f3 = f3
  Files = {f1, f2, f3}
  NoFile = NoFile
  Matching = {f3}
  IgnorePattern = FALSE
  ProcessPending = TRUE
  p1 = p1
  p2 = p2
  Callers = {p1, p2}
  Worker = Worker
  i1 = i1
  i2 = i2
  i3 = i3
  Items = {i1, i2, i3}
  NoItem = NoItem
  QueueSize = 1
SPECIFICATION PartsSpec
INVARIANTS
  ListIsWindow
  LeftoversExplained
  WatchHandsOverOnceAndWhole
  CopyOpenWhileNeeded
PROPERTIES
  ImplementsWindow
  WatchedFilesLeave
  ImplementsContract
CHECK_DEADLOCK FALSE
