CONSTANTS
  t1 = t1
  t2 = t2
  Threads = {t1, t2}
  i1 = i1
  i2 = i2
  i3 = i3
  i4 = i4
  n1 = n1
  n2 = n2
  Items <- MCItems
  NoItem = NoItem
  Names <- MCNames
  NameOf <- MCNameOf
  NumberOfFiles = 3
  MostAllowed = 3
  Default = 2
SPECIFICATION Spec
INVARIANTS
  FolderIsBounded
  NewestAreKeptUnlessOverlap
CHECK_DEADLOCK FALSE
