CONSTANTS
  f1 = f1
  f2 = f2
  Files = {f1, f2}
  Contents <- MCContents
  None = None
  MaxChanges = 3
SPECIFICATION Spec
SYMMETRY AlikeFiles
INVARIANTS
  ManagersMatchRegistry
  RegistryFollowsFiles
CHECK_DEADLOCK FALSE
