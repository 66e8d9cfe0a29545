CONSTANTS
  f = f
  g = g
  h = h
  Files = {f, g, h}
  Home <- MCHome
  Nested <- MCNested
  MaxDrops = 1
  Configurations <- MCConfigurations
SPECIFICATION Spec
INVARIANTS
  ReturnedMeansArrived
  UnsharedSendIsTrue
  SessionWithinLimit
CHECK_DEADLOCK FALSE
