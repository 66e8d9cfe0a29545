CONSTANTS
  Nodes <- MCNodes
  Files <- MCFiles
  Networks <- MCNetworks
  MaxPublications = 2
SPECIFICATION Spec
INVARIANTS
  ReturnKeepsPromise
  FilesSpread
PROPERTIES
  CirculationEnds
CHECK_DEADLOCK FALSE
