SPECIFICATION Spec
CONSTANTS
  Clients = {"a", "b"}
  Limit = 1
  Scenarios <- MCScenarios
INVARIANTS
  FiltersWorkAlike
CHECK_DEADLOCK FALSE
