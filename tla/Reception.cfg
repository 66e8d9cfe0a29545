SPECIFICATION Spec
CONSTANTS
  Clients = {"a", "b"}
  Limit = 1
  Scenarios <- MCScenarios
INVARIANTS
  AnswersTellTruth
  SignedIsHeard
  SourceIsBestMatch
  NothingDemandedIsMissing
  OneNameOneInterval
CHECK_DEADLOCK FALSE
