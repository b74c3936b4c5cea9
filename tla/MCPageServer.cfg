CONSTANTS
  Families = {chrome, safari}
  Contents = {good}
  GreaseContents = {good}
  Malformed = Malformed
  None = None
  Calls = {r1, r2}
  Configs <- MCConfigs
  MaxCap = 2
  MaxClock = 2
  MaxCrashes = 1
  Headers <- MCHeaders
  Window = 2
SPECIFICATION PageSpec
INVARIANTS
  AnswersTellTheTruth
  AcceptedAtRate
  LimitedForCause
PROPERTIES
  ReadsNeverRegress
  EveryRequestAnswered
CHECK_DEADLOCK FALSE
