CONSTANTS
  Families = {chrome, safari}
  Contents = {good, better, bare}
  GreaseContents = {good, better}
  Malformed = Malformed
  None = None
  Calls = {c1, c2, c3}
  Configs <- MCConfigs
  MaxCap = 2
  MaxClock = 1
  MaxCrashes = 2
SPECIFICATION Spec
SYMMETRY StoreSymmetry
INVARIANTS
  TypeOK
  FileNeverTorn
  ServedIsDurable
  ResolvedIffCommitted
  FileHoldsLastCommit
  GoodCallNotRefused
  LogExplainsLatest
  LogIsSound
PROPERTIES
  GreaseNotDowngraded
  ImplementsOverview
CHECK_DEADLOCK FALSE
