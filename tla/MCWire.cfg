CONSTANTS
  StreamTypes <- Types
  SessionIds <- Connects
  Bodies <- Texts
  Methods = {"GET", "CONNECT"}
  Protocols = {"webtransport", "webtransport-h3", "other"}
  Paths = {"/", "/healthz", "/wt", "/wt/", "/wt/basic", "/wt/h3-token", "/wt/protocol", "/wt/capsule", "/wt/init", "/wt/draft", "/wt/yggdrasil", "/wt/auto", "/wtx"}
  Queries = {TRUE, FALSE}
  Offers = {"token", "inside", "other"}
  Origins = {"o1"}
  MaxFields = 5
  Labels = {"CERTIFICATE", "PRIVATE KEY"}
  MaxLines = 7
SPECIFICATION Spec
INVARIANTS
  ChunkingIsInvisible
  PrefaceRoundTrip
  ServersAgree
  SectionsAreWhole
CHECK_DEADLOCK FALSE
