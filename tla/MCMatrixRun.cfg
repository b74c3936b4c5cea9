CONSTANTS
  Runs = {r1, r2}
  Probing = {r1}
  Combinations = 2
  EchoOutcomes = {"pass"}
SPECIFICATION Spec
INVARIANTS
  PostedIsAcceptable
  StoppedStaysLocal
PROPERTIES
  StopIsHeeded
  EveryRunEnds
CHECK_DEADLOCK FALSE
