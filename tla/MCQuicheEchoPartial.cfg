CONSTANTS
  Requests = {0}
  BidiStreams = {4}
  UniStreams = {}
  MaxBytes <- TwoBytes
  Eager = {}
  MaxEvents = 2
  Short = {4}
  Grease = FALSE
SPECIFICATION Spec
INVARIANTS
  EchoIsPrefix
CHECK_DEADLOCK FALSE
