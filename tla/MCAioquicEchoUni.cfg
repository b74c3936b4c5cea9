CONSTANTS
  Requests = {0}
  BidiStreams = {}
  UniStreams = {14}
  MaxBytes <- TwoBytes
  Eager = {}
  Datagrams = {}
SPECIFICATION Spec
INVARIANTS
  UniEchoIsWhole
CHECK_DEADLOCK FALSE
