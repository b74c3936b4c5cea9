CONSTANTS
  Requests = {0, 8}
  BidiStreams = {4}
  UniStreams = {14}
  MaxBytes <- TwoBytes
  Eager = {14}
  Datagrams = {d1}
SPECIFICATION Spec
INVARIANTS
  RefusedSessionsAreSilent
  UniBytesComeBackOnce
PROPERTIES
  ImplementsBidiEcho
  EveryBidiStreamEchoed
CHECK_DEADLOCK FALSE
