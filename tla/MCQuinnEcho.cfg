CONSTANTS
  Requests = {0, 8}
  BidiStreams = {4}
  UniStreams = {14}
  MaxBytes <- TwoBytes
  Eager = {14}
  Datagrams = {d1}
  Buffer = 1
  SendWindow = 1
  RecvWindow = 1
  UniLimit = 1
SPECIFICATION Spec
INVARIANTS
  UniEchoInItsSession
  NothingBeforeAccept
  BackPressure
PROPERTIES
  ImplementsEcho
  EveryStreamEchoed
CHECK_DEADLOCK FALSE
