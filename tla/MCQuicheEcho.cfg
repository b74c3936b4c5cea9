CONSTANTS
  Requests = {8}
  BidiStreams = {4}
  UniStreams = {14, 18}
  MaxBytes <- MixedBytes
  Eager = {}
  MaxEvents = 1
  Short = {14}
  Grease = FALSE
SPECIFICATION Spec
INVARIANTS
  UniEchoInItsSession
  NothingInvented
  NoLeak
PROPERTIES
  ImplementsEcho
  EveryStreamEchoed
CHECK_DEADLOCK FALSE
