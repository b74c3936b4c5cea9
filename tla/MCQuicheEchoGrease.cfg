CONSTANTS
  Requests = {0}
  BidiStreams = {}
  UniStreams = {14}
  MaxBytes <- TwoBytes
  Eager = {}
  MaxEvents = 2
  Short = {}
  Grease = TRUE
SPECIFICATION Spec
PROPERTIES
  EveryStreamEchoed
CHECK_DEADLOCK FALSE
