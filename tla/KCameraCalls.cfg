SPECIFICATION Spec
CONSTANTS
  None = None
  PyThreads = {p1, p2}
  Records = {r1, r2}
  MaxVids = 2
  Ops = {"frame", "stop", "record", "stopRecord", "read", "drop", "mode", "progress"}
  Failures = {"timeout", "memory", "reserve", "open", "camera", "stopcamera"}
INVARIANTS
  TypeOK
  LocksExclusive
  RunHasLoop
  StoppingHasOwner
  StoppingMeansIdle
  RecordPointerValid
  NoStrandedFrame
PROPERTIES
  NoneMeansFinished
CHECK_DEADLOCK FALSE
