SPECIFICATION LiveSpec
CONSTANTS
  Threads = {t1, t2}
  InputBuffers = 2
  CaptureBuffers = 2
  MaxCalls = 5
  MaxResizes = 1
  None = None
INVARIANTS
  BuffersConserved
  WaitersServed
PROPERTIES
  PacketsInOrder
  EncodeReturns
CHECK_DEADLOCK FALSE
