SPECIFICATION FairSpec
CONSTANTS
  None = None
  PyThreads = {p1}
  Records = {r1}
  MaxVids = 3
  Ops = {"frame", "stop"}
  Failures = {"timeout", "memory"}
PROPERTIES
  FrameReturns
  StopReturns
  StoppingEnds
CHECK_DEADLOCK FALSE
