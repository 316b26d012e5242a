SPECIFICATION Spec
CONSTANTS
  None = None
  PyThreads = {p1}
  Records = {r1}
  MaxVids = 2
  Ops = {"frame", "stop"}
  Failures = {"timeout"}
INVARIANTS
  NoJoinDeadlock
CHECK_DEADLOCK FALSE
