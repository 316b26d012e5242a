SPECIFICATION Spec
CONSTANTS
  None = None
  PyThreads = {p1}
  Records = {r1, r2}
  MaxVids = 2
  Ops = {"record", "stopRecord"}
  Failures = {}
INVARIANTS
  AtMostOneLoop
CHECK_DEADLOCK FALSE
