SPECIFICATION LiveSpec
CONSTANTS
  MaxCalls = 6
INVARIANTS
  WakeupKept
  StopIsSynchronous
  CameraDeleted
PROPERTIES
  CallsReturn
CHECK_DEADLOCK FALSE
