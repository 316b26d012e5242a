SPECIFICATION Spec
CONSTANTS
  StartShifts <- ShiftBoth
  Durations = {0, 3}
  NewShifts = {}
  NewDurations = {}
  Gaps = {1, 2}
  SeekTargets = {0, 1}
  MaxFrames = 5
  TimeMod = 64
  Restarts = TRUE
  NodeAllocFails = TRUE
INVARIANTS
  ListShape
  NoOvershoot
  KeepsOneFrame
PROPERTIES
  PrerollWindow
  StartedKeepsCursor
CHECK_DEADLOCK FALSE
