SPECIFICATION Spec
CONSTANTS
  StartShifts <- ShiftNone
  Durations = {0, 3}
  NewShifts <- ShiftPast
  NewDurations = {0, 2}
  Gaps = {1, 2}
  SeekTargets = {0, 2}
  MaxFrames = 4
  TimeMod = 64
  Restarts = FALSE
  NodeAllocFails = FALSE
INVARIANTS
  CursorSound
PROPERTIES
  PlaybackSpec
CHECK_DEADLOCK FALSE
