SPECIFICATION LiveSpec
CONSTANTS
  Requests = {r1, r2}
  Controls = {c1, c2}
  MaxSets = 2
  Hotplug = TRUE
  NoBuffers = NoBuffers
INVARIANTS
  RequestsConserved
  FreeMatchesMessages
PROPERTIES
  ControlsApplied
  LoopEnds
