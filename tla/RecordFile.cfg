SPECIFICATION Spec
CONSTANTS
  MaxFrames = 5
INVARIANTS
  RoundTrip
PROPERTIES
  SaveTakesAll
