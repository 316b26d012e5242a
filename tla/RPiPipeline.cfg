SPECIFICATION LiveSpec
CONSTANTS
  Requests = {r1, r2}
  BufferCount = 2
  DropCounts = {0, 2}
  MaxQueued = 2
  Internal = Internal
  Null = Null
INVARIANTS
  BuffersConserved
  OneFrame
  FirstRequestExists
PROPERTIES
  PipeSpec
  RequestsComplete
