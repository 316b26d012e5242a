SPECIFICATION Spec
CONSTANTS
  Objects = {o1, o2, o3}
  Lists = {l1, l2, l3}
  MaxRefs = 2
  None = None
INVARIANTS
  NoFreedMemory
  OneOwner
PROPERTIES
  LostOnlyInRecord
CHECK_DEADLOCK FALSE
