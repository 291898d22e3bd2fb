SPECIFICATION Spec
CONSTANTS
  None = None
  Old = Old
  Capacity = 2
  ChunkSize = 2
  MaxObject = 4
  MaxFrames = 6
  MaxFaults = 0
INVARIANTS NoPartial
CHECK_DEADLOCK FALSE
