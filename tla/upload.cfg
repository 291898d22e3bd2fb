SPECIFICATION FairSpec
CONSTANTS
  None = None
  Old = Old
  Capacity = 2
  ChunkSize = 2
  MaxObject = 4
  MaxFrames = 6
  MaxFaults = 1
INVARIANTS CreatedWhole RefusedUnchanged UploadInv
PROPERTIES UploadEnds
CHECK_DEADLOCK FALSE
