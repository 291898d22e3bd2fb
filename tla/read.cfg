SPECIFICATION FairSpec
CONSTANTS
  None = None
  a = a  b = b  c = c
  Chunks <- MCChunks
  Bytes <- MCBytes
  MaxSize = 5
  MaxEntries = 2
  Objects <- MCObjects
  ChunkSize = 2
  Width = 16
  Ranges <- MCRanges
  Headers <- MCHeaders
  Popular <- MCPopular
  Capacity <- MCCapacity
  Window = 2
  MaxWrites = 1
  MaxFaults = 1
INVARIANTS ReadInv OneVersion EndMeansWhole FailureHasCause
PROPERTIES TaskEnds
CHECK_DEADLOCK FALSE
