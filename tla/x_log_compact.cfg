SPECIFICATION Spec
CONSTANTS
  None = None
  k1 = k1  k2 = k2  c1 = c1  c2 = c2  w1 = w1  w2 = w2
  Keys <- TwoKeys
  Chunks <- OneChunk
  Writers <- TwoWriters
  Floor = 2
  Ratio = 2
  MaxOps = 3
  MaxFaults = 1
PROPERTIES CompactionSafe
CHECK_DEADLOCK FALSE
