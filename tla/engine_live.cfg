SPECIFICATION FairGcSpec
CONSTANTS
  None = None
  c1 = c1  c2 = c2  s1 = s1  s2 = s2  s3 = s3  t1 = t1  t2 = t2
  Keys <- MCKeys
  Chunks <- OneChunk
  Sessions <- OneSession
  Callers <- TwoCallers
  MaxChunks = 1
  MaxFaults = 1
INVARIANTS ReadableUnlessContended
PROPERTIES EveryCallEnds OrphansReclaimed
CHECK_DEADLOCK FALSE
