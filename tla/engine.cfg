SPECIFICATION NoGcSpec
CONSTANTS
  None = None
  c1 = c1  c2 = c2  s1 = s1  s2 = s2  s3 = s3  t1 = t1  t2 = t2
  Keys <- MCKeys
  Chunks <- OneChunk
  Sessions <- TwoSessions
  Callers <- TwoCallers
  MaxChunks = 2
  MaxFaults = 1
SYMMETRY Interchangeable
INVARIANTS IInv RefsExact StoredHeld QuiescentExact ReadableUnlessContended
PROPERTIES ImplementsMediaStore
CHECK_DEADLOCK FALSE
