SPECIFICATION MCSpec
CONSTANTS
  NoMutex = NoMutex
  NoThread = NoThread
  r1 = r1  r2 = r2
  Threads <- MCThreads
  Keys <- MCKeys
  Mutexes <- MCMutexes
  MapLimit = 1
  MaxKeys = 3
  MaxKills = 2
 
PROPERTIES MapBounded KeySurvives ImplementsKeyMutex StopEnds CallsReturn
CHECK_DEADLOCK FALSE
