\* two files, assemblies of 3 bytes, a queue of depth 2
SPECIFICATION WSpec
CONSTANTS
  FHash = {f1, f2}
  Data = {"empty", "one", "two", "big"}
  Size <- MCSize
  NoSum = NoSum
  HeaderLen = 1
  DataEnd = 4
  QueueSz = 2
  NullEnv = NullEnv
  MaxRequests = 2
  MaxAssemblies = 4
INVARIANTS WTypeOK FailedIsCounted NothingLost BlocksLocatable BlocksDisjoint
PROPERTY SealedIsFinal
SYMMETRY FileSymmetry
CHECK_DEADLOCK FALSE
