\* two writing threads of up to two requests, two reading threads, queues of depth 1
SPECIFICATION Spec
CONSTANTS
  FHash = {f1, f2}
  Data = {"one"}
  Size <- MCSize
  NoSum = NoSum
  HeaderLen = 1
  DataEnd = 3
  QueueSz = 1
  NullEnv = NullEnv
  MaxRequests = 2
  MaxAssemblies = 2
  ReadQueueSz = 1
  NReadEnvs = 1
  NoData = NoData
  Archives <- NoArchive
  MaxReads = 1
  Readers = {r1, r2}
SYMMETRY Threads
INVARIANTS NothingLost OverrunIsBounded OnlySealedIsRead
CHECK_DEADLOCK FALSE
