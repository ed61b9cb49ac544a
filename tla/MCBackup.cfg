\* two files of at most two blocks, assemblies of 3 bytes, a queue of depth 1, one change
SPECIFICATION BSpec
CONSTANTS
  FHash = {f1, f2}
  Data <- MCData
  Size <- MCSize
  NoSum = NoSum
  HeaderLen = 1
  DataEnd = 4
  QueueSz = 1
  NullEnv = NullEnv
  MaxRequests = 0
  MaxAssemblies = 0
  Byte = {"a", "b"}
  Zero = "a"
  BlockSz = 2
  NoFile = NoFile
  NoDoc = NoDoc
  Contents <- MCContents
  CmdLines <- MCCmdLines
  References <- MCReferences
  MaxChanges = 1
INVARIANTS Restorable RecordedIsCurrent DocumentsComplete
PROPERTY Ends
CHECK_DEADLOCK FALSE
