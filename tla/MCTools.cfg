\* two files, the first of three blocks in two assemblies, a queue of depth 2
SPECIFICATION Spec
CONSTANTS
  FHash = {f1, f2}
  F1 = f1
  F2 = f2
  Data <- MCData
  Size <- MCSize
  NoSum = NoSum
  HeaderLen = 1
  DataEnd = 4
  ReadQueueSz = 2
  NReadEnvs = 1
  NoData = NoData
  Archives <- MCArchives
  MaxReads = 0
  Byte = {"a", "b"}
  Zero = "a"
  BlockSz = 2
  CmdLines <- MCCmdLines
  NoFile = NoFile
  Existing <- MCExisting
  Contained = {f1, f2}
  ShortWrites = FALSE
INVARIANTS NothingPartial ExistingIsKept StatusIsRight OwnBlocksOnly VerdictIsRight ToolsAgree
PROPERTY Ends
CHECK_DEADLOCK FALSE
