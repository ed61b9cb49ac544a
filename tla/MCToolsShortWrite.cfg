\* the same instance: fwrite may put less into the file than asked to
SPECIFICATION Spec
CONSTANTS
  FHash = {f1, f2}
  F1 = f1
  F2 = f2
  Data <- MCData
  Size <- MCSize
  NoSum = NoSum
  HeaderLen = 1
  DataEnd = 4
  ReadQueueSz = 2
  NReadEnvs = 1
  NoData = NoData
  Archives <- MCArchives
  MaxReads = 0
  Byte = {"a", "b"}
  Zero = "a"
  BlockSz = 2
  CmdLines <- MCCmdLines
  NoFile = NoFile
  Existing <- MCExisting
  Contained = {f1, f2}
  ShortWrites = TRUE
INVARIANT NothingPartial
CHECK_DEADLOCK FALSE
