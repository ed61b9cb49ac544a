\* an archive of three assemblies, two read environments, a queue of depth 2
SPECIFICATION RSpec
CONSTANTS
  FHash = {f1}
  Data = {"x", "y"}
  Size <- MCSize
  NoSum = NoSum
  HeaderLen = 1
  DataEnd = 3
  ReadQueueSz = 2
  NReadEnvs = 2
  NoData = NoData
  Archives <- MCArchives
  MaxReads = 2
INVARIANTS RTypeOK AnsweredInOrder ReadBack
PROPERTY EvictsLeastRecent
