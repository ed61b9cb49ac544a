\* two files, two contents or empty, three backups with up to two references
\* each, one of which may fail
SPECIFICATION CSpec
CONSTANTS
  FHash = {f1, f2}
  NoInfo = NoInfo
  BlankInfo = BlankInfo
  Contents = {c1, c2, Empty}
  Empty = Empty
  NoDoc = NoDoc
  MaxRuns = 3
  MaxRefs = 2
  MaxFailed = 1
SYMMETRY Symmetry
INVARIANTS CTypeOK NewestIsRestorable OneVersionOnly OwnKeysSuffice
CHECK_DEADLOCK FALSE
