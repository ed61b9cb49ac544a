\* three tools, all they need and up to three options more
SPECIFICATION Spec
CONSTANTS
  FHash = {f1, f2}
  F1 = f1
  F2 = f2
  NoInfo = NoInfo
  BlankInfo = BlankInfo
  OneInfo = OneInfo
  TwoInfo = TwoInfo
  Lines <- MCLines
  Docs <- MCDocs
  Dirs = {"chunks", "meta", "out", "data"}
  PlainFiles = {"a", "b"}
  LongIds = {"424242", "434343"}
  PublicKeys = {"key"}
  MaxFiles = 3
  MaxDirs = 3
  None = None
INVARIANTS StartsAsTold StatusIsExplained
CHECK_DEADLOCK FALSE
