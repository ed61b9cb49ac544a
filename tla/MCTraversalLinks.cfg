\* the same trees: is a link that leads up harmless?
SPECIFICATION Spec
CONSTANTS
  d0 = d0
  d1 = d1
  d2 = d2
  a = a
  b = b
  Dir = {d0, d1, d2}
  Name = {a, b}
  NoDir = NoDir
  Top <- MCTop
  Trees <- MCTrees
  Readable <- MCReadable
  CmdLines <- MCCmdLines
  MaxLinks = 1
  MaxList = 3
  MaxDepth = 5
  MaxChanges = 1
INVARIANT DepthIsBounded
CHECK_DEADLOCK FALSE
