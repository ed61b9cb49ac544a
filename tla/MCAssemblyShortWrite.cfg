\* the same instance: an assembly whose chunks were only partly written
SPECIFICATION Spec
CONSTANTS
  TagLen = 2
  NChunks = 3
  ChunkSize = 4
  HeaderMax = 1
  Byte = {b0}
  Zero = b0
  Key = {k1}
  Aid = aid
  None = None
  MaxDamage = 0
INVARIANT KeyOnlyIfAllWritten
CHECK_DEADLOCK FALSE
