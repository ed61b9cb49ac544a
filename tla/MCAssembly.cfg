\* 3 chunks of 4 bytes, two tag bytes, a header of one byte: room for 5 bytes of data
SPECIFICATION Spec
CONSTANTS
  TagLen = 2
  NChunks = 3
  ChunkSize = 4
  HeaderMax = 1
  Byte = {b0, b1}
  Zero = b0
  Key = {k1, k2}
  Aid = aid
  None = None
  MaxDamage = 1
INVARIANTS TypeOK BlocksKept RoundTrip IntactIsReadable
PROPERTIES SealedSpec
SYMMETRY KeySymmetry
CHECK_DEADLOCK FALSE
