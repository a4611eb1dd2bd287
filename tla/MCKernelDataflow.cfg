SPECIFICATION FairSpec
CONSTANTS
  MAX_CHUNKS = 2
  MAX_SIZE = 3
  BYTE_BITS = 8
  CODE_LENGTH = 13
  SHORT = 1
  LONG = 2
INVARIANTS
  OutputBounded
  OutputIsSequential
  BytesOfOwnChunk
  DrainedAtReturn
PROPERTIES
  Returns
