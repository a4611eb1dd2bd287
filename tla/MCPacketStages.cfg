SPECIFICATION StagesSpec
CONSTANTS
  BLOCKSIZE = 8
  MIN_CHUNK_SIZE = 2
  WIN_SIZE = 2
  PRIME = 3
  MODULUS = 4
  TARGET = 0
  BUFFER = 12
  HASH_RANGE = 256
  UINT_RANGE = 65536
  Bytes = {0, 1}
  Lengths <- AllLengths
  BITS_RANGE = 1024
  Packets <- MCPackets
INVARIANTS
  RollingIsDirect
  OverrunsOnlyOutside
  ChunksTile
  ContentDefined
  HashesTheChunks
  StaysInside
CHECK_DEADLOCK FALSE
