SPECIFICATION Spec
CONSTANTS
  BYTE_BITS = 3
  CODE_LENGTH = 4
  FIRST_CODE = 4
  HASH_RANGE = 65536
  FNV_PRIME = 7621
  XorByte <- XorOf
  HASHMAP_CAPACITY = 2
  BUCKET_SIZE = 1
  ASSOC_SIZE = 4
  IntWidths = {3, 32}
  FIELD = 16
  Chunks <- AllChunks
  Stale <- StaleCodes
INVARIANTS
  RoundTrip
  CodesAreReference
  DecoderInStep
CHECK_DEADLOCK FALSE
