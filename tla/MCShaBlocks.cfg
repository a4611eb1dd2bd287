SPECIFICATION ShaSpec
CONSTANTS
  BITS_RANGE = 1024
  Packets <- MCPackets
INVARIANTS
  DigestsAreSHA256
CHECK_DEADLOCK FALSE
