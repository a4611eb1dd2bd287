SPECIFICATION Spec
CONSTANTS
  NUM_PACKETS = 2
  MAX_NUM_CHUNKS = 1
  Contents = {1, 2}
  Sha <- MCSha
  CodedSize <- MCCodedSize
  MaxPackets = 2
  UINT_RANGE = 65536
INVARIANTS
  NothingIgnored
CHECK_DEADLOCK FALSE
