SPECIFICATION FairSpec
CONSTANTS
  NUM_PACKETS = 2
  MaxPackets = 2
  MaxRecvErrors = 0
  INT_MAX = 2147483647
PROPERTIES
  Termination
CHECK_DEADLOCK FALSE
