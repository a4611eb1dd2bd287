SPECIFICATION FairSpec
CONSTANTS
  NUM_PACKETS = 3
  MaxPackets = 4
  MaxRecvErrors = 1
  INT_MAX = 2147483647
INVARIANTS
  SlotStable
  CompleteAtExit
  IInv
PROPERTIES
  ImplementsPipe
  ImplementsFeed
  AllDelivered
  EndsUnlessMissed
CHECK_DEADLOCK FALSE
