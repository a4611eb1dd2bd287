SPECIFICATION FairSpec
CONSTANTS
  NUM_PACKETS = 4
  MaxLast = 7
  INT_MAX = 2147483647
INVARIANTS
  WaitsOnRealEvent
  AllReadAtEnd
  IndexInRange
  PlacesAreFixed
  KernelTwoInTurn
  KernelOneNeverStale
PROPERTIES
  KernelTwoSlotsSafe
  KeepsFeed
  EndsIfTimely
CHECK_DEADLOCK FALSE
