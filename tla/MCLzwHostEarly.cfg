SPECIFICATION Spec
CONSTANTS
  NUM_PACKETS = 6
  MaxLast = 3
  INT_MAX = 2147483647
INVARIANTS
  WritesReceivedOnly
CHECK_DEADLOCK FALSE
