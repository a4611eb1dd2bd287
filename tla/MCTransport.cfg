SPECIFICATION FairSpec
CONSTANTS
  NUM_PACKETS = 2
  BYTE = 4
  DONE_BIT = 2
  MAX_BLOCKSIZE = 6
  ClientBlocks = {2, 5}
  ServerBlocks = {3, 5}
  FileSizes <- MCFileSizes
  StaleHeaders <- MCStaleHeaders
  MaxFaults = 3
INVARIANTS
  SentIsFile
  PacketsAreDatagrams
  EndsWithLast
PROPERTIES
  ImplementsTransfer
  EndsUnlessLastLost
CHECK_DEADLOCK FALSE
