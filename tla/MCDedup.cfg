SPECIFICATION Spec
CONSTANTS
  NUM_PACKETS = 4
  MAX_NUM_CHUNKS = 2
  Contents = {1, 2}
  Sha <- MCSha
  CodedSize <- MCCodedSize
  MaxPackets = 5
  UINT_RANGE = 65536
INVARIANTS
  ReferencesPointBack
  RecordsDecode
  NumbersAgree
  StoredOnce
  
CHECK_DEADLOCK FALSE
