CONSTANTS
  PageSize = 2
  AMapSpan = 8
  PMapSpan = 16
  DListPos = 4
  MaxBlock = 3
  NbtPerPage = 1
  BbtPerPage = 2
  BtPerPage = 2
  MaxLevel = 3
  FirstUserNidIndex = 33
  BlockShapes <- MCOneSlot
  Nids <- MCNids
  MaxEmits = 6
SPECIFICATION FairSpec
INVARIANTS
  HeaderConsistent
  TreesSearchable
PROPERTY Terminates
CHECK_DEADLOCK FALSE
