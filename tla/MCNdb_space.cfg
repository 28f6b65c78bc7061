CONSTANTS
  PageSize = 2
  AMapSpan = 8
  PMapSpan = 16
  DListPos = 4
  MaxBlock = 3
  NbtPerPage = 1
  BbtPerPage = 2
  BtPerPage = 2
  MaxLevel = 2
  FirstUserNidIndex = 33
  BlockShapes <- MCShapes
  Nids <- MCOneNid
  MaxEmits = 5
SPECIFICATION Spec
INVARIANTS
  TypeOK
  NoOverlap
  MapsTruthful
  PagesAligned
  HeaderLast
PROPERTY AppendOnly
CHECK_DEADLOCK FALSE
