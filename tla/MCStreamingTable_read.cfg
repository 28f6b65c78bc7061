CONSTANTS
  BlockSize = 24
  HnHdr = 3
  PageHdr = 1
  BitmapHdr = 4
  FirstBitmap = 2
  BitmapEvery = 2
  MaxItems = 3
  MaxIndex = 4
  RowsPerBlock = 2
  Columns = 2
  Lengths <- MCLengths
  RowIds <- MCRowIds
  RecordLen = 4
  MaxLevels = 3
  BthHdrLen = 4
  InfoLen = 9
SPECIFICATION Spec
INVARIANTS
  TypeOK
  BlocksFit
  InStep
  TableReadable
CHECK_DEADLOCK FALSE
