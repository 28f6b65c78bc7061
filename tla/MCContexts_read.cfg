CONSTANTS
  BlockData = 40
  XFanout = 3
  MaxTotal = 400
  SlFanout = 2
  SiFanout = 3
  Lengths <- MCLengths
  NidSets <- MCNidSets
  HnHdr = 12
  PageHdr = 2
  BitmapHdr = 14
  FirstBitmap = 2
  BitmapEvery = 2
  MaxItems = 3
  MaxIndex = 6
  InfoLen = 16
  Ids <- MCIds
  Fillings <- MCFillings
  Shapes <- MCShapes
  CellLens <- MCCellLens
  ColumnLists <- MCColumnLists
  Width <- MCWidth
  MaxRows = 5
  MaxSets = 2
SPECIFICATION CSpec
INVARIANTS
  ValueReadable
  SubnodesFound
  PropertiesReadable
  RowsReadable
CHECK_DEADLOCK FALSE
