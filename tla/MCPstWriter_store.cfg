CONSTANTS
  FirstUserNidIndex = 1024
  Shapes <- MCShapes
  HeapRoom = 2
  MaxUserFolders = 2
  MaxMessages = 3
SPECIFICATION Spec
INVARIANTS
  TypeOK
  NidsUnique
  FolderTree
  StoreConsistent
CHECK_DEADLOCK FALSE
