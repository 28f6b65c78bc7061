CONSTANTS
  Folders <- MCFolders
  Path <- MCPath
  Selectable <- MCSelectable
  OnlyFolders = {}
  Mailbox <- MCMailbox
  BatchSize = 2
  BatchBytes = 4
  Spooling = TRUE
  SpoolOutcomes <- MCAnyOutcome
  MaxRuns = 2
SPECIFICATION Spec
INVARIANTS
  TypeOK
  NothingLost
  OwnSource
  ListingOrder
  ZeroMeansMigrated
PROPERTIES
  NoRefetch
  ImplementsMigration
  Terminates
CHECK_DEADLOCK FALSE
