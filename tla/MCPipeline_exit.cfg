CONSTANTS
  Folders <- MCFolders
  Path <- MCPath
  Selectable <- MCSelectable
  OnlyFolders = {}
  Mailbox <- MCMailbox
  BatchSize = 2
  BatchBytes = 4
  Spooling = TRUE
  SpoolOutcomes <- MCAnyOutcome
  MaxRuns = 2
SPECIFICATION Spec
INVARIANT ZeroMeansEverything
CHECK_DEADLOCK FALSE
