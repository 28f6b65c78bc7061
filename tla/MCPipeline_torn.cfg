CONSTANTS
  Folders <- MCFolders
  Path <- MCPath
  Selectable <- MCSelectable
  OnlyFolders = {}
  Mailbox <- MCDistinctMailbox
  BatchSize = 2
  BatchBytes = 4
  Spooling = TRUE
  SpoolOutcomes <- MCAnyOutcome
  MaxRuns = 2
SPECIFICATION Spec
INVARIANT WholeSource
CHECK_DEADLOCK FALSE
