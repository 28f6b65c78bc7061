CONSTANTS
  Batches <- MCBatches
  RetryAttempts = 2
  Unasked <- MCUnasked
  Body <- MCBody
  Mailbox <- MCMailbox
  Folders <- MCFolders
  MaxLines = 2
SPECIFICATION Spec
INVARIANTS
  FetchContract
  ListingExact
  NamesRoundTrip
PROPERTY FetchReturns
CHECK_DEADLOCK FALSE
