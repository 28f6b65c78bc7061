CONSTANTS
  MaxDepth = 2
  Trees <- MCTrees
  Recipients <- MCRecipients
SPECIFICATION Spec
INVARIANTS
  StructureRecovered
  TruncationKept
  PartsFiled
  AddressesRecovered
\* Parsing is over once the message is built.
CHECK_DEADLOCK FALSE
