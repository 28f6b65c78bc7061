CONSTANTS
  MaxDepth = 2
  Trees <- MCTrees
  Recipients <- MCRecipients
SPECIFICATION Spec
INVARIANTS
  UnwalkedKept
\* Parsing is over once the message is built.
CHECK_DEADLOCK FALSE
