CONSTANTS
  FirstNamedId = 100
  MaxNames = 3
  HeaderLists <- MCHeaderLists
  MaxMessages = 2
SPECIFICATION Spec
INVARIANTS
  OneIdPerName
  PropertiesResolve
  HeadersAddressable
CHECK_DEADLOCK FALSE
