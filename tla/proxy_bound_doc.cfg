SPECIFICATION Spec
CONSTANTS
  Nothing = Nothing
  MaxCalls = 2
  Accounts = {"a"}
PROPERTIES BoundAreFiltered
CHECK_DEADLOCK FALSE
