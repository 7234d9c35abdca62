SPECIFICATION Spec
CONSTANTS
  Scopes <- MCRenamed
  MaxDbid = 6
INVARIANTS
  GranteesExist
CHECK_DEADLOCK FALSE
