SPECIFICATION LiveSpec
CONSTANTS
  Pods = {p1, p2}
  Names = {a, b}
  MaxHooks = 4
  None = None
INVARIANTS
  FailuresAreNamed
  RotatesEachOnce
PROPERTIES
  UnmanagedSpared
  BulkReturns
CHECK_DEADLOCK FALSE
