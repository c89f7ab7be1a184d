SPECIFICATION LiveSpec
CONSTANTS
  Pods = {p1, p2}
  MaxWrites = 1
INVARIANTS
  NoPollAfterDeactivate
PROPERTIES
  NeverServesOlder
  NoReloadStartsAfterStop
  Converges
  DeactivateReturns
