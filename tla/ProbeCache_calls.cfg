SPECIFICATION Spec
CONSTANTS
  URLs = {u1, u2, u3}
  Callers = {c1, c2}
  Ttl = 1
  Cap = 1
  MaxTime = 2
  Nothing = Nothing
SYMMETRY Symmetry
INVARIANTS
  OvershootBounded
  HitsAreRecent
PROPERTIES
  LoneCallRestoresCap
CHECK_DEADLOCK FALSE
