SPECIFICATION LiveSpec
CONSTANTS
  Posts = {1, 3, 4}
  Others = {2}
  PerPage = 2
  MaxTtl = 1
  MaxTime = 3
CHECK_DEADLOCK FALSE
INVARIANTS
  NoPostForgotten
PROPERTIES
  NeverTooEarly
  TrackedPostsGo
