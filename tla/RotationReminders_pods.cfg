SPECIFICATION LiveSpec
CONSTANTS
  a = a
  b = b
  Pods = {p1, p2}
  Names = {a, b}
  Quiet = {b}
  ChannelOf <- Apart
  Threshold = 1
  Repeat = 1
  MaxTime = 3
  NoPod = NoPod
CHECK_DEADLOCK FALSE
PROPERTIES
  NoRotationLost
  Throttled
  OverdueIsReminded
