SPECIFICATION LiveSpec
CONSTANTS
  p1 = p1
  p2 = p2
  w1 = w1
  w2 = w2
  w3 = w3
  a = a
  b = b
  Pods = {p1, p2}
  Workers = {w1, w2, w3}
  PodOf <- TwoOnFirst
  Names = {a, b}
  DestOf <- OneDest
  Hooks = {h1}
  MaxReceivers = 2
  MaxAttempts = 2
  Garbage = Garbage
  NoWorker = NoWorker
  NoHook = NoHook
  Faults = FALSE
INVARIANTS
  MutexHeldThroughout
PROPERTIES
  CommandsReturn
  DeadReceiversArePruned
