SPECIFICATION Spec
CONSTANTS
  p1 = p1
  p2 = p2
  w1 = w1
  w2 = w2
  w3 = w3
  a = a
  b = b
  Pods = {p1, p2}
  Workers = {w1, w2}
  PodOf <- OneWorkerEach
  Names = {a, b}
  DestOf <- OneDest
  Hooks = {h1, h2}
  MaxReceivers = 1
  MaxAttempts = 2
  Garbage = Garbage
  NoWorker = NoWorker
  NoHook = NoHook
  Faults = TRUE
SYMMETRY Symmetry
INVARIANTS
  CapHolds
  HooksInHandArePrivate
  NoHookLeaks
PROPERTIES
  PruneSparesLiveHooks
  CommandsAreAtomic
