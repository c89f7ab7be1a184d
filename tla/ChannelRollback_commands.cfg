SPECIFICATION Spec
CONSTANTS
  Workers = {w1, w2}
  Slugs = {s1, s2}
  Ids = {c1, c2}
  NoId = NoId
SYMMETRY Symmetry
CHECK_DEADLOCK FALSE
INVARIANTS
  RollbacksAreOwn
  NoChannelSquatted
PROPERTIES
  ArchivesInUseOnlyByRace
