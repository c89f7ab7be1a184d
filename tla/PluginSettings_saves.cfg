SPECIFICATION LiveSpec
CONSTANTS
  Hooks = {h1, h2}
  Admins = {a1}
  MaxTokens = 1
  MaxSaves = 2
  Nobody = Nobody
INVARIANTS
  SettledServesStored
PROPERTIES
  TokenDisturbsOnlyRaces
  HooksReturn
CHECK_DEADLOCK FALSE
