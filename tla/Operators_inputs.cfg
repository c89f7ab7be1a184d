SPECIFICATION InputsSpec
CONSTANTS
  Runbooks <- RunbooksValue
  Category <- CategoryValue
  MaxLength = 9
  Teams = {"t1", "t2", "old"}
  Archived = {"old"}
  TeamOf <- TeamOfValue
  Token <- TokenValue
  Dests <- DestsValue
  Legacy <- LegacyValue
  Targets <- TargetsValue
  Typed <- TypedValue
  Words <- WordsValue
  MaxReceivers = 3
  RoutingInputs <- RoutingInputsValue
  CheckInputs <- CheckInputsValue
  ExportInputs <- ExportInputsValue
  CallInputs <- CallInputsValue
  CommandInputs <- CommandInputsValue
INVARIANTS
  ShortNamesMeanTheReceiverHere
  AlertsFanOut
  InventoryTellsTheTruth
  AdditionsLandWhereTheyBelong
  SilencesEndAsSaid
  CompletionMatchesAuthority
