SPECIFICATION Spec
CONSTANTS
  Names = {"x"}
  Other = "other"
  Fresh = "fresh"
  Targets <- SampleTargets
  MaxTokens = 6
  MaxScopes = 4
CHECK_DEADLOCK FALSE
INVARIANTS
  PositionsFindTheirScope
  DefinitionsHold
  RenameKeepsMeaning
  UnusedCanGo
  OutlineHoldsEveryState
  CompletionOffersWhatResolves
