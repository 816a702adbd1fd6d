SPECIFICATION Spec
CONSTANTS
  Documents <- MCDocuments
  Options <- MCOptions
  MaxGap = 1
  MaxEdits = 2
INVARIANTS
  BreaksStand
  FitsWhereItCan
  StableUnlessFresh
  FoldsAreBlocks
