SPECIFICATION Spec
CHECK_DEADLOCK FALSE
INVARIANTS
  EveryHintHasItsFix
  ReportedWhereNothingTakesIt
  HighlightsAgree
  TypesFollowTheValues
PROPERTIES
  KeepsMeaningInPlainText
  FixesComeToAnEnd
