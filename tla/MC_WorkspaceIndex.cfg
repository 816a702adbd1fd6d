SPECIFICATION IndexSpec
CONSTANTS
  Uris = {a, b, c}
  a = a
  b = b
  c = c
  Texts <- AllTexts
  Names <- SampleNames
  Spans <- SampleSpans
  Tokens <- SampleTokens
  ClassTokens <- SampleClassTokens
  DiagnosticKinds <- SampleKinds
  Analysis <- SampleAnalysis
INVARIANTS
  QueriesAgree
PROPERTIES
  IsFileFacts
