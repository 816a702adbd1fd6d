SPECIFICATION Spec
CONSTANTS
  Uris = {a, n}
  FileUris = {a}
  Roots = {r}
  RootsOf <- InAllFolders
  Watched = {a}
  Absent = Absent
  Texts <- TwoTexts
  Names <- SampleNames
  Spans <- SampleSpans
  Tokens <- SampleTokens
  ClassTokens <- SampleClassTokens
  DiagnosticKinds <- SampleKinds
  Analysis <- TheAnalyses
  SelectorKind <- SampleSelectors
  Payloads <- SomePayloads
  InitializationOptions <- SomeOptions
  Resolvable = {TRUE}
  RefreshSupport = TRUE
  TypeHierarchySupport = TRUE
  Slots = 2
  MaxInbox = 2
  MaxEvents = 1
  MaxChanges = 1
INVARIANTS
  
  MirrorsClient
  HintsRefreshed
