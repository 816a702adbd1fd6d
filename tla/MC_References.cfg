SPECIFICATION Spec
CONSTANTS
  Uris = {a, b}
  FileUris = {a, b}
  Roots = {r}
  RootsOf <- Everywhere
  Watched = {a, b}
  Absent = Absent
  Here = Here
  Texts <- UseAndShadow
  Names <- SampleNames
  Spans <- SampleSpans
  Tokens <- SampleTokens
  ClassTokens <- SampleClassTokens
  DiagnosticKinds <- SampleKinds
  Analysis <- TheAnalyses
  SelectorKind <- NoSelectors
  Payloads = {}
  InitializationOptions <- NoOptions
  Resolvable = {TRUE}
  RefreshSupport = FALSE
  TypeHierarchySupport = FALSE
  Slots = 1
  MaxInbox = 1
  MaxEvents = 1
  MaxChanges = 1
INVARIANTS
  EditsFitTheClient
  RenameReachesSavedFiles
  UnboundUseFindsItsDefinition
