SPECIFICATION Spec
CONSTANTS
  Uris = {a, o}
  FileUris = {a, o}
  Roots = {r, q}
  RootsOf <- OverlapAndOutside
  Watched = {a}
  Absent = Absent
  Texts <- NamedAndUnnamed
  Names <- SampleNames
  Spans <- SampleSpans
  Tokens <- SampleTokens
  ClassTokens <- SampleClassTokens
  DiagnosticKinds <- SampleKinds
  Analysis <- TheAnalyses
  SelectorKind <- SampleSelectors
  Payloads = {}
  InitializationOptions <- OneOption
  Resolvable = {TRUE, FALSE}
  RefreshSupport = FALSE
  TypeHierarchySupport = FALSE
  Slots = 1
  MaxInbox = 1
  MaxEvents = 2
  MaxChanges = 2
INVARIANTS
  ClosedFilesFollowDisk
  OpenFilesIndexed
