SPECIFICATION Spec
CONSTANTS
  Thing = Thing
  ZZ = ZZ
  Ring = Ring
  Other = Other
  T = T
  o = o
  None = None
  Core = Core
  Pkg = Pkg
  Gone = Gone
  x = x
  f = f
  g = g
  BaseUp <- MCBaseUp
  SourceTypes = {T}
  Objects = {o}
  Domains <- MCDomains
  Unspecified = None
  MaxProducts = 3
  MaxInstalled = 2
  MaxInserted = 2
  Catalog <- MCCatalog
  Baseline <- MCBaseline
  NoObject = None
  EndOfText = 6
  MaxImports = 3
  RawRecords <- MCRawRecords
  Silent = {Thing}
  Bare = Bare
  Unresolved = Unresolved
  NoType = NoType
  Sites <- MCSites
  Worlds <- MCWorlds
  Letters = {1, 2, 3}
  Capitals = {1}
  Keywords <- MCKeywords
  TypesOfTypes = {"Type"}
  NoName <- MCNoName
  NarrowLength = 2
  NarrowLimit = 2
  CompletionLimit = 3
  MaxTyped = 4
INVARIANTS
  Forest
  RangeIsItsContents
  CandidatesAreRunnable
  NamesAreResolved
  CorpusIsLinked
  ListsAreWhole
CHECK_DEADLOCK FALSE
