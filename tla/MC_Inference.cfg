SPECIFICATION Spec
CONSTANTS
  Thing = Thing
  Type = Type
  Function = Function
  MethodFunction = MethodFunction
  FunctionClosure = FunctionClosure
  Symbol = Symbol
  Nothing = Nothing
  Boolean = Boolean
  ZZ = ZZ
  Space = Space
  T = T
  f = f
  x = x
  h = h
  plus = plus
  cat = cat
  equals = equals
  Core = Core
  Pack = Pack
  hObject = hObject
  xObject = xObject
  plusObject = plusObject
  spaceObject = spaceObject
  BaseUp <- MCBaseUp
  SourceTypes <- MCSourceTypes
  Catalog <- MCCatalog
  Baseline <- MCBaseline
  NoObject = NoObject
  EndOfText = 1
  MaxImports = 1
  MaxProducts = 5
  Unspecified = Unspecified
  NoRange = NoRange
  Comparisons <- MCComparisons
  Operators <- MCOperators
  Names <- MCNames
  Copied <- MCCopied
  Called <- MCCalled
  Domains <- MCDomains
  Parents <- MCParents
  Assigned <- MCAssigned
  Codomains <- MCCodomains
  ObjectClass <- MCObjectClass
  Callables <- MCCallables
  MaxStatements = 4
INVARIANTS
  ConservativeWhereWhole
  OneObjectPerFunction
  InstallationsAreAsTheyRun
CHECK_DEADLOCK FALSE
