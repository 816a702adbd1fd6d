SPECIFICATION Spec
CONSTANTS
  Chars <- SampleChars
  LF = "lf"
  CR = "cr"
  Utf8 <- SampleUtf8
  Utf16 <- SampleUtf16
  Replacements <- SampleReplacements
  Documents <- SampleDocuments
  Backtick = "tick"
  Blanks = {"blank"}
  MaxChars = 4
INVARIANTS
  SameText
  PositionsAgree
  TreeEditsFit
  TokensColourTheBuffer
