SPECIFICATION Spec
CONSTANTS
  Chars = {"0", "n", "a", "s"}
  NUL = "0"
  NL = "n"
  Size = 4
  Word = 2
  UintptrRange = 16
  IntRange = 2
  SYS_write = 4
  Strings <- MCStrings
  Codes <- MCCodes
  MaxCalls = 5
INVARIANTS
  PutcharKeepsAll
  WritesAreShown
  TailIsOfEarlierWrites
  SuccessMeansZero
