SPECIFICATION Spec
CONSTANTS
  Chars <- MCChars
  Names <- MCNames
  CondNames <- MCCondNames
  OperandTexts <- MCOperandTexts
  Columns = {4}
  CasedBuf = 2
  SpacesRun = 2
  MaxOps = 2
  MaxCap = 20
  MaxCalls = 2
INVARIANTS
  WrittenIsUtf8
  OverflowedIffLost
  WholeTextWhenItFits
CHECK_DEADLOCK FALSE
