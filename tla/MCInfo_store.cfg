SPECIFICATION Spec
CONSTANTS
  AddrMod = 16777216
  Features <- MCFeatures
  MAX_OPERANDS = 5
  Sample <- MCSample
  Repeat <- MCRepeat
INVARIANT
  StoresWriteMemory
CHECK_DEADLOCK FALSE
