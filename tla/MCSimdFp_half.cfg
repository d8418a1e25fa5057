SPECIFICATION Spec
CONSTANTS
  AddrMod = 16777216
  U32Mod = 1048576
  OverflowChecks = TRUE
  Features <- AllFeatures
  MAX_OPERANDS = 5
  Word <- SimdWord
  Sample <- MCSample
  Address = {0}
  DecodeWord <- DecodeSimdFp
  EncodeInsn <- EncodeSimdFp
INVARIANT HalfConvertsNeedNoFp16
CHECK_DEADLOCK FALSE
