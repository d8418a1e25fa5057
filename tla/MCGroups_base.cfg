SPECIFICATION Spec
CONSTANTS
  AddrMod = 16777216
  U32Mod = 1048576
  XBits = 64
  WBits = 32
  Lane = 16
  U32 = 65536
  OverflowChecks = TRUE
  Features <- AllFeatures
  MAX_OPERANDS = 5
  Word <- GroupWord
  Sample <- MCSample
  Address = {0}
  DecodeWord <- DecodeGroup
  EncodeInsn <- EncodeGroup
INVARIANT BaseDecodesOnlyBase
CHECK_DEADLOCK FALSE
