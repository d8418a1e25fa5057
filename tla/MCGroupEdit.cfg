SPECIFICATION EditSpec
CONSTANTS
  AddrMod = 16777216
  U32Mod = 1048576
  XBits = 64
  WBits = 32
  Lane = 16
  U32 = 65536
  OverflowChecks = TRUE
  Features <- AllFeatures
  MAX_OPERANDS = 5
  U8Max = 255
  U16Max = 65535
  I32Max = 8388607
  CondVal <- MCCond
  Dec <- MCDec
  Reg <- MCReg
  Code <- MCCode
  Mnemonic <- MCMnemonic
  CodeMnemonic <- MnemonicOf
  IsDirectBranch <- MCNoBranch
  Word <- GroupWord
  DecodeWord <- DecodeGroup
  EncodeInsn <- EncodeGroup
  InWords <- MCInWords
  InAddrs = {0}
  InOps = {}
  InRegs <- MCInRegs
  InVals <- MCInVals
  InCodes = {}
  InMnemonics = {}
  InConds = {0, 14, 15}
  MaxEdits = 2
INVARIANTS
  EditEncodesExactly
CHECK_DEADLOCK FALSE
