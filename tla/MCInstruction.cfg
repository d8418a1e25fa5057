SPECIFICATION Spec
CONSTANTS
  AddrMod = 65536
  Granule = 4
  Page = 4096
  C26 = 8
  C19 = 4
  C14 = 4
  C9 = 4
  C16 = 4
  C21 = 8
  C5 = 2
  C6 = 2
  CUdf = 4
  U32 = 16
  U8Max = 7
  U16Max = 15
  I32Max = 7
  RegNum = {0, 9}
  Cond4 = {0, 1}
  Features = {"Hbc", "PauthLr", "Cmpbr"}
  MAX_OPERANDS = 3
  CondVal = {0, 1}
  Dec <- MCDec
  Reg <- MCReg
  Code <- BranchCode
  Mnemonic <- MCMnemonic
  CodeMnemonic <- MnemonicOf
  IsDirectBranch <- IsDirect
  Word <- BranchWord
  DecodeWord <- Decode
  EncodeInsn <- Encode
  InWords <- MCInWords
  InAddrs <- MCInAddrs
  InOps <- MCInOps
  InRegs <- MCInRegs
  InVals <- MCInVals
  InCodes <- MCInCodes
  InMnemonics <- MCInMnemonics
  InConds = {0}
  MaxEdits = 3
INVARIANTS
  TypeOK
  SlotsBeyondCountEmpty
  FreshWord
  LabelEncodesExactly
  EncodedCodeIsKept
PROPERTIES
  FailedEditChangesNothing
  RelocateKeepsWord
  DecorationsPreserved
CHECK_DEADLOCK FALSE
