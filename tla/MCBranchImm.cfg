SPECIFICATION Spec
CONSTANTS
  AddrMod = 65536
  Granule = 4
  Page = 4096
  C26 = 8
  C19 = 4
  C14 = 4
  C9 = 4
  C16 = 4
  C21 = 8
  C5 = 2
  C6 = 2
  CUdf = 4
  U32 = 16
  RegNum = {0, 9}
  Cond4 = {0, 1}
  Features = {"Hbc", "PauthLr", "Cmpbr"}
  MAX_OPERANDS = 3
  Word <- BranchWord
  Sample <- BranchWord
  Address <- MCAddress
  DecodeWord <- Decode
  EncodeInsn <- Encode
INVARIANTS
  TypeOK
  EveryDecodeEncodes
  ExactRoundTrip
CHECK_DEADLOCK FALSE
