SPECIFICATION Spec
CONSTANTS
  Byte <- MCByte
  Images <- MCImages
  MaxPos = 10
  AddrMod = 16
  INSN_LEN = 4
  Decodable <- MCDecodable
INVARIANTS
  TypeOK
  IpTracksPosition
PROPERTIES
  WordIsAtItsAddress
  LastErrorDescribesDecode
  IterationSweeps
  LoopTerminates
CHECK_DEADLOCK FALSE
