SPECIFICATION Spec
CONSTANTS
  AddrMod = 16777216
  Features <- MCFeatures
  MAX_OPERANDS = 5
  Sample <- MCSample
  Repeat <- MCRepeat
INVARIANTS
  TypeOK
  EveryRegisterShownIsListed
  TransferGroupIsWhole
  FlagsAgreeWithNzcv
PROPERTY
  ReportsEverything
CHECK_DEADLOCK FALSE
