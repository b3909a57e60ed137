SPECIFICATION Spec
CONSTANTS
  Channels = {0, 1, 2}
  OldBytes = {0, 255}
  FifoSize = 3
  OldDivisors <- MCOldDivisors
  OldLines = {{"eight"}, {"eight", "parity"}}
INVARIANTS
  IInv
  TextIsNoRate
  SentAsSet
  TransfersGoToBuffer
PROPERTIES
  FlushesOnlyGreeting
  OthersUntouched
CHECK_DEADLOCK FALSE
