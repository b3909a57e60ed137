SPECIFICATION FairSpec
CONSTANTS
  Devices = {0, 1, 8, 14}
  SleepArguments = {1, 3}
  TimerValues = 4
INVARIANTS
  EveryLineHasHandler
  HandledIsAcknowledged
  NoFault
  FloppyNeverPanics
  IInv
PROPERTY FloppyServed
CHECK_DEADLOCK FALSE
