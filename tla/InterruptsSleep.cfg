SPECIFICATION FairSpec
CONSTANTS
  Devices = {0, 8}
  SleepArguments = {1, 3}
  TimerValues = 4
PROPERTY SleepEnds
CHECK_DEADLOCK FALSE
