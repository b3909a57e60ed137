SPECIFICATION FairSpec
CONSTANTS
  Bioses = {"refuses", "absent"}
  OtherBits = {FALSE, TRUE}
PROPERTY Opens
CHECK_DEADLOCK FALSE
