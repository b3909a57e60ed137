SPECIFICATION FairSpec
CONSTANTS
  Heads = 2
  Sectors = 18
  Requests <- CylinderEnd
  SectorValues = 256
  EndOfCylinder = {"abort", "wrap"}
  HoistedWait = TRUE
  PowerOn = {0, 1}
PROPERTY WaitEnds
CHECK_DEADLOCK FALSE
