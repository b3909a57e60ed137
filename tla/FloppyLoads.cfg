SPECIFICATION FairSpec
CONSTANTS
  Heads = 2
  Sectors = 18
  Requests <- Parts
  SectorValues = 256
  EndOfCylinder = {"abort", "wrap"}
  HoistedWait = FALSE
  PowerOn = {0, 1}
INVARIANTS
  HistoryOK
  BytesReachTheirCommand
  ResultsInStep
  HeadSettled
  AlignedTransfer
  BufferHoldsRequested
  NoStrayInterrupt
  IInv
PROPERTIES
  LoadsImage
  BootProceeds
CHECK_DEADLOCK FALSE
