SPECIFICATION FairSpec
CONSTANTS
  Sizes <- Layouts
  Disks <- Geometries
  PowerOn = {0, 1}
  Residue = {0, 1}
  BiosFaults = 3
  PropsFail = TRUE
  DriverFails = TRUE
INVARIANTS
  IInv
  NothingNeededIsOverwritten
  RunsInItsMode
  SegmentsAreFlat
  ReadsNameTheirSectors
PROPERTY ChainEnds
CHECK_DEADLOCK FALSE
