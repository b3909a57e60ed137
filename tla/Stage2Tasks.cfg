SPECIFICATION Spec
CONSTANTS
  Leaf1C = {30}
  Leaf1D = {}
  LeafX1C = {8}
  LeafX1D = {11, 20, 29}
  ApicIds = {16}
  Bioses = {"opens", "refuses", "absent"}
  OtherBits = {FALSE, TRUE}
  Columns = 12
INVARIANTS
  IInv
  ExtendedReported
  KeepsRunning
  OnlyWrapsClobber
PROPERTIES
  BarAndTextApart
CHECK_DEADLOCK FALSE
