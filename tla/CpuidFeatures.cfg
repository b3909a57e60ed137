SPECIFICATION Spec
CONSTANTS
  Leaf1C = {0, 30}
  Leaf1D = {}
  LeafX1C = {}
  LeafX1D = {}
  ApicIds = {0}
INVARIANT FeaturesReported
CHECK_DEADLOCK FALSE
