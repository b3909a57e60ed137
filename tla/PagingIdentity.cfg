SPECIFICATION Spec
CONSTANTS
  Pml4At = 14
  PdpAt = 15
  PdAt = 16
  Junk <- JunkEntries
  Indexes <- SomeIndexes
INVARIANTS
  IdentityMapped
  NothingElseMapped
  IInv
CHECK_DEADLOCK FALSE
