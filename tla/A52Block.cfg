SPECIFICATION Spec
CONSTANTS
  Headers <- SomeHeaders
  Offsets <- SomeOffsets
  Deltas <- SomeDeltas
INVARIANTS
  OwnSideInformation
