SPECIFICATION Spec
CONSTANTS
  Uint32 = 64
  Maps <- MCMaps
  Foreign <- MCForeign
  BlockUnits = 17
  Offsets = {0, 1}
  MaxProducers = 2
INVARIANTS
  LateOpenIsRight
  AcceptedStaysWhole
PROPERTIES
  AcceptsOnlyWhole
