SPECIFICATION Spec
CONSTANTS
  Uint32 = 64
  t1 = t1
  t2 = t2
  Threads <- MCThreads
  Maps <- MCMaps
  Foreign <- MCForeign
  Chunk = 12
  MaxCalls = 3
  MaxCrashes = 1
  MaxDamage = 1
SYMMETRY ThreadSymmetry
INVARIANTS
  LoadedIsSaved
  LoadedParamsFit
PROPERTIES
  RefusesOnlyBroken
