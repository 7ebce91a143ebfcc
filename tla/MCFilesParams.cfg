SPECIFICATION Spec
CONSTANTS
  Uint32 = 64
  t1 = t1
  t2 = t2
  Threads <- MCThreads
  Maps <- MCMaps
  Foreign <- MCForeignPlain
  Chunk = 12
  MaxCalls = 1
  MaxCrashes = 0
  MaxDamage = 1
SYMMETRY ThreadSymmetry
INVARIANTS
  LoadedParamsFit
