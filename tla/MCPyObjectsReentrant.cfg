SPECIFICATION Spec
CONSTANTS
  t1 = t1
  t2 = t2
  Threads <- MCThreads
  WordBits = 2
  Dicts <- MCDicts
  Lists <- MCLists
  LookedUp <- MCLookedUp
  Stored <- MCStored
  Reentrant = TRUE
  Chunk = 3
  Block = 2
  MaxMaps = 2
SYMMETRY ThreadSymmetry
INVARIANTS
  BuildsFromOneDict
