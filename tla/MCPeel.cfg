SPECIFICATION MCSpec
CONSTANTS
  WordBits = 3
  MaxSize = 6
  SegmentLength <- MCSegmentLength
  Capacity <- MCCapacity
  HashShift = 1
  ResizeAbove = 2
  ResizeBelow = 5
  KeyHash <- MCKeyHash
  MaxIterations = 3
  DegreeMod = 4
  MixShift = 2
  MixFactors <- MCMixFactors
  Golden = 5
  SplitShifts <- MCSplitShifts
  SplitFactors <- MCSplitFactors
CONSTRAINT MCConstraint
INVARIANTS
  TypeOK
  OthersAreTheHashsCells
  ScatterHasRoom
  ScatterKeepsHashes
  CountsAgree
  AloneHasRoom
  DuplicateHasCause
  PeelOrder
  StackHoldsKeys
  SuccessIsComplete
  MixingLosesNothing
  SeedsAreFresh
PROPERTIES
  RetryStartsClean
