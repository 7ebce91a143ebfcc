SPECIFICATION MCSpec
CONSTANTS
  WordBits = 3
  MaxSize = 3
  SegmentLength <- MCSegmentLength
  Capacity <- MCCapacity
  HashShift = 1
  ResizeAbove = 2
  ResizeBelow = 10
  KeyHash <- MCKeyHash
  MaxIterations = 3
  DegreeMod = 3
  Value <- MCValue
  CountLimit = 3
  Int32Max = 7
  FoldShift = 2
  Uint32 = 16
  UnitBits = 2
INVARIANTS
  LookupCorrect
  PairFound
  AssignedStays
  NoLeak
  RoundTripKeepsAnswers
PROPERTIES
  ImplementsStaticMap
  CallEnds
