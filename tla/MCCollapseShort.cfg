CONSTANTS
  N = 2
  Brackets = 3
  Cap = 3
  Attempts = 2
  Batch = 2
  Period = 2
  Limits <- OneLine
  Scale = 100
  Fields = 0
  Locs <- HalfLocs
  Root = 6
  Kind <- HalfKind
  Kids <- HalfKids
SPECIFICATION ZeroSpec
INVARIANT AtLeastLimit
