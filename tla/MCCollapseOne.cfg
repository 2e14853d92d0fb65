CONSTANTS
  N = 1
  Brackets = 4
  Cap = 10
  Attempts = 2
  Batch = 2
  Period = 3
  Limits <- OneLimits
  Scale = 100
  Fields = 0
  Locs <- TenLocs
  Root = 23
  Kind <- TenKind
  Kids <- TenKids
SPECIFICATION ZeroSpec
INVARIANT ExactLimit
PROPERTY InOrder
