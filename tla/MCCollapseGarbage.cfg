CONSTANTS
  N = 1
  Brackets = 4
  Cap = 10
  Attempts = 2
  Batch = 2
  Period = 3
  Limits <- NoLimit
  Scale = 100
  Fields = 0
  Locs <- TwoLocs
  Root = 5
  Kind <- TwoKind
  Kids <- TwoKids
SPECIFICATION Spec
INVARIANT AtLeastLimit
