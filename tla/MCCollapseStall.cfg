CONSTANTS
  N = 2
  Brackets = 3
  Cap = 2
  Attempts = 2
  Batch = 2
  Period = 2
  Limits <- NineLines
  Scale = 100
  Fields = 0
  Locs <- FourLocs
  Root = 7
  Kind <- FourKind
  Kids <- FourKids
SPECIFICATION FairSpec
PROPERTY PushReturns
