CONSTANTS
  N = 2
  Brackets = 3
  Cap = 3
  Attempts = 2
  Batch = 1
  Period = 2
  Limits <- MCLimits
  Scale = 100
  Fields = 1
  Locs <- HalfLocs
  Root = 6
  Kind <- HalfKind
  Kids <- HalfKids
SPECIFICATION FairSpec
INVARIANT ZeroInv
INVARIANT PendingExact
INVARIANT NoEarlyStop
INVARIANT PrintedOnce
INVARIANT AtMostLimit
PROPERTY Ends
