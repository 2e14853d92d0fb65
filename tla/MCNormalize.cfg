CONSTANTS
  N = 3
  Cap = 2
  Locs <- MCLocs
  Root = 1
  Kids <- MCKids
SPECIFICATION FairSpec
INVARIANT TypeOK
INVARIANT PendingExact
INVARIANT NoEarlyExit
INVARIANT EvaluatedOnce
INVARIANT IInv
PROPERTY TraversalSpec
PROPERTY Termination
