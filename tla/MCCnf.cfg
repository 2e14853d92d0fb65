CONSTANTS
  N = 3
  Cap = 1
  Par = 2
  Locs <- MCLocs
  Kind <- MCKind
  Kids <- MCKids
  Lab <- MCLab
  Scenarios <- MCScenarios
SPECIFICATION FairSpec
INVARIANT IInv
INVARIANT TasksCounted
INVARIANT NoDangling
INVARIANT PoolCount
INVARIANT MeaningKept
INVARIANT HeadOrClean
PROPERTY Returns
