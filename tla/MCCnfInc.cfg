CONSTANTS
  N = 2
  Cap = 2
  Par = 2
  Locs <- MCLocs
  Kind <- MCKind
  Kids <- MCKids
  Lab <- MCLab
  Scenarios <- IncScenarios
SPECIFICATION Spec
INVARIANT HeadOrClean
