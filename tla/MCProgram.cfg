CONSTANTS
  NumBits = 10
  MaxThreads = 3
  Main <- MainName
  Image <- Images
  Levels <- ImageLevels
  Programs <- MCPrograms
SPECIFICATION FairSpec
INVARIANTS
  TypeOK
  BanksKept
  TakenOwned
  Linear
  ResultRight
  SameWork
  Resolved
  Affine
PROPERTY Terminates
