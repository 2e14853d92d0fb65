CONSTANTS
  NumBits = 10
  MaxThreads = 1
  Main <- MainName
  Image <- Images
  Levels <- ImageLevels
  Programs <- MCForks
SPECIFICATION Spec
INVARIANT Affine
