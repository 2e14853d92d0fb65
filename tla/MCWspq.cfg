CONSTANTS
  N = 2
  Brackets = 2
  Cap = 1
  Attempts = 2
  Batch = 2
  MaxTask = 3
SPECIFICATION Spec
INVARIANT TypeOK
INVARIANT ExactlyOnce
INVARIANT MaskSound
INVARIANT BestKey
INVARIANT IInv
