CONSTANTS
  p1 = p1
  p2 = p2
  Thieves <- MCThieves
  Cap <- MCCap
  MaxPush <- MCMaxPush
SPECIFICATION Spec
SYMMETRY Symmetry
INVARIANT TypeOK
INVARIANT ExactlyOnce
INVARIANT IInv
PROPERTY DequeSpec
