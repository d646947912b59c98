SPECIFICATION Spec
CONSTANTS
  Publishers = {p1, p2}
  Rank = 2
  Shapes <- MCShapes
  Offsets = {0, 1, 2, 3, 7}
  Strides <- MCStrides
  SizeMax = 7
  IdMax = 7
  MaxTx = 2
  Settled = TRUE
CHECK_DEADLOCK FALSE
SYMMETRY Symmetry
INVARIANTS
  TypeOK
  AcceptedBlocksFit
  EveryElementOnce
  ReducedBlocksTile
PROPERTY
  GetsLeaveLastTransaction
