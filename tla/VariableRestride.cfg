SPECIFICATION Spec
CONSTANTS
  Publishers = {p1}
  Rank = 2
  Shapes <- MCSquare
  Offsets = {0, 2}
  Strides <- MCStrides
  SizeMax = 7
  IdMax = 7
  MaxTx = 1
  Settled = FALSE
CHECK_DEADLOCK FALSE
INVARIANT
  ReducedBlocksTile
