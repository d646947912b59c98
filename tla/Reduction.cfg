SPECIFICATION Spec
CONSTANTS
  None = None
  Publishers = {p1, p2}
  Subscribers = {s1}
  Addresses = {x1, x2, x3}
  Part <- MCPart
  Size = 5
  ElementSize = 8
  DecimationParameters <- MCDecimations
  CompressionParameters <- MCCompressions
  Fit <- MCFit
  Noises <- MCNoises
  MaxReductions = 2
  MaxObjects = 3
CHECK_DEADLOCK FALSE
SYMMETRY Symmetry
INVARIANTS
  TypeOK
  LookUpsSucceed
  CopiesKeepWhatTheySaw
  DataReducedOnce
  PutsNoMoreThanItsBlock
