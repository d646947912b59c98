SPECIFICATION FairSpec
CONSTANTS
  Pubs = {p1, p2}
  Subs = {s1}
  MinTx = 1
  MaxTx = 3
  MayCancel = FALSE
  Gathered = TRUE
  Paced = TRUE
CHECK_DEADLOCK FALSE
INVARIANTS
  CloseMeansWritten
  PublishersInStep
  PreviousWritten
  EvictedWhenRead
  ExportComplete
PROPERTIES
  PublishersClose
  ImplementsStream
