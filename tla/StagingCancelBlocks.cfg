SPECIFICATION FairSpec
CONSTANTS
  Pubs = {p1}
  Subs = {s1}
  Free = Free
  MinTx = 1
  MaxTx = 2
  MayCancel = TRUE
  Gathered = FALSE
  Prompt = TRUE
CHECK_DEADLOCK FALSE
PROPERTIES
  CancelUnblocks
