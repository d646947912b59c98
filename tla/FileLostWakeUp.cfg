SPECIFICATION FairSpec
CONSTANTS
  Pubs = {p1}
  Subs = {s1}
  MinTx = 1
  MaxTx = 1
  MayCancel = FALSE
  Gathered = TRUE
  Paced = TRUE
CHECK_DEADLOCK FALSE
PROPERTY EverybodyCloses
