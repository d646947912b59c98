SPECIFICATION Spec
CONSTANTS
  Pubs = {p1}
  Subs = {s1}
  MinTx = 2
  MaxTx = 2
  MayCancel = FALSE
  Gathered = TRUE
  Paced = TRUE
CHECK_DEADLOCK FALSE
PROPERTY ReadsWhatIsWritten
