SPECIFICATION Spec
CONSTANTS
  Pubs = {p1}
  Subs = {s1, s2}
  MinTx = 1
  MaxTx = 2
  MayCancel = TRUE
  Gathered = FALSE
  Paced = FALSE
CHECK_DEADLOCK FALSE
SYMMETRY Symmetry
INVARIANTS
  TypeOK
  SubscribersSleepForAReason
  CancellationWakesSubscribers
  SubFlagNeverSticks
