SPECIFICATION Spec
CONSTANTS
  Pubs = {p1}
  Subs = {s1, s2}
  Free = Free
  MinTx = 1
  MaxTx = 2
  MayCancel = TRUE
  Gathered = FALSE
  Prompt = FALSE
CHECK_DEADLOCK FALSE
SYMMETRY Symmetry
INVARIANTS
  TypeOK
  StartingBalanced
  SubscribersSleepForAReason
  CancellationWakesSubscribers
  EndMeansReceived
