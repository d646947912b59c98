SPECIFICATION Spec
CONSTANTS
  Pubs = {p1}
  Subs = {s1, s2}
  Free = Free
  MinTx = 2
  MaxTx = 2
  MayCancel = FALSE
  Gathered = TRUE
  Prompt = FALSE
CHECK_DEADLOCK FALSE
INVARIANTS
  SubscribersInStep
