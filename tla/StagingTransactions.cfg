SPECIFICATION FairSpec
CONSTANTS
  Pubs = {p1, p2}
  Subs = {s1, s2}
  Free = Free
  MinTx = 1
  MaxTx = 3
  MayCancel = FALSE
  Gathered = TRUE
  Prompt = TRUE
INVARIANTS
  PublishersInStep
  OneTransactionInFlight
  NoStrayRequest
  PublishersSleepForAReason
  NeverStuck
PROPERTIES
  ReadsItsTransaction
  EverybodyCloses
  ImplementsStream
