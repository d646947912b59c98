SPECIFICATION FairSpec
CONSTANTS
  Actors = {a1, a2}
  NoCall = NoCall
  MaxCalls = 3
  Undefined = Undefined
  EngineTypes = {"File"}
  Methods = {"File", "MQ"}
  MaxEngines = 2
  MaxRounds = 2
  Gathered = TRUE
  Shared = Shared
INVARIANTS
  TypeOK
  EnginesMatchSettings
  SessionsAreShared
PROPERTIES
  SubscribersKeepToTheirRole
  CallsAreAnswered
  NobodyIsStuck
CHECK_DEADLOCK FALSE
