SPECIFICATION FairSpec
CONSTANTS
  Databases = {d1, d2}
  Asks = {a1, a2}
  Browses = {b1}
  CacheSize = 1
  PipelineTTL = 2
  ResultTTL = 1
  ConfigAge = 1
  MaxRequest = 1
  MaxTime = 4
  MaxReconnects = 1
INVARIANTS
  TypeOK
  NoEngineLost
PROPERTIES
  AnswersFromRecentDatabase
  EveryRequestEnds
CHECK_DEADLOCK FALSE
