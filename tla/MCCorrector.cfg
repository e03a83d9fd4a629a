SPECIFICATION FairSpec
CONSTANTS
  MaxQueryRows = 1
  BigResult = 3
  Tables <- MCTables
  Sampled <- MCSampled
  Questions = {q1, q2}
  Dialects = {"sqlite", "postgresql"}
  Drafts <- MCDrafts
  MaxRetries = 2
  MaxChars = 1
  PoolSize = 1
  MaxChanges = 1
INVARIANTS
  TypeOK
  
PROPERTY ImplementsCorrectionLoop
CHECK_DEADLOCK FALSE
