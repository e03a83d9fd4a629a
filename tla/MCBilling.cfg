SPECIFICATION Spec
CONSTANTS
  Jobs = {j1, j2}
  Sessions = {s1, s2}
  None = None
  MaxEvents = 2
  MaxCrashes = 1
SYMMETRY Symmetry
INVARIANTS
  TypeOK
  NoEventLost
  ProIsEarned
  PlanMatchesStatusUnlessStale
PROPERTY SupersededUnlessOvertaken
CHECK_DEADLOCK FALSE
