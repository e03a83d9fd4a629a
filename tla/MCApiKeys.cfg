SPECIFICATION Spec
CONSTANTS
  Users = {u1, u2}
  Keys = {1, 2, 3}
  Subjects = {s1}
  Workers = {w1, w2}
  Modes = {"api_key_only", "hybrid"}
  StartPlans = {"pro"}
  FreeKeys = 0
  ProKeys = 1
  TTL = 2
  MaxLookup = 1
  MaxTime = 4
  MaxOps = 3
SYMMETRY Interchangeable
INVARIANTS
  TypeOK
  KeysWithinPlan
PROPERTY ServesOnlyRecentClaims
CHECK_DEADLOCK FALSE
