SPECIFICATION Spec
CONSTANTS
  Workers = {w1, w2}
  Zones <- MCZones
  Plans <- MCPlans
  DailyLimit <- MCDailyLimit
  NextMidnight <- MCNextMidnight
  MaxTime = 6
  MaxCount = 3
  Day = 4
INVARIANTS
  TypeOK
  SnapshotPredictsCharge
PROPERTIES
  AdmittedWithinPlan
  DenialMeansSpent
  CountKeptUntilReset
  NoEarlyResetUnlessStale
