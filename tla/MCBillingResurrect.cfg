SPECIFICATION Spec
CONSTANTS
  Jobs = {j1}
  Sessions = {s1}
  None = None
  MaxEvents = 2
  MaxCrashes = 0
PROPERTY ConfirmRespectsDeletion
CHECK_DEADLOCK FALSE
