SPECIFICATION Spec
CONSTANTS
  Workers = {w1, w2}
  EmailTokens = {e1, e2}
  LoginTokens = {l1}
  MaxCrashes = 1
SYMMETRY Interchangeable
INVARIANTS
  TypeOK
  StatusIsEarned
  SessionNeedsVerification
  NewTokenReplacesOld
  TokenIsSingleUse
  SealedStaysClosed
PROPERTIES
  OnboardingMovesForward
  PaidPlanIsKept
CHECK_DEADLOCK FALSE
