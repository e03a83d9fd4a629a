SPECIFICATION Spec
CONSTANTS
  Workers = {w1, w2}
  EmailTokens = {e1}
  LoginTokens = {l1}
  MaxCrashes = 0
PROPERTY ClosedIsTerminal
CHECK_DEADLOCK FALSE
