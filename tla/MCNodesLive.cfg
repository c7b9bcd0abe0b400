SPECIFICATION Spec
CONSTANTS
  Workers = {w1}
  Sessions = {s1, s2}
  None = None
  Dead = Dead
  MaxJoin = 1
  MaxTokens = 2
  MaxAdmin = 2
  MaxCrashes = 0
PROPERTY SessionsEnd
CHECK_DEADLOCK FALSE
