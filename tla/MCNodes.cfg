SPECIFICATION Spec
CONSTANTS
  Workers = {w1, w2}
  Sessions = {s1, s2}
  None = None
  Dead = Dead
  MaxJoin = 2
  MaxTokens = 3
  MaxAdmin = 1
  MaxCrashes = 1
INVARIANTS TypeOK JoinTokenOnce RegistryAlive LockoutOnlyByLoss
SYMMETRY Symmetric
CHECK_DEADLOCK FALSE
