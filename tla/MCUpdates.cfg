SPECIFICATION Spec
CONSTANTS
  Intents = {i1, i2}
  None = None
  RollbackAttempts = 2
  MaxEpoch = 2
INVARIANTS TypeOK Recoverable CanaryGate
PROPERTIES BadUndone
CHECK_DEADLOCK FALSE
