CONSTANTS
  MaxEvents = 3
  Handled = {1, 2}
  Sweeps = {s1, s2}
  BatchSize = 2
  ReplaySize = 2
  MaxRetries = 2
  MaxRaises = 1
  MaxCrashes = 1
SPECIFICATION Spec
INVARIANTS TypeOK SoleDispatcher AtLeastOnce
PROPERTY EventuallySettled
CHECK_DEADLOCK FALSE
