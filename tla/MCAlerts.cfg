CONSTANTS
  n1 = n1
  None = None
  Nodes = {n1}
  Thresholds = {"disk_usage_high"}
  Threshold <- Builtin
  Values = {0, 1, 2, 3}
  MaxConcurrent = 1
  MaxRows = 2
  MaxCrashes = 1
SPECIFICATION Spec
INVARIANTS TypeOK MemoryAgrees ReservedExact
