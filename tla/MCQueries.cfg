SPECIFICATION Spec
CONSTANTS
  Slots = {r1, r2}
  Kinds = {"api", "systemd", "collect", "read", "trigger", "scan", "RESTART_SERVICE", "RESTART_CONTAINER",
           "DELETE_CONTAINER"}
  None = None
  QueryCap = 1
  MaxEpoch = 2
INVARIANTS TypeOK InflightHeld OneQuery
PROPERTIES Settles
CHECK_DEADLOCK FALSE
