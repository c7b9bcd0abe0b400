CONSTANTS
  t1 = t1
  t2 = t2
  a1 = a1
  logs = logs
  restart = restart
  Nothing = Nothing
  Tabs = {t1, t2}
  ReadTools = {logs}
  WriteTools = {restart}
  Analyses = {a1}
  Rounds = 2
  Threshold = 2
  Attempts = 2
  Tries = 2
  HistoryCap = 1
  MaxMessages = 2
SPECIFICATION ChatSpec
INVARIANTS ChatTypeOK
PROPERTIES StoredExchangeKept ProbeFailureReopens AllEnd
