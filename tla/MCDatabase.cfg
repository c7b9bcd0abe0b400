CONSTANTS
  Requests = {r1}
  Streams = {s1}
  Background = {b1, b2}
  Flushers = {b2}
  Pool = {c1}
  Primary = primary
  Genesis = genesis
  BufferCap = 1
  MaxReports = 2
  Free = free
SPECIFICATION DbSpec
INVARIANTS DbTypeOK ChainIntact WritesKept
PROPERTIES EveryTaskEnds
CHECK_DEADLOCK FALSE
