CONSTANTS
  p1 = p1
  n1 = n1
  t1 = t1
  t2 = t2
  Props = {p1}
  Nodes = {n1}
  Tasks = {t1, t2}
  NodeOf <- OneNode
  ShortMaxAge = TRUE
  MaxCrashes = 1
SPECIFICATION Spec
INVARIANTS TypeOK AtMostOnce ExecutedIsReal
PROPERTIES GateHolds ApprovedIsDispatched EveryTaskEnds
