SPECIFICATION Spec
CONSTANTS
  Ops = {o1, o2}
  Calls = {c1}
  None = None
  MaxSubs = 1
INVARIANTS TypeOK NoDoubleLoad
PROPERTIES RequestsEnd
