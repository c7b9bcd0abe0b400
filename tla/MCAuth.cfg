CONSTANTS
  r1 = r1
  r2 = r2
  None = None
  Requests = {r1, r2}
  LoginLimit = 2
  MaxTokens = 4
  MaxChanges = 2
SPECIFICATION Spec
SYMMETRY RequestSymmetry
INVARIANTS TypeOK FamilyIsALine CurrentPassword
