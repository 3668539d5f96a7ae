SPECIFICATION Spec
CONSTANTS
  Admins = {a1, a2}
  Visitors = {s1}
  Experiments = {e1, e2}
  a1 = a1
  a2 = a2
  s1 = s1
  e1 = e1
  e2 = e2
  None = None
  Whole = 2
  MaxVersions = 2
  MaxOps = 4
  MaxVisits = 2
SYMMETRY AdminSymmetry
INVARIANTS
  PointerAgrees
  SplitHolds
PROPERTIES
  Locked
  Sticky
CHECK_DEADLOCK FALSE
