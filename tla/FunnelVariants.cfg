SPECIFICATION Spec
CONSTANTS
  Admins = {a1, a2}
  Sessions = {s1, s2}
  Tests = {t1, t2}
  a1 = a1
  a2 = a2
  s1 = s1
  s2 = s2
  t1 = t1
  t2 = t2
  First = s1
  None = None
  Whole = 2
  Bucket <- MCBucket
  MaxVariants = 3
  MaxRevision = 5
  MaxOps = 4
  MaxVisits = 3
SYMMETRY AdminSymmetry
INVARIANTS
  TypeOK
  SplitHolds
PROPERTIES
  Frozen
  Sticky
CHECK_DEADLOCK FALSE
