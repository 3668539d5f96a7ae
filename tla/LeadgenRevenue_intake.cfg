SPECIFICATION FairSpec
CONSTANTS
  Conversions = {v1}
  Requests = {r1, r2}
  MaxPosts = 3
  MaxPixels = 2
  MaxErrors = 1
  MaxEvictions = 1
INVARIANTS
  TypeOK
  BookedOnce
  FiredPerRow
PROPERTIES
  LedgerSpec
  PendingResolves
