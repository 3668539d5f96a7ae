SPECIFICATION FairSpec
CONSTANTS
  Conversions = {v1}
  Click <- MCClick
  Requests = {r1, r2}
  MaxPosts = 2
  MaxEvents = 2
  MaxErrors = 2
  MaxEvictions = 1
INVARIANTS
  BookedOnce
  StampedIsShipped
PROPERTIES
  LedgerSpec
  RowsAreShipped
