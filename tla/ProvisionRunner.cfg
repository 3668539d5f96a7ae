SPECIFICATION FairSpec
CONSTANTS
  TotalSteps = 3
  Chunked <- MCChunked
  Drivers = {d1, d2}
  StaleMinutes = 2
  MaxPasses = 1
  MaxFailures = 1
  MaxCrashes = 1
INVARIANTS
  TypeOK
  NothingSkipped
  LaunchedWhole
PROPERTIES
  FloorHolds
  BuildSpec
  SerialReceipts
  UnsettledSettles
