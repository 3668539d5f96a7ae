SPECIFICATION FairSpec
CONSTANTS
  UnitCount = 2
  Drivers = {d1}
  Consumers = {c1}
  d1 = d1
  c1 = c1
  MaxUnitAttempts = 2
  MaxRetries = 1
  MaxThrows = 2
  MaxEvictions = 1
  MaxCrashes = 1
  MaxEarly = 1
INVARIANTS ArticleFirst TextBarrier TextTriedEnough ImageBarrier
PROPERTIES SettledStays DoneStaysDone StagesEnd
CHECK_DEADLOCK FALSE
