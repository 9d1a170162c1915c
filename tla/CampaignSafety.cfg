SPECIFICATION FairSpec
CONSTANTS
  p1 = p1
  p2 = p2
  p3 = p3
  Partners = {p1, p2}
  NoNumber = {}
  Limit = 2
  MaxUser = 2
  MaxHook = 3
  MaxCrash = 1
INVARIANTS
  TypeOK
  StatsExact
  DoneMeansDone
  CancelStops
PROPERTIES
  OnlyQueuedIsSent
  ProgressIsKept
  RunningEnds
CHECK_DEADLOCK FALSE
