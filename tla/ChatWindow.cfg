SPECIFICATION FairSpec
CONSTANTS
  c1 = c1
  c2 = c2
  None = None
  Chats = {c1, c2}
  MaxOld = 2
  Old <- MCOld
  Limit = 1
  Aliased = {c2}
  Reports = {2, 4}
  MaxNew = 1
  MaxOpens = 3
  MaxFaults = 1
  MaxBus = 1
INVARIANTS
  OwnMessagesOnly
  NoGaps
  EchoShownOnce
  TicksSettle
PROPERTIES
  FirstPage
CHECK_DEADLOCK FALSE
