SPECIFICATION FairSpec
CONSTANTS
  Jobs = {1, 2, 3}
  Channels <- MCChannelSet
  Root <- MCRoot
  Up <- MCUp
  Visits <- MCVisits
  ChannelOf <- MCChannelOf
  Capacity <- MCCapacity
  Sequential <- MCSequential
  Throttle <- MCThrottle
  DependsOn <- MCDependsOn
  Delayed = {}
  MaxNow = 1
  MaxUser = 1
  MaxFault = 1
INVARIANTS
  CapacityKept
  ManagerAgrees
  SleepsWell
PROPERTIES
  SequentialBlocks
  PendingMovesOn
CHECK_DEADLOCK FALSE
