\* A thread whose idle time runs out may be running a handler and have more to do.
CONSTANTS
  NumRequests = 3
  PoolSizes <- MCPoolSizes
SPECIFICATION FairSpec
INVARIANT DeletedThreadIsIdle
CHECK_DEADLOCK FALSE
