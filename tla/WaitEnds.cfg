\* The wait for room in the pool may miss its wake-up.
CONSTANTS
  NumRequests = 3
  PoolSizes <- MCPoolSizes
SPECIFICATION FairSpec
PROPERTY WaitEnds
CHECK_DEADLOCK FALSE
