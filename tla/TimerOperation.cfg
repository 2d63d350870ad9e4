\* startNewOperation and the timer thread take their two mutexes in opposite order.
CONSTANTS
  NumRequests = 3
  PoolSizes <- MCPoolSizes
SPECIFICATION FairSpec
PROPERTY TimerOperationEnds
CHECK_DEADLOCK FALSE
