\* Three requests; the pool may be configured to hold one thread or two.
\* Requests and timers run out, so the system may stop.
CONSTANTS
  NumRequests = 3
  PoolSizes <- MCPoolSizes
SPECIFICATION FairSpec
INVARIANTS
  TypeOK
  OneLiveThread
  NoRequestVanishes
PROPERTIES
  ImplementsSerialExecutor
  ServedUnlessStuck
CHECK_DEADLOCK FALSE
