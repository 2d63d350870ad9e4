\* Two items, three restarts or removals, unsigned int of two bits.
CONSTANTS
  MaxItems = 2
  MaxCalls = 3
  Seconds <- MCSeconds
  Word = 4
SPECIFICATION FairSpec
INVARIANTS
  TypeOK
  ReportedOnTime
PROPERTY EventuallyReported
CHECK_DEADLOCK FALSE
