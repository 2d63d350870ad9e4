\* A client that sends exactly one full buffer and stays.
CONSTANTS
  NumConns = 2
  MaxSends = 1
  MaxTimeouts = 1
  Limits <- MCLimits
SPECIFICATION FairSpec
PROPERTY ReadEnds
CHECK_DEADLOCK FALSE
