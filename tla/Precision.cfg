\* A restart that falls between the load and the store of a decrement is lost.
CONSTANTS
  MaxItems = 2
  MaxCalls = 3
  Seconds = {1, 3}
  Word = 4
SPECIFICATION Spec
INVARIANT PrecisionOfOneSecond
CHECK_DEADLOCK FALSE
