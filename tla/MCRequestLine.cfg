\* Every short URI, longer queries and escapes, and pairs of requests.
CONSTANT Inputs <- MCInputs
SPECIFICATION FairSpec
INVARIANTS
  TypeOK
  ScanInRange
  ThrowsOnlyIfMalformed
  UriRight
  QueryRight
  OnlyOrderlyPasses
  HeaderFound
PROPERTY OrderlyEnds
CHECK_DEADLOCK FALSE
