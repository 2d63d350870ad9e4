\* Three requests, cut at each kind of place; one read appends other bytes.
CONSTANTS
  Requests <- MCRequests
  NoLength = NoLength
  Colons <- MCColons
  Cuts <- MCCuts
  MaxGarbled = 1
SPECIFICATION FairSpec
INVARIANTS
  TypeOK
  NoDataForgotten
  EmittedInOrder
  WholeRequestRight
PROPERTY FirstRequestEmitted
CHECK_DEADLOCK FALSE
