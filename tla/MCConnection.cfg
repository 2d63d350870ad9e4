\* Three requests, cut in seven places; the client waits for responses or does not.
CONSTANTS
  Requests <- MCRequests
  NoLength = NoLength
  Colons <- MCColons
  Cuts <- MCCuts
  MaxGarbled = 0
  MaxTasks = 4
SPECIFICATION ConnectionFairSpec
INVARIANTS
  ConnectionTypeOK
  AnsweredInOrder
  PatientIsServedRight
PROPERTY FirstRequestAnswered
CHECK_DEADLOCK FALSE
