\* Two clients and room for none, one or both: descriptors are freed and used again.
CONSTANTS
  NumConns = 2
  MaxSends = 1
  MaxTimeouts = 1
  Limits <- MCLimits
SPECIFICATION FairSpec
INVARIANTS
  TypeOK
  SocketListFits
  TablesAgree
  NoConnectionForgotten
PROPERTIES
  ClosedForItsOwnReason
  ServerAdmits
  HangUpNoticed
  ConnectionAccepted
CHECK_DEADLOCK FALSE
