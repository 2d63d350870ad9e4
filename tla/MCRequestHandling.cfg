\* Six requests on one connection while main makes six registrations.
CONSTANTS
  Controllers <- MCControllers
  Kind <- MCKind
  Routes <- MCRoutes
  Resources <- MCResources
  Registration <- MCRegistration
  Requests <- MCRequests
  Sizes <- MCSizes
SPECIFICATION Spec
INVARIANTS
  TypeOK
  BestMatch
  PrefixServed
  NotFoundIs404
  SentOnceIsFramed
  CallbackBehindMiddlewares
  AnsweredAsAsked
CHECK_DEADLOCK FALSE
