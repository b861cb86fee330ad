\* Four requests, subscribe requests of the handshakes included.
CONSTANT MaxRequests = 4
SPECIFICATION FairSpec
INVARIANTS
  TypeOK
  OwnAnswer
  PendingIsHeard
  SettledIsSilent
  NoneOutlives
PROPERTY ReadyRequestsSettle
CHECK_DEADLOCK FALSE
