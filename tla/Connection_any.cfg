\* Any application and any fault: 2 sockets and 2 promises at once.
CONSTANTS
  MaxSockets = 2
  MaxCalls = 2
  MaxRetries = 1
  MaxStrays = 1
  Careful = FALSE
  HandshakeFaults = TRUE
SPECIFICATION Spec
INVARIANTS
  TypeOK
  DisconnectNotLost
  RequestsHaveSocket
  ReadyWasAnnounced
CHECK_DEADLOCK FALSE
