\* A careful application, an error event at any time: 2 sockets, 2 promises.
CONSTANTS
  MaxSockets = 2
  MaxCalls = 2
  MaxRetries = 1
  MaxStrays = 1
  Careful = TRUE
  HandshakeFaults = FALSE
SPECIFICATION Spec
INVARIANT NoUncaughtException
CHECK_DEADLOCK FALSE
