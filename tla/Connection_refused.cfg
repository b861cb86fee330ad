\* A careful application; the handshake of a reconnection may fail.
CONSTANTS
  MaxSockets = 3
  MaxCalls = 3
  MaxRetries = 2
  MaxStrays = 1
  Careful = TRUE
  HandshakeFaults = TRUE
SPECIFICATION FairSpec
PROPERTY OutageEnds
CHECK_DEADLOCK FALSE
