\* A careful application calls disconnect() while a close frame is answered.
CONSTANTS
  MaxSockets = 3
  MaxCalls = 3
  MaxRetries = 2
  MaxStrays = 1
  Careful = TRUE
  HandshakeFaults = FALSE
SPECIFICATION Spec
PROPERTY DisconnectEnds
CHECK_DEADLOCK FALSE
