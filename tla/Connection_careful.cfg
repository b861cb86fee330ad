\* A careful application, no close or refusal in a handshake: 3 sockets and 3
\* promises at once, behaviours of any length.
CONSTANTS
  MaxSockets = 3
  MaxCalls = 3
  MaxRetries = 2
  MaxStrays = 1
  Careful = TRUE
  HandshakeFaults = FALSE
SPECIFICATION FairSpec
INVARIANTS
  OneCloseReaction
  NoOrphanSocket
  LossIsNoticed
  NoLostCall
  OneReconnectLoop
PROPERTIES
  OnlyHandshakeThrows
  ConnectMeansReady
  EventsAlternate
  CallsSettle
  OutageEnds
  LinkImplemented
CHECK_DEADLOCK FALSE
