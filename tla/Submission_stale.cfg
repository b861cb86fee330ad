\* A payment that is prepared while the connection is made again.
CONSTANTS
  MaxVersion = 4
  MaxSequence = 3
  MaxAttempts = 1
  Offset = 1
SPECIFICATION Spec
PROPERTY DefaultIsCurrent
CHECK_DEADLOCK FALSE
