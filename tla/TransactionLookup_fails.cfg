\* A NotFoundError after a request that failed.
CONSTANTS
  MaxVersion = 3
  MaxWire = 2
SPECIFICATION Spec
INVARIANT NotFoundIsTrue
CHECK_DEADLOCK FALSE
