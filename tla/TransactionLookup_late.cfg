\* A ledgerClosed message in the same read as the answer to tx.
CONSTANTS
  MaxVersion = 3
  MaxWire = 2
SPECIFICATION Spec
INVARIANT NotFoundIsTimely
CHECK_DEADLOCK FALSE
