\* The transaction that a call starts with.
CONSTANTS
  MaxVersion = 3
  MaxIndex = 1
  MaxWire = 2
  MaxLimit = 2
  PageMin = 2
  PageMax = 2
SPECIFICATION Spec
INVARIANT StartIsFirst
CHECK_DEADLOCK FALSE
