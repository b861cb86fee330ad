\* The gap check of a call without maxLedgerVersion.
CONSTANTS
  MaxVersion = 3
  MaxIndex = 1
  MaxWire = 2
  MaxLimit = 2
  PageMin = 2
  PageMax = 2
SPECIFICATION Spec
INVARIANT NoGapInSpan
CHECK_DEADLOCK FALSE
