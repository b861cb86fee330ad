\* Two attempts at a payment, each for the current ledger or the next one.
CONSTANTS
  MaxVersion = 4
  MaxSequence = 3
  MaxAttempts = 2
  Offset = 1
SPECIFICATION Spec
INVARIANT PaidOnce
CHECK_DEADLOCK FALSE
