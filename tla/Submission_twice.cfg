\* Two attempts at a payment, and what a NotFoundError may cost.
CONSTANTS
  MaxVersion = 4
  MaxSequence = 3
  MaxAttempts = 2
  Offset = 1
SPECIFICATION Spec
INVARIANT PaidOnceOnly
CHECK_DEADLOCK FALSE
