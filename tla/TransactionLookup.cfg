\* Three ledgers, two messages under way.
CONSTANTS
  MaxVersion = 3
  MaxWire = 2
SPECIFICATION Spec
INVARIANTS
  NotFoundIsFinal
  FoundIsValidated
CHECK_DEADLOCK FALSE
