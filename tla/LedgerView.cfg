\* Three ledgers, two messages under way, any number of them in a read.
CONSTANTS
  MaxVersion = 3
  MaxWire = 2
SPECIFICATION Spec
INVARIANTS
  BehindByOneReadOnly
  RangesMatch
  ReturnedIsUsable
CHECK_DEADLOCK FALSE
