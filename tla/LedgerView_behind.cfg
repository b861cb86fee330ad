\* Two ledgers: the second closes while the answer is under way.
CONSTANTS
  MaxVersion = 2
  MaxWire = 2
SPECIFICATION Spec
INVARIANT VersionIsCurrent
CHECK_DEADLOCK FALSE
