\* Three ledgers with at most one transaction each, pages of one or two.
CONSTANTS
  MaxVersion = 3
  MaxIndex = 1
  MaxWire = 2
  MaxLimit = 2
  PageMin = 2
  PageMax = 2
SPECIFICATION FairSpec
INVARIANTS
  NoSilentGap
  WithinLimit
PROPERTY PagingEnds
CHECK_DEADLOCK FALSE
