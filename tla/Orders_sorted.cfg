\* Two orders of one or two accounts, each against the other or beside it.
CONSTANTS
  undefined = undefined
  Makers = {alice, bob}
  Issuers = {gate, way}
  Rates = {2, 10}
  Lots = {1}
  MaxVersion = 3
SPECIFICATION Spec
INVARIANT BestFirst
CHECK_DEADLOCK FALSE
