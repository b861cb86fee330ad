CONSTANTS
  Servers = {here, there}
  PageSize = 1
  MaxVersion = 3
  Losses = 1
SPECIFICATION Spec
INVARIANTS
  EmittedOnce
  AnswerIsOfOneLedger
PROPERTY RaceSettles
CHECK_DEADLOCK FALSE
