\* Two ledgers; requests with and without a ledger_index.
CONSTANTS
  MaxVersion = 2
  MaxWire = 2
SPECIFICATION Spec
INVARIANT OnlyValidated
CHECK_DEADLOCK FALSE
