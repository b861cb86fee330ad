\* Violated, see the README: a balance in XRP is compared with drops.
CONSTANTS
  undefined = undefined
  unavailable = unavailable
  Payer = payer
  Payee = payee
  Gateway = gateway
  DropsPerXrp = 10
  LastUnrecorded = 1
  XrpValues = {25}
  IssuedValues = {5}
  Balances = {0, 2, 30}
  MaxVersion = 3
SPECIFICATION Spec
INVARIANT DirectPathOffered
CHECK_DEADLOCK FALSE
