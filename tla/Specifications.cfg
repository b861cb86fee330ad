\* One of every kind: payments and their paths, two orders, settings with a flag
\* that is a bit and one that is not, a trust line, an escrow, a channel.
CONSTANTS
  undefined = undefined
  unavailable = unavailable
  Payer = payer
  Payee = payee
  Gateway = gateway
  DropsPerXrp = 10
  LastUnrecorded = 1
  XrpValues = {25}
  IssuedValues = {5}
  Balances = {0, 2, 30}
  Makers = {alice, bob}
  Issuers = {gate, way}
  OrderRates = {2, 10}
  Lots = {1}
  FlagNames = {"requireDestinationTag", "noFreeze", "enableTransactionIDTracking"}
  Keys = {"k"}
  SettingRates = {1000, 1005}
  Limits = {1}
  EscrowAmounts = {25}
  EscrowTimes = {9, 10, 13, 14, 19}
  LastClose = 6
  ChannelAmounts = {19, 25}
  ChannelTimes = {9, 14}
  Fundings = 2
  LastClosed = 4
  MaxVersion = 3
SPECIFICATION Spec
INVARIANTS
  PathsCanBePaid
  DeliveredIsTold
  BookOfALedger
  ReadsBack
  EscrowAsAsked
  ClaimsHonoured
  SameOutcome
CHECK_DEADLOCK FALSE
