\* The fields of a claim are not those that the documentation describes.
CONSTANTS
  undefined = undefined
  ChannelAmounts = {19, 25}
  ChannelTimes = {9}
  Fundings = 1
  LastClosed = 2
SPECIFICATION Spec
PROPERTY ClaimAsDocumented
CHECK_DEADLOCK FALSE
