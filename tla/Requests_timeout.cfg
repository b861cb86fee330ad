\* Every timeout fires and every connection does what its socket tells it.
CONSTANT MaxRequests = 2
SPECIFICATION ResponsiveSpec
PROPERTY AllRequestsSettle
CHECK_DEADLOCK FALSE
