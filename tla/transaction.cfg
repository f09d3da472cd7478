SPECIFICATION FairSpec
CONSTANT MaxQueue = 4
CHECK_DEADLOCK FALSE
PROPERTIES KeepsExchange Ends
