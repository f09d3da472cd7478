SPECIFICATION FairSpec
CONSTANTS
  c1 = c1
  c2 = c2
  None = None
  Calls <- OneCall
  MaxAcks = 2
  Trials <- LiveTrials
CHECK_DEADLOCK FALSE
PROPERTIES EventThreadReturns MediaStops
