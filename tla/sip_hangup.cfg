SPECIFICATION FairSpec
CONSTANTS
  c1 = c1
  c2 = c2
  None = None
  Calls <- OneCall
  MaxAcks = 1
  Trials <- HangupTrial
CHECK_DEADLOCK FALSE
PROPERTY HangupStopsMedia
