SPECIFICATION Spec
CONSTANTS
  c1 = c1
  c2 = c2
  None = None
  Calls <- TwoCalls
  MaxAcks = 2
  Trials <- CallTrials
CHECK_DEADLOCK FALSE
INVARIANTS TypeOK NoOrphan JoinedOnce MediaToCaller ClosedMeansStopped ForeignCloseIsAudio AllClosed
