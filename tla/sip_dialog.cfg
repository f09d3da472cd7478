SPECIFICATION Spec
CONSTANTS
  Trials <- DialogTrials
  MaxCalls = 2
  MaxResend = 1
  MaxOk = 1
  MaxRetry = 1
CHECK_DEADLOCK FALSE
INVARIANTS Agreement NewsComplete
PROPERTIES NewsInOrder Settles
