SPECIFICATION Spec
CONSTANTS
  MaxLen = 2
  SeqNos = 5
  MaxTrouble = 3
  Trials <- AllTrials
CHECK_DEADLOCK FALSE
INVARIANTS Faithful LastHeldBack Noticed NoFalseAlarm
