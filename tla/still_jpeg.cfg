SPECIFICATION FairStillSpec
CONSTANTS
  Slices = 6
  UseEncoder = TRUE
  MayFail = TRUE
CHECK_DEADLOCK FALSE
INVARIANT OnlyTheLastAtRisk
PROPERTY CaptureEnds
