SPECIFICATION FairSpec
CONSTANTS
  Others = {"o1"}
  Modes = {"forever", "timed", "aphero", "aphero_now"}
  MaxStarts = 2
  MaxStops = 2
CHECK_DEADLOCK FALSE
INVARIANTS Orderly ReturnsClosed
PROPERTY Unblocks
