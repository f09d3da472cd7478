SPECIFICATION Spec
CONSTANTS
  MaxCalls = 3
  Faults = {"init", "create", "setup", "tunnel", "empty"}
INVARIANTS ReleasedWhenOver CallStarts PictureReady AbsentNeedsError
CHECK_DEADLOCK FALSE
