SPECIFICATION FairSpec
CONSTANTS
  Program <- ShortProgram
  Unasked <- AnyEvent
  MaxUnasked = 2
  Faults <- Both
CHECK_DEADLOCK FALSE
INVARIANTS NothingLeftOver WaitsUntilSetIfOrderly
PROPERTIES KeepsPromise Answered
