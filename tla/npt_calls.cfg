SPECIFICATION FairSpec
CONSTANT Trials <- AllTrials
INVARIANTS ReadyMeansExecuting LeakNeedsFault
PROPERTIES ClosedWhenSilent CallsReturn
