----------------------------- MODULE MCVideoNpt -----------------------------
(* Small instances of VideoNpt for TLC.                                    *)
EXTENDS VideoNpt

\* H.264 and raw pictures; every set of faults for videos that start with nothing
\* left, and starts over what one failed video left.
Trying(encoders, faults, inits) == [encoder : encoders, faults : faults, inits : {inits}]

AllTrials ==
  Trying(BOOLEAN, SUBSET FaultKinds, 1) \cup Trying({TRUE}, {{"refuse"}, {"error"}}, 2)
=============================================================================
