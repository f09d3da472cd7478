----------------------------- MODULE Completion -----------------------------
(***************************************************************************)
(* What internal.h:209-219 promises of omxcam__event_wait to a thread that *)
(* sends commands to a component one after the other: the n-th wait returns*)
(* success only after what it waits for has been set, unless the exchange  *)
(* was disturbed: then nothing is promised from there on.                  *)
(***************************************************************************)
EXTENDS Naturals

CONSTANT Steps        \* the number of waits

VARIABLES returned,   \* how many waits returned success
          completed,  \* the waits whose event was set
          broken,     \* an error was returned
          excused     \* the exchange was disturbed

Init == returned = 0 /\ completed = {} /\ broken = FALSE /\ excused = FALSE

Complete ==
  /\ \E n \in 1 .. Steps : completed' = completed \cup {n}
  /\ UNCHANGED <<returned, broken, excused>>

Return ==
  /\ ~broken
  /\ excused \/ returned + 1 \in completed
  /\ returned' = returned + 1
  /\ UNCHANGED <<completed, broken, excused>>

Break ==
  /\ broken' = TRUE
  /\ UNCHANGED <<returned, completed, excused>>

Excuse ==
  /\ excused' = TRUE
  /\ UNCHANGED <<returned, completed, broken>>

Next == Complete \/ Return \/ Break \/ Excuse

Spec == Init /\ [][Next]_<<returned, completed, broken, excused>>
=============================================================================
