---------------------------- MODULE OmxCommands ----------------------------
(***************************************************************************)
(* A thread that drives one OpenMAX component: it sends a command and      *)
(* waits for the event that completes it, over and over, the way           *)
(* omxcam__component_init, omxcam__omx_init, omxcam_video_read_npt and     *)
(* omxcam__omx_deinit do.  The component answers from a thread of its own  *)
(* through event_handler and fill_buffer_done.                             *)
(***************************************************************************)
EXTENDS Naturals, Sequences, EventFlags

CONSTANTS
  Program,    \* for each step: the events its command owes, and the one waited for
  Unasked,    \* events the component reports although nothing was asked
  MaxUnasked, \* bound on how many of them
  Faults      \* "error": the component fails; "spurious": pthread_cond_wait does

ASSUME ProgramAssumption == Program \in Seq([owes : SUBSET (Events \ {"ERROR"}),
                                             wait : Events \ {"ERROR"}])
ASSUME UnaskedAssumption == Unasked \subseteq Events \ {"ERROR"}
ASSUME MaxUnaskedAssumption == MaxUnasked \in Nat
ASSUME FaultsAssumption == Faults \subseteq {"error", "spurious"}

Positions == 1 .. Len(Program)

VARIABLES
  pos,      \* the step of Program
  at,       \* where the thread is in it
  comp,     \* component->event
  owed,     \* the completions to come: <<step, event>>
  given,    \* the completions reported
  unasked,  \* how many events were reported unasked
  early,    \* history: the steps whose wait returned 0 before its event
  disturbed \* history: a command owed not just the event waited for, an event
            \* came unasked, or pthread_cond_wait returned for nothing

vars == <<pos, at, comp, owed, given, unasked, early, disturbed>>

TypeOK ==
  /\ pos \in 1 .. (Len(Program) + 1)
  /\ at \in {"send", "enter", "inside", "failed"}
  /\ at \in {"enter", "inside"} => pos \in Positions
  /\ comp \in Component
  /\ owed \subseteq Positions \X Events
  /\ given \subseteq Positions \X Events
  /\ unasked \in 0 .. MaxUnasked
  /\ early \subseteq Positions
  /\ disturbed \in BOOLEAN

Init ==
  /\ pos = 1
  /\ at = "send"
  /\ comp = Created
  /\ owed = {} /\ given = {} /\ unasked = 0
  /\ early = {} /\ disturbed = FALSE

Awaited == Program[pos].wait

\* The event waited for was reported by this step's command or, for a command
\* that owes two, by the one before.
Arrived ==
  \/ <<pos, Awaited>> \in given
  \/ Awaited \notin Program[pos].owes /\ <<pos - 1, Awaited>> \in given

-----------------------------------------------------------------------------
(* The thread                                                              *)

\* OMX_SendCommand, OMX_FillThisBuffer, OMX_SetParameter
Send ==
  /\ at = "send" /\ pos \in Positions
  /\ owed' = owed \cup {<<pos, e>> : e \in Program[pos].owes}
  /\ disturbed' = (disturbed \/ Program[pos].owes # {Awaited})
  /\ at' = "enter"
  /\ UNCHANGED <<pos, comp, given, unasked, early>>

\* The end of omxcam__event_wait; the caller gives up when it fails.
Return ==
  /\ comp' = Left(comp, {Awaited})
  /\ IF Succeeds(comp)
       THEN /\ pos' = pos + 1 /\ at' = "send"
            /\ early' = IF Arrived THEN early ELSE early \cup {pos}
       ELSE /\ at' = "failed"
            /\ UNCHANGED <<pos, early>>

Enter ==
  /\ at = "enter"
  /\ IF MustWait(comp, {Awaited})
       THEN /\ comp' = Blocked(comp, {Awaited})
            /\ at' = "inside"
            /\ UNCHANGED <<pos, early>>
       ELSE Return
  /\ UNCHANGED <<owed, given, unasked, disturbed>>

Resume ==
  /\ at = "inside"
  /\ Wakeable(comp)
  /\ Return
  /\ UNCHANGED <<owed, given, unasked, disturbed>>

Thread == Send \/ Enter \/ Resume

-----------------------------------------------------------------------------
(* The component                                                           *)

ThreadKeeps == UNCHANGED <<pos, at, early>>

\* event_handler and fill_buffer_done: a completion
Report ==
  /\ \E p \in owed :
       /\ owed' = owed \ {p}
       /\ given' = given \cup {p}
       /\ comp' = Waked(comp, p[2], "OMX_ErrorNone")
  /\ UNCHANGED <<unasked, disturbed>> /\ ThreadKeeps

\* event_handler: OMX_EventError instead of a completion
ReportError ==
  /\ "error" \in Faults
  /\ \E p \in owed : owed' = owed \ {p}
  /\ comp' = Waked(comp, "ERROR", "OMX_Error")
  /\ UNCHANGED <<given, unasked, disturbed>> /\ ThreadKeeps

ReportUnasked ==
  /\ unasked < MaxUnasked
  /\ \E e \in Unasked : comp' = Waked(comp, e, "OMX_ErrorNone")
  /\ unasked' = unasked + 1
  /\ disturbed' = TRUE
  /\ UNCHANGED <<owed, given>> /\ ThreadKeeps

WakeForNothing ==
  /\ "spurious" \in Faults
  /\ comp.waiter = "blocked"
  /\ comp' = Spurious(comp)
  /\ disturbed' = TRUE
  /\ UNCHANGED <<owed, given, unasked>> /\ ThreadKeeps

Next == Thread \/ Report \/ ReportError \/ ReportUnasked \/ WakeForNothing

Spec == Init /\ [][Next]_vars

\* The component answers every command in the end, with a completion or an error.
Fairness == WF_vars(Thread) /\ WF_vars(Report)

FairSpec == Spec /\ Fairness

-----------------------------------------------------------------------------
(* Properties                                                              *)

\* internal.h:212: "Waits until the specified events have been set".
WaitsUntilSet == early = {}

\* So far every command owed just the event that is waited for, the component
\* reported nothing else, and pthread_cond_wait returned when signalled.
Orderly == ~disturbed

\* The same, of an exchange that was orderly.
WaitsUntilSetIfOrderly == Orderly => WaitsUntilSet

\* Between two commands of an orderly exchange no flag is left over that would
\* let the next wait through: what a wait sets itself (event.c:76) and what the
\* callback sets are both gone.
NothingLeftOver == Orderly => (at = "send" => comp.flags = {} /\ owed = {})

\* An error is not lost: as long as nothing came after it, the code the failing
\* wait hands out (video.c:27-36 looks at it) is the one of the error.
ErrorCodeKept ==
  Orderly => ("ERROR" \in comp.flags => comp.omx_error = "OMX_Error")

\* No wake-up is lost: a thread that sent its command gets its answer, in
\* whatever order events come in.
Answered == (at \in {"enter", "inside"}) ~> (at \in {"send", "failed"})

-----------------------------------------------------------------------------
(* The promise of internal.h, as an abstract specification                 *)

Promise == INSTANCE Completion WITH
  Steps <- Len(Program),
  returned <- pos - 1,
  completed <- {n \in Positions : \E p \in given : p = <<n, Program[n].wait>>},
  broken <- at = "failed",
  excused <- disturbed

\* omxcam__event_wait keeps its promise until it is disturbed.
KeepsPromise == Promise!Spec
=============================================================================
