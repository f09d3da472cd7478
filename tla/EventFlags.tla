----------------------------- MODULE EventFlags -----------------------------
(***************************************************************************)
(* The event flags of an OpenMAX component (omxcam/event.c): what the      *)
(* callbacks of the component (omxcam/core.c) and the thread that waits do *)
(* to the structure component->event.  Every body between lock and unlock  *)
(* is one operator on a record                                             *)
(*   flags     the events set, as a set of names instead of a bit mask     *)
(*   omx_error the code of the last wake                                   *)
(*   waiter    "out", or inside pthread_cond_wait: "blocked" or "woken"    *)
(* The calls of pthread are taken to succeed, so fn_error, which is set    *)
(* only when one fails in a callback, stays 0 and is left out.             *)
(***************************************************************************)

Events == {"ERROR", "PORT_ENABLE", "PORT_DISABLE", "STATE_SET", "FLUSH", "MARK_BUFFER",
           "MARK", "PORT_SETTINGS_CHANGED", "PARAM_OR_CONFIG_CHANGED", "BUFFER_FLAG",
           "RESOURCES_ACQUIRED", "DYNAMIC_RESOURCES_AVAILABLE", "FILL_BUFFER_DONE"}

Codes == {"OMX_ErrorNone", "OMX_Error"}

Component == [flags : SUBSET Events, omx_error : Codes, waiter : {"out", "blocked", "woken"}]

\* omxcam__event_create
Created == [flags |-> {}, omx_error |-> "OMX_ErrorNone", waiter |-> "out"]

\* Mutant of Waked: the signal is sent, the event is not recorded.
MutOnlySignal(c, event, code) ==
  [flags |-> c.flags, omx_error |-> code,
   waiter |-> IF c.waiter = "blocked" THEN "woken" ELSE c.waiter]

\* omxcam__event_wake: the signal is lost when nobody waits.
Waked(c, event, code) ==
  [flags |-> c.flags \cup {event}, omx_error |-> code,
   waiter |-> IF c.waiter = "blocked" THEN "woken" ELSE c.waiter]

\* Mutant of MustWait: the thread never waits.
MutNeverWait(c, events) == FALSE

\* omxcam__event_wait, the test at line 74
MustWait(c, events) == (events \cup {"ERROR"}) \cap c.flags = {}

\* ... line 76: the events waited for are set by the waiter itself
Blocked(c, events) == [c EXCEPT !.flags = @ \cup events, !.waiter = "blocked"]

\* Mutant of Left: the flags are not cleared.
MutKeepFlags(c, events) == [c EXCEPT !.waiter = "out"]

\* ... line 85
Left(c, events) == [c EXCEPT !.flags = @ \ events, !.waiter = "out"]

\* ... the result, from the flags read before line 85
Succeeds(c) == "ERROR" \notin c.flags

\* The thread inside pthread_cond_wait can go on.
Wakeable(c) == c.waiter = "woken"

\* pthread_cond_wait may return without a signal (POSIX).
Spurious(c) == [c EXCEPT !.waiter = "woken"]
=============================================================================
