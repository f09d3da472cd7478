--------------------------- MODULE VideoThreaded ---------------------------
(***************************************************************************)
(* The video of omxcam with a thread of its own (omxcam/video.c: start,    *)
(* start_aphero, stop and the capture thread).  "main" calls start, which  *)
(* configures the camera, creates the thread "bg" and blocks until the     *)
(* capture is stopped or its time is over.  stop may be called by the      *)
(* callbacks (on_ready in main, on_data in bg), by bg after an error, by   *)
(* main when the time is over and by other threads.  The flags are plain   *)
(* variables; mutex protects running only, mutex_cond the sleep of main.   *)
(*                                                                         *)
(* The steps are cut where it matters what another thread does in between. *)
(* Calls of pthread fail only on what does not exist (any more); then they *)
(* may also succeed, and misuse records it.  The encoder may fail at any   *)
(* time.  Setting up and tearing down may give up at any of their steps,   *)
(* which VideoNpt has one by one; here they leave the components in part.  *)
(* OMX_Init and OMX_Deinit count.                                          *)
(***************************************************************************)
EXTENDS Naturals

CONSTANTS Others,     \* threads that call stop, other than main and bg
          Modes,      \* the ways start is called
          MaxStarts,  \* starts that are accepted
          MaxStops    \* calls of stop by other threads and callbacks

ASSUME ThreadsAssumption ==
  /\ Others \cap {"main", "bg"} = {}
  /\ Modes \subseteq {"forever", "timed", "aphero", "aphero_now"}
  /\ MaxStarts \in Nat /\ MaxStops \in Nat

VARIABLES
  ctx,     \* omxcam__ctx.state
  flag,    \* running, running_safe, sleeping, locked, bg_error
  live,    \* what exists: mutex, mutex_cond with cond, and the components: "none",
           \* "up" for all of them, "part" for what was left by a call that gave up
  omx,     \* the calls of OMX_Init that no OMX_Deinit has undone
  broken,  \* a component set up by the last start has reported OMX_EventError
  mode,    \* how the last start was called
  pc,      \* where each thread is
  back,    \* where it goes on after stop
  starts, stops,   \* bounds
  missed,  \* history: a stop looked for a sleeping main before it slept
  tangle,  \* history: calls that met in the middle of each other
  misuse,  \* history: what was used while it did not exist
  gaveup   \* history: what gave up half way: "setup", "teardown", or OMX_Deinit, "core"

vars == <<ctx, flag, live, omx, broken, mode, pc, back, starts, stops, missed, tangle,
          misuse, gaveup>>

\* Most steps call no function of OpenMAX.
NoOmx == UNCHANGED <<omx, broken, gaveup>>

Threads == {"main", "bg"} \cup Others
InStop == {"enter", "claim", "halt", "join", "deinit", "look", "wake", "omx"}
Places == InStop \cup {"out", "config", "create", "ready", "sleep", "asleep", "awake",
                       "joinbg", "exit", "begin", "loop", "fill", "data", "ended", "joined"}

TypeOK ==
  /\ ctx \in [running : BOOLEAN, joined : BOOLEAN, stopping : BOOLEAN, ready : BOOLEAN]
  /\ flag \in [running : BOOLEAN, safe : BOOLEAN, sleeping : BOOLEAN, locked : BOOLEAN,
               bg_error : BOOLEAN]
  /\ live \in [mutex : BOOLEAN, cond : BOOLEAN, camera : {"none", "part", "up"}]
  /\ omx \in Nat /\ broken \in BOOLEAN
  /\ mode \in Modes \cup {"none"}
  /\ pc \in [Threads -> Places] /\ back \in [Threads -> Places]
  /\ starts \in 0 .. MaxStarts /\ stops \in 0 .. MaxStops
  /\ missed \in BOOLEAN
  /\ tangle \subseteq {"early", "late", "twice", "error"}
  /\ misuse \subseteq {"mutex", "cond", "camera", "thread", "omx"}
  /\ gaveup \subseteq {"setup", "teardown", "core"}

Idle == [running |-> FALSE, joined |-> FALSE, stopping |-> FALSE, ready |-> FALSE]

Init ==
  /\ ctx = Idle
  /\ flag = [running |-> FALSE, safe |-> FALSE, sleeping |-> FALSE, locked |-> FALSE,
             bg_error |-> FALSE]
  /\ live = [mutex |-> FALSE, cond |-> FALSE, camera |-> "none"]
  /\ omx = 0 /\ broken = FALSE
  /\ mode = "none"
  /\ pc = [th \in Threads |-> IF th = "bg" THEN "joined" ELSE "out"]
  /\ back = [th \in Threads |-> "out"]
  /\ starts = 0 /\ stops = 0
  /\ missed = FALSE /\ tangle = {} /\ misuse = {} /\ gaveup = {}

Go(th, place) == pc' = [pc EXCEPT ![th] = place]
Note(what, when) == misuse' = misuse \cup {x \in {what} : when}

\* Past the tests of stop, and before main was woken.
Stopping(th) == pc[th] \in InStop \ {"enter", "claim", "omx"}
SomeStop == \E th \in Threads : Stopping(th)
Tangled(what, when) == tangle' = tangle \cup {x \in {what} : when}

CallStop(th, then) ==
  /\ pc' = [pc EXCEPT ![th] = "enter"]
  /\ back' = [back EXCEPT ![th] = then]

-----------------------------------------------------------------------------
(* omxcam_video_start, omxcam_video_start_aphero                           *)

\* What a start does after calls that met is not followed.
Start(m) ==
  /\ pc["main"] = "out" /\ starts < MaxStarts
  /\ ~ctx.running
  /\ tangle = {}
  /\ ctx' = [Idle EXCEPT !.running = TRUE]
  /\ flag' = [flag EXCEPT !.running = TRUE, !.bg_error = FALSE]
  /\ mode' = m /\ missed' = FALSE /\ starts' = starts + 1
  /\ Go("main", "config")
  /\ UNCHANGED <<live, back, stops, tangle, misuse>> /\ NoOmx

\* omxcam__init, omxcam__omx_init, over whatever components there are: their flags
\* are cleared.  OMX_Init fails, or a later step, and leaves what was made.
Configure ==
  /\ pc["main"] = "config"
  /\ \/ /\ Go("main", "create")
        /\ live' = [live EXCEPT !.camera = "up"]
        /\ omx' = omx + 1 /\ broken' = FALSE
        /\ UNCHANGED gaveup
     \/ Go("main", "exit") /\ UNCHANGED live /\ NoOmx
     \/ /\ Go("main", "exit")
        /\ live' = [live EXCEPT !.camera = "part"]
        /\ omx' = omx + 1 /\ gaveup' = gaveup \cup {"setup"}
        /\ UNCHANGED broken
  /\ UNCHANGED <<ctx, flag, mode, back, starts, stops, missed, tangle, misuse>>

CreateThread ==
  /\ pc["main"] = "create"
  /\ live' = [live EXCEPT !.mutex = TRUE]
  /\ pc' = [pc EXCEPT !["main"] = "ready", !["bg"] = "begin"]
  /\ ctx' = [ctx EXCEPT !.ready = TRUE]
  /\ UNCHANGED <<flag, mode, back, starts, stops, missed, tangle, misuse>> /\ NoOmx

\* on_ready, which may call stop
OnReady ==
  /\ pc["main"] = "ready"
  /\ LET next == IF mode = "aphero_now" THEN "out" ELSE "sleep" IN
       \/ Go("main", next) /\ UNCHANGED <<back, stops>>
       \/ stops < MaxStops /\ stops' = stops + 1 /\ CallStop("main", next)
  /\ UNCHANGED <<ctx, flag, live, mode, starts, missed, tangle, misuse>> /\ NoOmx

\* omxcam__thread_sleep, omxcam__thread_lock, up to the wait
Sleep ==
  /\ pc["main"] = "sleep"
  /\ live' = [live EXCEPT !.cond = TRUE]
  /\ flag' = IF mode = "timed" THEN [flag EXCEPT !.sleeping = TRUE]
                               ELSE [flag EXCEPT !.locked = TRUE]
  /\ Go("main", "asleep")
  /\ UNCHANGED <<ctx, mode, back, starts, stops, missed, tangle, misuse>> /\ NoOmx

Woken ==
  /\ pc["main"] = "asleep"
  /\ ~(IF mode = "timed" THEN flag.sleeping ELSE flag.locked)
  /\ live' = [live EXCEPT !.cond = FALSE]
  /\ Go("main", "awake")
  /\ UNCHANGED <<ctx, flag, mode, back, starts, stops, missed, tangle, misuse>> /\ NoOmx

\* pthread_cond_timedwait returns ETIMEDOUT
TimeOut ==
  /\ pc["main"] = "asleep" /\ mode = "timed" /\ flag.sleeping
  /\ flag' = [flag EXCEPT !.sleeping = FALSE]
  /\ live' = [live EXCEPT !.cond = FALSE]
  /\ Go("main", "awake")
  /\ Tangled("late", SomeStop)
  /\ UNCHANGED <<ctx, mode, back, starts, stops, missed, misuse>> /\ NoOmx

\* Mutant of Awake: whoever stopped the capture is trusted to have joined it.
MutNoJoin ==
  /\ pc["main"] = "awake"
  /\ IF mode = "aphero"
       THEN Go("main", "out") /\ UNCHANGED <<ctx, flag, back>>
       ELSE /\ ctx' = [ctx EXCEPT !.ready = FALSE]
            /\ flag' = [flag EXCEPT !.bg_error = FALSE]
            /\ IF ~flag.bg_error /\ flag.running
                 THEN CallStop("main", "exit")
                 ELSE /\ Go("main", IF ~flag.bg_error THEN "exit" ELSE "joinbg")
                      /\ UNCHANGED back
  /\ UNCHANGED <<live, mode, starts, stops, missed, tangle, misuse>> /\ NoOmx

\* An error is looked at first; a thread joined by stop is not joined again.
Awake ==
  /\ pc["main"] = "awake"
  /\ IF mode = "aphero"
       THEN Go("main", "out") /\ UNCHANGED <<ctx, flag, back>>
       ELSE /\ ctx' = [ctx EXCEPT !.ready = FALSE]
            /\ flag' = [flag EXCEPT !.bg_error = FALSE]
            /\ IF ~flag.bg_error /\ flag.running
                 THEN CallStop("main", "exit")
                 ELSE /\ Go("main", IF ~flag.bg_error /\ ctx.joined THEN "exit" ELSE "joinbg")
                      /\ UNCHANGED back
  /\ UNCHANGED <<live, mode, starts, stops, missed, tangle, misuse>> /\ NoOmx

JoinThread ==
  /\ pc["main"] = "joinbg" /\ pc["bg"] \in {"ended", "joined"}
  /\ Note("thread", pc["bg"] = "joined")
  /\ pc' = [pc EXCEPT !["main"] = "exit", !["bg"] = "joined"]
  /\ UNCHANGED <<ctx, flag, live, mode, back, starts, stops, missed, tangle>> /\ NoOmx

\* omxcam__exit, and the return of start
Exit ==
  /\ pc["main"] = "exit"
  /\ ctx' = Idle
  /\ Go("main", "out")
  /\ UNCHANGED <<flag, live, mode, back, starts, stops, missed, tangle, misuse>> /\ NoOmx

-----------------------------------------------------------------------------
(* omxcam_video_stop                                                       *)

OtherStops(th) ==
  /\ th \in Others /\ pc[th] = "out"
  /\ stops < MaxStops /\ stops' = stops + 1
  /\ CallStop(th, "out")
  /\ UNCHANGED <<ctx, flag, live, mode, starts, missed, tangle, misuse>> /\ NoOmx

PastSleep ==
  \/ pc["main"] \in {"awake", "joinbg", "exit", "out"}
  \/ pc["main"] \in InStop /\ back["main"] = "exit"

\* The tests, and then stopping = 1 in a step of its own.
Enter(th) ==
  /\ pc[th] = "enter"
  /\ Go(th, IF ctx.running /\ ~ctx.stopping THEN "claim" ELSE back[th])
  /\ UNCHANGED <<ctx, flag, live, mode, back, starts, stops, missed, tangle, misuse>> /\ NoOmx

Claim(th) ==
  /\ pc[th] = "claim"
  /\ ctx' = [ctx EXCEPT !.stopping = TRUE]
  /\ tangle' = tangle
       \cup {x \in {"twice"} : ctx.stopping}
       \cup {x \in {"early"} : pc["main"] \in {"config", "create"}}
       \cup {x \in {"late"} : th # "main" /\ PastSleep}
       \cup {x \in {"error"} : th # "bg" /\ flag.bg_error}
  /\ Go(th, "halt")
  /\ UNCHANGED <<flag, live, mode, back, starts, stops, missed, misuse>> /\ NoOmx

\* Mutant of HaltSelf: the thread goes on to lock the mutex.
MutNotSafe ==
  /\ pc["bg"] = "halt"
  /\ flag' = [flag EXCEPT !.running = FALSE]
  /\ Go("bg", "deinit")
  /\ UNCHANGED <<ctx, live, mode, back, starts, stops, missed, tangle, misuse>> /\ NoOmx

\* running_safe keeps the thread from locking a mutex that is destroyed.
HaltSelf ==
  /\ pc["bg"] = "halt"
  /\ flag' = [flag EXCEPT !.running = FALSE, !.safe = FALSE]
  /\ Go("bg", "deinit")
  /\ UNCHANGED <<ctx, live, mode, back, starts, stops, missed, tangle, misuse>> /\ NoOmx

Halt(th) ==
  /\ th # "bg" /\ pc[th] = "halt"
  /\ Note("mutex", ~live.mutex)
  /\ \/ flag' = [flag EXCEPT !.running = FALSE] /\ Go(th, "join")
     \/ ~live.mutex /\ Go(th, back[th]) /\ UNCHANGED flag
  /\ UNCHANGED <<ctx, live, mode, back, starts, stops, missed, tangle>> /\ NoOmx

Join(th) ==
  /\ pc[th] = "join" /\ pc["bg"] \in {"ended", "joined"}
  /\ Note("thread", pc["bg"] = "joined")
  /\ \/ /\ pc' = [pc EXCEPT ![th] = "deinit", !["bg"] = "joined"]
        /\ ctx' = [ctx EXCEPT !.joined = TRUE]
     \/ pc["bg"] = "joined" /\ Go(th, back[th]) /\ UNCHANGED ctx
  /\ UNCHANGED <<flag, live, mode, back, starts, stops, missed, tangle>> /\ NoOmx

\* The steps of omxcam__omx_deinit after the mutex: all of them, which a flag ERROR
\* prevents as every component is waited for and nothing clears it, or some.
FreeComponents ==
  \/ ~broken /\ live' = [live EXCEPT !.mutex = FALSE, !.camera = "none"] /\ UNCHANGED gaveup
  \/ /\ live' = [live EXCEPT !.mutex = FALSE, !.camera = IF @ = "none" THEN @ ELSE "part"]
     /\ gaveup' = gaveup \cup {"teardown"}

\* omxcam__omx_deinit; what it returns is seen only when the wake fails too.
Deinit(th) ==
  /\ pc[th] = "deinit"
  /\ flag' = [flag EXCEPT !.running = FALSE]
  /\ FreeComponents \/ (~live.mutex /\ UNCHANGED <<live, gaveup>>)
  /\ misuse' = misuse \cup {x \in {"mutex"} : ~live.mutex}
                      \cup {x \in {"camera"} : live.camera # "up"}
  /\ Go(th, "look")
  /\ UNCHANGED <<ctx, omx, broken, mode, back, starts, stops, missed, tangle>>

BeforeSleep ==
  \/ pc["main"] \in {"config", "create", "ready", "sleep"}
  \/ pc["main"] \in InStop /\ back["main"] = "sleep"

\* if (sleeping) ... else if (locked)
Look(th) ==
  /\ pc[th] = "look"
  /\ Go(th, IF flag.sleeping \/ flag.locked THEN "wake" ELSE "omx")
  /\ missed' = (missed \/ (~flag.sleeping /\ ~flag.locked /\ BeforeSleep))
  /\ UNCHANGED <<ctx, flag, live, mode, back, starts, stops, tangle, misuse>> /\ NoOmx

\* Mutant of Wake: a signal without the condition it stands for.
MutWakeOnly(th) ==
  /\ pc[th] = "wake"
  /\ Note("cond", ~live.cond)
  /\ Go(th, "omx")
  /\ UNCHANGED <<ctx, flag, live, mode, back, starts, stops, missed, tangle>> /\ NoOmx

\* omxcam__thread_wake, omxcam__thread_unlock; stop returns at once if they fail.
Wake(th) ==
  /\ pc[th] = "wake"
  /\ Note("cond", ~live.cond)
  /\ \/ flag' = [flag EXCEPT !.sleeping = FALSE, !.locked = FALSE] /\ Go(th, "omx")
     \/ ~live.cond /\ Go(th, back[th]) /\ UNCHANGED flag
  /\ UNCHANGED <<ctx, live, mode, back, starts, stops, missed, tangle>> /\ NoOmx

\* omxcam__deinit, whatever became of the components.  main has been woken before:
\* it may have returned, and be in the next start.
CoreDeinit(th) ==
  /\ pc[th] = "omx"
  /\ Note("omx", omx = 0 \/ (omx = 1 /\ live.camera = "up"))
  /\ \/ omx > 0 /\ omx' = omx - 1 /\ UNCHANGED gaveup
     \/ gaveup' = gaveup \cup {"core"} /\ UNCHANGED omx
  /\ Go(th, back[th])
  /\ UNCHANGED <<ctx, flag, live, broken, mode, back, starts, stops, missed, tangle>>

-----------------------------------------------------------------------------
(* omxcam__video_capture                                                   *)

Begin ==
  /\ pc["bg"] = "begin"
  /\ flag' = [flag EXCEPT !.safe = TRUE]
  /\ Go("bg", "loop")
  /\ UNCHANGED <<ctx, live, mode, back, starts, stops, missed, tangle, misuse>> /\ NoOmx

\* omxcam__thread_handle_error
HandleError ==
  /\ flag' = [flag EXCEPT !.bg_error = TRUE]
  /\ CallStop("bg", "ended")
  /\ Tangled("error", SomeStop)

Loop ==
  /\ pc["bg"] = "loop"
  /\ Note("mutex", flag.safe /\ ~live.mutex)
  /\ \/ /\ Go("bg", IF flag.safe /\ flag.running THEN "fill" ELSE "ended")
        /\ UNCHANGED <<flag, back, tangle>>
     \/ flag.safe /\ ~live.mutex /\ HandleError
  /\ UNCHANGED <<ctx, live, mode, starts, stops, missed>> /\ NoOmx

\* OMX_FillThisBuffer, which may be refused, and the wait; a picture or an error of
\* the component comes.
Fill ==
  /\ pc["bg"] = "fill"
  /\ \/ Go("bg", "data") /\ UNCHANGED <<flag, back, tangle, broken>>
     \/ HandleError /\ broken' \in {broken, TRUE}
  /\ UNCHANGED <<ctx, live, omx, mode, starts, stops, missed, misuse, gaveup>>

\* on_data, which may call stop
OnData ==
  /\ pc["bg"] = "data"
  /\ \/ Go("bg", "loop") /\ UNCHANGED <<back, stops>>
     \/ stops < MaxStops /\ stops' = stops + 1 /\ CallStop("bg", "loop")
  /\ UNCHANGED <<ctx, flag, live, mode, starts, missed, tangle, misuse>> /\ NoOmx

-----------------------------------------------------------------------------
StopStep(th) ==
  \/ Enter(th) \/ Claim(th) \/ Halt(th) \/ Join(th) \/ Deinit(th) \/ Look(th) \/ Wake(th)
  \/ CoreDeinit(th)

MainStep ==
  \/ Configure \/ CreateThread \/ OnReady \/ Sleep \/ Woken \/ TimeOut
  \/ Awake \/ JoinThread \/ Exit \/ StopStep("main")

BgStep == Begin \/ Loop \/ Fill \/ OnData \/ HaltSelf \/ StopStep("bg")

Next ==
  \/ \E m \in Modes : Start(m)
  \/ \E th \in Others : OtherStops(th) \/ StopStep(th)
  \/ MainStep
  \/ BgStep

\* Threads that can run do; nobody has to call start or stop.
Spec == Init /\ [][Next]_vars
FairSpec ==
  /\ Spec /\ WF_vars(MainStep) /\ WF_vars(BgStep)
  /\ \A th \in Others : WF_vars(StopStep(th))
-----------------------------------------------------------------------------
(* Properties                                                              *)

\* However stop, the errors and the time-out meet, mutex, condition, components
\* and thread are used while they exist, the thread is joined once, and OMX_Deinit,
\* which comes after the wake, does not take OpenMAX from the components of the next
\* start; but for four meetings: a stop while start configures ("early"), a stop
\* around the end of start ("late"), two that pass the test together ("twice"), and
\* an error of the capture thread under a stop ("error"), which harms the second
\* join only.
Orderly ==
  /\ tangle = {} => misuse = {}
  /\ tangle \subseteq {"error"} => misuse \subseteq {"thread"}

\* A start that returns (omxcam.h:459, 473) leaves no capture thread, mutex or
\* condition behind, whoever stopped it, but for the same meetings.  Components stay
\* behind when setting up or tearing down gave up, always so once a component has
\* reported an error (video.c:356-459 waits for each and gives up); else none does.
\* OMX_Init is undone, if only after the return, but for a set up that gave up
\* (video.c:805) and a refused OMX_Deinit.
ReturnsClosed ==
  pc["main"] = "out" /\ mode \in {"forever", "timed"} /\ tangle = {} =>
    /\ ~live.mutex /\ ~live.cond /\ pc["bg"] \in {"ended", "joined"}
    /\ live.camera # "up"
    /\ gaveup \subseteq {"core"} => live.camera = "none"
    /\ broken => live.camera = "part"
    /\ gaveup \subseteq {"teardown"} /\ (\A th \in Threads : pc[th] # "omx") => omx = 0

\* omxcam.h:473: stop "unblocks the current thread": a capture that is not running
\* any more ends the start that blocks, unless the stop looked for the sleeper
\* before it slept: then a start without a time sleeps forever.
Unblocks ==
  ~flag.running /\ starts > 0 ~> pc["main"] = "out" \/ missed \/ tangle # {}
=============================================================================
