---------------------------- MODULE CaptureProofs ----------------------------
(***************************************************************************)
(* What is proved of the two captures of omxcam that wait for a component. *)
(* VideoThreaded, for any threads that call stop, any number of starts and *)
(* stops and every way to start: the type invariant, that everything is    *)
(* used while it exists, and what a start that returns leaves open, but    *)
(* for the meetings that tangle records.  StillCapture, in the second      *)
(* part, for every number of slices, with the encoder and without,         *)
(* wherever the reports of the components find the thread: which slices    *)
(* are handed out.                                                         *)
(***************************************************************************)
EXTENDS VideoThreaded, StillCapture, FiniteSets, FiniteSetTheorems, TLAPS

-----------------------------------------------------------------------------
(* What holds whatever calls meet.                                         *)

\* Where a thread of each kind can be, and where it goes on after a stop.
PlacesInv ==
  /\ pc["main"] \in InStop \cup {"out", "config", "create", "ready", "sleep", "asleep",
                                 "awake", "joinbg", "exit"}
  /\ pc["bg"] \in (InStop \ {"join"}) \cup {"begin", "loop", "fill", "data", "ended", "joined"}
  /\ \A th \in Others : pc[th] \in InStop \cup {"out"} /\ back[th] = "out"
  /\ pc["main"] \in InStop => \/ back["main"] = "sleep" /\ mode # "aphero_now"
                              \/ back["main"] = "exit" /\ mode \in {"forever", "timed"}
                              \/ back["main"] = "out" /\ mode = "aphero_now"
  /\ pc["main"] = "joinbg" => mode \in {"forever", "timed"}
  /\ mode = "none" => pc["main"] = "out"
  /\ pc["main"] \in {"sleep", "asleep", "awake"} => mode # "aphero_now"
  /\ pc["bg"] \in InStop => back["bg"] \in {"loop", "ended"}

\* The condition exists while main sleeps, and nobody waits for a wake else.
SleepInv ==
  /\ live.cond <=> pc["main"] = "asleep"
  /\ flag.sleeping => mode = "timed" /\ pc["main"] = "asleep"
  /\ flag.locked => mode # "timed" /\ pc["main"] = "asleep"

\* A start that returned after the capture has left the state it found.
RunningInv ==
  /\ pc["main"] # "out" => ctx.running
  /\ pc["main"] = "out" /\ mode \in {"forever", "timed", "none"} => ~ctx.running

AlwaysInv == TypeOK /\ PlacesInv /\ SleepInv /\ RunningInv

-----------------------------------------------------------------------------
(* What holds until calls meet in another way than an error under a stop.  *)

\* Nobody but main can be past the tests of stop.
Quiet ==
  \/ pc["main"] \in {"config", "create", "awake", "joinbg", "exit"}
  \/ pc["main"] \in {"enter", "claim"} /\ back["main"] = "exit"
  \/ pc["main"] = "asleep" /\ ~flag.sleeping /\ ~flag.locked
  \/ pc["main"] = "out" /\ ~ctx.running
  \/ pc["main"] = "omx"

\* One thread stops a capture, once.
OneStop ==
  /\ \A th \in Threads : Stopping(th) => ctx.stopping
  /\ \A a, b \in Threads : Stopping(a) /\ Stopping(b) => a = b
  /\ Quiet => ~SomeStop
  /\ pc["main"] \in {"config", "create"} =>
       ~ctx.stopping /\ flag.running /\ ~flag.bg_error
  /\ pc["main"] \in {"enter", "claim"} /\ back["main"] = "exit" => ~ctx.stopping
  /\ pc["main"] = "asleep" /\ ~flag.sleeping /\ ~flag.locked => ctx.stopping
  /\ ctx.stopping => ctx.running

\* Nothing is in use; what gave up may have left components.
Closed == ~live.mutex /\ live.camera # "up"
Alive == {"begin", "loop", "fill", "data", "enter", "claim"}

\* Until a stop passes its tests everything exists.
Capturing == ctx.running /\ pc["main"] \notin {"config", "create", "exit"} /\ ~ctx.stopping
CapturingInv ==
  Capturing => /\ live.mutex /\ live.camera = "up" /\ flag.running
               /\ pc["bg"] \in Alive
               /\ pc["bg"] # "begin" => flag.safe

\* What a stop finds at each of its steps, and what it has done.
StoppingInv ==
  /\ \A th \in Threads :
       /\ pc[th] \in {"halt", "join", "deinit"} => live.mutex /\ live.camera = "up"
       /\ pc[th] \in {"join", "deinit", "look", "wake"} => ~flag.running
       /\ pc[th] \in {"look", "wake"} => Closed
       /\ pc[th] = "wake" => flag.sleeping \/ flag.locked
       /\ th # "bg" /\ pc[th] \in {"halt", "join"} => pc["bg"] \in Alive \cup {"ended"}
       /\ th # "bg" /\ pc[th] \in {"deinit", "look", "wake"} => pc["bg"] = "joined"
  /\ pc["bg"] \in {"deinit", "look", "wake", "omx"} => ~flag.safe
  /\ pc["main"] = "omx" => ctx.stopping /\ pc["bg"] = "joined"

\* What a stop leaves behind.
StoppedInv ==
  ctx.stopping /\ ~SomeStop =>
    /\ Closed /\ ~flag.running
    /\ \/ pc["bg"] = "joined"
       \/ pc["bg"] \in {"omx", "loop", "ended"} /\ ~flag.safe

\* joined says that a stop has joined the thread.
JoinedInv ==
  /\ ctx.joined => pc["bg"] = "joined" /\ ctx.stopping
  /\ pc["bg"] = "joined" /\ ctx.stopping /\ pc["main"] # "exit" => ctx.joined

\* What a start finds, and leaves behind.
ClosedInv ==
  /\ pc["main"] = "config" \/ pc["main"] = "exit" \/ (pc["main"] = "out" /\ ~ctx.running) =>
       Closed /\ pc["bg"] = "joined"
  /\ pc["main"] = "create" => ~live.mutex /\ live.camera = "up" /\ pc["bg"] = "joined"

\* The thread comes to no further error after an error, nor while it is joined.
Over ==
  \/ pc["bg"] \in {"ended", "joined"}
  \/ pc["bg"] \in InStop /\ back["bg"] = "ended"

ErrorInv ==
  /\ flag.bg_error => Over
  /\ pc["main"] = "joinbg" =>
       ~flag.bg_error /\ (Over \/ (pc["bg"] \in {"omx", "loop"} /\ ~flag.safe))

\* Without an error under a stop main does not join a thread twice.
JoinOnce ==
  tangle = {} =>
    /\ flag.bg_error => pc["bg"] # "joined" /\ \A th \in Threads \ {"bg"} : ~Stopping(th)
    /\ pc["main"] = "joinbg" => pc["bg"] # "joined"

Few == tangle \subseteq {"error"}

OrderInv ==
  /\ OneStop /\ CapturingInv /\ StoppingInv /\ StoppedInv /\ JoinedInv /\ ClosedInv
  /\ ErrorInv /\ JoinOnce /\ Orderly

\* The threads that have stopped a capture and have still to undo its OMX_Init.
Pending == {th \in Threads : pc[th] = "omx"}

\* The OMX_Init of this start is still to be undone by a stop, which is not there.
Held ==
  /\ ctx.running /\ pc["main"] \notin {"config", "exit"}
  /\ ctx.stopping => SomeStop

Needed == Cardinality(Pending) + (IF Held THEN 1 ELSE 0)

\* OMX_Init is called once more than it is undone for each of them: no stop undoes
\* the OMX_Init of another start.  Beyond that only what gave up leaves it called,
\* and only what gave up leaves components.
OmxInv ==
  /\ IsFiniteSet(Pending)
  /\ omx >= Needed
  /\ gaveup \subseteq {"teardown"} => omx = Needed
  /\ live.camera = "up" => Held
  /\ live.camera = "part" => ~(gaveup \subseteq {"core"})
  /\ broken => live.camera # "none"

IInv == AlwaysInv /\ (Few => OrderInv /\ OmxInv)

-----------------------------------------------------------------------------
(* What holds whatever calls meet is kept.                                 *)

\* A step goes from place to place, and keeps the other types.
LEMMA TypeStep ==
  ASSUME AlwaysInv, Next
  PROVE  TypeOK'
<1> DEFINE FlagsOK ==
      /\ ctx \in [running : BOOLEAN, joined : BOOLEAN, stopping : BOOLEAN, ready : BOOLEAN]
      /\ flag \in [running : BOOLEAN, safe : BOOLEAN, sleeping : BOOLEAN, locked : BOOLEAN,
                   bg_error : BOOLEAN]
      /\ live \in [mutex : BOOLEAN, cond : BOOLEAN, camera : {"none", "part", "up"}]
      /\ omx \in Nat /\ broken \in BOOLEAN
    BoundsOK == starts \in 0 .. MaxStarts /\ stops \in 0 .. MaxStops /\ missed \in BOOLEAN
    HistoryOK == /\ tangle \subseteq {"early", "late", "twice", "error"}
                 /\ misuse \subseteq {"mutex", "cond", "camera", "thread", "omx"}
                 /\ gaveup \subseteq {"setup", "teardown", "core"}
    PlacesOK == pc \in [Threads -> Places] /\ back \in [Threads -> Places]
    KeepsTypes == FlagsOK' /\ mode' \in Modes \cup {"none"} /\ PlacesOK' /\ BoundsOK' /\ HistoryOK'
<1> USE ThreadsAssumption DEF AlwaysInv, NoOmx
<1>0. Threads = {"main", "bg"} \cup Others
  BY DEF Threads
<1>1. ASSUME NEW m \in Modes, Start(m) PROVE KeepsTypes
  <2>1. PlacesOK'
    BY <1>0, <1>1 DEF Start, Idle, Go, Places, InStop, TypeOK
  <2>2. FlagsOK'
    BY <1>1 DEF Start, Idle, TypeOK
  <2>3. mode' \in Modes \cup {"none"} /\ BoundsOK'
    <3>1. starts' = starts + 1 /\ starts < MaxStarts /\ stops' = stops /\ missed' = FALSE
          /\ mode' = m
      BY <1>1 DEF Start, TypeOK
    <3>2. starts \in 0 .. MaxStarts /\ stops \in 0 .. MaxStops
      BY DEF TypeOK
    <3>3. missed' \in BOOLEAN /\ stops' \in 0 .. MaxStops /\ mode' \in Modes \cup {"none"}
      BY <3>1, <3>2
    <3>4. starts' \in 0 .. MaxStarts
      BY <3>1, <3>2
    <3>5. QED BY <3>3, <3>4
  <2>4. HistoryOK'
    BY <1>1 DEF Start, TypeOK
  <2>5. QED BY <2>1, <2>2, <2>3, <2>4
<1>2. ASSUME Configure PROVE KeepsTypes
  <2>1. PlacesOK'
    BY <1>0, <1>2 DEF Configure, Go, Places, InStop, TypeOK
  <2>2. FlagsOK'
    <3>1. /\ live' \in {live, [live EXCEPT !.camera = "up"], [live EXCEPT !.camera = "part"]}
          /\ omx' \in {omx, omx + 1} /\ broken' \in {broken, FALSE}
          /\ UNCHANGED <<ctx, flag>>
      BY <1>2 DEF Configure
    <3>2. omx' \in Nat /\ broken' \in BOOLEAN
      <4>1. omx \in Nat /\ broken \in BOOLEAN
        BY DEF TypeOK
      <4>2. omx' \in Nat
        BY <3>1, <4>1
      <4>3. broken' \in BOOLEAN
        BY Zenon, <3>1, <4>1
      <4>4. QED BY <4>2, <4>3
    <3>3. live' \in [mutex : BOOLEAN, cond : BOOLEAN, camera : {"none", "part", "up"}]
      BY <3>1 DEF TypeOK
    <3>4. QED BY <3>1, <3>2, <3>3 DEF TypeOK
  <2>3. mode' \in Modes \cup {"none"} /\ BoundsOK'
    BY <1>2 DEF Configure, TypeOK
  <2>4. HistoryOK'
    BY <1>2 DEF Configure, TypeOK
  <2>5. QED BY <2>1, <2>2, <2>3, <2>4
<1>3. ASSUME CreateThread PROVE KeepsTypes
  <2>1. PlacesOK'
    BY <1>0, <1>3 DEF CreateThread, Go, Places, InStop, TypeOK
  <2>2. FlagsOK' /\ mode' \in Modes \cup {"none"} /\ BoundsOK' /\ HistoryOK'
    BY <1>3 DEF CreateThread, TypeOK
  <2>3. QED BY <2>1, <2>2
<1>4. ASSUME OnReady PROVE KeepsTypes
  <2>1. PlacesOK'
    BY ZenonT(40), <1>0, <1>4 DEF OnReady, CallStop, Go, Places, InStop, PlacesInv, TypeOK
  <2>2. FlagsOK' /\ mode' \in Modes \cup {"none"} /\ BoundsOK' /\ HistoryOK'
    BY <1>4 DEF OnReady, CallStop, TypeOK
  <2>3. QED BY <2>1, <2>2
<1>5. ASSUME Sleep PROVE KeepsTypes
  <2>1. PlacesOK'
    BY <1>0, <1>5 DEF Sleep, Go, Places, InStop, TypeOK
  <2>2. FlagsOK' /\ mode' \in Modes \cup {"none"} /\ BoundsOK' /\ HistoryOK'
    BY <1>5 DEF Sleep, TypeOK
  <2>3. QED BY <2>1, <2>2
<1>6. ASSUME Woken PROVE KeepsTypes
  <2>1. PlacesOK'
    BY <1>0, <1>6 DEF Woken, Go, Places, InStop, TypeOK
  <2>2. FlagsOK' /\ mode' \in Modes \cup {"none"} /\ BoundsOK' /\ HistoryOK'
    BY ZenonT(40), <1>6 DEF Woken, TypeOK
  <2>3. QED BY <2>1, <2>2
<1>7. ASSUME TimeOut PROVE KeepsTypes
  <2>1. PlacesOK'
    BY <1>0, <1>7 DEF TimeOut, Tangled, Go, Places, InStop, TypeOK
  <2>2. FlagsOK' /\ mode' \in Modes \cup {"none"} /\ BoundsOK' /\ HistoryOK'
    BY <1>7 DEF TimeOut, Tangled, TypeOK
  <2>3. QED BY <2>1, <2>2
<1>8. ASSUME Awake PROVE KeepsTypes
  <2>1. PlacesOK'
    BY <1>0, <1>8 DEF Awake, CallStop, Go, Places, InStop, TypeOK
  <2>2. FlagsOK'
    <3>1. /\ ctx' \in {ctx, [ctx EXCEPT !.ready = FALSE]}
          /\ flag' \in {flag, [flag EXCEPT !.bg_error = FALSE]}
          /\ UNCHANGED <<live, omx, broken>>
      BY <1>8 DEF Awake, TypeOK
    <3>2. QED BY <3>1 DEF TypeOK
  <2>3. mode' \in Modes \cup {"none"} /\ BoundsOK'
    BY ThreadsAssumption, <1>8 DEF Awake, TypeOK
  <2>4. HistoryOK'
    BY <1>8 DEF Awake, TypeOK
  <2>5. QED BY <2>1, <2>2, <2>3, <2>4
<1>9. ASSUME JoinThread PROVE KeepsTypes
  <2>1. PlacesOK'
    BY <1>0, <1>9 DEF JoinThread, Note, Go, Places, InStop, TypeOK
  <2>2. FlagsOK'
    BY <1>9 DEF JoinThread, Note, TypeOK
  <2>3. mode' \in Modes \cup {"none"} /\ BoundsOK'
    BY ThreadsAssumption, <1>9 DEF JoinThread, Note, TypeOK
  <2>4. HistoryOK'
    BY <1>9 DEF JoinThread, Note, TypeOK
  <2>5. QED BY <2>1, <2>2, <2>3, <2>4
<1>10. ASSUME Exit PROVE KeepsTypes
  <2>1. PlacesOK'
    BY <1>0, <1>10 DEF Exit, Idle, Go, Places, InStop, TypeOK
  <2>2. FlagsOK' /\ mode' \in Modes \cup {"none"} /\ BoundsOK' /\ HistoryOK'
    BY <1>10 DEF Exit, Idle, Idle, TypeOK
  <2>3. QED BY <2>1, <2>2
<1>11. ASSUME NEW th \in Others, OtherStops(th) PROVE KeepsTypes
  <2>1. PlacesOK'
    BY <1>0, <1>11 DEF OtherStops, CallStop, Go, Places, InStop, TypeOK
  <2>2. FlagsOK' /\ mode' \in Modes \cup {"none"} /\ BoundsOK' /\ HistoryOK'
    BY <1>11 DEF OtherStops, CallStop, TypeOK
  <2>3. QED BY <2>1, <2>2
<1>12. ASSUME NEW th \in Threads, Enter(th) PROVE KeepsTypes
  <2>1. PlacesOK'
    BY <1>0, <1>12 DEF Enter, Go, Places, InStop, TypeOK
  <2>2. FlagsOK' /\ mode' \in Modes \cup {"none"} /\ BoundsOK' /\ HistoryOK'
    BY <1>12 DEF Enter, TypeOK
  <2>3. QED BY <2>1, <2>2
<1>13. ASSUME NEW th \in Threads, Claim(th) PROVE KeepsTypes
  <2>1. PlacesOK'
    BY <1>0, <1>13 DEF Claim, PastSleep, Go, Places, InStop, TypeOK
  <2>2. FlagsOK' /\ mode' \in Modes \cup {"none"} /\ BoundsOK' /\ HistoryOK'
    BY ZenonT(40), <1>13 DEF Claim, PastSleep, TypeOK
  <2>3. QED BY <2>1, <2>2
<1>14. ASSUME HaltSelf PROVE KeepsTypes
  <2>1. PlacesOK'
    BY <1>0, <1>14 DEF HaltSelf, Go, Places, InStop, TypeOK
  <2>2. FlagsOK' /\ mode' \in Modes \cup {"none"} /\ BoundsOK' /\ HistoryOK'
    BY <1>14 DEF HaltSelf, TypeOK
  <2>3. QED BY <2>1, <2>2
<1>15. ASSUME NEW th \in Threads, Halt(th) PROVE KeepsTypes
  <2>1. PlacesOK'
    BY <1>0, <1>15 DEF Halt, Note, Go, Places, InStop, TypeOK
  <2>2. FlagsOK' /\ mode' \in Modes \cup {"none"} /\ BoundsOK' /\ HistoryOK'
    BY <1>15 DEF Halt, Note, TypeOK
  <2>3. QED BY <2>1, <2>2
<1>16. ASSUME NEW th \in Threads, Join(th) PROVE KeepsTypes
  <2>1. PlacesOK'
    BY <1>0, <1>16 DEF Join, Note, Go, Places, InStop, TypeOK
  <2>2. FlagsOK' /\ mode' \in Modes \cup {"none"} /\ BoundsOK' /\ HistoryOK'
    BY ZenonT(40), <1>16 DEF Join, Note, TypeOK
  <2>3. QED BY <2>1, <2>2
<1>17. ASSUME NEW th \in Threads, Deinit(th) PROVE KeepsTypes
  <2>1. PlacesOK'
    BY <1>0, <1>17 DEF Deinit, FreeComponents, Go, Places, InStop, TypeOK
  <2>2. FlagsOK' /\ mode' \in Modes \cup {"none"} /\ BoundsOK' /\ HistoryOK'
    BY <1>17 DEF Deinit, FreeComponents, TypeOK
  <2>3. QED BY <2>1, <2>2
<1>18. ASSUME NEW th \in Threads, Look(th) PROVE KeepsTypes
  <2>1. PlacesOK'
    BY <1>0, <1>18 DEF Look, Go, Places, InStop, TypeOK
  <2>2. FlagsOK' /\ mode' \in Modes \cup {"none"} /\ BoundsOK' /\ HistoryOK'
    BY <1>18 DEF Look, TypeOK
  <2>3. QED BY <2>1, <2>2
<1>19. ASSUME NEW th \in Threads, Wake(th) PROVE KeepsTypes
  <2>1. PlacesOK'
    BY <1>0, <1>19 DEF Wake, Note, Go, Places, InStop, TypeOK
  <2>2. FlagsOK' /\ mode' \in Modes \cup {"none"} /\ BoundsOK' /\ HistoryOK'
    BY ZenonT(40), <1>19 DEF Wake, Note, TypeOK
  <2>3. QED BY <2>1, <2>2
<1>20. ASSUME Begin PROVE KeepsTypes
  <2>1. PlacesOK'
    BY <1>0, <1>20 DEF Begin, Go, Places, InStop, TypeOK
  <2>2. FlagsOK' /\ mode' \in Modes \cup {"none"} /\ BoundsOK' /\ HistoryOK'
    BY <1>20 DEF Begin, TypeOK
  <2>3. QED BY <2>1, <2>2
<1>21. ASSUME Loop PROVE KeepsTypes
  <2>1. PlacesOK'
    BY <1>0, <1>21 DEF Loop, Note, HandleError, CallStop, Tangled, Go, Places, InStop, TypeOK
  <2>2. FlagsOK' /\ mode' \in Modes \cup {"none"} /\ BoundsOK' /\ HistoryOK'
    BY ZenonT(40), <1>21 DEF Loop, Note, HandleError, CallStop, Tangled, TypeOK
  <2>3. QED BY <2>1, <2>2
<1>22. ASSUME Fill PROVE KeepsTypes
  <2>1. PlacesOK'
    <3>1. \/ pc' = [pc EXCEPT !["bg"] = "data"] /\ back' = back
          \/ pc' = [pc EXCEPT !["bg"] = "enter"] /\ back' = [back EXCEPT !["bg"] = "ended"]
      BY <1>22 DEF Fill, HandleError, CallStop, Go
    <3>2. QED BY <1>0, <3>1 DEF Places, InStop, TypeOK
  <2>2. FlagsOK' /\ mode' \in Modes \cup {"none"} /\ BoundsOK' /\ HistoryOK'
    BY ZenonT(40), <1>22 DEF Fill, HandleError, CallStop, Tangled, TypeOK
  <2>3. QED BY <2>1, <2>2
<1>23. ASSUME OnData PROVE KeepsTypes
  <2>1. PlacesOK'
    BY <1>0, <1>23 DEF OnData, CallStop, Go, Places, InStop, PlacesInv, TypeOK
  <2>2. FlagsOK' /\ mode' \in Modes \cup {"none"} /\ BoundsOK' /\ HistoryOK'
    BY <1>23 DEF OnData, CallStop, TypeOK
  <2>3. QED BY <2>1, <2>2
<1>24. ASSUME NEW th \in Threads, CoreDeinit(th) PROVE KeepsTypes
  <2>1. PlacesOK'
    BY <1>0, <1>24 DEF CoreDeinit, Note, Go, Places, InStop, TypeOK
  <2>2. FlagsOK'
    <3>1. omx \in Nat /\ (omx' = omx \/ (omx > 0 /\ omx' = omx - 1))
      BY <1>24 DEF CoreDeinit, TypeOK
    <3>2. omx' \in Nat
      BY <3>1
    <3>3. QED BY <1>24, <3>2 DEF CoreDeinit, TypeOK
  <2>3. mode' \in Modes \cup {"none"} /\ BoundsOK'
    BY <1>24 DEF CoreDeinit, TypeOK
  <2>4. HistoryOK'
    BY <1>24 DEF CoreDeinit, Note, TypeOK
  <2>5. QED BY <2>1, <2>2, <2>3, <2>4
<1>25. QED
  BY <1>0, <1>1, <1>2, <1>3, <1>4, <1>5, <1>6, <1>7, <1>8, <1>9, <1>10, <1>11, <1>12,
     <1>13, <1>14, <1>15, <1>16, <1>17, <1>18, <1>19, <1>20, <1>21, <1>22, <1>23, <1>24
  DEF Next, MainStep, BgStep, StopStep, TypeOK

\* Where threads are, who sleeps and what is running.
LEMMA AlwaysStep ==
  ASSUME AlwaysInv, Next
  PROVE  AlwaysInv'
<1> USE ThreadsAssumption DEF AlwaysInv, NoOmx, PlacesInv, SleepInv, RunningInv, Threads, InStop
<1>a. pc \in [Threads -> Places] /\ back \in [Threads -> Places] /\ mode \in Modes \cup {"none"}
  BY DEF TypeOK
<1> DEFINE Always == PlacesInv' /\ SleepInv' /\ RunningInv'
<1>0. TypeOK'
  BY TypeStep
<1>1. ASSUME NEW m \in Modes, Start(m) PROVE Always
  BY <1>a, <1>1 DEF Start, Idle, Go
<1>2. ASSUME Configure PROVE Always
  BY <1>a, <1>2 DEF Configure, Go, TypeOK
<1>3. ASSUME CreateThread PROVE Always
  BY <1>a, <1>3 DEF CreateThread, Go
<1>4. ASSUME OnReady PROVE Always
  <2>1. PlacesInv'
    <3>1. /\ pc["main"] = "ready" /\ mode' = mode
          /\ \/ pc' = [pc EXCEPT !["main"] = IF mode = "aphero_now" THEN "out" ELSE "sleep"] /\ back' = back
             \/ /\ pc' = [pc EXCEPT !["main"] = "enter"]
                /\ back' = [back EXCEPT !["main"] = IF mode = "aphero_now" THEN "out" ELSE "sleep"]
      BY <1>a, <1>4 DEF OnReady, CallStop, Go, Places
    <3>2. QED BY ZenonT(40), <1>a, <3>1
  <2>2. SleepInv'
    BY <1>a, <1>4 DEF OnReady, CallStop, Go
  <2>3. RunningInv'
    BY <1>a, <1>4 DEF OnReady, CallStop, Go
  <2>4. QED BY <2>1, <2>2, <2>3
<1>5. ASSUME Sleep PROVE Always
  BY <1>a, <1>5 DEF Sleep, Go
<1>6. ASSUME Woken PROVE Always
  BY <1>a, <1>6 DEF Woken, Go
<1>7. ASSUME TimeOut PROVE Always
  BY <1>a, <1>7 DEF TimeOut, Tangled, Go
<1>8. ASSUME Awake PROVE Always
  <2>1. PlacesInv'
    <3>1. /\ pc["main"] = "awake" /\ mode' = mode /\ mode # "aphero_now"
          /\ \/ pc' = [pc EXCEPT !["main"] = "out"] /\ back' = back
             \/ /\ mode # "aphero" /\ back' = back
                /\ \/ pc' = [pc EXCEPT !["main"] = "exit"]
                   \/ pc' = [pc EXCEPT !["main"] = "joinbg"]
             \/ /\ mode # "aphero"
                /\ pc' = [pc EXCEPT !["main"] = "enter"] /\ back' = [back EXCEPT !["main"] = "exit"]
      BY <1>a, <1>8 DEF Awake, CallStop, Go
    <3>2. mode # "aphero" => mode \in {"forever", "timed"}
      BY <1>a, <1>8 DEF Awake
    <3>3. QED BY ZenonT(40), <1>a, <3>1, <3>2
  <2>2. SleepInv'
    BY <1>a, <1>8 DEF Awake, CallStop, Go, TypeOK
  <2>3. RunningInv'
    BY <1>a, <1>8 DEF Awake, CallStop, Go, TypeOK
  <2>4. QED BY <2>1, <2>2, <2>3
<1>9. ASSUME JoinThread PROVE Always
  BY <1>a, <1>9 DEF JoinThread, Note, Go
<1>10. ASSUME Exit PROVE Always
  BY <1>a, <1>10 DEF Exit, Idle, Go
<1>11. ASSUME NEW th \in Others, OtherStops(th) PROVE Always
  BY <1>a, <1>11 DEF OtherStops, CallStop, Go
<1>12. ASSUME NEW th \in Threads, Enter(th) PROVE Always
  BY <1>a, <1>12 DEF Enter, Go
<1>13. ASSUME NEW th \in Threads, Claim(th) PROVE Always
  BY <1>a, <1>13 DEF Claim, PastSleep, Go
<1>14. ASSUME HaltSelf PROVE Always
  BY <1>a, <1>14 DEF HaltSelf, Go
<1>15. ASSUME NEW th \in Threads, Halt(th) PROVE Always
  BY <1>a, <1>15 DEF Halt, Note, Go, TypeOK
<1>16. ASSUME NEW th \in Threads, Join(th) PROVE Always
  BY <1>a, <1>16 DEF Join, Note, Go, TypeOK
<1>17. ASSUME NEW th \in Threads, Deinit(th) PROVE Always
  BY ZenonT(40), <1>a, <1>17 DEF Deinit, FreeComponents, Go, TypeOK
<1>18. ASSUME NEW th \in Threads, Look(th) PROVE Always
  BY <1>a, <1>18 DEF Look, Go
<1>19. ASSUME NEW th \in Threads, Wake(th) PROVE Always
  <2>1. PlacesInv'
    BY <1>a, <1>19 DEF Wake, Note, Go
  <2>2. SleepInv'
    <3>1. /\ pc[th] = "wake" /\ live' = live /\ mode' = mode
          /\ \/ pc' = [pc EXCEPT ![th] = "omx"]
             \/ pc' = [pc EXCEPT ![th] = back[th]]
          /\ \/ flag' = [flag EXCEPT !.sleeping = FALSE, !.locked = FALSE]
             \/ flag' = flag
      BY <1>19 DEF Wake, Go
    <3>2. pc'["main"] = "asleep" <=> pc["main"] = "asleep"
      BY <1>a, <3>1
    <3>3. (flag'.sleeping => flag.sleeping) /\ (flag'.locked => flag.locked)
      BY <3>1 DEF TypeOK
    <3>4. QED BY <3>1, <3>2, <3>3
  <2>3. RunningInv'
    BY <1>a, <1>19 DEF Wake, Note, Go
  <2>4. QED BY <2>1, <2>2, <2>3
<1>20. ASSUME Begin PROVE Always
  BY <1>a, <1>20 DEF Begin, Go
<1>21. ASSUME Loop PROVE Always
  BY <1>a, <1>21 DEF Loop, Note, HandleError, CallStop, Tangled, Go, TypeOK
<1>22. ASSUME Fill PROVE Always
  <2>1. /\ pc["bg"] = "fill" /\ UNCHANGED <<ctx, live, mode>>
        /\ \/ pc' = [pc EXCEPT !["bg"] = "data"] /\ back' = back /\ flag' = flag
           \/ /\ pc' = [pc EXCEPT !["bg"] = "enter"] /\ back' = [back EXCEPT !["bg"] = "ended"]
              /\ flag' = [flag EXCEPT !.bg_error = TRUE]
    BY <1>22 DEF Fill, HandleError, CallStop, Go
  <2>2. /\ pc' \in [Threads -> Places] /\ pc'["bg"] \in {"data", "enter"}
        /\ pc'["bg"] = "enter" => back'["bg"] = "ended"
        /\ \A th \in Threads : th # "bg" => pc'[th] = pc[th] /\ back'[th] = back[th]
    BY <1>a, <1>0, <2>1 DEF TypeOK
  <2>3. flag'.sleeping = flag.sleeping /\ flag'.locked = flag.locked
    BY <2>1 DEF TypeOK
  <2>4. PlacesInv'
    BY <2>1, <2>2
  <2>5. SleepInv' /\ RunningInv'
    BY <2>1, <2>2, <2>3
  <2>6. QED BY <2>4, <2>5
<1>23. ASSUME OnData PROVE Always
  <2>1. PlacesInv'
    <3>1. /\ pc["bg"] = "data" /\ mode' = mode
          /\ \/ pc' = [pc EXCEPT !["bg"] = "loop"] /\ back' = back
             \/ pc' = [pc EXCEPT !["bg"] = "enter"] /\ back' = [back EXCEPT !["bg"] = "loop"]
      BY <1>a, <1>23 DEF OnData, CallStop, Go
    <3>2. QED BY <1>a, <3>1
  <2>2. SleepInv'
    BY <1>a, <1>23 DEF OnData, CallStop, Go
  <2>3. RunningInv'
    BY <1>a, <1>23 DEF OnData, CallStop, Go
  <2>4. QED BY <2>1, <2>2, <2>3
<1>24. ASSUME NEW th \in Threads, CoreDeinit(th) PROVE Always
  BY <1>a, <1>24 DEF CoreDeinit, Note, Go
<1>25. QED
  BY <1>0, <1>1, <1>2, <1>3, <1>4, <1>5, <1>6, <1>7, <1>8, <1>9, <1>10, <1>11, <1>12,
     <1>13, <1>14, <1>15, <1>16, <1>17, <1>18, <1>19, <1>20, <1>21, <1>22, <1>23, <1>24
  DEF Next, MainStep, BgStep, StopStep

-----------------------------------------------------------------------------
(* What holds until calls meet is kept, action by action.                  *)

\* A start is accepted when the last one has left nothing behind.
LEMMA StartOrder ==
  ASSUME AlwaysInv, AlwaysInv', NEW m \in Modes, Start(m), OrderInv, Few'
  PROVE  OrderInv'
<1> USE ThreadsAssumption
    DEF AlwaysInv, NoOmx, TypeOK, OrderInv, Start, Go, Idle, Threads, InStop, Stopping, SomeStop
<1>1. CapturingInv' /\ StoppedInv' /\ JoinedInv' /\ ClosedInv' /\ ErrorInv'
  BY DEF CapturingInv, Capturing, Alive, StoppedInv, Closed, JoinedInv, ClosedInv, ErrorInv,
     Over
<1>2. JoinOnce' /\ Orderly'
  BY DEF JoinOnce, Orderly
<1>3. OneStop'
  BY DEF OneStop, Quiet
<1>4. StoppingInv'
  BY DEF StoppingInv, Alive, Closed, OneStop, Quiet, PlacesInv
<1>5. QED BY <1>1, <1>2, <1>3, <1>4

\* Configuring the camera.
LEMMA ConfigureOrder ==
  ASSUME AlwaysInv, AlwaysInv', Configure, OrderInv, Few'
  PROVE  OrderInv'
<1> USE ThreadsAssumption
    DEF AlwaysInv, NoOmx, TypeOK, OrderInv, Configure, Go, Threads, InStop, Stopping, SomeStop
<1>1. CapturingInv' /\ JoinedInv' /\ ClosedInv' /\ ErrorInv' /\ JoinOnce'
  BY DEF CapturingInv, Capturing, Alive, JoinedInv, ClosedInv, Closed, ErrorInv, Over, JoinOnce
<1>2. Orderly'
  BY DEF Orderly
<1>3. OneStop'
  BY DEF OneStop, Quiet
<1>4. StoppingInv'
  BY DEF StoppingInv, Alive, Closed, OneStop, Quiet, PlacesInv
<1>5. StoppedInv'
  BY DEF StoppedInv, Closed, OneStop, Quiet, PlacesInv
<1>6. QED BY <1>1, <1>2, <1>3, <1>4, <1>5

\* The mutex and the thread are made while no stop can be past its tests.
LEMMA CreateThreadOrder ==
  ASSUME AlwaysInv, AlwaysInv', CreateThread, OrderInv, Few'
  PROVE  OrderInv'
<1> USE ThreadsAssumption
    DEF AlwaysInv, NoOmx, TypeOK, OrderInv, CreateThread, Go, Threads, InStop, Stopping, SomeStop
<1>1. ClosedInv' /\ JoinOnce' /\ Orderly'
  BY DEF ClosedInv, Closed, JoinOnce, Orderly
<1>2. OneStop'
  BY DEF OneStop, Quiet
<1>3. CapturingInv'
  BY DEF CapturingInv, Capturing, Alive, OneStop, Quiet, ClosedInv, Closed
<1>4. StoppingInv'
  BY DEF StoppingInv, Alive, Closed, OneStop, Quiet, PlacesInv
<1>5. StoppedInv'
  BY DEF StoppedInv, Closed, OneStop, Quiet, PlacesInv
<1>6. JoinedInv'
  BY DEF JoinedInv, OneStop, Quiet, PlacesInv
<1>7. ErrorInv'
  BY DEF ErrorInv, Over, OneStop, Quiet, PlacesInv
<1>8. QED BY <1>1, <1>2, <1>3, <1>4, <1>5, <1>6, <1>7

\* on_ready, with or without a stop.
LEMMA OnReadyOrder ==
  ASSUME AlwaysInv, AlwaysInv', OnReady, OrderInv, Few'
  PROVE  OrderInv'
<1> USE ThreadsAssumption
    DEF AlwaysInv, NoOmx, TypeOK, OrderInv, OnReady, Go, CallStop, Threads, InStop, Stopping, SomeStop
<1>1. OneStop' /\ CapturingInv' /\ StoppingInv' /\ StoppedInv' /\ JoinedInv'
  BY DEF OneStop, Quiet, CapturingInv, Capturing, Alive, StoppingInv, Closed, StoppedInv,
     JoinedInv
<1>2. ErrorInv' /\ JoinOnce' /\ Orderly'
  BY DEF ErrorInv, Over, JoinOnce, Orderly
<1>3. ClosedInv'
  BY DEF ClosedInv, Closed, OneStop, Quiet, PlacesInv, SleepInv, RunningInv
<1>4. QED BY <1>1, <1>2, <1>3

\* main goes to sleep.
LEMMA SleepOrder ==
  ASSUME AlwaysInv, AlwaysInv', Sleep, OrderInv, Few'
  PROVE  OrderInv'
<1> USE ThreadsAssumption
    DEF AlwaysInv, NoOmx, TypeOK, OrderInv, Sleep, Go, Threads, InStop, Stopping, SomeStop
<1>1. OneStop' /\ CapturingInv' /\ StoppingInv' /\ StoppedInv' /\ JoinedInv'
  BY DEF OneStop, Quiet, CapturingInv, Capturing, Alive, StoppingInv, Closed, StoppedInv,
     JoinedInv
<1>2. ClosedInv' /\ ErrorInv' /\ JoinOnce' /\ Orderly'
  BY DEF ClosedInv, Closed, ErrorInv, Over, JoinOnce, Orderly
<1>3. QED BY <1>1, <1>2

\* main is woken by the one stop there was.
LEMMA WokenOrder ==
  ASSUME AlwaysInv, AlwaysInv', Woken, OrderInv, Few'
  PROVE  OrderInv'
<1> USE ThreadsAssumption
    DEF AlwaysInv, NoOmx, TypeOK, OrderInv, Woken, Go, Threads, InStop, Stopping, SomeStop
<1>1. CapturingInv' /\ StoppingInv' /\ StoppedInv' /\ JoinedInv' /\ ClosedInv'
  BY DEF CapturingInv, Capturing, Alive, StoppingInv, Closed, StoppedInv, JoinedInv, ClosedInv
<1>2. ErrorInv' /\ JoinOnce' /\ Orderly'
  BY DEF ErrorInv, Over, JoinOnce, Orderly
<1>3. OneStop'
  BY DEF OneStop, Quiet, PlacesInv, SleepInv, RunningInv
<1>4. QED BY <1>1, <1>2, <1>3

\* main wakes by itself: a stop under way is a meeting.
LEMMA TimeOutOrder ==
  ASSUME AlwaysInv, AlwaysInv', TimeOut, OrderInv, Few'
  PROVE  OrderInv'
<1> USE ThreadsAssumption
    DEF AlwaysInv, NoOmx, TypeOK, OrderInv, TimeOut, Go, Tangled, Threads, InStop, Stopping, SomeStop
<1>1. CapturingInv' /\ StoppedInv' /\ JoinedInv' /\ ClosedInv' /\ ErrorInv'
  BY DEF CapturingInv, Capturing, Alive, StoppedInv, Closed, JoinedInv, ClosedInv, ErrorInv,
     Over
<1>2. JoinOnce' /\ Orderly'
  BY DEF JoinOnce, Orderly
<1>3. OneStop'
  BY DEF Few, OneStop, Quiet
<1>4. StoppingInv'
  BY DEF Few, StoppingInv, Closed, Alive, OneStop, Quiet
<1>5. QED BY <1>1, <1>2, <1>3, <1>4

\* main looks at what ended its sleep.
LEMMA AwakeOrder ==
  ASSUME AlwaysInv, AlwaysInv', Awake, OrderInv, Few'
  PROVE  OrderInv'
<1> USE ThreadsAssumption
    DEF AlwaysInv, NoOmx, TypeOK, OrderInv, Awake, Go, CallStop, Threads, InStop, Stopping, SomeStop
<1>1. CapturingInv' /\ StoppingInv' /\ StoppedInv' /\ JoinedInv' /\ Orderly'
  BY DEF CapturingInv, Capturing, Alive, StoppingInv, Closed, StoppedInv, JoinedInv, Orderly
<1>2. OneStop'
  BY DEF OneStop, Quiet, PlacesInv, StoppingInv, StoppedInv, Closed, Alive
<1>3. ClosedInv'
  BY DEF ClosedInv, Closed, OneStop, Quiet, StoppedInv, JoinedInv, RunningInv, PlacesInv,
     CapturingInv, Capturing
<1>4. ErrorInv'
  BY DEF ErrorInv, Over, OneStop, Quiet, StoppedInv, Closed, CapturingInv, Capturing, Alive,
     RunningInv
<1>5. JoinOnce'
  BY DEF JoinOnce, OneStop, Quiet, StoppedInv, JoinedInv, Closed, CapturingInv, Capturing,
     Alive, RunningInv
<1>6. QED BY <1>1, <1>2, <1>3, <1>4, <1>5

\* main joins a thread that no stop has joined.
LEMMA JoinThreadOrder ==
  ASSUME AlwaysInv, AlwaysInv', JoinThread, OrderInv, Few'
  PROVE  OrderInv'
<1> USE ThreadsAssumption
    DEF AlwaysInv, NoOmx, TypeOK, OrderInv, JoinThread, Go, Note, Threads, InStop, Stopping, SomeStop
<1>1. OneStop' /\ CapturingInv' /\ StoppedInv' /\ JoinedInv' /\ ErrorInv'
  BY DEF OneStop, Quiet, CapturingInv, Capturing, Alive, StoppedInv, Closed, JoinedInv,
     ErrorInv, Over
<1>2. StoppingInv'
  BY DEF StoppingInv, Alive, Closed, OneStop, Quiet, PlacesInv
<1>3. ClosedInv'
  BY DEF ClosedInv, Closed, OneStop, Quiet, StoppedInv, CapturingInv, Capturing, Alive,
     RunningInv
<1>4. JoinOnce'
  BY DEF JoinOnce, OneStop, Quiet, PlacesInv, ErrorInv, Over, StoppedInv, JoinedInv
<1>5. Orderly'
  BY DEF Orderly, JoinOnce
<1>6. QED BY <1>1, <1>2, <1>3, <1>4, <1>5

\* The return of start.
LEMMA ExitOrder ==
  ASSUME AlwaysInv, AlwaysInv', Exit, OrderInv, Few'
  PROVE  OrderInv'
<1> USE ThreadsAssumption
    DEF AlwaysInv, NoOmx, TypeOK, OrderInv, Exit, Go, Idle, Threads, InStop, Stopping, SomeStop
<1>1. OneStop' /\ CapturingInv' /\ StoppingInv' /\ StoppedInv' /\ JoinedInv'
  BY DEF OneStop, Quiet, CapturingInv, Capturing, Alive, StoppingInv, Closed, StoppedInv,
     JoinedInv
<1>2. ClosedInv' /\ ErrorInv' /\ JoinOnce' /\ Orderly'
  BY DEF ClosedInv, Closed, ErrorInv, Over, JoinOnce, Orderly
<1>3. QED BY <1>1, <1>2

\* A call of stop by another thread.
LEMMA OtherStopsOrder ==
  ASSUME AlwaysInv, AlwaysInv', NEW th \in Others, OtherStops(th), OrderInv, Few'
  PROVE  OrderInv'
<1> USE ThreadsAssumption
    DEF AlwaysInv, NoOmx, TypeOK, OrderInv, OtherStops, Go, CallStop, Threads, InStop, Stopping,
       SomeStop
<1>1. OneStop' /\ CapturingInv' /\ StoppingInv' /\ StoppedInv' /\ JoinedInv'
  BY DEF OneStop, Quiet, CapturingInv, Capturing, Alive, StoppingInv, Closed, StoppedInv,
     JoinedInv
<1>2. ClosedInv' /\ ErrorInv' /\ JoinOnce' /\ Orderly'
  BY DEF ClosedInv, Closed, ErrorInv, Over, JoinOnce, Orderly
<1>3. QED BY <1>1, <1>2

\* The tests of stop.
LEMMA EnterOrder ==
  ASSUME AlwaysInv, AlwaysInv', NEW th \in Threads, Enter(th), OrderInv, Few'
  PROVE  OrderInv'
<1> USE ThreadsAssumption
    DEF AlwaysInv, NoOmx, TypeOK, OrderInv, Enter, Go, Threads, InStop, Stopping, SomeStop
<1>1. CapturingInv' /\ StoppedInv' /\ Orderly'
  BY DEF CapturingInv, Capturing, Alive, StoppedInv, Closed, Orderly
<1>2. OneStop'
  BY DEF OneStop, Quiet, PlacesInv
<1>3. StoppingInv'
  BY DEF StoppingInv, Alive, Closed, PlacesInv
<1>4. JoinedInv'
  BY DEF JoinedInv, PlacesInv
<1>5. ClosedInv'
  BY DEF ClosedInv, Closed, OneStop, Quiet, PlacesInv, SleepInv, RunningInv
<1>6. ErrorInv'
  BY DEF ErrorInv, Over, PlacesInv
<1>7. JoinOnce'
  BY DEF JoinOnce, PlacesInv
<1>8. QED BY <1>1, <1>2, <1>3, <1>4, <1>5, <1>6, <1>7

\* The one stop of a capture, or a meeting.
LEMMA ClaimOrder ==
  ASSUME AlwaysInv, AlwaysInv', NEW th \in Threads, Claim(th), OrderInv, Few'
  PROVE  OrderInv'
<1> USE ThreadsAssumption
    DEF AlwaysInv, NoOmx, TypeOK, OrderInv, Claim, Go, PastSleep, Threads, InStop, Stopping, SomeStop
<1>1. CapturingInv' /\ StoppedInv' /\ ClosedInv' /\ ErrorInv' /\ JoinOnce'
  BY DEF CapturingInv, Capturing, Alive, StoppedInv, Closed, ClosedInv, ErrorInv, Over,
     JoinOnce
<1>2. Orderly'
  BY DEF Orderly
<1>3. OneStop'
  <2>1. /\ ~ctx.stopping /\ pc["main"] \notin {"config", "create"}
        /\ th = "main" \/ ~PastSleep
    BY DEF Few
  <2>2. /\ pc' = [pc EXCEPT ![th] = "halt"] /\ ctx' = [ctx EXCEPT !.stopping = TRUE]
        /\ pc[th] = "claim" /\ UNCHANGED <<flag, mode, back>>
    OBVIOUS
  <2>3. \A t \in Threads : Stopping(t)' <=> t = th
    BY <2>1, <2>2 DEF OneStop
  <2>4. ~Quiet'
    <3>1. CASE th = "main"
      BY <2>2, <3>1 DEF Quiet
    <3>2. CASE th # "main"
      <4>1. /\ pc["main"] \notin {"awake", "joinbg", "exit", "out", "omx"}
            /\ pc["main"] \in {"enter", "claim"} => back["main"] # "exit"
            /\ pc["main"] = "asleep" => flag.sleeping \/ flag.locked
        BY <2>1, <3>2 DEF OneStop, StoppingInv
      <4>2. QED BY <2>1, <2>2, <3>2, <4>1 DEF Quiet
    <3>3. QED BY <3>1, <3>2
  <2>5. ctx'.running /\ ctx'.stopping
    BY <2>1, <2>2 DEF PastSleep, PlacesInv, RunningInv
  <2>6. QED BY <2>1, <2>2, <2>3, <2>4, <2>5 DEF OneStop, Quiet
<1>4. StoppingInv'
  BY DEF Few, OneStop, Quiet, CapturingInv, Capturing, Alive, StoppingInv, Closed,
     StoppedInv, JoinedInv, ClosedInv, ErrorInv, Over, JoinOnce, Orderly, PlacesInv, SleepInv,
     RunningInv
<1>5. JoinedInv'
  BY DEF Few, JoinedInv, CapturingInv, Capturing, Alive, PlacesInv, RunningInv
<1>6. QED BY <1>1, <1>2, <1>3, <1>4, <1>5

\* The thread stops itself.
LEMMA HaltSelfOrder ==
  ASSUME AlwaysInv, AlwaysInv', HaltSelf, OrderInv, Few'
  PROVE  OrderInv'
<1> USE ThreadsAssumption
    DEF AlwaysInv, NoOmx, TypeOK, OrderInv, HaltSelf, Go, Threads, InStop, Stopping, SomeStop
<1>1. OneStop' /\ CapturingInv' /\ StoppingInv' /\ StoppedInv' /\ JoinedInv'
  BY DEF OneStop, Quiet, CapturingInv, Capturing, Alive, StoppingInv, Closed, StoppedInv,
     JoinedInv
<1>2. ClosedInv' /\ ErrorInv' /\ JoinOnce' /\ Orderly'
  BY DEF ClosedInv, Closed, ErrorInv, Over, JoinOnce, Orderly
<1>3. QED BY <1>1, <1>2

\* Another thread stops it: the mutex is there.
LEMMA HaltOrder ==
  ASSUME AlwaysInv, AlwaysInv', NEW th \in Threads, Halt(th), OrderInv, Few'
  PROVE  OrderInv'
<1> USE ThreadsAssumption
    DEF AlwaysInv, NoOmx, TypeOK, OrderInv, Halt, Go, Note, Threads, InStop, Stopping, SomeStop
<1>1. StoppingInv' /\ JoinedInv'
  BY DEF StoppingInv, Alive, Closed, JoinedInv
<1>2. OneStop'
  BY DEF OneStop, Quiet, PlacesInv
<1>3. CapturingInv'
  BY DEF CapturingInv, Capturing, Alive, OneStop, Quiet, PlacesInv
<1>4. StoppedInv'
  BY DEF StoppedInv, Closed, OneStop, Quiet, PlacesInv, StoppingInv, Alive
<1>5. ClosedInv'
  BY DEF ClosedInv, Closed, OneStop, Quiet, PlacesInv, StoppingInv, StoppedInv, Alive
<1>6. ErrorInv'
  BY DEF ErrorInv, Over, PlacesInv
<1>7. JoinOnce'
  BY DEF JoinOnce, PlacesInv
<1>8. Orderly'
  BY DEF Orderly, OneStop, Quiet, PlacesInv, StoppingInv, StoppedInv, Closed, Alive
<1>9. QED BY <1>1, <1>2, <1>3, <1>4, <1>5, <1>6, <1>7, <1>8

\* ... and joins it: for the first time.
LEMMA JoinOrder ==
  ASSUME AlwaysInv, AlwaysInv', NEW th \in Threads, Join(th), OrderInv, Few'
  PROVE  OrderInv'
<1> USE ThreadsAssumption
    DEF AlwaysInv, NoOmx, TypeOK, OrderInv, Join, Go, Note, Threads, InStop, Stopping, SomeStop
<1>1. CapturingInv'
  BY DEF CapturingInv, Capturing, Alive
<1>2. OneStop'
  BY DEF OneStop, Quiet, PlacesInv
<1>3. StoppingInv'
  BY DEF StoppingInv, Alive, Closed, OneStop, Quiet, PlacesInv
<1>4. StoppedInv'
  BY DEF StoppedInv, Closed, OneStop, Quiet, PlacesInv, StoppingInv, Alive
<1>5. JoinedInv'
  BY DEF JoinedInv, OneStop, Quiet, PlacesInv
<1>6. ClosedInv'
  BY DEF ClosedInv, Closed, OneStop, Quiet, PlacesInv, StoppingInv, StoppedInv, Alive
<1>7. ErrorInv'
  BY DEF ErrorInv, Over, PlacesInv
<1>8. JoinOnce'
  BY DEF JoinOnce, OneStop, Quiet, PlacesInv
<1>9. Orderly'
  BY DEF Orderly, OneStop, Quiet, PlacesInv, StoppingInv, StoppedInv, Closed, Alive
<1>10. QED BY <1>1, <1>2, <1>3, <1>4, <1>5, <1>6, <1>7, <1>8, <1>9

\* What is freed is there.
LEMMA DeinitOrder ==
  ASSUME AlwaysInv, AlwaysInv', NEW th \in Threads, Deinit(th), OrderInv, Few'
  PROVE  OrderInv'
<1> USE ThreadsAssumption
    DEF AlwaysInv, NoOmx, TypeOK, OrderInv, Deinit, FreeComponents, Go, Threads, InStop, Stopping,
       SomeStop
<1>1. OneStop' /\ StoppedInv' /\ JoinedInv' /\ ErrorInv' /\ JoinOnce'
  BY DEF OneStop, Quiet, StoppedInv, Closed, JoinedInv, ErrorInv, Over, JoinOnce
<1>2. CapturingInv'
  BY DEF CapturingInv, Capturing, Alive, OneStop, Quiet, PlacesInv
<1>3. StoppingInv'
  <2>0. live.mutex /\ live.camera = "up" /\ ~flag.running /\ ctx.stopping
    BY DEF StoppingInv, OneStop
  <2>a. \/ live' = [live EXCEPT !.mutex = FALSE, !.camera = "none"]
        \/ live' = [live EXCEPT !.mutex = FALSE, !.camera = "part"]
    BY <2>0
  <2>1. ~flag.running /\ ctx.stopping /\ Closed'
    BY <2>0, <2>a DEF Closed
  <2>2. \A t \in Threads : t # th => ~Stopping(t) /\ pc'[t] = pc[t]
    BY DEF OneStop
  <2>3. th # "bg" => pc["bg"] = "joined"
    BY DEF StoppingInv
  <2>4. /\ pc["bg"] \in {"deinit", "look", "wake", "omx"} => ~flag.safe
        /\ pc["main"] = "omx" => ctx.stopping /\ pc["bg"] = "joined"
    BY DEF StoppingInv
  <2>5. th # "bg" => pc'["bg"] = "joined"
    BY <2>3
  <2>6. pc'[th] = "look"
    OBVIOUS
  <2>7. QED BY <2>1, <2>2, <2>4, <2>5, <2>6 DEF StoppingInv, Closed
<1>4. ClosedInv'
  BY DEF ClosedInv, Closed, OneStop, Quiet, PlacesInv
<1>5. Orderly'
  BY DEF Orderly, OneStop, Quiet, PlacesInv, StoppingInv, StoppedInv, Closed, Alive
<1>6. QED BY <1>1, <1>2, <1>3, <1>4, <1>5

\* A sleeper found is woken.
LEMMA LookOrder ==
  ASSUME AlwaysInv, AlwaysInv', NEW th \in Threads, Look(th), OrderInv, Few'
  PROVE  OrderInv'
<1> USE ThreadsAssumption
    DEF AlwaysInv, NoOmx, TypeOK, OrderInv, Look, Go, Threads, InStop, Stopping, SomeStop
<1>1. CapturingInv' /\ Orderly'
  BY DEF CapturingInv, Capturing, Alive, Orderly
<1>2. OneStop'
  BY DEF OneStop, Quiet, PlacesInv
<1>3. StoppingInv'
  <2>1. /\ pc[th] = "look" /\ UNCHANGED <<ctx, flag, live, back>> /\ ctx.stopping
        /\ \/ pc' = [pc EXCEPT ![th] = "wake"] /\ (flag.sleeping \/ flag.locked)
           \/ pc' = [pc EXCEPT ![th] = "omx"]
    BY DEF OneStop
  <2>2. \A t \in Threads : t # th => ~Stopping(t) /\ pc'[t] = pc[t]
    BY <2>1 DEF OneStop
  <2>3. ~flag.running /\ Closed /\ (th # "bg" => pc["bg"] = "joined") /\ (th = "bg" => ~flag.safe)
    BY <2>1 DEF StoppingInv
  <2>4. pc'["bg"] \in {"deinit", "look", "wake", "omx"} => ~flag.safe
    BY <2>1, <2>2, <2>3 DEF StoppingInv
  <2>5. pc'["main"] = "omx" => pc'["bg"] = "joined"
    BY <2>1, <2>2, <2>3 DEF StoppingInv
  <2>6. pc'[th] \in {"wake", "omx"} /\ (pc'[th] = "wake" => flag.sleeping \/ flag.locked)
    BY <2>1
  <2>7. \A t \in Threads :
           /\ pc'[t] \notin {"halt", "join", "deinit", "look"}
           /\ pc'[t] = "wake" => t = th
    BY <2>2, <2>6
  <2>8. QED BY <2>1, <2>2, <2>3, <2>4, <2>5, <2>6, <2>7 DEF StoppingInv, Closed
<1>4. StoppedInv'
  BY DEF StoppedInv, Closed, OneStop, Quiet, PlacesInv, StoppingInv, Alive
<1>5. JoinedInv'
  BY DEF JoinedInv, PlacesInv
<1>6. ClosedInv'
  BY DEF ClosedInv, Closed, OneStop, Quiet, PlacesInv, StoppingInv, StoppedInv, Alive
<1>7. ErrorInv'
  BY DEF ErrorInv, Over, PlacesInv
<1>8. JoinOnce'
  BY DEF JoinOnce, PlacesInv
<1>9. QED BY <1>1, <1>2, <1>3, <1>4, <1>5, <1>6, <1>7, <1>8

\* A sleeper found is still asleep when it is woken.
LEMMA WakeOrder ==
  ASSUME AlwaysInv, AlwaysInv', NEW th \in Threads, Wake(th), OrderInv, Few'
  PROVE  OrderInv'
<1> USE ThreadsAssumption
    DEF AlwaysInv, NoOmx, TypeOK, OrderInv, Wake, Go, Note, Threads, InStop, Stopping, SomeStop
<1>1. /\ pc["main"] = "asleep" /\ th # "main" /\ ctx.stopping /\ ~flag.running
      /\ live.cond /\ Closed /\ pc[th] = "wake"
      /\ th # "bg" => pc["bg"] = "joined"
      /\ th = "bg" => ~flag.safe
  BY DEF SleepInv, StoppingInv, OneStop, PlacesInv
<1>2. /\ flag' = [flag EXCEPT !.sleeping = FALSE, !.locked = FALSE]
      /\ pc' = [pc EXCEPT ![th] = "omx"]
      /\ UNCHANGED <<ctx, live, mode, back, tangle, misuse>>
  BY <1>1
<1> HIDE DEF Wake, Note
<1>3. \A t \in Threads : ~Stopping(t)'
  BY <1>1, <1>2 DEF OneStop, PlacesInv
<1>4. pc'["main"] = "asleep"
  BY <1>1, <1>2
<1>5. pc'["bg"] = "joined" \/ (pc'["bg"] \in {"omx", "loop", "ended"} /\ ~flag'.safe)
  BY <1>1, <1>2
<1>6. OneStop' /\ CapturingInv' /\ ClosedInv'
  BY <1>1, <1>2, <1>3, <1>4 DEF OneStop, Quiet, CapturingInv, Capturing, ClosedInv
<1>7. StoppingInv' /\ StoppedInv'
  BY <1>1, <1>2, <1>3, <1>5 DEF StoppingInv, StoppedInv, Closed
<1>8. JoinedInv'
  BY <1>1, <1>2 DEF JoinedInv, PlacesInv
<1>9. ErrorInv'
  BY <1>1, <1>2, <1>4 DEF ErrorInv, Over
<1>10. JoinOnce'
  BY <1>1, <1>2, <1>3, <1>4 DEF JoinOnce, PlacesInv
<1>11. Orderly'
  BY <1>2 DEF Orderly
<1>12. QED BY <1>6, <1>7, <1>8, <1>9, <1>10, <1>11

\* OMX_Deinit, with OMX_Init called once more for the components of this start, if
\* there are any.
LEMMA CoreDeinitOrder ==
  ASSUME AlwaysInv, AlwaysInv', NEW th \in Threads, CoreDeinit(th), OrderInv, OmxInv, Few'
  PROVE  OrderInv'
<1>1. /\ pc[th] = "omx" /\ pc' = [pc EXCEPT ![th] = back[th]]
      /\ UNCHANGED <<ctx, flag, live, mode, back, tangle>>
      /\ pc \in [Threads -> Places] /\ "main" \in Threads /\ "bg" \in Threads
  BY DEF CoreDeinit, Go, AlwaysInv, TypeOK, Threads
<1>2. /\ th = "main" => back["main"] \in {"sleep", "exit", "out"}
      /\ th = "bg" => back["bg"] \in {"loop", "ended"}
      /\ th \notin {"main", "bg"} => back[th] = "out"
  BY <1>1 DEF AlwaysInv, PlacesInv, InStop, Threads
<1>3. /\ pc'[th] = back[th]
      /\ \A t \in Threads : t # th => pc'[t] = pc[t]
      /\ \A t \in Threads : Stopping(t)' <=> Stopping(t)
      /\ SomeStop' <=> SomeStop
  BY <1>1, <1>2 DEF Stopping, SomeStop, InStop
<1>4. /\ th = "main" => ctx.stopping /\ ~SomeStop /\ pc["bg"] = "joined"
      /\ th = "bg" => ~flag.safe
  BY <1>1 DEF OrderInv, OneStop, Quiet, StoppingInv
<1>5. OneStop'
  BY <1>1, <1>2, <1>3, <1>4 DEF OrderInv, OneStop, Quiet
<1>6. CapturingInv'
  BY <1>1, <1>2, <1>3, <1>4 DEF OrderInv, CapturingInv, Capturing, Alive
<1>7. StoppingInv'
  BY <1>1, <1>2, <1>3, <1>4 DEF OrderInv, StoppingInv, Alive, Closed, Stopping, InStop
<1>8. StoppedInv'
  BY <1>1, <1>2, <1>3, <1>4 DEF OrderInv, StoppedInv, Closed
<1>9. JoinedInv'
  BY <1>1, <1>2, <1>3, <1>4 DEF OrderInv, JoinedInv
<1>10. ClosedInv'
  BY <1>1, <1>2, <1>3, <1>4 DEF OrderInv, ClosedInv, Closed, StoppedInv, AlwaysInv, RunningInv
<1>11. ErrorInv'
  BY <1>1, <1>2, <1>3, <1>4 DEF OrderInv, ErrorInv, Over, InStop
<1>12. JoinOnce'
  BY <1>1, <1>2, <1>3, <1>4 DEF OrderInv, JoinOnce
<1>13. Orderly'
  <2>1. th \in Pending /\ IsFiniteSet(Pending)
    BY <1>1 DEF Pending, OmxInv
  <2>2. Cardinality(Pending) \in Nat /\ Cardinality(Pending) # 0
    BY <2>1, FS_CardinalityType, FS_EmptySet
  <2>3. omx \in Nat /\ omx # 0 /\ (live.camera = "up" => omx # 1)
    BY <2>2 DEF OmxInv, Needed, AlwaysInv, TypeOK
  <2>4. misuse' = misuse
    BY <2>3 DEF CoreDeinit, Note
  <2>5. QED BY <1>1, <2>4 DEF OrderInv, Orderly
<1>14. QED
  BY <1>5, <1>6, <1>7, <1>8, <1>9, <1>10, <1>11, <1>12, <1>13 DEF OrderInv

\* The capture begins.
LEMMA BeginOrder ==
  ASSUME AlwaysInv, AlwaysInv', Begin, OrderInv, Few'
  PROVE  OrderInv'
<1> USE ThreadsAssumption
    DEF AlwaysInv, NoOmx, TypeOK, OrderInv, Begin, Go, Threads, InStop, Stopping, SomeStop
<1>1. OneStop' /\ CapturingInv' /\ StoppingInv' /\ StoppedInv' /\ JoinedInv'
  BY DEF OneStop, Quiet, CapturingInv, Capturing, Alive, StoppingInv, Closed, StoppedInv,
     JoinedInv
<1>2. ClosedInv' /\ ErrorInv' /\ JoinOnce' /\ Orderly'
  BY DEF ClosedInv, Closed, ErrorInv, Over, JoinOnce, Orderly
<1>3. QED BY <1>1, <1>2

\* The loop locks a mutex that is there.
LEMMA LoopOrder ==
  ASSUME AlwaysInv, AlwaysInv', Loop, OrderInv, Few'
  PROVE  OrderInv'
<1> USE ThreadsAssumption
    DEF AlwaysInv, NoOmx, TypeOK, OrderInv, Loop, Go, Note, HandleError, CallStop, Tangled, Threads,
       InStop, Stopping, SomeStop
<1>1. OneStop' /\ CapturingInv' /\ StoppingInv' /\ StoppedInv' /\ JoinedInv'
  BY DEF Few, OneStop, Quiet, CapturingInv, Capturing, Alive, StoppingInv, Closed,
     StoppedInv, JoinedInv, ClosedInv, ErrorInv, Over, JoinOnce, Orderly, PlacesInv, SleepInv,
     RunningInv
<1>2. ClosedInv' /\ ErrorInv' /\ JoinOnce'
  BY DEF ClosedInv, Closed, ErrorInv, Over, JoinOnce
<1>3. Orderly'
  BY DEF Few, Orderly, CapturingInv, Capturing, Alive, StoppingInv, StoppedInv, Closed,
     OneStop, Quiet, ClosedInv, PlacesInv, RunningInv
<1>4. QED BY <1>1, <1>2, <1>3

\* A picture, or an error and a stop.
LEMMA FillOrder ==
  ASSUME AlwaysInv, AlwaysInv', Fill, OrderInv, Few'
  PROVE  OrderInv'
<1>1. /\ pc["bg"] = "fill" /\ UNCHANGED <<ctx, live, mode, misuse>>
      /\ pc \in [Threads -> Places] /\ back \in [Threads -> Places]
      /\ "bg" \in Threads /\ "main" \in Threads
  BY DEF Fill, AlwaysInv, TypeOK, Threads
<1>2. CASE /\ pc' = [pc EXCEPT !["bg"] = "data"] /\ UNCHANGED <<flag, back, tangle>>
  <2>1. /\ \A th \in Threads : Stopping(th)' <=> Stopping(th)
        /\ SomeStop' <=> SomeStop
        /\ pc'["bg"] = "data" /\ \A th \in Threads : th # "bg" => pc'[th] = pc[th]
    BY <1>1, <1>2 DEF Stopping, SomeStop, InStop
  <2>2. OneStop' /\ CapturingInv' /\ StoppingInv' /\ StoppedInv' /\ JoinedInv'
    BY <1>1, <1>2, <2>1 DEF OrderInv, OneStop, Quiet, CapturingInv, Capturing, Alive, StoppingInv,
       Closed, StoppedInv, JoinedInv
  <2>3. ClosedInv' /\ ErrorInv' /\ JoinOnce' /\ Orderly'
    BY <1>1, <1>2, <2>1 DEF OrderInv, ClosedInv, Closed, ErrorInv, Over, JoinOnce, Orderly, InStop
  <2>4. QED BY <2>2, <2>3 DEF OrderInv
<1>3. CASE HandleError
  <2>1. /\ flag' = [flag EXCEPT !.bg_error = TRUE]
        /\ pc' = [pc EXCEPT !["bg"] = "enter"] /\ back' = [back EXCEPT !["bg"] = "ended"]
        /\ tangle' = tangle \cup {x \in {"error"} : SomeStop}
    BY <1>3 DEF HandleError, CallStop, Tangled
  <2>2. /\ \A th \in Threads : Stopping(th)' <=> Stopping(th)
        /\ SomeStop' <=> SomeStop
        /\ pc'["bg"] = "enter" /\ back'["bg"] = "ended"
        /\ \A th \in Threads : th # "bg" => pc'[th] = pc[th] /\ back'[th] = back[th]
    BY <1>1, <2>1 DEF Stopping, SomeStop, InStop
  <2>3. /\ flag'.bg_error /\ flag'.running = flag.running /\ flag'.safe = flag.safe
        /\ flag'.sleeping = flag.sleeping /\ flag'.locked = flag.locked
    BY <2>1 DEF AlwaysInv, TypeOK
  <2>4. CapturingInv' /\ StoppingInv'
    BY <1>1, <2>1, <2>2, <2>3 DEF OrderInv, CapturingInv, Capturing, Alive, StoppingInv, Closed
  <2>5. OneStop'
    BY <1>1, <2>1, <2>2, <2>3 DEF OrderInv, OneStop, Quiet, ClosedInv
  <2>6. StoppedInv' /\ JoinedInv' /\ ClosedInv'
    BY <1>1, <2>1, <2>2, <2>3 DEF OrderInv, StoppedInv, JoinedInv, ClosedInv, Closed
  <2>7. ErrorInv' /\ JoinOnce'
    BY <1>1, <2>1, <2>2, <2>3 DEF OrderInv, ErrorInv, Over, InStop, JoinOnce, SomeStop, Few,
       OneStop, Quiet, CapturingInv, Capturing, StoppedInv, AlwaysInv, RunningInv
  <2>8. Orderly'
    BY <1>1, <2>1 DEF OrderInv, Orderly, Few
  <2>9. QED BY <2>4, <2>5, <2>6, <2>7, <2>8 DEF OrderInv
<1>4. QED BY <1>2, <1>3 DEF Fill, Go

\* on_data, with or without a stop.
LEMMA OnDataOrder ==
  ASSUME AlwaysInv, AlwaysInv', OnData, OrderInv, Few'
  PROVE  OrderInv'
<1> USE ThreadsAssumption
    DEF AlwaysInv, NoOmx, TypeOK, OrderInv, OnData, Go, CallStop, Threads, InStop, Stopping, SomeStop
<1>1. OneStop' /\ CapturingInv' /\ StoppingInv' /\ StoppedInv' /\ JoinedInv'
  BY DEF OneStop, Quiet, CapturingInv, Capturing, Alive, StoppingInv, Closed, StoppedInv,
     JoinedInv
<1>2. ClosedInv' /\ ErrorInv' /\ JoinOnce' /\ Orderly'
  BY DEF ClosedInv, Closed, ErrorInv, Over, JoinOnce, Orderly
<1>3. QED BY <1>1, <1>2

-----------------------------------------------------------------------------
(* OMX_Init and OMX_Deinit                                                 *)

\* A step that calls neither and ends no stop keeps the count.
LEMMA OmxKept ==
  ASSUME OmxInv, Pending' = Pending, Held' <=> Held, UNCHANGED <<omx, gaveup, broken>>,
         live'.camera = live.camera
  PROVE  OmxInv'
BY DEF OmxInv, Needed

\* A stop that is over with main and the components has still to undo OMX_Init.
LEMMA OmxHandedOver ==
  ASSUME AlwaysInv, OrderInv, OmxInv, NEW th \in Threads, Stopping(th),
         pc' = [pc EXCEPT ![th] = "omx"], UNCHANGED <<ctx, omx, gaveup, broken, live>>,
         live.camera # "up"
  PROVE  OmxInv'
<1>1. pc \in [Threads -> Places] /\ "main" \in Threads /\ pc[th] # "omx"
  BY DEF AlwaysInv, TypeOK, Stopping, InStop, Threads
<1>2. Held
  BY DEF Held, OrderInv, OneStop, Quiet, SomeStop
<1>3. ~Held'
  <2>1. \A t \in Threads : t # th => ~Stopping(t) /\ pc'[t] = pc[t]
    BY <1>1 DEF OrderInv, OneStop
  <2>2. pc'[th] = "omx" /\ ctx.stopping /\ ctx' = ctx
    BY <1>1 DEF OrderInv, OneStop
  <2>3. ~SomeStop'
    BY <2>1, <2>2 DEF SomeStop, Stopping, InStop
  <2>4. QED BY <2>2, <2>3 DEF Held
<1>4. Pending' = Pending \cup {th} /\ th \notin Pending
  BY <1>1 DEF Pending
<1>5. IsFiniteSet(Pending') /\ Cardinality(Pending') = Cardinality(Pending) + 1
  BY <1>4, FS_AddElement DEF OmxInv
<1>6. Cardinality(Pending) \in Nat
  BY FS_CardinalityType DEF OmxInv
<1>7. Needed' = Needed
  BY <1>2, <1>3, <1>5, <1>6 DEF Needed
<1>8. QED BY <1>5, <1>7 DEF OmxInv

\* Each step keeps the count of OMX_Init right.
LEMMA OmxStep ==
  ASSUME AlwaysInv, AlwaysInv', Next, OrderInv, OrderInv', OmxInv, Few'
  PROVE  OmxInv'
<1>a. /\ pc \in [Threads -> Places] /\ Threads = {"main", "bg"} \cup Others
      /\ omx \in Nat /\ Cardinality(Pending) \in Nat
      /\ live \in [mutex : BOOLEAN, cond : BOOLEAN, camera : {"none", "part", "up"}]
      /\ pc["main"] # "out" => ctx.running
  BY FS_CardinalityType DEF AlwaysInv, TypeOK, Threads, OmxInv, RunningInv
<1> USE ThreadsAssumption
<1> DEFINE Same == /\ Pending' = Pending /\ (Held' <=> Held)
                   /\ UNCHANGED <<omx, gaveup, broken>> /\ live'.camera = live.camera
<1> USE DEF NoOmx, Go, Pending, Held, SomeStop, Stopping, InStop
<1>1. ASSUME NEW m \in Modes, Start(m) PROVE Same
  BY <1>a, <1>1 DEF Start, Idle
<1>2. ASSUME Configure PROVE OmxInv'
  <2>1. Pending' = Pending /\ ~Held /\ (SomeStop' <=> SomeStop) /\ ctx' = ctx /\ ~ctx.stopping
    BY <1>a, <1>2 DEF Configure, OrderInv, OneStop
  <2>2. CASE pc' = [pc EXCEPT !["main"] = "exit"] /\ NoOmx /\ live' = live
    <3>1. ~Held' /\ Needed' = Needed
      BY <1>a, <2>1, <2>2 DEF Needed
    <3>2. QED BY <2>1, <2>2, <3>1 DEF OmxInv
  <2>3. CASE /\ pc' = [pc EXCEPT !["main"] = "exit"] /\ live' = [live EXCEPT !.camera = "part"]
             /\ omx' = omx + 1 /\ gaveup' = gaveup \cup {"setup"} /\ broken' = broken
    <3>0. ~Held'
      BY <1>a, <2>1, <2>3
    <3>1. Needed' = Needed /\ Needed \in Nat
      <4> HIDE DEF Pending, Held
      <4>1. QED BY <1>a, <2>1, <3>0 DEF Needed
    <3>2. live'.camera = "part"
      BY <1>a, <2>3
    <3>3. IsFiniteSet(Pending)' /\ omx' >= Needed'
      <4> HIDE DEF Pending, Held
      <4>1. QED BY <1>a, <2>1, <2>3, <3>1 DEF OmxInv
    <3>4. "setup" \in gaveup'
      BY <2>3
    <3>5. QED BY <3>2, <3>3, <3>4 DEF OmxInv
  <2>4. CASE /\ pc' = [pc EXCEPT !["main"] = "create"] /\ live' = [live EXCEPT !.camera = "up"]
             /\ omx' = omx + 1 /\ broken' = FALSE /\ gaveup' = gaveup
    <3>1. Held' /\ pc'["main"] = "create"
      BY <1>a, <1>2, <2>1, <2>4 DEF Configure
    <3>2. Needed = Cardinality(Pending) /\ Needed' = Cardinality(Pending) + 1
      <4> HIDE DEF Pending, Held
      <4>1. QED BY <1>a, <2>1, <3>1 DEF Needed
    <3>3. live'.camera = "up"
      BY <1>a, <2>4
    <3>4. IsFiniteSet(Pending)' /\ omx' >= Needed'
      <4> HIDE DEF Pending, Held
      <4>1. QED BY <1>a, <2>1, <2>4, <3>2 DEF OmxInv
    <3>5. gaveup' \subseteq {"teardown"} => omx' = Needed'
      <4> HIDE DEF Pending, Held
      <4>1. QED BY <1>a, <2>1, <2>4, <3>2 DEF OmxInv
    <3>6. QED BY <2>4, <3>1, <3>3, <3>4, <3>5 DEF OmxInv
  <2>5. QED BY <1>2, <2>2, <2>3, <2>4 DEF Configure
<1>3. ASSUME CreateThread PROVE Same
  <2>1. /\ pc["main"] = "create" /\ pc["bg"] = "joined" /\ ~ctx.stopping /\ ctx.running
        /\ pc' = [pc EXCEPT !["main"] = "ready", !["bg"] = "begin"]
        /\ ctx' = [ctx EXCEPT !.ready = TRUE] /\ live' = [live EXCEPT !.mutex = TRUE]
    BY <1>a, <1>3 DEF CreateThread, OrderInv, OneStop, ClosedInv
  <2>2. ctx'.running /\ ~ctx'.stopping /\ live'.camera = live.camera
    BY <2>1 DEF AlwaysInv, TypeOK
  <2>3. pc'["main"] = "ready" /\ pc'["bg"] = "begin"
        /\ \A th \in Threads \ {"main", "bg"} : pc'[th] = pc[th]
    BY <1>a, <2>1
  <2>4. Pending' = Pending
    BY <1>a, <2>1, <2>3
  <2>5. Held /\ Held'
    BY <2>1, <2>2, <2>3
  <2>6. QED BY <1>3, <2>2, <2>4, <2>5 DEF CreateThread
<1>4. ASSUME OnReady PROVE Same
  BY <1>a, <1>4 DEF OnReady, CallStop
<1>5. ASSUME Sleep PROVE Same
  BY <1>a, <1>5 DEF Sleep
<1>6. ASSUME Woken PROVE Same
  BY <1>a, <1>6 DEF Woken
<1>7. ASSUME TimeOut PROVE Same
  BY <1>a, <1>7 DEF TimeOut
<1>8. ASSUME Awake PROVE Same
  <2>1. pc'["main"] = "exit" => ~Held
    BY <1>a, <1>8 DEF Awake, CallStop, OrderInv, OneStop, Quiet, CapturingInv, Capturing,
       Alive, ClosedInv
  <2>2. Pending' = Pending /\ (SomeStop' <=> SomeStop)
    BY <1>a, <1>8 DEF Awake, CallStop
  <2>3. ctx'.running = ctx.running /\ ctx'.stopping = ctx.stopping
    BY <1>8 DEF Awake, AlwaysInv, TypeOK
  <2>4. Held' <=> Held
    BY <1>a, <1>8, <2>1, <2>2, <2>3 DEF Awake, CallStop
  <2>5. QED BY <1>8, <2>2, <2>4 DEF Awake
<1>9. ASSUME JoinThread PROVE Same
  <2>1. ~Held
    BY <1>a, <1>9 DEF JoinThread, OrderInv, OneStop, Quiet, CapturingInv, Capturing, Alive
  <2>2. QED BY <1>a, <1>9, <2>1 DEF JoinThread
<1>10. ASSUME Exit PROVE Same
  BY <1>a, <1>10 DEF Exit, Idle
<1>11. ASSUME NEW th \in Others, OtherStops(th) PROVE Same
  BY <1>a, <1>11 DEF OtherStops, CallStop
<1>12. ASSUME NEW th \in Threads, Enter(th) PROVE Same
  <2>1. pc[th] = "enter" /\ back[th] \in {"out", "sleep", "exit", "loop", "ended"}
    BY <1>a, <1>12 DEF Enter, AlwaysInv, PlacesInv
  <2>2. th = "main" /\ back[th] = "exit" => pc'[th] = "claim"
    BY <1>a, <1>12 DEF Enter, OrderInv, OneStop
  <2>3. QED BY <1>a, <1>12, <2>1, <2>2 DEF Enter
<1>13. ASSUME NEW th \in Threads, Claim(th) PROVE Same
  <2>1. ctx.running /\ ~ctx.stopping /\ pc["main"] \notin {"config", "exit"}
    BY <1>a, <1>13 DEF Claim, PastSleep, Few
  <2>2. ctx' = [ctx EXCEPT !.stopping = TRUE] /\ pc' = [pc EXCEPT ![th] = "halt"]
        /\ pc[th] = "claim"
    BY <1>13 DEF Claim
  <2>3. ctx'.running /\ ctx'.stopping /\ pc'[th] = "halt" /\ pc'["main"] \notin {"config", "exit"}
    BY <1>a, <2>1, <2>2 DEF AlwaysInv, TypeOK
  <2>4. Held /\ Held'
    BY <2>1, <2>3
  <2>5. Pending' = Pending
    BY <1>a, <2>2
  <2>6. QED BY <1>13, <2>4, <2>5 DEF Claim
<1>14. ASSUME HaltSelf PROVE Same
  BY <1>a, <1>14 DEF HaltSelf
<1>15. ASSUME NEW th \in Threads, Halt(th) PROVE Same
  <2>1. live.mutex
    BY <1>15 DEF Halt, OrderInv, StoppingInv
  <2>2. QED BY <1>a, <1>15, <2>1 DEF Halt
<1>16. ASSUME NEW th \in Threads, Join(th) PROVE Same
  <2>1. pc[th] = "join" /\ pc["bg"] = "ended" /\ th # "bg"
    BY <1>16 DEF Join, OrderInv, StoppingInv, Alive, AlwaysInv, PlacesInv
  <2>2. /\ pc' = [pc EXCEPT ![th] = "deinit", !["bg"] = "joined"]
        /\ ctx' = [ctx EXCEPT !.joined = TRUE] /\ live' = live /\ NoOmx
    BY <1>16, <2>1 DEF Join
  <2>3. ctx'.running = ctx.running /\ ctx'.stopping = ctx.stopping
    BY <2>2 DEF AlwaysInv, TypeOK
  <2>4. pc'[th] = "deinit" /\ pc'["bg"] = "joined"
        /\ \A t \in Threads \ {th, "bg"} : pc'[t] = pc[t]
    BY <1>a, <2>1, <2>2
  <2>5. Pending' = Pending /\ SomeStop /\ SomeStop'
    BY <1>a, <2>1, <2>4
  <2>6. pc'["main"] \in {"config", "exit"} <=> pc["main"] \in {"config", "exit"}
    BY <1>a, <2>1, <2>4
  <2>7. QED BY <2>2, <2>3, <2>5, <2>6
<1>17. ASSUME NEW th \in Threads, Deinit(th) PROVE OmxInv'
  <2>1. live.mutex /\ live.camera = "up" /\ pc[th] = "deinit"
    BY <1>17 DEF Deinit, OrderInv, StoppingInv
  <2>2. pc' = [pc EXCEPT ![th] = "look"] /\ ctx' = ctx /\ UNCHANGED <<omx, broken>>
    BY <1>17 DEF Deinit
  <2>3. Pending' = Pending /\ (Held' <=> Held)
    BY <1>a, <2>1, <2>2
  <2>4. Needed' = Needed
    BY <2>2, <2>3 DEF Needed
  <2>5. \/ live'.camera = "none" /\ ~broken /\ gaveup' = gaveup
        \/ live'.camera = "part" /\ gaveup' = gaveup \cup {"teardown"}
    BY <1>a, <1>17, <2>1 DEF Deinit, FreeComponents
  <2>6. QED BY <2>2, <2>3, <2>4, <2>5 DEF OmxInv
<1>18. ASSUME NEW th \in Threads, Look(th) PROVE OmxInv'
  <2>1. pc[th] = "look" /\ live.camera # "up" /\ Stopping(th)
        /\ UNCHANGED <<ctx, omx, gaveup, broken, live>>
    BY <1>18 DEF Look, OrderInv, StoppingInv, Closed
  <2>2. CASE pc' = [pc EXCEPT ![th] = "wake"]
    <3>1. Same
      BY <1>a, <2>1, <2>2
    <3>2. QED BY <3>1, OmxKept
  <2>3. CASE pc' = [pc EXCEPT ![th] = "omx"]
    BY <2>1, <2>3, OmxHandedOver
  <2>4. QED BY <1>18, <2>2, <2>3 DEF Look
<1>19. ASSUME NEW th \in Threads, Wake(th) PROVE OmxInv'
  <2>1. pc[th] = "wake" /\ live.camera # "up" /\ Stopping(th) /\ live.cond
        /\ UNCHANGED <<ctx, omx, gaveup, broken, live>>
    BY <1>19 DEF Wake, OrderInv, StoppingInv, Closed, AlwaysInv, SleepInv
  <2>2. pc' = [pc EXCEPT ![th] = "omx"]
    BY <1>19, <2>1 DEF Wake
  <2>3. QED BY <2>1, <2>2, OmxHandedOver
<1>20. ASSUME Begin PROVE Same
  BY <1>a, <1>20 DEF Begin
<1>21. ASSUME Loop PROVE Same
  <2>1. /\ pc["bg"] = "loop" /\ UNCHANGED <<ctx, live>> /\ NoOmx
        /\ \/ pc' = [pc EXCEPT !["bg"] = "fill"]
           \/ pc' = [pc EXCEPT !["bg"] = "ended"]
           \/ pc' = [pc EXCEPT !["bg"] = "enter"]
    BY <1>21 DEF Loop, HandleError, CallStop
  <2>2. Pending' = Pending /\ (SomeStop' <=> SomeStop) /\ pc'["main"] = pc["main"]
    BY <1>a, <2>1
  <2>3. QED BY <2>1, <2>2
<1>22. ASSUME Fill PROVE OmxInv'
  <2>0. /\ pc["bg"] = "fill" /\ UNCHANGED <<ctx, omx, gaveup, live>>
        /\ \/ pc' = [pc EXCEPT !["bg"] = "data"]
           \/ pc' = [pc EXCEPT !["bg"] = "enter"]
    BY <1>22 DEF Fill, HandleError, CallStop
  <2>1. /\ Pending' = Pending /\ (Held' <=> Held)
        /\ UNCHANGED <<omx, gaveup, live>>
    <3>1. Pending' = Pending /\ (SomeStop' <=> SomeStop) /\ pc'["main"] = pc["main"]
      BY <1>a, <2>0
    <3>2. QED BY <2>0, <3>1
  <2>2. live.camera = "up"
    BY <1>a, <1>22 DEF Fill, OrderInv, CapturingInv, Capturing, StoppingInv, StoppedInv, ClosedInv,
       Alive, OneStop, Quiet, AlwaysInv, RunningInv
  <2>3. QED BY <2>1, <2>2 DEF OmxInv, Needed
<1>23. ASSUME OnData PROVE Same
  BY <1>a, <1>23 DEF OnData, CallStop
<1>24. ASSUME NEW th \in Threads, CoreDeinit(th) PROVE OmxInv'
  <2>1. /\ pc[th] = "omx" /\ pc' = [pc EXCEPT ![th] = back[th]]
        /\ back[th] \in {"out", "sleep", "exit", "loop", "ended"}
        /\ UNCHANGED <<ctx, live, broken>>
    BY <1>a, <1>24 DEF CoreDeinit, AlwaysInv, PlacesInv
  <2>2. th = "main" => ctx.stopping /\ ~SomeStop
    BY <2>1 DEF OrderInv, OneStop, Quiet, StoppingInv
  <2>3. SomeStop' <=> SomeStop
    BY <1>a, <2>1
  <2>4. Held' <=> Held
    <3>1. CASE th = "main"
      BY <2>1, <2>2, <2>3, <3>1
    <3>2. CASE th # "main"
      BY <1>a, <2>1, <2>3, <3>2
    <3>3. QED BY <3>1, <3>2
  <2>5. th \in Pending /\ Pending' = Pending \ {th}
    BY <1>a, <2>1
  <2>6. IsFiniteSet(Pending') /\ Cardinality(Pending') = Cardinality(Pending) - 1
    <3> HIDE DEF Pending
    <3>1. IsFiniteSet(Pending)
      BY DEF OmxInv
    <3>2. /\ IsFiniteSet(Pending \ {th})
          /\ Cardinality(Pending \ {th}) = IF th \in Pending THEN Cardinality(Pending) - 1
                                                          ELSE Cardinality(Pending)
      BY <3>1, FS_RemoveElement, Zenon
    <3>3. QED BY <2>5, <3>2
  <2>7. Needed' = Needed - 1 /\ Needed \in Int
    <3> HIDE DEF Pending, Held
    <3>1. QED BY <1>a, <2>4, <2>6 DEF Needed
  <2>8. CASE omx' = omx - 1 /\ gaveup' = gaveup
    <3> HIDE DEF Pending, Held
    <3>1. QED BY <1>a, <2>1, <2>4, <2>6, <2>7, <2>8 DEF OmxInv
  <2>9. CASE omx' = omx /\ gaveup' = gaveup \cup {"core"}
    <3> HIDE DEF Pending, Held
    <3>1. QED BY <1>a, <2>1, <2>4, <2>6, <2>7, <2>9 DEF OmxInv
  <2>10. QED BY <1>24, <2>8, <2>9 DEF CoreDeinit
<1> HIDE DEF Same
<1>25. Same => OmxInv'
  BY OmxKept DEF Same
<1>26. QED
  BY <1>1, <1>2, <1>3, <1>4, <1>5, <1>6, <1>7, <1>8, <1>9, <1>10, <1>11, <1>12, <1>13, <1>14,
     <1>15, <1>16, <1>17, <1>18, <1>19, <1>20, <1>21, <1>22, <1>23, <1>24, <1>25, <1>a
  DEF Next, MainStep, BgStep, StopStep

-----------------------------------------------------------------------------
(* The steps together.                                                     *)

\* What met has met.
LEMMA TangleGrows == Next => tangle \subseteq tangle'
BY DEF Next, MainStep, BgStep, StopStep, Start, Configure, CreateThread, OnReady, Sleep, Woken,
   TimeOut, Awake, JoinThread, Exit, OtherStops, Enter, Claim, HaltSelf, Halt, Join, Deinit,
   Look, Wake, CoreDeinit, Begin, Loop, Fill, OnData, HandleError, Tangled

\* Every step of stop, by whichever thread.
LEMMA StopOrder ==
  ASSUME AlwaysInv, AlwaysInv', NEW th \in Threads, StopStep(th), OrderInv, OmxInv, Few'
  PROVE  OrderInv'
BY EnterOrder, ClaimOrder, HaltOrder, JoinOrder, DeinitOrder, LookOrder, WakeOrder,
   CoreDeinitOrder
DEF StopStep

\* A step keeps the invariant: the second half of it as long as only an error
\* met a stop.
LEMMA NextIInv == IInv /\ [Next]_vars => IInv'
<1> SUFFICES ASSUME IInv, [Next]_vars PROVE IInv'
  OBVIOUS
<1>1. CASE UNCHANGED vars
  BY <1>1 DEF vars, IInv, AlwaysInv, TypeOK, PlacesInv, SleepInv, RunningInv, Few, OrderInv,
     OneStop, Quiet, CapturingInv, Capturing, StoppingInv, StoppedInv, JoinedInv, ClosedInv,
     Closed, ErrorInv, Over, JoinOnce, Orderly, Stopping, SomeStop, OmxInv, Pending, Held,
     Needed
<1>2. CASE Next
  <2>1. AlwaysInv /\ AlwaysInv'
    BY <1>2, AlwaysStep DEF IInv
  <2>2. SUFFICES ASSUME Few' PROVE OrderInv' /\ OmxInv'
    BY <2>1 DEF IInv
  <2>3. OrderInv /\ OmxInv
    BY <1>2, <2>2, TangleGrows DEF IInv, Few
  <2>4. ASSUME NEW m \in Modes, Start(m) PROVE OrderInv'
    BY <2>1, <2>2, <2>3, <2>4, StartOrder
  <2>5. ASSUME NEW th \in Others, OtherStops(th) \/ StopStep(th) PROVE OrderInv'
    BY <2>1, <2>2, <2>3, <2>5, OtherStopsOrder, StopOrder DEF Threads
  <2>6. ASSUME MainStep PROVE OrderInv'
    BY <2>1, <2>2, <2>3, <2>6, ConfigureOrder, CreateThreadOrder, OnReadyOrder, SleepOrder,
       WokenOrder, TimeOutOrder, AwakeOrder, JoinThreadOrder, ExitOrder, StopOrder
    DEF MainStep, Threads
  <2>7. ASSUME BgStep PROVE OrderInv'
    BY <2>1, <2>2, <2>3, <2>7, BeginOrder, LoopOrder, FillOrder, OnDataOrder, HaltSelfOrder,
       StopOrder
    DEF BgStep, Threads
  <2>8. OrderInv'
    BY <1>2, <2>4, <2>5, <2>6, <2>7 DEF Next
  <2>9. QED BY <1>2, <2>1, <2>2, <2>3, <2>8, OmxStep
<1>3. QED BY <1>1, <1>2

\* Nothing runs, nobody stops.
LEMMA InitIInv == Init => IInv
<1> SUFFICES ASSUME Init PROVE IInv
  OBVIOUS
<1> USE ThreadsAssumption DEF Init, Idle, Threads, InStop
<1>1. TypeOK
  <2>1. pc \in [Threads -> Places] /\ back \in [Threads -> Places]
    BY DEF Places
  <2>2. /\ 0 \in 0 .. MaxStarts /\ 0 \in 0 .. MaxStops
    OBVIOUS
  <2>3. QED BY <2>1, <2>2 DEF TypeOK
<1>2. PlacesInv /\ SleepInv /\ RunningInv
  BY DEF PlacesInv, SleepInv, RunningInv
<1>3. \A th \in Threads : ~Stopping(th)
  BY DEF Stopping
<1>4. OneStop /\ CapturingInv /\ StoppedInv /\ JoinedInv /\ ClosedInv /\ ErrorInv /\ Orderly
  BY <1>3 DEF OneStop, SomeStop, CapturingInv, Capturing, StoppedInv, JoinedInv, ClosedInv,
     Closed, ErrorInv, Orderly
<1>5. StoppingInv /\ JoinOnce
  BY <1>3 DEF StoppingInv, JoinOnce, Stopping
<1>6. OmxInv
  <2>1. Pending = {} /\ ~Held
    BY <1>3 DEF Pending, Held
  <2>2. QED BY <2>1, FS_EmptySet DEF OmxInv, Needed
<1>7. QED BY <1>1, <1>2, <1>4, <1>5, <1>6 DEF IInv, AlwaysInv, OrderInv

-----------------------------------------------------------------------------
\* Every variable keeps its type, in every behaviour of the threads.
THEOREM TypeCorrect == Spec => []TypeOK
<1>1. IInv => TypeOK
  BY DEF IInv, AlwaysInv
<1>2. QED BY InitIInv, NextIInv, <1>1, PTL DEF Spec

\* omxcam_video_stop and the thread that captures use the mutex, the condition,
\* the components and the thread while they exist, the thread is joined once, and
\* OMX_Deinit never leaves the components of a start without OpenMAX, with any number
\* of threads that stop any number of captures: what can go wrong needs one of the
\* four meetings.
THEOREM StopsInOrder == Spec => []Orderly
<1>1. IInv => Orderly
  BY DEF IInv, OrderInv, Orderly, Few
<1>2. QED BY InitIInv, NextIInv, <1>1, PTL DEF Spec

\* A start that blocked returns with its thread, mutex and condition gone, whoever
\* stopped it, unless calls met.  Its components are gone too unless a call of the
\* set up or tear down failed, and stay after an error that one of them reported;
\* OMX_Init is undone as soon as the last stop is through, unless set up or
\* OMX_Deinit failed.
THEOREM StartReturnsClosed == Spec => []ReturnsClosed
<1>1. IInv => ReturnsClosed
  <2> SUFFICES ASSUME IInv, pc["main"] = "out", mode \in {"forever", "timed"}, tangle = {}
               PROVE  /\ ~live.mutex /\ ~live.cond /\ pc["bg"] \in {"ended", "joined"}
                      /\ live.camera # "up"
                      /\ gaveup \subseteq {"core"} => live.camera = "none"
                      /\ broken => live.camera = "part"
                      /\ gaveup \subseteq {"teardown"} /\ (\A th \in Threads : pc[th] # "omx")
                           => omx = 0
    BY DEF ReturnsClosed
  <2>1. AlwaysInv /\ OrderInv /\ OmxInv
    BY DEF IInv, Few
  <2>2. ~live.mutex /\ ~live.cond /\ pc["bg"] = "joined" /\ live.camera # "up" /\ ~ctx.running
    BY <2>1 DEF AlwaysInv, OrderInv, RunningInv, ClosedInv, Closed, SleepInv
  <2>3. live.camera \in {"none", "part"}
    BY <2>1, <2>2 DEF AlwaysInv, TypeOK
  <2>4. ASSUME gaveup \subseteq {"teardown"}, \A th \in Threads : pc[th] # "omx"
        PROVE  omx = 0
    <3>1. Pending = {} /\ ~Held
      BY <2>2, <2>4 DEF Pending, Held
    <3>2. QED BY <2>1, <2>4, <3>1, FS_EmptySet DEF OmxInv, Needed
  <2>5. QED BY <2>1, <2>2, <2>3, <2>4 DEF OmxInv
<1>2. QED BY InitIInv, NextIInv, <1>1, PTL DEF Spec

\* Whatever meets, the condition exists exactly while main sleeps on it, and no
\* flag asks for a wake at another time.
THEOREM SleepsOnCondition == Spec => []SleepInv
<1>1. IInv => SleepInv
  BY DEF IInv, AlwaysInv
<1>2. QED BY InitIInv, NextIInv, <1>1, PTL DEF Spec

-----------------------------------------------------------------------------
(* The slices of a picture                                                 *)

\* The flags of the component that fills the buffer.
Flags == comp[Filler].flags

\* The slices emitted are the first of the picture, in their order.
InOrder == \A i \in 1 .. Len(emitted) : emitted[i] = i

\* What the wait for a slice finds.  Until the slice is there, only the flag of
\* the end can have come, which comes before the last slice alone; a thread that
\* waits has set FILL_BUFFER_DONE itself.  Once the slice is there, its event is
\* set, and after the last one the flag of the end with it.
SliceInv ==
  /\ InOrder
  /\ at = "ask" => ~asked
  /\ at = "ask" \/ asked =>
       /\ Len(emitted) = produced /\ produced < Slices
       /\ "FILL_BUFFER_DONE" \in Flags <=> at = "inside"
       /\ Filler \in flagged => asked /\ produced + 1 = Slices
       /\ at = "inside" /\ comp[Filler].waiter = "woken" =>
            Filler \in flagged \/ "ERROR" \in Flags
  /\ at # "ask" /\ ~asked =>
       /\ Len(emitted) + 1 = produced
       /\ "FILL_BUFFER_DONE" \in Flags
       /\ Filler \in flagged <=> produced = Slices
  /\ "BUFFER_FLAG" \in Flags <=> Filler \in flagged
  /\ Flags \subseteq {"FILL_BUFFER_DONE", "BUFFER_FLAG", "ERROR"}

StillIInv ==
  /\ StillTypeOK
  /\ buffer = produced
  /\ OnlyTheLastAtRisk
  /\ stage # "slice" => Len(emitted) >= Slices - 1
  /\ stage = "slice" => at # "done"
  /\ stage = "slice" /\ at # "failed" => SliceInv

-----------------------------------------------------------------------------

LEMMA FillerIsDevice == Filler \in Devices /\ "camera" \in Devices
BY DEF Filler, Devices

\* What a wait that is over did, in the loop and after it.
LEMMA Finished ==
  ASSUME StillIInv, Finish, at \in {"enter", "inside"},
         UNCHANGED <<asked, produced, flagged, buffer>>,
         stage = "slice" => "FILL_BUFFER_DONE" \in Flags \/ "ERROR" \in Flags,
         stage = "slice" /\ asked => "ERROR" \in Flags \/ Filler \in flagged
  PROVE  StillIInv'
<1> USE SlicesAssumption
<1>1. /\ StillTypeOK /\ WaitOn \in Devices /\ comp[WaitOn] \in Component
      /\ Slices \in Nat \ {0} /\ Len(emitted) \in Nat /\ produced \in 0 .. Slices
      /\ emitted \in Seq(1 .. Slices)
  BY FillerIsDevice DEF StillIInv, StillTypeOK, WaitOn
<1> DEFINE c == comp[WaitOn]
<1>2. comp' = [comp EXCEPT ![WaitOn] = Left(c, {Awaited})]
  BY DEF Finish
<1>3. Left(c, {Awaited}) \in Component /\ Left(c, {Awaited}).flags = c.flags \ {Awaited}
      /\ Left(c, {Awaited}).waiter = "out"
  BY <1>1 DEF Left, Component
<1>4. comp' \in [Devices -> Component]
  BY <1>1, <1>2, <1>3 DEF StillTypeOK
<1>5. CASE ~Succeeds(c)
  <2>1. at' = "failed" /\ stage' = stage /\ emitted' = emitted
    BY <1>5 DEF Finish
  <2>2. StillTypeOK'
    BY <1>1, <1>4, <2>1 DEF StillTypeOK
  <2> QED BY <2>1, <2>2 DEF StillIInv, OnlyTheLastAtRisk
<1>6. CASE Succeeds(c) /\ stage = "slice"
  <2>1. WaitOn = Filler /\ Awaited = "FILL_BUFFER_DONE" /\ "ERROR" \notin Flags
    BY <1>6 DEF WaitOn, Awaited, Succeeds, Flags
  <2>2. /\ emitted' = IF buffer # 0 THEN Append(emitted, buffer) ELSE emitted
        /\ IF Flags = EndEvents
             THEN stage' = "clearCamera" /\ at' = "enter"
             ELSE stage' = "slice" /\ at' = "ask"
    BY <1>6, <2>1 DEF Finish, NextStage, Flags
  <2>3. SliceInv /\ buffer = produced
    BY <1>6 DEF StillIInv
  <2>4. "FILL_BUFFER_DONE" \in Flags /\ (Flags = EndEvents <=> Filler \in flagged)
    BY <1>6, <2>1, <2>3 DEF SliceInv, EndEvents
  <2>5. \/ produced = Len(emitted) + 1
        \/ produced = Len(emitted) /\ produced + 1 = Slices /\ Filler \in flagged
    BY <1>1, <1>6, <2>1, <2>3 DEF SliceInv
  <2>6. /\ produced = 0 => emitted' = emitted
        /\ produced # 0 => /\ emitted' \in Seq(1 .. Slices) /\ Len(emitted') = Len(emitted) + 1
                           /\ \A i \in 1 .. Len(emitted) : emitted'[i] = emitted[i]
                           /\ emitted'[Len(emitted) + 1] = produced
    <3>1. produced # 0 => produced \in 1 .. Slices
      BY <1>1
    <3>2. emitted' = IF produced # 0 THEN Append(emitted, produced) ELSE emitted
      BY <2>2, <2>3
    <3>3. CASE produced = 0
      BY <3>2, <3>3
    <3>4. CASE produced # 0
      <4>1. emitted' = Append(emitted, produced) /\ produced \in 1 .. Slices
        BY <3>1, <3>2, <3>4
      <4> QED BY <1>1, <3>4, <4>1
    <3> QED BY <3>3, <3>4
  <2>7. \A i \in 1 .. Len(emitted) : emitted[i] = i
    BY <2>3 DEF SliceInv, InOrder
  <2>8. StillTypeOK'
    BY <1>1, <1>4, <2>2, <2>6 DEF StillTypeOK
  <2>9. CASE Filler \in flagged
    <3>1. stage' = "clearCamera" /\ at' = "enter"
      BY <2>2, <2>4, <2>9
    <3>2. produced = Slices \/ produced + 1 = Slices
      BY <1>1, <1>6, <2>3, <2>9 DEF SliceInv
    <3>3. Len(emitted') <= Slices /\ Len(emitted') >= Slices - 1
      BY <1>1, <2>5, <2>6, <3>2
    <3>4. \A i \in 1 .. Len(emitted') :
            emitted'[i] = i \/ (i = Slices /\ emitted'[i] = Slices - 1)
      <4> SUFFICES ASSUME NEW i \in 1 .. Len(emitted')
                   PROVE  emitted'[i] = i \/ (i = Slices /\ emitted'[i] = Slices - 1)
        OBVIOUS
      <4>1. CASE i \in 1 .. Len(emitted)
        BY <2>6, <2>7, <4>1
      <4>2. CASE i \notin 1 .. Len(emitted)
        <5>1. produced # 0 /\ i = Len(emitted) + 1 /\ emitted'[i] = produced
          BY <1>1, <2>6, <4>2
        <5> QED BY <1>1, <2>5, <3>2, <5>1
      <4> QED BY <4>1, <4>2
    <3> QED BY <2>3, <2>8, <3>1, <3>3, <3>4 DEF StillIInv, OnlyTheLastAtRisk
  <2>10. CASE Filler \notin flagged
    <3>1. stage' = "slice" /\ at' = "ask"
      BY <2>2, <2>4, <2>10
    <3>2. produced = Len(emitted) + 1 /\ produced # 0 /\ ~asked
      BY <1>1, <1>6, <2>1, <2>5, <2>10
    <3>3. produced < Slices
      BY <1>1, <1>6, <2>3, <2>10, <3>2 DEF SliceInv
    <3>4. Len(emitted') = produced /\ InOrder'
      BY <1>1, <2>6, <2>7, <3>2 DEF InOrder
    <3>5. Filler' = Filler /\ Flags' = Flags \ {"FILL_BUFFER_DONE"}
      BY <1>1, <1>2, <1>3, <2>1 DEF Flags, Filler, StillTypeOK
    <3>6. SliceInv'
      BY <2>1, <2>3, <2>10, <3>1, <3>2, <3>3, <3>4, <3>5 DEF SliceInv
    <3>7. OnlyTheLastAtRisk'
      BY <3>1, <3>3, <3>4 DEF OnlyTheLastAtRisk, InOrder
    <3> QED BY <2>3, <2>8, <3>1, <3>6, <3>7 DEF StillIInv
  <2> QED BY <2>9, <2>10
<1>7. CASE Succeeds(c) /\ stage # "slice"
  <2>1. /\ emitted' = emitted
        /\ \/ at' = "done" /\ stage' = stage
           \/ at' = "enter" /\ stage' = "clearEncoder"
    BY <1>7 DEF Finish, NextStage
  <2>2. StillTypeOK'
    BY <1>1, <1>4, <2>1 DEF StillTypeOK
  <2> QED BY <1>7, <2>1, <2>2 DEF StillIInv, OnlyTheLastAtRisk
<1> QED BY <1>5, <1>6, <1>7

\* An event of a component changes its flags, and wakes a thread that is blocked.
LEMMA DeviceReports ==
  ASSUME StillTypeOK, NEW d \in Devices, NEW e \in Events, NEW code \in Codes,
         comp' = [comp EXCEPT ![d] = Waked(@, e, code)]
  PROVE  /\ comp' \in [Devices -> Component]
         /\ d = Filler => Flags' = Flags \cup {e}
         /\ d # Filler => Flags' = Flags /\ comp'[Filler] = comp[Filler]
<1>1. comp[d] \in Component /\ Filler \in Devices /\ Filler' = Filler
  BY FillerIsDevice DEF StillTypeOK, Filler
<1>2. Waked(comp[d], e, code) \in Component /\ Waked(comp[d], e, code).flags = comp[d].flags \cup {e}
  BY <1>1 DEF Waked, Component
<1>3. comp' = [comp EXCEPT ![d] = Waked(comp[d], e, code)]
  OBVIOUS
<1> QED BY <1>1, <1>2, <1>3 DEF StillTypeOK, Flags

\* Every step keeps the invariant.
LEMMA StillNextIInv == StillIInv /\ [StillNext]_stillVars => StillIInv'
<1> SUFFICES ASSUME StillIInv, [StillNext]_stillVars PROVE StillIInv'
  OBVIOUS
<1> USE SlicesAssumption
<1>1. /\ StillTypeOK /\ Slices \in Nat \ {0} /\ Len(emitted) \in Nat /\ produced \in 0 .. Slices
      /\ emitted \in Seq(1 .. Slices) /\ Filler \in Devices /\ Filler' = Filler
      /\ buffer = produced
  BY FillerIsDevice DEF StillIInv, StillTypeOK, Filler
<1>2. CASE Ask
  <2>1. /\ at = "ask" /\ ((asked' /\ at' = "enter") \/ (asked' = asked /\ at' = "failed"))
        /\ UNCHANGED <<stage, comp, emitted, produced, flagged, buffer>>
    BY <1>2 DEF Ask, DeviceKeeps
  <2>2. StillTypeOK'
    BY <1>1, <1>2, <2>1 DEF StillTypeOK, Ask
  <2>3. stage' = "slice" /\ at' # "failed" => SliceInv'
    BY <1>1, <2>1 DEF StillIInv, SliceInv, InOrder, Flags
  <2> QED BY <2>1, <2>2, <2>3 DEF StillIInv, OnlyTheLastAtRisk
<1>3. CASE EnterWait
  <2>1. at = "enter" /\ UNCHANGED <<asked, produced, flagged, buffer>>
    BY <1>3 DEF EnterWait, DeviceKeeps
  <2>2. CASE MustWait(comp[WaitOn], {Awaited})
    <3>1. /\ comp' = [comp EXCEPT ![WaitOn] = Blocked(@, {Awaited})]
          /\ at' = "inside" /\ stage' = stage /\ emitted' = emitted
      BY <1>3, <2>2 DEF EnterWait
    <3>2. WaitOn \in Devices /\ comp[WaitOn] \in Component /\ Awaited \in Events
      BY <1>1, FillerIsDevice DEF WaitOn, StillTypeOK, Awaited, Events
    <3>3. /\ Blocked(comp[WaitOn], {Awaited}) \in Component
          /\ Blocked(comp[WaitOn], {Awaited}).flags = comp[WaitOn].flags \cup {Awaited}
          /\ Blocked(comp[WaitOn], {Awaited}).waiter = "blocked"
      BY <3>2 DEF Blocked, Component
    <3>4. StillTypeOK'
      BY <1>1, <2>1, <3>1, <3>3 DEF StillTypeOK
    <3>5. stage = "slice" => SliceInv'
      <4> SUFFICES ASSUME stage = "slice" PROVE SliceInv'
        OBVIOUS
      <4>1. WaitOn = Filler /\ Awaited = "FILL_BUFFER_DONE" /\ SliceInv
        BY <2>1 DEF WaitOn, Awaited, StillIInv
      <4>2. Flags' = Flags \cup {"FILL_BUFFER_DONE"} /\ comp'[Filler].waiter = "blocked"
        BY <1>1, <3>1, <3>3, <4>1 DEF Flags, StillTypeOK
      <4>3. "FILL_BUFFER_DONE" \notin Flags
        BY <2>2, <4>1 DEF MustWait, Flags
      <4> QED BY <1>1, <2>1, <3>1, <4>1, <4>2, <4>3 DEF SliceInv, InOrder
    <3> QED BY <2>1, <3>1, <3>4, <3>5 DEF StillIInv, OnlyTheLastAtRisk
  <2>3. CASE ~MustWait(comp[WaitOn], {Awaited})
    <3>1. Finish
      BY <1>3, <2>3 DEF EnterWait
    <3>2. stage = "slice" => "FILL_BUFFER_DONE" \in Flags \/ "ERROR" \in Flags
      BY <2>3 DEF MustWait, WaitOn, Awaited, Flags
    <3>3. stage = "slice" /\ asked => "ERROR" \in Flags \/ Filler \in flagged
      BY <2>1, <3>2 DEF StillIInv, SliceInv
    <3> QED BY <2>1, <3>1, <3>2, <3>3, Finished
  <2> QED BY <2>2, <2>3
<1>4. CASE Resume
  <2>1. /\ at = "inside" /\ Finish /\ comp[WaitOn].waiter = "woken"
        /\ UNCHANGED <<asked, produced, flagged, buffer>>
    BY <1>4 DEF Resume, DeviceKeeps, Wakeable
  <2>2. stage = "slice" => "FILL_BUFFER_DONE" \in Flags
    BY <2>1 DEF StillIInv, SliceInv
  <2>3. stage = "slice" /\ asked => "ERROR" \in Flags \/ Filler \in flagged
    BY <2>1 DEF StillIInv, SliceInv, WaitOn
  <2> QED BY <2>1, <2>2, <2>3, Finished
<1>5. ASSUME NEW d \in Devices, Flag(d) PROVE StillIInv'
  <2>1. /\ d \notin flagged /\ (d = Filler => asked /\ produced + 1 = Slices)
        /\ flagged' = flagged \cup {d}
        /\ comp' = [comp EXCEPT ![d] = Waked(@, "BUFFER_FLAG", "OMX_ErrorNone")]
        /\ UNCHANGED <<asked, produced, buffer, stage, at, emitted>>
    BY <1>5 DEF Flag, ThreadKeeps, LastSlice
  <2>2. /\ comp' \in [Devices -> Component]
        /\ d = Filler => Flags' = Flags \cup {"BUFFER_FLAG"}
        /\ d # Filler => Flags' = Flags /\ comp'[Filler] = comp[Filler]
    BY <1>1, <2>1, DeviceReports DEF Events, Codes
  <2>3. StillTypeOK'
    BY <1>1, <2>1, <2>2 DEF StillTypeOK
  <2>4. SliceInv => SliceInv'
    <3>1. CASE d = Filler
      BY <1>1, <2>1, <2>2, <3>1 DEF SliceInv, InOrder
    <3>2. CASE d # Filler
      BY <1>1, <2>1, <2>2, <3>2 DEF SliceInv, InOrder
    <3> QED BY <3>1, <3>2
  <2> QED BY <2>1, <2>3, <2>4 DEF StillIInv, OnlyTheLastAtRisk
<1>6. CASE FillBufferDone
  <2>1. /\ asked /\ produced < Slices /\ (produced + 1 = Slices => flagged = Devices)
        /\ asked' = FALSE /\ produced' = produced + 1 /\ buffer' = produced + 1
        /\ comp' = [comp EXCEPT ![Filler] = Waked(@, "FILL_BUFFER_DONE", "OMX_ErrorNone")]
        /\ UNCHANGED <<flagged, stage, at, emitted>>
    BY <1>6 DEF FillBufferDone, ThreadKeeps, LastSlice
  <2>2. comp' \in [Devices -> Component] /\ Flags' = Flags \cup {"FILL_BUFFER_DONE"}
    BY <1>1, <2>1, DeviceReports DEF Events, Codes
  <2>3. StillTypeOK'
    <3>1. produced' \in 0 .. Slices /\ buffer' \in 0 .. Slices
      BY <1>1, <2>1
    <3>2. /\ asked' \in BOOLEAN /\ Devices' = Devices
          /\ stage' = stage /\ at' = at /\ flagged' = flagged /\ emitted' = emitted
      BY <2>1 DEF Devices
    <3> QED BY <1>1, <2>2, <3>1, <3>2 DEF StillTypeOK
  <2>4. SliceInv => SliceInv'
    <3> SUFFICES ASSUME SliceInv PROVE SliceInv'
      OBVIOUS
    <3>1. at # "ask" /\ Len(emitted) = produced
      BY <2>1 DEF SliceInv
    <3>2. Filler \in flagged <=> produced + 1 = Slices
      BY <1>1, <2>1 DEF SliceInv
    <3> QED BY <1>1, <2>1, <2>2, <3>1, <3>2 DEF SliceInv, InOrder
  <2> QED BY <2>1, <2>3, <2>4 DEF StillIInv, OnlyTheLastAtRisk
<1>7. CASE Fail
  <2>1. /\ asked /\ comp' = [comp EXCEPT ![Filler] = Waked(@, "ERROR", "OMX_Error")]
        /\ UNCHANGED <<asked, produced, flagged, buffer, stage, at, emitted>>
    BY <1>7 DEF Fail, ThreadKeeps
  <2>2. comp' \in [Devices -> Component] /\ Flags' = Flags \cup {"ERROR"}
    BY <1>1, <2>1, DeviceReports DEF Events, Codes
  <2>3. StillTypeOK'
    BY <1>1, <2>1, <2>2 DEF StillTypeOK
  <2>4. SliceInv => SliceInv'
    BY <1>1, <2>1, <2>2 DEF SliceInv, InOrder
  <2> QED BY <2>1, <2>3, <2>4 DEF StillIInv, OnlyTheLastAtRisk
<1>8. CASE UNCHANGED stillVars
  BY <1>8 DEF stillVars, StillIInv, StillTypeOK, OnlyTheLastAtRisk, SliceInv, InOrder, Flags,
     Devices, Filler
<1> QED BY <1>2, <1>3, <1>4, <1>5, <1>6, <1>7, <1>8 DEF StillNext, Thread

\* The inductive invariant holds from the start on.
LEMMA StillInvariance == StillSpec => []StillIInv
<1>1. StillInit => StillIInv
  <2> SUFFICES ASSUME StillInit PROVE StillIInv
    OBVIOUS
  <2>1. /\ stage = "slice" /\ at = "ask" /\ asked = FALSE /\ produced = 0 /\ flagged = {}
        /\ buffer = 0 /\ emitted = <<>> /\ comp = [d \in Devices |-> Created]
    BY DEF StillInit
  <2>2. Created \in Component /\ Created.flags = {} /\ Created.waiter = "out"
    BY DEF Created, Component, Codes
  <2>3. comp \in [Devices -> Component] /\ Flags = {}
    BY <2>1, <2>2, FillerIsDevice DEF Flags
  <2>4. Len(emitted) = 0 /\ emitted \in Seq(1 .. Slices) /\ Slices \in Nat \ {0}
    BY <2>1, SlicesAssumption
  <2>5. StillTypeOK
    <3>1. /\ stage \in {"slice", "clearCamera", "clearEncoder"}
          /\ at \in {"ask", "enter", "inside", "done", "failed"}
          /\ asked \in BOOLEAN /\ flagged \subseteq Devices
      BY <2>1
    <3>2. produced \in 0 .. Slices /\ buffer \in 0 .. Slices
      BY <2>1, <2>4
    <3> QED BY <2>3, <2>4, <3>1, <3>2 DEF StillTypeOK
  <2>6. SliceInv
    BY <2>1, <2>3, <2>4 DEF SliceInv, InOrder
  <2>7. OnlyTheLastAtRisk
    BY <2>1, <2>4 DEF OnlyTheLastAtRisk
  <2> QED BY <2>1, <2>5, <2>6, <2>7 DEF StillIInv
<1> QED BY <1>1, StillNextIInv, PTL DEF StillSpec

\* Every variable keeps its type, for a picture of any number of slices.
THEOREM StillTypeCorrect == StillSpec => []StillTypeOK
<1>1. StillIInv => StillTypeOK
  BY DEF StillIInv
<1> QED BY <1>1, StillInvariance, PTL

\* Of a picture of any number of slices, omxcam_still_start hands out all but the
\* last in order and once each, whatever order reports and waits come in.
THEOREM LastSliceAlone == StillSpec => []OnlyTheLastAtRisk
<1>1. StillIInv => OnlyTheLastAtRisk
  BY DEF StillIInv
<1> QED BY <1>1, StillInvariance, PTL
=============================================================================
