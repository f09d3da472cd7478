--------------------------- MODULE VideoDecoder ---------------------------
(***************************************************************************)
(* The decoder of the received picture (omx_decode.c) over the calls of a  *)
(* process: each video_recv thread calls omx_init, then omx_decode for     *)
(* every packet, then omx_deinit.  The OpenMAX objects and the variable    *)
(* status are global: the next call finds them as this one leaves them.    *)
(***************************************************************************)
EXTENDS Integers

CONSTANTS
  MaxCalls,  \* bound on the calls
  Faults     \* the kinds of steps that may fail

\* init: ilclient_init, OMX_Init; create: ilclient_create_component; setup: the
\* clock's state and tunnel, the format and the buffers of port 130; tunnel: the
\* tunnels of the picture; empty: OMX_EmptyThisBuffer.
FaultKinds == {"init", "create", "setup", "tunnel", "empty"}

ASSUME MaxCallsAssumption == MaxCalls \in Nat \ {0}
ASSUME FaultsAssumption == Faults \subseteq FaultKinds

\* In the order omx_init makes them.
Order == <<"decode", "render", "clock", "scheduler">>
Components == {Order[n] : n \in 1 .. 4}

VARIABLES
  calls,    \* how many threads video_recv were started
  at,       \* where the thread is: between calls "none", "init", "create",
            \* "setup", in the loop of video_recv "loop", or dead "crashed"
  status,   \* 0, or -1 for any error code
  client,   \* ilclient_init and OMX_Init were called and not undone
  ptr,      \* video_decode, ...: NULL, a component, or one that was freed
  mode,     \* the state of each component
  tunnels,  \* those set up: 0 and 1 for the picture, 2 for the clock
  buffers,  \* the buffers of port 130 are enabled
  first_packet,
  changed,  \* the event PortSettingsChanged of port 131 is waiting
  sent,     \* history: a packet of this call went to the decoder
  started,  \* history: ... and one with OMX_BUFFERFLAG_STARTTIME
  shown,    \* history: a PortSettingsChanged of this call was handled
  reached,  \* history: this call reached the loop
  failed,   \* history: a step of this call failed
  absent    \* history: a component was used that was not there

pipeline == <<client, ptr, mode, tunnels, buffers>>
packets == <<first_packet, changed, sent, started, shown>>
vars == <<calls, at, status, pipeline, packets, reached, failed, absent>>

TypeOK ==
  /\ calls \in 0 .. MaxCalls
  /\ at \in {"none", "init", "create", "setup", "loop", "crashed"}
  /\ status \in {0, -1}
  /\ client \in BOOLEAN /\ buffers \in BOOLEAN
  /\ ptr \in [Components -> {"null", "live", "freed"}]
  /\ mode \in [Components -> {"Loaded", "Idle", "Executing"}]
  /\ tunnels \subseteq 0 .. 2
  /\ first_packet \in {0, 1}
  /\ {changed, sent, started, shown, reached, failed, absent} \subseteq BOOLEAN

Init ==
  /\ calls = 0 /\ at = "none" /\ status = 0
  /\ client = FALSE
  /\ ptr = [c \in Components |-> "null"]
  /\ mode = [c \in Components |-> "Loaded"]
  /\ tunnels = {} /\ buffers = FALSE
  /\ first_packet = 1 /\ changed = FALSE
  /\ sent = FALSE /\ started = FALSE /\ shown = FALSE
  /\ reached = FALSE /\ failed = FALSE /\ absent = FALSE

\* video_recv is started for a new call.
StartThread ==
  /\ at = "none" /\ calls < MaxCalls
  /\ calls' = calls + 1
  /\ at' = "init"
  /\ reached' = FALSE /\ failed' = FALSE
  /\ sent' = FALSE /\ started' = FALSE /\ shown' = FALSE
  /\ UNCHANGED <<status, pipeline, first_packet, changed, absent>>

-----------------------------------------------------------------------------
(* omx_init                                                                *)

\* A step of this kind goes well, or fails if it may.
Outcome(kind, ok) == ok \/ kind \in Faults

\* The components in used are used.  With one that was never made or is freed
\* the behaviour is undefined: the process dies or goes on.
Use(used, pointers, next) ==
  LET there == \A c \in used : pointers[c] = "live"
  IN  /\ absent' = (absent \/ ~there)
      /\ at' \in {next} \cup (IF there THEN {} ELSE {"crashed"})

\* ilclient_init, OMX_Init: omx_init returns when one fails, and the thread ends.
\* What is in status from an earlier call stays.
InitClient ==
  /\ at = "init"
  /\ \E ok \in BOOLEAN :
       /\ Outcome("init", ok)
       /\ status' = (IF ok THEN status ELSE -1)
       /\ failed' = ~ok
       /\ client' = ok
       /\ at' = IF ok THEN "create" ELSE "none"
  /\ tunnels' = {}
  /\ UNCHANGED <<calls, ptr, mode, buffers, packets, reached, absent>>

\* Mutant of CreateComponents: a clock that fails is not noticed.
MutClock ==
  /\ at = "create"
  /\ \E made \in 0 .. 4, state \in BOOLEAN :
       LET tries == IF status # 0 THEN 1 ELSE IF state THEN 4 ELSE 3
       IN  /\ made <= tries
           /\ Outcome("create", made = tries)
           /\ Outcome("setup", state)
           /\ ptr' = [c \in Components |->
                LET n == CHOOSE n \in 1 .. 4 : Order[n] = c
                IN  IF n <= made THEN "live"
                    ELSE IF n = made + 1 /\ n <= tries THEN "null" ELSE ptr[c]]
           /\ ~state => ptr'["clock"] # "null"
           /\ status' = (IF (made < tries /\ made # 2) \/ ~state THEN -1 ELSE status)
           /\ failed' = (made < tries \/ ~state)
           /\ Use(IF ptr'["clock"] = "null" THEN {} ELSE {"clock"}, ptr', "setup")
  /\ mode' = [c \in Components |-> "Loaded"]
  /\ UNCHANGED <<calls, client, tunnels, buffers, packets, reached>>

\* video_decode is always made; the others only while status is 0, so that after
\* an error their pointers stay what they were.  Then video_clock is used for
\* its state if it is not NULL: a clock that was freed, too.
CreateComponents ==
  /\ at = "create"
  /\ \E made \in 0 .. 4, state \in BOOLEAN :
       LET tries == IF status # 0 THEN 1 ELSE IF state THEN 4 ELSE 3
       IN  /\ made <= tries
           /\ Outcome("create", made = tries)
           /\ Outcome("setup", state)
           /\ ptr' = [c \in Components |->
                LET n == CHOOSE n \in 1 .. 4 : Order[n] = c
                IN  IF n <= made THEN "live"
                    ELSE IF n = made + 1 /\ n <= tries THEN "null" ELSE ptr[c]]
           /\ ~state => ptr'["clock"] # "null"
           /\ status' = (IF made < tries \/ ~state THEN -1 ELSE status)
           /\ failed' = (made < tries \/ ~state)
           /\ Use(IF ptr'["clock"] = "null" THEN {} ELSE {"clock"}, ptr', "setup")
  /\ mode' = [c \in Components |-> "Loaded"]
  /\ UNCHANGED <<calls, client, tunnels, buffers, packets, reached>>

\* The clock's tunnel, the format and the buffers of port 130.  The else of the
\* tunnel starts the clock also when status was not 0 before.  With an error the
\* thread ends and leaves everything as it is.
SetUp ==
  /\ at = "setup"
  /\ \E tunnelOk, formatOk, buffersOk \in BOOLEAN :
       LET linked == status = 0 /\ tunnelOk
           ready == linked /\ formatOk /\ buffersOk
           clock == IF status = 0 /\ ~tunnelOk THEN {} ELSE {"clock"}
       IN  /\ Outcome("setup", tunnelOk /\ formatOk /\ buffersOk)
           /\ status # 0 => tunnelOk
           /\ status' = (IF ready THEN 0 ELSE -1)
           /\ failed' = (failed \/ ~(tunnelOk /\ formatOk /\ buffersOk))
           /\ tunnels' = (IF linked THEN {2} ELSE {})
           /\ buffers' = buffersOk
           /\ mode' = [c \in Components |->
                IF c \in clock THEN "Executing"
                ELSE IF c = "decode" /\ linked
                  THEN (IF ready THEN "Executing" ELSE "Idle")
                ELSE mode[c]]
           /\ reached' = ready
           /\ Use({"decode"} \cup clock, ptr, IF ready THEN "loop" ELSE "none")
  /\ UNCHANGED <<calls, client, ptr, packets>>

-----------------------------------------------------------------------------
(* The loop of video_recv                                                  *)

\* The decoder has seen the parameters of the picture, or that they changed.
SettingsChanged ==
  /\ at = "loop" /\ sent /\ ~changed
  /\ changed' = TRUE
  /\ UNCHANGED <<calls, at, status, pipeline, first_packet, sent, started, shown,
                 reached, failed, absent>>

\* Mutant of Decode: a tunnel that fails is not noticed.
MutTunnel ==
  /\ at = "loop" /\ status = 0
  /\ \E empty, first, second, ok \in BOOLEAN :
       LET handled == changed /\ ~empty
           start == handled \/ first_packet = 1
           picture == {n \in {0} : first} \cup {n \in {1} : second}
       IN  /\ Outcome("tunnel", first /\ second)
           /\ ~handled => first /\ second
           /\ Outcome("empty", ok)
           /\ changed' = (changed /\ ~handled)
           /\ shown' = (shown \/ handled)
           /\ tunnels' = (IF handled THEN {2} \cup picture ELSE tunnels)
           /\ mode' = [c \in Components |->
                IF handled /\ c \in {"scheduler", "render"} THEN "Executing" ELSE mode[c]]
           /\ first_packet' = 0
           /\ status' = (IF ok THEN 0 ELSE -1)
           /\ failed' = (failed \/ ~(first /\ second /\ ok))
           /\ sent' = (sent \/ ok)
           /\ started' = (started \/ (ok /\ start))
  /\ UNCHANGED <<calls, at, client, ptr, buffers, reached, absent>>

\* omx_decode, which does nothing once status is not 0.  A new setting of port
\* 131 is only looked for when the packet is not empty; its tunnels and states
\* are set up whether or not the step before went well, and the packet goes to
\* the decoder all the same.
Decode ==
  /\ at = "loop" /\ status = 0
  /\ \E empty, first, second, ok \in BOOLEAN :
       LET handled == changed /\ ~empty
           start == handled \/ first_packet = 1
           picture == {n \in {0} : first} \cup {n \in {1} : second}
       IN  /\ Outcome("tunnel", first /\ second)
           /\ ~handled => first /\ second
           /\ Outcome("empty", ok)
           /\ changed' = (changed /\ ~handled)
           /\ shown' = (shown \/ handled)
           /\ tunnels' = (IF handled THEN {2} \cup picture ELSE tunnels)
           /\ mode' = [c \in Components |->
                IF handled /\ c \in {"scheduler", "render"} THEN "Executing" ELSE mode[c]]
           /\ first_packet' = 0
           /\ status' = (IF first /\ second /\ ok THEN 0 ELSE -1)
           /\ failed' = (failed \/ ~(first /\ second /\ ok))
           /\ sent' = (sent \/ ok)
           /\ started' = (started \/ (ok /\ start))
  /\ UNCHANGED <<calls, at, client, ptr, buffers, reached, absent>>

Release ==
  /\ client' = FALSE /\ buffers' = FALSE
  /\ ptr' = [c \in Components |-> "freed"]
  /\ mode' = [c \in Components |-> "Loaded"]
  /\ changed' = FALSE

\* Mutant of Deinit: the clock's tunnel is forgotten.
MutClockTunnel ==
  /\ at = "loop"
  /\ at' = "none"
  /\ first_packet' = 1
  /\ tunnels' = tunnels \cap {2}
  /\ Release
  /\ UNCHANGED <<calls, status, sent, started, shown, reached, failed, absent>>

\* Mutant of Deinit: first_packet is not set again.
MutFirstPacket ==
  /\ at = "loop"
  /\ at' = "none"
  /\ tunnels' = {}
  /\ Release
  /\ UNCHANGED <<calls, status, first_packet, sent, started, shown, reached, failed, absent>>

\* recv_quit is 0: omx_deinit, and the thread ends.  The pointers are left as
\* they are, and so is status.
Deinit ==
  /\ at = "loop"
  /\ at' = "none"
  /\ first_packet' = 1
  /\ tunnels' = {}
  /\ Release
  /\ UNCHANGED <<calls, status, sent, started, shown, reached, failed, absent>>

Next ==
  \/ StartThread
  \/ InitClient \/ CreateComponents \/ SetUp
  \/ SettingsChanged \/ Decode \/ Deinit

Spec == Init /\ [][Next]_vars

-----------------------------------------------------------------------------
(* Properties                                                              *)

\* A call that reached the loop leaves nothing behind: not the tunnels, not the
\* buffers, not the client, whatever failed in it (omx_deinit).
ReleasedWhenOver ==
  at = "none" /\ reached
    => /\ ~client /\ ~buffers /\ tunnels = {}
       /\ \A c \in Components : ptr[c] # "live"

\* In every call the decoder is told where the time starts before it gets
\* another packet, not only in the first one (first_packet).
CallStarts == sent => started

\* As long as there is no error, a picture whose parameters were seen has all
\* its tunnels and all its components running.
PictureReady ==
  at = "loop" /\ status = 0 /\ shown
    => /\ tunnels = 0 .. 2
       /\ \A c \in Components : ptr[c] = "live" /\ mode[c] = "Executing"

\* Only after an error is a component used that was never made or is already
\* freed.  It may be an error of an earlier call: status is never set back, and
\* every later call then makes the decoder alone and uses the freed clock.
AbsentNeedsError == absent => status # 0
=============================================================================
