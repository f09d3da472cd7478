------------------------ MODULE VideoDecoderProofs ------------------------
(* What holds of the decoder for every number of calls and every error.    *)
EXTENDS VideoDecoder, TLAPS

\* While there is no error all components are there from the moment they were
\* made; outside the loop first_packet is 1, and in it the first packet that
\* went out cleared it; what a call has reached is known to its end.
DecoderInv ==
  /\ at \in {"setup", "loop"} /\ status = 0 => \A c \in Components : ptr[c] = "live"
  /\ at = "loop" => 2 \in tunnels /\ mode["decode"] = "Executing" /\ mode["clock"] = "Executing"
  /\ at # "loop" => first_packet = 1
  /\ at = "loop" /\ status = 0 /\ first_packet = 0 => started
  /\ at \in {"init", "create", "setup"} => ~reached /\ ~sent /\ ~shown

IInv ==
  /\ TypeOK /\ DecoderInv
  /\ ReleasedWhenOver /\ CallStarts /\ PictureReady /\ AbsentNeedsError

\* The four components, and the place of each in the order omx_init makes them.
LEMMA FourComponents ==
  /\ Components = {"decode", "render", "clock", "scheduler"}
  /\ \A c \in Components : (CHOOSE n \in 1 .. 4 : Order[n] = c) \in 1 .. 4
<1>1. \A c : c \in Components <=> \E n \in 1 .. 4 : c = Order[n]
  BY DEF Components
<1>2. \A c : (\E n \in 1 .. 4 : c = Order[n]) <=> c \in {"decode", "render", "clock", "scheduler"}
  BY DEF Order
<1>3. ASSUME NEW c \in Components
      PROVE  (CHOOSE n \in 1 .. 4 : Order[n] = c) \in 1 .. 4
  <2>1. \E n \in 1 .. 4 : Order[n] = c
    BY <1>1
  <2> QED BY <2>1
<1> QED BY <1>1, <1>2, <1>3

\* Starting a call forgets what the last one reached.
LEMMA StartIInv == IInv /\ StartThread => IInv'
<1> SUFFICES ASSUME IInv, StartThread PROVE IInv'
  OBVIOUS
<1>1. TypeOK'
  <2>1. calls' \in 0 .. MaxCalls
    BY MaxCallsAssumption DEF IInv, TypeOK, StartThread
  <2>2. {changed, sent, started, shown, reached, failed, absent}' \subseteq BOOLEAN
    BY DEF IInv, TypeOK, StartThread
  <2> QED BY <2>1, <2>2 DEF IInv, StartThread, TypeOK, pipeline
<1>2. DecoderInv'
  BY DEF IInv, StartThread, DecoderInv, pipeline
<1>3. ReleasedWhenOver' /\ CallStarts' /\ PictureReady' /\ AbsentNeedsError'
  BY DEF IInv, StartThread, ReleasedWhenOver, CallStarts, PictureReady, AbsentNeedsError
<1> QED BY <1>1, <1>2, <1>3 DEF IInv

LEMMA ClientIInv == IInv /\ InitClient => IInv'
<1> SUFFICES ASSUME IInv, InitClient PROVE IInv'
  OBVIOUS
<1>1. TypeOK'
  BY DEF IInv, InitClient, TypeOK, packets
<1>2. DecoderInv'
  BY DEF IInv, InitClient, DecoderInv, packets
<1>3. ReleasedWhenOver' /\ CallStarts' /\ PictureReady' /\ AbsentNeedsError'
  BY DEF IInv, InitClient, ReleasedWhenOver, CallStarts, PictureReady, AbsentNeedsError,
         DecoderInv, TypeOK, packets
<1> QED BY <1>1, <1>2, <1>3 DEF IInv

\* With status 0 at the end all four were made, the clock among them.
LEMMA CreateIInv == IInv /\ CreateComponents => IInv'
<1> SUFFICES ASSUME IInv, CreateComponents PROVE IInv'
  OBVIOUS
<1>1. PICK made \in 0 .. 4, state \in BOOLEAN :
        LET tries == IF status # 0 THEN 1 ELSE IF state THEN 4 ELSE 3
        IN  /\ ptr' = [c \in Components |->
                 LET n == CHOOSE n \in 1 .. 4 : Order[n] = c
                 IN  IF n <= made THEN "live"
                     ELSE IF n = made + 1 /\ n <= tries THEN "null" ELSE ptr[c]]
            /\ made <= tries
            /\ status' = (IF made < tries \/ ~state THEN -1 ELSE status)
            /\ failed' = (made < tries \/ ~state)
            /\ Use(IF ptr'["clock"] = "null" THEN {} ELSE {"clock"}, ptr', "setup")
  BY DEF CreateComponents
<1>2. /\ at = "create" /\ mode' = [c \in Components |-> "Loaded"]
      /\ UNCHANGED <<calls, client, tunnels, buffers, packets, reached>>
  BY DEF CreateComponents
<1>3. status' \in {0, -1}
  BY <1>1 DEF IInv, TypeOK
<1>4. ptr' \in [Components -> {"null", "live", "freed"}]
  <2>1. \A c \in Components : ptr[c] \in {"null", "live", "freed"}
    BY DEF IInv, TypeOK
  <2> QED BY <1>1, <2>1, Zenon
<1>5. status' = 0 => \A c \in Components : ptr'[c] = "live"
  <2> SUFFICES ASSUME status' = 0, NEW c \in Components PROVE ptr'[c] = "live"
    OBVIOUS
  <2>1. made = 4
    BY <1>1
  <2> DEFINE n == CHOOSE n \in 1 .. 4 : Order[n] = c
  <2>2. n \in 1 .. 4
    BY FourComponents
  <2>3. ptr'[c] = IF n <= made THEN "live"
                  ELSE IF n = made + 1 /\ n <= (IF status # 0 THEN 1 ELSE IF state THEN 4 ELSE 3)
                    THEN "null" ELSE ptr[c]
    BY <1>1
  <2> HIDE DEF n
  <2> QED BY <2>1, <2>2, <2>3
<1>6. at' \in {"setup", "crashed"} /\ absent' \in BOOLEAN
  BY <1>1 DEF Use, IInv, TypeOK
<1>7. status' = 0 => status = 0 /\ absent' = absent
  <2> SUFFICES ASSUME status' = 0 PROVE status = 0 /\ absent' = absent
    OBVIOUS
  <2>1. status = 0
    BY <1>1
  <2>2. "clock" \in Components
    BY FourComponents
  <2>3. absent' = (absent \/ ~(\A c \in (IF ptr'["clock"] = "null" THEN {} ELSE {"clock"}) :
                                   ptr'[c] = "live"))
    BY <1>1 DEF Use
  <2>4. ptr'["clock"] = "live"
    BY <1>5, <2>2
  <2>5. absent \in BOOLEAN
    BY DEF IInv, TypeOK
  <2> QED BY <2>1, <2>3, <2>4, <2>5
<1>8. TypeOK'
  <2>1. mode' \in [Components -> {"Loaded", "Idle", "Executing"}]
    BY <1>2
  <2>2. failed' \in BOOLEAN
    BY <1>1
  <2> QED BY <1>2, <1>3, <1>4, <1>6, <2>1, <2>2 DEF IInv, TypeOK, packets
<1>9. DecoderInv'
  BY <1>2, <1>5, <1>6 DEF IInv, DecoderInv, packets
<1>10. ReleasedWhenOver' /\ CallStarts' /\ PictureReady' /\ AbsentNeedsError'
  BY <1>2, <1>3, <1>6, <1>7 DEF IInv, ReleasedWhenOver, CallStarts, PictureReady, AbsentNeedsError,
         DecoderInv, packets
<1> QED BY <1>8, <1>9, <1>10 DEF IInv

\* omx_init ends with status 0 only if it began so, and then with every
\* component there and the decoder and its clock running.
LEMMA SetUpIInv == IInv /\ SetUp => IInv'
<1> SUFFICES ASSUME IInv, SetUp PROVE IInv'
  OBVIOUS
<1> DEFINE linked(t) == status = 0 /\ t
           ready(t, f, b) == linked(t) /\ f /\ b
           clock(t) == IF status = 0 /\ ~t THEN {} ELSE {"clock"}
<1>1. PICK tunnelOk \in BOOLEAN, formatOk \in BOOLEAN, buffersOk \in BOOLEAN :
        /\ status' = (IF ready(tunnelOk, formatOk, buffersOk) THEN 0 ELSE -1)
        /\ failed' = (failed \/ ~(tunnelOk /\ formatOk /\ buffersOk))
        /\ tunnels' = (IF linked(tunnelOk) THEN {2} ELSE {})
        /\ buffers' = buffersOk
        /\ mode' = [c \in Components |->
             IF c \in clock(tunnelOk) THEN "Executing"
             ELSE IF c = "decode" /\ linked(tunnelOk)
               THEN (IF ready(tunnelOk, formatOk, buffersOk) THEN "Executing" ELSE "Idle")
             ELSE mode[c]]
        /\ reached' = ready(tunnelOk, formatOk, buffersOk)
        /\ Use({"decode"} \cup clock(tunnelOk), ptr,
                IF ready(tunnelOk, formatOk, buffersOk) THEN "loop" ELSE "none")
  BY DEF SetUp
<1>2. at = "setup" /\ UNCHANGED <<calls, client, ptr, packets>>
  BY DEF SetUp
<1> DEFINE ok == ready(tunnelOk, formatOk, buffersOk)
<1>3. ok => status = 0 /\ tunnelOk
  OBVIOUS
<1>4. "decode" \in Components /\ "clock" \in Components
  BY FourComponents
<1>5. ok => \A c \in Components : ptr[c] = "live"
  BY <1>2, <1>3 DEF IInv, DecoderInv
<1>6. /\ at' \in {"none", "loop", "crashed"}
      /\ at' = "loop" => ok
      /\ absent' \in BOOLEAN
      /\ ok => absent' = absent /\ at' = "loop"
  <2>1. clock(tunnelOk) \subseteq {"clock"}
    OBVIOUS
  <2> DEFINE there == \A c \in {"decode"} \cup clock(tunnelOk) : ptr[c] = "live"
  <2>2. /\ absent' = (absent \/ ~there)
        /\ at' \in {IF ok THEN "loop" ELSE "none"} \cup (IF there THEN {} ELSE {"crashed"})
    BY <1>1 DEF Use
  <2>3. ok => there
    BY <2>1, <1>4, <1>5
  <2>4. absent \in BOOLEAN
    BY DEF IInv, TypeOK
  <2> HIDE DEF there, ok
  <2> QED BY <2>2, <2>3, <2>4
<1>7. mode' \in [Components -> {"Loaded", "Idle", "Executing"}]
  <2>1. mode \in [Components -> {"Loaded", "Idle", "Executing"}]
    BY DEF IInv, TypeOK
  <2> QED BY <1>1, <2>1
<1>8. ok => mode'["decode"] = "Executing" /\ mode'["clock"] = "Executing"
  BY <1>1, <1>4
<1>9. TypeOK'
  <2>1. failed' \in BOOLEAN /\ reached' \in BOOLEAN /\ buffers' \in BOOLEAN
    BY <1>1
  <2>2. tunnels' \subseteq 0 .. 2 /\ status' \in {0, -1}
    BY <1>1
  <2> HIDE DEF ok
  <2> QED BY <1>2, <1>6, <1>7, <2>1, <2>2 DEF IInv, TypeOK, packets
<1>10. DecoderInv'
  <2>1. ok => 2 \in tunnels'
    BY <1>1
  <2>2. status' = 0 => ok
    BY <1>1
  <2>3. first_packet' = 1 /\ ~sent' /\ ~shown'
    BY <1>2 DEF IInv, DecoderInv, packets
  <2> HIDE DEF ok
  <2> QED BY <1>2, <1>5, <1>6, <1>8, <2>1, <2>2, <2>3 DEF DecoderInv
<1>11. ReleasedWhenOver' /\ CallStarts' /\ PictureReady' /\ AbsentNeedsError'
  <2>1. reached' <=> ok
    BY <1>1
  <2>2. status' = 0 => ok
    BY <1>1
  <2>3. ~sent' /\ ~shown'
    BY <1>2 DEF IInv, DecoderInv, packets
  <2>4. ok => ~absent
    BY <1>3 DEF IInv, AbsentNeedsError
  <2> HIDE DEF ok
  <2> QED BY <1>6, <2>1, <2>2, <2>3, <2>4
          DEF ReleasedWhenOver, CallStarts, PictureReady, AbsentNeedsError
<1> QED BY <1>9, <1>10, <1>11 DEF IInv

LEMMA SettingsIInv == IInv /\ SettingsChanged => IInv'
<1> SUFFICES ASSUME IInv, SettingsChanged PROVE IInv'
  OBVIOUS
<1>1. TypeOK'
  <2>1. {changed, sent, started, shown, reached, failed, absent}' \subseteq BOOLEAN
    BY DEF IInv, TypeOK, SettingsChanged
  <2> QED BY <2>1 DEF IInv, SettingsChanged, TypeOK, pipeline
<1>2. DecoderInv'
  BY DEF IInv, SettingsChanged, DecoderInv, pipeline
<1>3. ReleasedWhenOver' /\ CallStarts' /\ PictureReady' /\ AbsentNeedsError'
  BY DEF IInv, SettingsChanged, ReleasedWhenOver, CallStarts, PictureReady, AbsentNeedsError,
         pipeline
<1> QED BY <1>1, <1>2, <1>3 DEF IInv

\* The packet that goes out says where the time starts, or one before it did;
\* a change of the settings leaves every component running or an error.
LEMMA DecodeIInv == IInv /\ Decode => IInv'
<1> SUFFICES ASSUME IInv, Decode PROVE IInv'
  OBVIOUS
<1>0. PICK empty \in BOOLEAN, first \in BOOLEAN, second \in BOOLEAN, ok \in BOOLEAN :
        LET handled == changed /\ ~empty
            start == handled \/ first_packet = 1
            picture == {n \in {0} : first} \cup {n \in {1} : second}
        IN  /\ Outcome("tunnel", first /\ second)
            /\ ~handled => first /\ second
            /\ Outcome("empty", ok)
            /\ changed' = (changed /\ ~handled)
            /\ shown' = (shown \/ handled)
            /\ tunnels' = (IF handled THEN {2} \cup picture ELSE tunnels)
            /\ mode' = [c \in Components |->
                 IF handled /\ c \in {"scheduler", "render"} THEN "Executing" ELSE mode[c]]
            /\ first_packet' = 0
            /\ status' = (IF first /\ second /\ ok THEN 0 ELSE -1)
            /\ failed' = (failed \/ ~(first /\ second /\ ok))
            /\ sent' = (sent \/ ok)
            /\ started' = (started \/ (ok /\ start))
  BY Zenon DEF Decode
<1> DEFINE handled == changed /\ ~empty
           start == handled \/ first_packet = 1
           picture == {n \in {0} : first} \cup {n \in {1} : second}
<1>1. /\ changed' = (changed /\ ~handled)
      /\ shown' = (shown \/ handled)
      /\ tunnels' = (IF handled THEN {2} \cup picture ELSE tunnels)
      /\ mode' = [c \in Components |->
           IF handled /\ c \in {"scheduler", "render"} THEN "Executing" ELSE mode[c]]
      /\ status' = (IF first /\ second /\ ok THEN 0 ELSE -1)
      /\ failed' = (failed \/ ~(first /\ second /\ ok))
      /\ sent' = (sent \/ ok)
      /\ started' = (started \/ (ok /\ start))
  BY <1>0, Zenon
<1>2. /\ at = "loop" /\ status = 0 /\ first_packet' = 0
      /\ UNCHANGED <<calls, at, client, ptr, buffers, reached, absent>>
  BY DEF Decode
<1>3. /\ {changed, sent, started, shown, reached, failed, absent} \subseteq BOOLEAN
      /\ mode \in [Components -> {"Loaded", "Idle", "Executing"}]
      /\ tunnels \subseteq 0 .. 2 /\ first_packet \in {0, 1}
  BY DEF IInv, TypeOK
<1>4. TypeOK'
  <2>1. mode' \in [Components -> {"Loaded", "Idle", "Executing"}]
    BY <1>1, <1>3
  <2>2. tunnels' \subseteq 0 .. 2
    <3>1. {2} \cup picture \subseteq 0 .. 2
      OBVIOUS
    <3> QED BY <1>1, <1>3, <3>1
  <2>4. status' \in {0, -1}
    BY <1>1
  <2>3. {changed, sent, started, shown, reached, failed, absent}' \subseteq BOOLEAN
    BY <1>1, <1>2, <1>3
  <2> QED BY <1>2, <2>1, <2>2, <2>3, <2>4 DEF IInv, TypeOK
<1>5. ~absent /\ ~absent'
  BY <1>2 DEF IInv, AbsentNeedsError
<1>6. \A c \in Components : ptr'[c] = "live"
  BY <1>2 DEF IInv, DecoderInv
<1>7. /\ 2 \in tunnels'
      /\ mode'["decode"] = "Executing" /\ mode'["clock"] = "Executing"
  <2>1. 2 \in tunnels /\ mode["decode"] = "Executing" /\ mode["clock"] = "Executing"
    BY <1>2 DEF IInv, DecoderInv
  <2> QED BY <1>1, <2>1, FourComponents
<1>8. ok => started'
  <2>1. first_packet = 0 => started
    BY <1>2 DEF IInv, DecoderInv
  <2> QED BY <1>1, <1>3, <2>1
<1>9. DecoderInv'
  <2>1. status' = 0 => ok
    BY <1>1
  <2> QED BY <1>2, <1>6, <1>7, <1>8, <2>1 DEF DecoderInv
<1>10. PictureReady'
  <2> SUFFICES ASSUME status' = 0, shown' PROVE tunnels' = 0 .. 2 /\ \A c \in Components : mode'[c] = "Executing"
    BY <1>6 DEF PictureReady
  <2>1. first /\ second
    BY <1>1
  <2>2. CASE handled
    <3>1. tunnels' = {2} \cup {0} \cup {1}
      BY <1>1, <2>1, <2>2
    <3>2. \A c \in Components : mode'[c] = "Executing"
      BY <1>1, <1>7, <2>2, FourComponents
    <3> QED BY <3>1, <3>2
  <2>3. CASE ~handled
    <3>1. shown
      BY <1>1, <2>3
    <3>2. tunnels = 0 .. 2 /\ \A c \in Components : mode[c] = "Executing"
      BY <1>2, <3>1 DEF IInv, PictureReady
    <3> QED BY <1>1, <2>3, <3>2
  <2> QED BY <2>2, <2>3
<1>11. CallStarts'
  <2>1. sent => started
    BY DEF IInv, CallStarts
  <2> QED BY <1>1, <1>8, <2>1 DEF CallStarts
<1>12. ReleasedWhenOver' /\ AbsentNeedsError'
  BY <1>2, <1>5 DEF ReleasedWhenOver, AbsentNeedsError
<1> QED BY <1>4, <1>9, <1>10, <1>11, <1>12 DEF IInv

\* omx_deinit gives everything back.
LEMMA DeinitIInv == IInv /\ Deinit => IInv'
<1> SUFFICES ASSUME IInv, Deinit PROVE IInv'
  OBVIOUS
<1>1. TypeOK'
  <2>1. {changed, sent, started, shown, reached, failed, absent}' \subseteq BOOLEAN
    BY DEF IInv, TypeOK, Deinit, Release
  <2> QED BY <2>1 DEF IInv, Deinit, Release, TypeOK
<1>2. DecoderInv'
  BY DEF IInv, Deinit, Release, DecoderInv
<1>3. ReleasedWhenOver' /\ CallStarts' /\ PictureReady' /\ AbsentNeedsError'
  BY DEF IInv, Deinit, Release, ReleasedWhenOver, CallStarts, PictureReady, AbsentNeedsError
<1> QED BY <1>1, <1>2, <1>3 DEF IInv

\* The invariant holds at the start, and every step keeps it.
LEMMA Invariance == Spec => []IInv
<1>1. Init => IInv
  <2> SUFFICES ASSUME Init PROVE IInv
    OBVIOUS
  <2>1. TypeOK
    <3>1. calls \in 0 .. MaxCalls
      BY MaxCallsAssumption DEF Init
    <3>2. /\ ptr \in [Components -> {"null", "live", "freed"}]
          /\ mode \in [Components -> {"Loaded", "Idle", "Executing"}]
      BY DEF Init
    <3>3. {changed, sent, started, shown, reached, failed, absent} \subseteq BOOLEAN
      BY DEF Init
    <3>4. /\ at = "none" /\ status \in {0, -1} /\ first_packet \in {0, 1} /\ tunnels \subseteq 0 .. 2
          /\ client \in BOOLEAN /\ buffers \in BOOLEAN
      BY DEF Init
    <3> QED BY <3>1, <3>2, <3>3, <3>4 DEF TypeOK
  <2>2. DecoderInv
    BY DEF Init, DecoderInv
  <2>3. ReleasedWhenOver /\ CallStarts /\ PictureReady /\ AbsentNeedsError
    BY DEF Init, ReleasedWhenOver, CallStarts, PictureReady, AbsentNeedsError
  <2> QED BY <2>1, <2>2, <2>3 DEF IInv
<1>2. IInv /\ [Next]_vars => IInv'
  <2> SUFFICES ASSUME IInv, [Next]_vars PROVE IInv'
    OBVIOUS
  <2>1. CASE UNCHANGED vars
    BY <2>1 DEF vars, pipeline, packets, IInv, TypeOK, DecoderInv, ReleasedWhenOver, CallStarts,
                PictureReady, AbsentNeedsError
  <2>2. CASE Next
    BY <2>2, StartIInv, ClientIInv, CreateIInv, SetUpIInv, SettingsIInv, DecodeIInv, DeinitIInv
       DEF Next
  <2> QED BY <2>1, <2>2
<1> QED BY <1>1, <1>2, PTL DEF Spec

-----------------------------------------------------------------------------

\* Whatever happens in a call, once it has reached the loop of video_recv its
\* end leaves no tunnel, no buffer, no component and no client to the next one.
THEOREM CallLeavesNothing == Spec => []ReleasedWhenOver
<1>1. IInv => ReleasedWhenOver
  BY DEF IInv
<1> QED BY <1>1, Invariance, PTL

\* In each of any number of calls no packet goes to the decoder before one that
\* says where the time starts.
THEOREM EveryCallStarts == Spec => []CallStarts
<1>1. IInv => CallStarts
  BY DEF IInv
<1> QED BY <1>1, Invariance, PTL

\* As long as no step failed, a picture is shown by all four components.
THEOREM PictureIsReady == Spec => []PictureReady
<1>1. IInv => PictureReady
  BY DEF IInv
<1> QED BY <1>1, Invariance, PTL

\* A component that was never made or is freed is used only after an error.
THEOREM NoErrorNoAbsence == Spec => []AbsentNeedsError
<1>1. IInv => AbsentNeedsError
  BY DEF IInv
<1> QED BY <1>1, Invariance, PTL
=============================================================================
