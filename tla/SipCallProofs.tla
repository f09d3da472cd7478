--------------------------- MODULE SipCallProofs ---------------------------
(***************************************************************************)
(* What is proved of SipCall, for all calls, any number of CALL_ACK events *)
(* and every set of trials: the type invariant, that CALL_CLOSED leaves no *)
(* thread of a kept handle alive, and, each in the trials its property     *)
(* names, that no thread is forgotten, that the media go to the caller,    *)
(* that the video closes its own sockets, that nothing is left open and    *)
(* that no thread is joined twice.                                         *)
(*                                                                         *)
(* The first two rest on IInv.  The others need what IInv does not say:    *)
(* where the events of a call can be in the queue (PlainInv), whose SDP    *)
(* was read last (DestInv), what each descriptor is and who will close it  *)
(* (FdInv), and that every CALL_CLOSED in the queue has a CALL_ACK before  *)
(* it (JoinInv).  CallInv puts them together.                              *)
(***************************************************************************)
EXTENDS SipCall, WellFoundedInduction, TLAPS

\* open() finds the lowest free number whenever there is a free number at all.
LEMMA LowestFreeIsFree ==
  ASSUME TypeOK, HasFree
  PROVE  LowestFree \in Fds /\ fdt[LowestFree] = Free
<1> DEFINE T == {f \in Fds : fdt[f] = Free}
<1>1. T \subseteq Nat /\ T # {}
  BY MaxAcksAssumption DEF HasFree, Fds
<1>2. PICK f \in T : \A g \in T : <<g, f>> \notin OpToRel(<, Nat)
  BY <1>1, NatLessThanWellFounded, WFMin
<1>3. \A a, b \in Nat : a < b => <<a, b>> \in OpToRel(<, Nat)
  BY DEF OpToRel
<1>4. \A g \in 1 .. (f - 1) : g \in Nat /\ g < f /\ g \in Fds
  BY MaxAcksAssumption DEF Fds
<1>5. \A g \in 1 .. (f - 1) : fdt[g] # Free
  <2>1. SUFFICES ASSUME NEW g \in 1 .. (f - 1), fdt[g] = Free PROVE FALSE
    OBVIOUS
  <2>2. g \in T /\ g \in Nat /\ f \in Nat /\ g < f
    BY <1>1, <1>4, <2>1
  <2>3. QED
    BY <1>2, <1>3, <2>2
<1>6. f \in Fds /\ fdt[f] = Free
  OBVIOUS
<1>7. QED
  BY <1>5, <1>6 DEF LowestFree

\* The invariant that carries the two results on CALL_CLOSED.
IInv == TypeOK /\ StopInv

\* The inductive invariant holds when the phone starts: every flag is 1, no
\* thread was made.
LEMMA InitIInv == Init => IInv
<1> SUFFICES ASSUME Init PROVE IInv
  OBVIOUS
<1> USE MaxAcksAssumption DEF Init
<1>1. fifo \in Seq({"INVITE", "ANSWERED", "ACK", "CLOSED"} \X Calls)
  OBVIOUS
<1>2. flag \in [Roles -> {0, 1}] /\ handle \in [Roles -> 0 .. MaxAcks]
  OBVIOUS
<1>3. thr \in [Threads -> {"none", "done"} \cup Live]
  OBVIOUS
<1>4. /\ sock \in [{"audio", "video"} -> Fds \cup {NoFd}]
      /\ fdt \in [Fds -> (Kinds \X Gens) \cup {Free}]
      /\ rtpfd \in [Gens -> Fds \cup {NoFd}]
  OBVIOUS
<1>5. peer \in [Gens -> PeerOf]
  BY DEF PeerOf
<1>6. /\ uas \in [Calls -> {"idle", "invited", "answered", "confirmed", "calling",
                            "talking", "hungup", "ended"}]
      /\ freed \subseteq Gens /\ joined \subseteq Threads
      /\ ev \in {"wait", "sdp"} \cup AckSteps \cup Joins
      /\ acks \in 0 .. MaxAcks /\ gen \in 0 .. MaxAcks /\ rtpsock \in 0 .. MaxAcks
      /\ foreign \in Roles \cup {"none"}
  OBVIOUS
<1>7. TypeOK
  BY <1>1, <1>2, <1>3, <1>4, <1>5, <1>6 DEF TypeOK
<1>8. ToMake = {} /\ JoinedSoFar = {} /\ \A r \in Roles : Over(r)
  BY DEF ToMake, JoinedSoFar, Over
<1>9. StopInv
  BY <1>8 DEF StopInv, Roles, Gens, Threads, Joins, AckSteps, Creates
<1>10. QED
  BY <1>7, <1>9 DEF IInv

\* Opening a socket in the handler of CALL_ACK (or failing to) makes and stops
\* no thread.
LEMMA OpenIInv ==
  ASSUME IInv, NEW kind \in {"audio", "video"}, NEW at \in {"open_audio", "open_video"},
         NEW next \in Creates, EvOpen(kind, at, next),
         JoinedSoFar' = {}, ToMake' \subseteq ToMake
  PROVE  IInv'
<1> USE MaxAcksAssumption, NoneAssumption DEF IInv
<1>1. LowestFree \in Fds /\ gen \in Gens
  BY LowestFreeIsFree DEF EvOpen, StopInv, TypeOK, AckSteps, Gens
<1>2. <<kind, gen>> \in Kinds \X Gens
  BY <1>1 DEF Kinds
<1>3. fdt' \in [Fds -> (Kinds \X Gens) \cup {Free}]
  BY <1>2 DEF EvOpen, Opened, TypeOK
<1>4. sock' \in [{"audio", "video"} -> Fds \cup {NoFd}]
  BY <1>1 DEF EvOpen, TypeOK
<1>5. peer' \in [Gens -> PeerOf]
  BY <1>1 DEF EvOpen, TypeOK, PeerOf
<1>6. ev' \in AckSteps \cup {"wait"} /\ je' \in Calls \cup {None}
  BY DEF EvOpen, TypeOK, AckSteps
<1>7. TypeOK'
  BY <1>3, <1>4, <1>5, <1>6 DEF EvOpen, EvKeeps, TypeOK, threads
<1>8. gen # 0 /\ flag["audio_send"] = 1 /\ "audio_send" \in Roles
  BY DEF EvOpen, StopInv, AckSteps, Roles
<1>9. ev' \notin Joins
  BY <1>6 DEF Joins, AckSteps, Creates
<1>10. StopInv'
  BY <1>8, <1>9 DEF EvOpen, StopInv, threads, TypeOK
<1>11. QED BY <1>7, <1>10

\* Making a thread in the handler of CALL_ACK: it is the first of its role and
\* generation, and the flags are set.
LEMMA CreateIInv ==
  ASSUME IInv, NEW r \in Roles, NEW at \in Creates, NEW next \in AckSteps \cup {"wait"},
         EvCreate(r, at, next), r \in ToMake,
         JoinedSoFar' = {}, ToMake' \subseteq ToMake \ {r}
  PROVE  IInv'
<1> USE MaxAcksAssumption, NoneAssumption DEF IInv
<1>1. gen \in Gens /\ gen # 0 /\ flag["audio_send"] = 1 /\ "audio_send" \in Roles
  BY DEF EvCreate, StopInv, TypeOK, AckSteps, Gens, Roles
<1>2. thr[<<r, gen>>] = "none" /\ <<r, gen>> \in Threads
  BY <1>1 DEF StopInv, Threads
<1>3. /\ handle' \in [Roles -> 0 .. MaxAcks]
      /\ thr' \in [Threads -> {"none", "done"} \cup Live]
  <2>1. CASE handle' = [handle EXCEPT ![r] = gen] /\ thr' = [thr EXCEPT ![<<r, gen>>] = "start"]
    <3>1. handle' \in [Roles -> 0 .. MaxAcks]
      BY <2>1 DEF TypeOK
    <3>2. "start" \in Live
      BY DEF Live
    <3>3. thr' \in [Threads -> {"none", "done"} \cup Live]
      BY <2>1, <3>2 DEF TypeOK
    <3>4. QED BY <3>1, <3>3
  <2>2. CASE handle' = [handle EXCEPT ![r] = 0] /\ thr' = thr
    BY <2>2 DEF TypeOK
  <2>3. QED BY <2>1, <2>2 DEF EvCreate
<1>4. TypeOK'
  BY <1>3 DEF EvCreate, EvKeeps, TypeOK, files, history
<1>5. ev' \notin Joins
  BY DEF EvCreate, Joins, AckSteps, Creates
<1>6. /\ \A t \in Threads : t # <<r, gen>> => thr'[t] = thr[t]
      /\ thr'[<<r, gen>>] \in {"none", "start"}
  BY <1>2 DEF EvCreate, TypeOK
<1>7. \A q \in Roles, g \in Gens : g > gen => thr'[<<q, g>>] = "none"
  <2>1. SUFFICES ASSUME NEW q \in Roles, NEW g \in Gens, g > gen
                 PROVE  thr'[<<q, g>>] = "none"
    OBVIOUS
  <2>2. <<q, g>> \in Threads /\ <<q, g>> # <<r, gen>>
    BY <1>1, <2>1 DEF Threads, Gens
  <2>3. QED BY <1>6, <2>1, <2>2 DEF StopInv
<1>8. \A q \in ToMake' : thr'[<<q, gen>>] = "none"
  <2>1. ToMake \subseteq Roles
    BY DEF ToMake, Roles
  <2>2. QED
    BY <1>1, <1>6, <2>1 DEF StopInv, Threads
<1>9. \A g \in Gens : thr'[<<"video_send", g>>] \in {"run", "closing"} => rtpsock # 0
  BY <1>6 DEF StopInv, Threads, Roles
<1>10. \A t \in joined : thr'[t] = "done"
  BY <1>2, <1>6 DEF StopInv, TypeOK
<1>11. StopInv'
  BY <1>1, <1>5, <1>7, <1>8, <1>9, <1>10 DEF EvCreate, StopInv, files
<1>12. QED BY <1>4, <1>11

\* One join in the handler of CALL_CLOSED: the thread of the kept handle is over
\* when the handler goes on, also when it was joined before.
LEMMA JoinIInv ==
  ASSUME IInv, NEW r \in Roles, NEW at \in Joins, NEW next \in Joins \cup {"wait"},
         EvJoin(r, at, next),
         ToMake' = {}, JoinedSoFar' \subseteq JoinedSoFar \cup {r},
         next = "wait" => JoinedSoFar \cup {r} = Roles
  PROVE  IInv'
<1> USE MaxAcksAssumption, NoneAssumption DEF IInv
<1>1. handle[r] # 0 => <<r, handle[r]>> \in Threads
  BY DEF TypeOK, Threads, Gens
<1>2. Over(r) /\ \A t \in joined' : thr[t] = "done"
  BY DEF EvJoin, StopInv, Over
<1>3. joined' \subseteq Threads /\ proc' \in {"up", "quit", "exited"} /\ twice' \in BOOLEAN
  BY <1>1 DEF EvJoin, TypeOK
<1>4. TypeOK'
  BY <1>3 DEF EvJoin, TypeOK, files
<1>5. ev' \notin AckSteps /\ ev \in Joins
  BY DEF EvJoin, Joins, AckSteps, Creates
<1>6. \A q \in JoinedSoFar \cup {r} : Over(q)
  BY <1>2 DEF StopInv
<1>7. UNCHANGED <<gen, flag, handle, thr, rtpsock>> /\ ev' = next
  BY DEF EvJoin, files
<1>8. \A q \in Roles : Over(q) => Over(q)'
  BY <1>7 DEF Over
<1>9. JoinedSoFar \subseteq Roles
  BY DEF JoinedSoFar, Roles
<1>10. \A q \in JoinedSoFar' : Over(q)'
  BY <1>6, <1>8, <1>9
<1>11. ev' \in {"wait", "sdp"} => \A q \in Roles : Over(q)'
  BY <1>6, <1>7, <1>8 DEF Joins
<1>12. StopInv'
  BY <1>2, <1>5, <1>7, <1>10, <1>11 DEF StopInv
<1>13. QED BY <1>4, <1>12

\* A step of a media thread: it only moves on, and touches descriptors.
LEMMA MediaIInv ==
  ASSUME IInv, NEW r \in Roles, NEW g \in Gens, NEW to \in Live \cup {"done"},
         thr[<<r, g>>] \in Live, thr' = [thr EXCEPT ![<<r, g>>] = to],
         ThreadKeeps, TypeOK',
         \/ rtpsock' = rtpsock /\ (thr[<<r, g>>] = "start" => r # "video_send" \/ to = "done")
         \/ rtpsock' # 0
  PROVE  IInv'
<1> USE MaxAcksAssumption, NoneAssumption DEF IInv
<1>1. UNCHANGED <<event, flag, handle, joined>> /\ ev' = ev /\ gen' = gen
  BY DEF ThreadKeeps, event
<1>2. <<r, g>> \in Threads /\ \A t \in Threads : t # <<r, g>> => thr'[t] = thr[t]
  BY DEF Threads, TypeOK
<1>3. thr[<<r, g>>] # "done" /\ thr[<<r, g>>] # "none"
  BY DEF Live
<1>4. \A t \in Threads : thr[t] \in {"none", "done"} => thr'[t] = thr[t]
  BY <1>2, <1>3
<1>5. \A q \in Roles : Over(q) => Over(q)'
  <2>1. \A q \in Roles : handle[q] # 0 => <<q, handle[q]>> \in Threads
    BY DEF TypeOK, Threads, Gens
  <2>2. QED BY <1>1, <1>4, <2>1 DEF Over
<1>6. ToMake' = ToMake /\ JoinedSoFar' = JoinedSoFar /\ ToMake \subseteq Roles
          /\ JoinedSoFar \subseteq Roles
  BY <1>1 DEF ToMake, JoinedSoFar, event, Roles
<1>7. \A q \in ToMake : thr'[<<q, gen>>] = "none"
  <2>1. ToMake # {} => gen \in Gens
    BY DEF StopInv, ToMake, TypeOK, Gens, AckSteps, Creates
  <2>2. QED BY <1>4, <1>6, <2>1 DEF StopInv, Threads
<1>8. \A q \in Roles, h \in Gens : h > gen => thr'[<<q, h>>] = "none"
  BY <1>4 DEF StopInv, Threads
<1>9. \A t \in joined : thr'[t] = "done"
  BY <1>4 DEF StopInv, TypeOK
<1>10. \A h \in Gens : thr'[<<"video_send", h>>] \in {"run", "closing"} => rtpsock' # 0
  <2>1. CASE rtpsock' # 0
    BY <2>1
  <2>2. CASE rtpsock' = rtpsock /\ (thr[<<r, g>>] = "start" => r # "video_send" \/ to = "done")
    <3>1. SUFFICES ASSUME NEW h \in Gens, thr'[<<"video_send", h>>] \in {"run", "closing"}
                   PROVE  thr[<<"video_send", h>>] \in {"run", "closing"}
      BY <2>2 DEF StopInv
    <3>2. CASE <<"video_send", h>> = <<r, g>>
      BY <1>2, <2>2, <3>1, <3>2 DEF Live, TypeOK
    <3>3. CASE <<"video_send", h>> # <<r, g>>
      BY <1>2, <3>1, <3>3 DEF Threads, Roles
    <3>4. QED BY <3>2, <3>3
  <2>3. QED BY <2>1, <2>2
<1>11. StopInv'
  BY <1>1, <1>5, <1>6, <1>7, <1>8, <1>9, <1>10 DEF StopInv
<1>12. QED BY <1>11

\* Every step of the phone, its peer and its threads keeps the inductive invariant.
LEMMA NextIInv == IInv /\ [Next]_vars => IInv'
<1> SUFFICES ASSUME IInv, [Next]_vars PROVE IInv'
  OBVIOUS
<1> USE MaxAcksAssumption, NoneAssumption DEF IInv
<1>1. ASSUME NEW c \in Calls, Peer(c) PROVE IInv'
  <2>1. UNCHANGED <<world, event, flag, threads, files, proc, history>>
    BY <1>1 DEF Peer, PeerInvite, PeerCancel, PeerAck, PeerAnswer, PeerBye, AckTimeout, EnvKeeps
  <2>2. PICK t \in {"INVITE", "ANSWERED", "ACK", "CLOSED"} : fifo' = Append(fifo, <<t, c>>)
    BY <1>1 DEF Peer, PeerInvite, PeerCancel, PeerAck, PeerAnswer, PeerBye, AckTimeout, Report
  <2>3. fifo' \in Seq({"INVITE", "ANSWERED", "ACK", "CLOSED"} \X Calls)
    BY <2>2 DEF TypeOK
  <2>4. acks' \in 0 .. MaxAcks
    BY <1>1 DEF Peer, PeerInvite, PeerCancel, PeerAck, PeerAnswer,
       PeerBye, AckTimeout, TypeOK
  <2>5. uas' \in [Calls -> {"idle", "invited", "answered", "confirmed", "calling",
                            "talking", "hungup", "ended"}]
    BY ZenonT(40), <1>1 DEF Peer, PeerInvite, PeerCancel, PeerAck, PeerAnswer,
       PeerBye, AckTimeout, TypeOK
  <2>6. TypeOK'
    BY <2>1, <2>3, <2>4, <2>5 DEF TypeOK, event, threads, files, history
  <2>7. StopInv'
    BY <2>1 DEF StopInv, ToMake, JoinedSoFar, Over, event, threads, files, history
  <2>8. QED BY <2>6, <2>7
<1>2. CASE Main
  <2>1. UNCHANGED <<world, acks, fifo, event, threads, files, history>>
    BY <1>2 DEF Main, MainInvite, MainHangup, MainStopVideo, MainQuit, MainExit, MainKeeps
  <2>2. /\ uas' \in [Calls -> {"idle", "invited", "answered", "confirmed", "calling",
                               "talking", "hungup", "ended"}]
        /\ proc' \in {"up", "quit", "exited"}
    BY <1>2 DEF Main, MainInvite, MainHangup, MainStopVideo, MainQuit, MainExit, TypeOK
  <2>3. \/ flag' = flag
        \/ flag' = [flag EXCEPT !["video_send"] = 0, !["video_recv"] = 0]
    BY <1>2 DEF Main, MainInvite, MainHangup, MainStopVideo, MainQuit, MainExit
  <2>4. flag' \in [Roles -> {0, 1}]
    BY <2>3 DEF TypeOK
  <2>5. TypeOK'
    BY <2>1, <2>2, <2>4 DEF TypeOK, event, threads, files, history
  <2>6. /\ flag'["audio_send"] = flag["audio_send"]
        /\ \A r \in Roles : flag[r] = 0 => flag'[r] = 0
    <3>1. CASE flag' = flag
      BY <3>1
    <3>2. CASE flag' = [flag EXCEPT !["video_send"] = 0, !["video_recv"] = 0]
      BY <3>2 DEF TypeOK, Roles
    <3>3. QED BY <2>3, <3>1, <3>2
  <2>7. ToMake' = ToMake /\ JoinedSoFar' = JoinedSoFar
    BY <2>1 DEF ToMake, JoinedSoFar, event
  <2>8. (\A r \in Roles : flag'[r] = 0) => (\A r \in Roles : flag[r] = 0)
    BY <2>6 DEF StopInv, Roles
  <2>9. StopInv'
    BY <2>1, <2>6, <2>7, <2>8 DEF StopInv, Over, event, threads, files
  <2>10. QED BY <2>5, <2>9
<1>3. CASE EvInvite
  <2>1. /\ UNCHANGED <<world, acks, gen, cur, dest, flag, threads, files, proc, history>>
        /\ ev = "wait" /\ ev' = "sdp"
        /\ fifo # <<>> /\ je' = Head(fifo)[2]
    BY <1>3 DEF EvInvite, Take, EvKeeps
  <2>2. Head(fifo) \in {"INVITE", "ANSWERED", "ACK", "CLOSED"} \X Calls
    BY <2>1 DEF TypeOK
  <2>3. fifo' \in Seq({"INVITE", "ANSWERED", "ACK", "CLOSED"} \X Calls)
    <3> DEFINE E == {"INVITE", "ANSWERED", "ACK", "CLOSED"} \X Calls
    <3>1. fifo \in Seq(E) /\ Tail(fifo) \in Seq(E)
      BY <2>1 DEF TypeOK
    <3>2. <<"CLOSED", Head(fifo)[2]>> \in E
      BY <2>2
    <3>3. Append(Tail(fifo), <<"CLOSED", Head(fifo)[2]>>) \in Seq(E)
      BY <3>1, <3>2
    <3>4. \/ fifo' = Tail(fifo)
          \/ fifo' = Append(Tail(fifo), <<"CLOSED", Head(fifo)[2]>>)
      BY <1>3 DEF EvInvite
    <3>5. QED BY <3>1, <3>3, <3>4
  <2>4. uas' \in [Calls -> {"idle", "invited", "answered", "confirmed", "calling",
                            "talking", "hungup", "ended"}]
    BY <1>3 DEF EvInvite, TypeOK
  <2>5. TypeOK'
    BY <2>1, <2>2, <2>3, <2>4 DEF TypeOK, threads, files, history
  <2>6. StopInv'
    BY <2>1 DEF StopInv, ToMake, JoinedSoFar, Over, threads, files, AckSteps, Creates, Joins
  <2>7. QED BY <2>5, <2>6
<1>4. CASE EvReadSdp
  <2>1. TypeOK'
    BY <1>4 DEF EvReadSdp, EvKeeps, event, threads, files, history, TypeOK
  <2>2. StopInv'
    BY <1>4 DEF EvReadSdp, EvKeeps, threads, files, StopInv, ToMake, JoinedSoFar, Over,
                AckSteps, Creates, Joins
  <2>3. QED BY <2>1, <2>2
<1>5. CASE EvAnswered
  <2>1. Head(fifo) \in {"INVITE", "ANSWERED", "ACK", "CLOSED"} \X Calls
    BY <1>5 DEF EvAnswered, Take, TypeOK
  <2>2. TypeOK'
    BY <1>5, <2>1 DEF EvAnswered, Take, EvKeeps, threads, files, history, TypeOK
  <2>3. StopInv'
    BY <1>5 DEF EvAnswered, Take, EvKeeps, threads, files, StopInv, ToMake, JoinedSoFar, Over
  <2>4. QED BY <2>2, <2>3
<1>6. CASE EvAck
  <2>1. Head(fifo) \in {"INVITE", "ANSWERED", "ACK", "CLOSED"} \X Calls
    BY <1>6 DEF EvAck, Take, TypeOK
  <2>2. flag' \in [Roles -> {0, 1}] /\ flag'["audio_send"] = 1
    BY <1>6 DEF EvAck, Roles
  <2>3. gen' \in 1 .. MaxAcks /\ gen' > gen
    BY <1>6 DEF EvAck, TypeOK
  <2>4. ev' \in AckSteps /\ ev' \notin Joins /\ ev' \notin {"wait", "sdp"}
    BY <1>6 DEF EvAck, AckSteps, Joins
  <2>5. TypeOK'
    BY <1>6, <2>1, <2>2, <2>3, <2>4 DEF EvAck, Take, EvKeeps, threads, files, history, TypeOK
  <2>6. JoinedSoFar' = {} /\ ToMake' \subseteq Roles
    BY <1>6 DEF EvAck, JoinedSoFar, ToMake
  <2>7. \A r \in Roles, g \in Gens : g >= gen' => thr[<<r, g>>] = "none"
    BY <2>3 DEF StopInv, TypeOK, Gens
  <2>8. UNCHANGED <<thr, handle, joined, rtpsock>>
    BY <1>6 DEF EvAck, threads, files
  <2>9. StopInv'
    BY <2>2, <2>3, <2>4, <2>6, <2>7, <2>8 DEF StopInv, Gens
  <2>10. QED BY <2>5, <2>9
<1>7. CASE EvClosed
  <2>1. Head(fifo) \in {"INVITE", "ANSWERED", "ACK", "CLOSED"} \X Calls
    BY <1>7 DEF EvClosed, Take, TypeOK
  <2>2. flag' \in [Roles -> {0, 1}] /\ \A r \in Roles : flag'[r] = 0
    BY <1>7 DEF EvClosed
  <2>3. TypeOK'
    BY <1>7, <2>1, <2>2 DEF EvClosed, Take, EvKeeps, threads, files, history, TypeOK, Joins
  <2>4. StopInv'
    BY <1>7, <2>2 DEF EvClosed, threads, files, StopInv, ToMake, JoinedSoFar, Joins, AckSteps,
       Creates
  <2>5. QED BY <2>3, <2>4
<1>8. CASE EvMakeMedia
  <2> USE DEF ToMake, JoinedSoFar, Roles, Creates, AckSteps
  <2>1. CASE EvOpen("audio", "open_audio", "create_audio_send")
    <3>1. JoinedSoFar' = {} /\ ToMake' \subseteq ToMake
      BY <2>1 DEF EvOpen
    <3>2. QED BY <2>1, <3>1, OpenIInv
  <2>2. CASE EvOpen("video", "open_video", "create_video_send")
    <3>1. JoinedSoFar' = {} /\ ToMake' \subseteq ToMake
      BY <2>2 DEF EvOpen
    <3>2. QED BY <2>2, <3>1, OpenIInv
  <2>3. CASE EvCreate("audio_send", "create_audio_send", "create_audio_recv")
    <3>1. JoinedSoFar' = {} /\ ToMake' \subseteq ToMake \ {"audio_send"}
              /\ "audio_send" \in ToMake
      BY <2>3 DEF EvCreate
    <3>2. QED BY <2>3, <3>1, CreateIInv
  <2>4. CASE EvCreate("audio_recv", "create_audio_recv", "open_video")
    <3>1. JoinedSoFar' = {} /\ ToMake' \subseteq ToMake \ {"audio_recv"}
              /\ "audio_recv" \in ToMake
      BY <2>4 DEF EvCreate
    <3>2. QED BY <2>4, <3>1, CreateIInv
  <2>5. CASE EvCreate("video_send", "create_video_send", "create_video_recv")
    <3>1. JoinedSoFar' = {} /\ ToMake' \subseteq ToMake \ {"video_send"}
              /\ "video_send" \in ToMake
      BY <2>5 DEF EvCreate
    <3>2. QED BY <2>5, <3>1, CreateIInv
  <2>6. CASE EvCreate("video_recv", "create_video_recv", "wait")
    <3>1. JoinedSoFar' = {} /\ ToMake' \subseteq ToMake \ {"video_recv"}
              /\ "video_recv" \in ToMake
      BY <2>6 DEF EvCreate
    <3>2. QED BY <2>6, <3>1, CreateIInv
  <2>7. QED
    BY <1>8, <2>1, <2>2, <2>3, <2>4, <2>5, <2>6 DEF EvMakeMedia
<1>9. CASE EvJoinMedia
  <2> USE DEF ToMake, JoinedSoFar, Roles, Joins
  <2>1. CASE EvJoin("audio_send", "join_audio_send", "join_audio_recv")
    <3>1. ToMake' = {} /\ JoinedSoFar' \subseteq JoinedSoFar \cup {"audio_send"}
      BY <2>1 DEF EvJoin
    <3>2. QED BY <2>1, <3>1, JoinIInv
  <2>2. CASE EvJoin("audio_recv", "join_audio_recv", "join_video_send")
    <3>1. ToMake' = {} /\ JoinedSoFar' \subseteq JoinedSoFar \cup {"audio_recv"}
      BY <2>2 DEF EvJoin
    <3>2. QED BY <2>2, <3>1, JoinIInv
  <2>3. CASE EvJoin("video_send", "join_video_send", "join_video_recv")
    <3>1. ToMake' = {} /\ JoinedSoFar' \subseteq JoinedSoFar \cup {"video_send"}
      BY <2>3 DEF EvJoin
    <3>2. QED BY <2>3, <3>1, JoinIInv
  <2>4. CASE EvJoin("video_recv", "join_video_recv", "wait")
    <3>1. /\ ToMake' = {} /\ JoinedSoFar' \subseteq JoinedSoFar \cup {"video_recv"}
          /\ JoinedSoFar \cup {"video_recv"} = Roles
      BY <2>4 DEF EvJoin
    <3>2. QED BY <2>4, <3>1, JoinIInv
  <2>5. QED
    BY <1>9, <2>1, <2>2, <2>3, <2>4 DEF EvJoinMedia
<1>10. CASE EvCrash \/ UNCHANGED vars
  <2>1. UNCHANGED <<world, uas, acks, fifo, event, flag, threads, files, history>>
            /\ proc' \in {proc, "exited"}
    BY <1>10 DEF EvCrash, EvUseFreed, EvNoSdp, vars
  <2>2. TypeOK'
    BY <2>1 DEF TypeOK, event, threads, files, history
  <2>3. StopInv'
    BY <2>1 DEF StopInv, ToMake, JoinedSoFar, Over, event, threads, files
  <2>4. QED BY <2>2, <2>3
<1>11. ASSUME NEW r \in {"audio_send", "audio_recv"}, NEW g \in Gens, AudioDeviceFails(r, g)
       PROVE  IInv'
  <2>1. UNCHANGED <<world, uas, acks, fifo, event, flag, threads, files, history>>
            /\ proc' = "exited"
    BY <1>11 DEF AudioDeviceFails, ThreadKeeps, threads
  <2>2. TypeOK'
    BY <2>1 DEF TypeOK, event, threads, files, history
  <2>3. StopInv'
    BY <2>1 DEF StopInv, ToMake, JoinedSoFar, Over, event, threads, files
  <2>4. QED BY <2>2, <2>3
<1>12. ASSUME NEW r \in Roles, NEW g \in Gens,
              \/ r \in {"audio_send", "audio_recv"} /\ AudioStart(r, g)
              \/ r = "video_recv" /\ VideoRecvStart(g)
              \/ LeaveLoop(r, g)
              \/ r = "audio_send" /\ AudioSendFails(g)
              \/ r = "video_send" /\ VideoReadFails(g)
       PROVE  IInv'
  <2>1. /\ ThreadKeeps /\ UNCHANGED <<files, proc, history>>
        /\ thr[<<r, g>>] \in Live
        /\ \E to \in Live \cup {"done"} :
             /\ thr' = [thr EXCEPT ![<<r, g>>] = to]
             /\ thr[<<r, g>>] = "start" => r # "video_send" \/ to = "done"
    BY <1>12 DEF AudioStart, VideoRecvStart, LeaveLoop, AudioSendFails, VideoReadFails, Goto, Live
  <2>2. thr' \in [Threads -> {"none", "done"} \cup Live]
    BY <2>1 DEF TypeOK
  <2>3. TypeOK'
    BY <2>1, <2>2 DEF TypeOK, ThreadKeeps, event, files, history
  <2>4. rtpsock' = rtpsock
    BY <2>1 DEF files
  <2>5. QED BY <2>1, <2>3, <2>4, MediaIInv
<1>13. ASSUME NEW r \in {"audio_send", "audio_recv", "video_recv"}, NEW g \in Gens,
              NEW kind \in {"audio", "video"}, CloseSocket(r, g, kind)
       PROVE  IInv'
  <2>1. /\ ThreadKeeps /\ UNCHANGED <<sock, rtpsock, rtpfd, freed, proc, peer, twice>>
        /\ thr[<<r, g>>] \in Live /\ thr[<<r, g>>] # "start" /\ r \in Roles
        /\ thr' = [thr EXCEPT ![<<r, g>>] = "done"]
    BY <1>13 DEF CloseSocket, Goto, Live, Roles
  <2>2. thr' \in [Threads -> {"none", "done"} \cup Live]
    BY <2>1 DEF TypeOK
  <2>3. fdt' \in [Fds -> (Kinds \X Gens) \cup {Free}] /\ foreign' \in Roles \cup {"none"}
    BY <1>13, <2>1 DEF CloseSocket, Close, TypeOK
  <2>4. TypeOK'
    BY <2>1, <2>2, <2>3 DEF TypeOK, ThreadKeeps, event
  <2>5. QED BY <2>1, <2>4, MediaIInv
<1>14. ASSUME NEW g \in Gens, VideoSendStart(g) PROVE IInv'
  <2>1. /\ ThreadKeeps /\ UNCHANGED <<sock, freed, proc, twice, foreign>>
        /\ thr[<<"video_send", g>>] \in Live /\ rtpsock' = g
        /\ thr' = [thr EXCEPT ![<<"video_send", g>>] = "run"]
    BY <1>14 DEF VideoSendStart, Goto, Live
  <2>2. thr' \in [Threads -> {"none", "done"} \cup Live] /\ "run" \in Live
    BY <2>1 DEF TypeOK, Live
  <2>3. LowestFree \in Fds
    BY <1>14, LowestFreeIsFree DEF VideoSendStart
  <2>4. <<"rtp", g>> \in Kinds \X Gens
    BY DEF Kinds
  <2>5. fdt' \in [Fds -> (Kinds \X Gens) \cup {Free}]
    BY <1>14, <2>4 DEF VideoSendStart, Opened, TypeOK
  <2>6. rtpfd' \in [Gens -> Fds \cup {NoFd}] /\ rtpsock' \in 0 .. MaxAcks /\ rtpsock' # 0
    <3>1. rtpfd' = rtpfd \/ rtpfd' = [rtpfd EXCEPT ![g] = LowestFree]
      BY <1>14 DEF VideoSendStart
    <3>2. rtpfd' \in [Gens -> Fds \cup {NoFd}]
      BY <2>3, <3>1 DEF TypeOK
    <3>3. QED BY <2>1, <3>2 DEF Gens
  <2>7. peer' \in [Gens -> PeerOf]
    BY ZenonT(40), <1>14 DEF VideoSendStart, TypeOK, PeerOf
  <2>8. TypeOK'
    BY <2>1, <2>2, <2>5, <2>6, <2>7 DEF TypeOK, ThreadKeeps, event
  <2>9. QED BY <2>1, <2>2, <2>6, <2>8, MediaIInv DEF Roles
<1>15. ASSUME NEW g \in Gens, VideoSendClose(g) PROVE IInv'
  <2>1. /\ ThreadKeeps /\ UNCHANGED <<sock, rtpsock, rtpfd, peer, twice>>
        /\ thr[<<"video_send", g>>] = "closing"
        /\ thr' = [thr EXCEPT ![<<"video_send", g>>] = "done"]
        /\ proc' \in {proc, "exited"}
    BY <1>15 DEF VideoSendClose, Goto
  <2>2. thr' \in [Threads -> {"none", "done"} \cup Live]
    BY <2>1 DEF TypeOK
  <2>3. rtpsock \in Gens
    BY <2>1 DEF StopInv, TypeOK, Gens
  <2>4. /\ fdt' \in [Fds -> (Kinds \X Gens) \cup {Free}] /\ foreign' \in Roles \cup {"none"}
        /\ freed' \subseteq Gens
    BY <1>15, <2>3 DEF VideoSendClose, Close, TypeOK, Roles
  <2>5. TypeOK'
    BY <2>1, <2>2, <2>4 DEF TypeOK, ThreadKeeps, event
  <2>6. QED BY <2>1, <2>5, MediaIInv DEF Roles, Live
<1>16. CASE EventThread
  BY <1>3, <1>4, <1>5, <1>6, <1>7, <1>8, <1>9, <1>16 DEF EventThread
<1>17. ASSUME NEW r \in Roles, NEW g \in Gens, MediaThread(r, g) PROVE IInv'
  BY <1>12, <1>13, <1>14, <1>15, <1>17
  DEF MediaThread, AudioThread, VideoSendThread, VideoRecvThread, Roles
<1>18. ASSUME NEW g \in Gens, MediaFault(g) PROVE IInv'
  BY <1>11, <1>12, <1>18 DEF MediaFault, Roles
<1>19. QED
  BY <1>1, <1>2, <1>10, <1>16, <1>17, <1>18 DEF Next

\* Every variable keeps its type, in every behaviour of the phone.
THEOREM TypeCorrect == Spec => []TypeOK
<1>1. IInv => TypeOK
  BY DEF IInv
<1>2. QED
  BY InitIInv, NextIInv, <1>1, PTL DEF Spec

\* After a CALL_CLOSED the event thread waits for events with no thread of a
\* kept handle alive: for every number of calls and acknowledgements, every
\* failure and every order of the media threads' last steps.
THEOREM StoppedWhenClosed == Spec => []ClosedMeansStopped
<1>1. IInv => ClosedMeansStopped
  BY DEF IInv, StopInv, ClosedMeansStopped
<1>2. QED
  BY InitIInv, NextIInv, <1>1, PTL DEF Spec
-----------------------------------------------------------------------------
(* The queue.                                                              *)

\* An event is put at the end of the queue.
Puts(x) ==
  /\ Len(fifo') = Len(fifo) + 1
  /\ \A i \in 1 .. Len(fifo) : fifo'[i] = fifo[i]
  /\ fifo'[Len(fifo) + 1] = x

\* The first event is taken.
Takes ==
  /\ Len(fifo) > 0 /\ Len(fifo') = Len(fifo) - 1
  /\ \A i \in 1 .. Len(fifo') : fifo'[i] = fifo[i + 1]

LEMMA QueueType ==
  ASSUME TypeOK
  PROVE  /\ Len(fifo) \in Nat
         /\ \A i \in 1 .. Len(fifo) :
              fifo[i][1] \in {"INVITE", "ANSWERED", "ACK", "CLOSED"} /\ fifo[i][2] \in Calls
         /\ fifo = <<>> <=> Len(fifo) = 0
         /\ fifo # <<>> => Head(fifo) = fifo[1]
BY DEF TypeOK

LEMMA ReportPuts ==
  ASSUME TypeOK, NEW type, NEW c, Report(type, c)
  PROVE  Puts(<<type, c>>)
BY DEF TypeOK, Report, Puts

LEMMA TailTakes ==
  ASSUME TypeOK, fifo # <<>>, fifo' = Tail(fifo)
  PROVE  Takes
BY DEF TypeOK, Takes

-----------------------------------------------------------------------------
(* One set of threads at a time.                                           *)

Plain == NoFault({"dupack", "overlap", "hangup"})

Active(c) == uas[c] \notin {"idle", "hungup", "ended"}

\* One call at a time.
OneActive == \A c, d \in Calls : Active(c) /\ Active(d) => c = d

\* Nobody makes a thread, and none is live.
NoMedia == ev \notin AckSteps /\ \A r \in Roles, g \in Gens : ~IsLive(r, g)

\* Where the events of a call can be in the queue.
QueueInv ==
  \A c \in Calls :
    /\ uas[c] = "idle" => \A i \in 1 .. Len(fifo) : fifo[i][2] # c
    /\ uas[c] = "invited" =>
         \A i \in 1 .. Len(fifo) : fifo[i][1] = "INVITE" /\ fifo[i][2] = c => i = Len(fifo)
    /\ uas[c] = "answered" => Len(fifo) = 0
    /\ uas[c] = "confirmed" =>
         Len(fifo) = 0 \/ (Len(fifo) = 1 /\ fifo[1][1] = "ACK" /\ fifo[1][2] = c)

\* A CALL_ACK is the first event, and the end of its call is next.
AckInv ==
  \A i \in 1 .. Len(fifo) : fifo[i][1] = "ACK" =>
    /\ i = 1
    /\ \/ uas[fifo[1][2]] = "confirmed"
       \/ Len(fifo) > 1 /\ fifo[2][1] = "CLOSED"

\* Media belong to a call that is up, or whose end is the next event.
MediaInv ==
  /\ ~NoMedia => \/ Len(fifo) = 0 /\ \E c \in Calls : uas[c] = "confirmed"
                 \/ Len(fifo) > 0 /\ fifo[1][1] = "CLOSED"
                 \/ ev \in Joins
  /\ \A c \in Calls : uas[c] = "answered" => NoMedia
  /\ \A i \in 1 .. Len(fifo) : fifo[i][1] = "ACK" => NoMedia
  /\ ev = "sdp" => NoMedia

\* A live thread is one whose handle is kept, and a handle is overwritten when
\* no thread of its role is live.
HandleInv ==
  /\ \A r \in Roles, g \in Gens : IsLive(r, g) => handle[r] = g
  /\ \A r \in ToMake, g \in Gens : ~IsLive(r, g)

PlainInv == OneActive /\ QueueInv /\ AckInv /\ MediaInv /\ HandleInv

\* A step of a media thread makes no thread live and leaves the calls alone.
ThreadsGoOn ==
  /\ UNCHANGED <<world, uas, acks, fifo, event, flag, handle, joined>>
  /\ \A r \in Roles, g \in Gens : IsLive(r, g)' => IsLive(r, g)

LEMMA MediaGoesOn ==
  ASSUME TypeOK, NEW g \in Gens,
         MediaFault(g) \/ \E r \in Roles : MediaThread(r, g)
  PROVE  ThreadsGoOn
<1>1. ASSUME NEW r \in Roles, NEW from \in Live, NEW to \in {"run", "closing", "done"},
             Goto(r, g, from, to)
      PROVE  ThreadsGoOn
  BY <1>1 DEF ThreadsGoOn, Goto, ThreadKeeps, event, IsLive, Live, Threads, TypeOK
<1>2. ASSUME NEW r \in Roles, AudioDeviceFails(r, g) PROVE ThreadsGoOn
  BY <1>2 DEF AudioDeviceFails, ThreadsGoOn, ThreadKeeps, event, IsLive
<1>3. ASSUME NEW r \in Roles, MediaThread(r, g) PROVE ThreadsGoOn
  BY <1>1, <1>3 DEF MediaThread, AudioThread, VideoSendThread, VideoRecvThread, AudioStart,
     LeaveLoop, CloseSocket, VideoRecvStart, VideoSendStart, VideoSendClose, Live, Roles
<1>4. QED
  BY <1>1, <1>2, <1>3 DEF MediaFault, AudioSendFails, VideoReadFails, Live, Roles

\* A step that leaves the event thread, the threads and their handles alone.
Calm == UNCHANGED <<ev, gen, handle, thr>>

LEMMA CalmMedia ==
  ASSUME Calm
  PROVE  /\ NoMedia' <=> NoMedia
         /\ HandleInv => HandleInv'
BY DEF Calm, NoMedia, HandleInv, IsLive, ToMake

\* The peer, eXosip and the user: what they put in the queue comes behind what
\* is there, and only one call at a time puts something there.
LEMMA PeerPlain ==
  ASSUME IInv, Plain, PlainInv, NEW d \in Calls \cup {None},
         (d \in Calls /\ Peer(d)) \/ Main \/ EvCrash
  PROVE  PlainInv'
<1> USE DEF IInv, PlainInv
<1>0. /\ Len(fifo) \in Nat /\ uas \in [Calls -> {"idle", "invited", "answered", "confirmed",
                                                "calling", "talking", "hungup", "ended"}]
      /\ \A i \in 1 .. Len(fifo) : fifo[i][2] \in Calls
  BY QueueType DEF TypeOK
<1>1. CASE d \in Calls /\ PeerInvite(d)
  <2>1. /\ uas[d] = "idle" /\ \A c \in Calls : ~Active(c)
        /\ uas' = [uas EXCEPT ![d] = "invited"] /\ Puts(<<"INVITE", d>>) /\ Calm
    BY <1>1, ReportPuts DEF PeerInvite, Plain, NoFault, Active, EnvKeeps, Calm, event, threads
  <2>2. OneActive' /\ QueueInv'
    BY <1>0, <2>1 DEF OneActive, Active, QueueInv, Puts
  <2>3. AckInv'
    BY <1>0, <2>1 DEF AckInv, Active, Puts
  <2>4. MediaInv' /\ HandleInv'
    BY <1>0, <2>1, CalmMedia DEF MediaInv, Calm, Active, Puts
  <2>5. QED BY <2>2, <2>3, <2>4
<1>2. CASE d \in Calls /\ PeerCancel(d)
  <2>1. /\ uas[d] = "invited" /\ Active(d) /\ \A c \in Calls : Active(c) => c = d
        /\ uas' = [uas EXCEPT ![d] = "ended"] /\ Puts(<<"CLOSED", d>>) /\ Calm
    BY <1>2, ReportPuts DEF PeerCancel, Active, OneActive, EnvKeeps, Calm, event, threads
  <2>2. OneActive' /\ QueueInv'
    BY <1>0, <2>1 DEF OneActive, Active, QueueInv, Puts
  <2>3. AckInv'
    BY <1>0, <2>1 DEF AckInv, Active, Puts
  <2>4. MediaInv' /\ HandleInv'
    BY <1>0, <2>1, CalmMedia DEF MediaInv, Calm, Active, Puts
  <2>5. QED BY <2>2, <2>3, <2>4
<1>3. CASE d \in Calls /\ PeerAck(d)
  <2>1. /\ uas[d] = "answered" /\ Active(d) /\ \A c \in Calls : Active(c) => c = d
        /\ uas' = [uas EXCEPT ![d] = "confirmed"] /\ Puts(<<"ACK", d>>) /\ Calm
    BY <1>3, ReportPuts DEF PeerAck, Plain, NoFault, Active, OneActive, EnvKeeps, Calm, event,
       threads
  <2>2. Len(fifo) = 0 /\ NoMedia
    BY <1>3, <2>1 DEF QueueInv, MediaInv
  <2>3. OneActive' /\ QueueInv'
    BY <1>0, <2>1, <2>2 DEF OneActive, Active, QueueInv, Puts
  <2>4. AckInv'
    BY <1>0, <1>3, <2>1, <2>2 DEF AckInv, Puts
  <2>5. MediaInv' /\ HandleInv'
    BY <1>0, <2>1, <2>2, CalmMedia DEF MediaInv, Calm
  <2>6. QED BY <2>3, <2>4, <2>5
<1>4. CASE d \in Calls /\ PeerAnswer(d)
  <2>1. /\ uas[d] = "calling" /\ Active(d) /\ \A c \in Calls : Active(c) => c = d
        /\ uas' = [uas EXCEPT ![d] = "talking"] /\ Puts(<<"ANSWERED", d>>) /\ Calm
    BY <1>4, ReportPuts DEF PeerAnswer, Active, OneActive, EnvKeeps, Calm, event, threads
  <2>2. OneActive' /\ QueueInv'
    BY <1>0, <2>1 DEF OneActive, Active, QueueInv, Puts
  <2>3. AckInv'
    BY <1>0, <2>1 DEF AckInv, Active, Puts
  <2>4. MediaInv' /\ HandleInv'
    BY <1>0, <2>1, CalmMedia DEF MediaInv, Calm, Active, Puts
  <2>5. QED BY <2>2, <2>3, <2>4
<1>5. CASE d \in Calls /\ (PeerBye(d) \/ AckTimeout(d))
  <2>1. /\ uas[d] \in {"answered", "confirmed", "talking"}
        /\ Active(d) /\ \A c \in Calls : Active(c) => c = d
        /\ uas' = [uas EXCEPT ![d] = "ended"] /\ Puts(<<"CLOSED", d>>) /\ Calm
    BY <1>5, ReportPuts DEF PeerBye, AckTimeout, Active, OneActive, EnvKeeps, Calm, event, threads
  <2>2. OneActive' /\ QueueInv'
    BY <1>0, <2>1 DEF OneActive, Active, QueueInv, Puts
  <2>3. AckInv'
    BY <1>0, <2>1 DEF AckInv, Active, QueueInv, Puts
  <2>4. MediaInv' /\ HandleInv'
    BY <1>0, <2>1, CalmMedia DEF MediaInv, Calm, Active, Puts, AckInv
  <2>5. QED BY <2>2, <2>3, <2>4
<1>6. ASSUME NEW c \in Calls, MainInvite(c) PROVE PlainInv'
  <2>1. /\ uas[c] = "idle" /\ \A e \in Calls : ~Active(e)
        /\ uas' = [uas EXCEPT ![c] = "calling"] /\ fifo' = fifo /\ Calm
    BY <1>6 DEF MainInvite, Active, MainKeeps, Calm, event, threads
  <2>2. OneActive' /\ QueueInv'
    BY <1>0, <2>1 DEF OneActive, Active, QueueInv
  <2>3. AckInv'
    BY <1>0, <2>1 DEF AckInv, Active
  <2>4. MediaInv' /\ HandleInv'
    BY <1>0, <2>1, CalmMedia DEF MediaInv, Calm, Active
  <2>5. QED BY <2>2, <2>3, <2>4
<1>7. CASE MainStopVideo \/ MainQuit \/ MainExit \/ EvCrash
  <2>1. UNCHANGED <<uas, fifo>> /\ Calm
    BY <1>7 DEF MainStopVideo, MainQuit, MainExit,
       EvCrash, EvUseFreed, EvNoSdp, MainKeeps, Calm, event, threads
  <2>2. OneActive' /\ QueueInv' /\ AckInv'
    BY <2>1 DEF OneActive, Active, QueueInv, AckInv
  <2>3. MediaInv' /\ HandleInv'
    BY <2>1, CalmMedia DEF MediaInv, Calm
  <2>4. QED BY <2>2, <2>3
<1>8. ~MainHangup
  BY DEF MainHangup, Plain, NoFault
<1>9. QED
  BY <1>1, <1>2, <1>3, <1>4, <1>5, <1>6, <1>7, <1>8 DEF Peer, Main

\* The events: one that is taken brings the next to the head of the queue.
LEMMA EventPlain ==
  ASSUME IInv, Plain, PlainInv, EvInvite \/ EvReadSdp \/ EvAnswered \/ EvAck \/ EvClosed
  PROVE  PlainInv'
<1> USE DEF IInv, PlainInv
<1>0. /\ Len(fifo) \in Nat /\ uas \in [Calls -> {"idle", "invited", "answered", "confirmed",
                                                "calling", "talking", "hungup", "ended"}]
      /\ \A i \in 1 .. Len(fifo) : fifo[i][2] \in Calls
      /\ fifo = <<>> <=> Len(fifo) = 0
      /\ fifo # <<>> => Head(fifo) = fifo[1]
  BY QueueType DEF TypeOK
<1>1. CASE EvInvite
  <2> DEFINE c == fifo[1][2]
  <2>1. /\ ev = "wait" /\ ev' = "sdp" /\ fifo # <<>> /\ Len(fifo) > 0 /\ fifo[1][1] = "INVITE"
        /\ UNCHANGED <<gen, handle, thr>> /\ c \in Calls
        /\ \/ uas[c] = "invited" /\ uas' = [uas EXCEPT ![c] = "answered"] /\ fifo' = Tail(fifo)
           \/ /\ uas[c] = "invited" /\ uas' = [uas EXCEPT ![c] = "ended"]
              /\ fifo' = Append(Tail(fifo), <<"CLOSED", c>>)
           \/ uas[c] # "invited" /\ uas' = uas /\ fifo' = Tail(fifo)
    BY <1>0, <1>1 DEF EvInvite, Take, threads
  <2>2. NoMedia /\ NoMedia' /\ HandleInv'
    BY <2>1 DEF MediaInv, NoMedia, IsLive, AckSteps, Creates, Joins, HandleInv, ToMake
  <2>3. \A i \in 1 .. Len(fifo) : fifo[i][1] # "ACK"
    BY <1>0, <2>1 DEF AckInv
  <2>4. CASE uas[c] = "invited"
    <3>1. Len(fifo) = 1
      <4>1. 1 \in 1 .. Len(fifo) /\ fifo[1][1] = "INVITE" /\ fifo[1][2] = c
        BY <1>0, <2>1
      <4>2. QED BY <2>1, <2>4, <4>1 DEF QueueInv
    <3>2. \A e \in Calls : Active(e) => e = c
      BY <2>1, <2>4 DEF OneActive, Active
    <3>3. \/ uas' = [uas EXCEPT ![c] = "answered"] /\ Len(fifo') = 0
          \/ /\ uas' = [uas EXCEPT ![c] = "ended"]
             /\ Len(fifo') = 1 /\ fifo'[1] = <<"CLOSED", c>>
      BY <2>1, <2>4, <3>1 DEF TypeOK
    <3>4. OneActive' /\ QueueInv' /\ AckInv'
      BY <1>0, <2>1, <3>1, <3>2, <3>3 DEF OneActive, Active, QueueInv, AckInv
    <3>5. MediaInv'
      BY <1>0, <2>1, <2>2, <3>1, <3>2, <3>3 DEF MediaInv
    <3>6. QED BY <2>2, <3>4, <3>5
  <2>5. CASE uas[c] # "invited"
    <3>1. uas' = uas /\ Takes
      BY <2>1, <2>5, TailTakes
    <3>2. OneActive' /\ QueueInv' /\ AckInv'
      <4>1. OneActive'
        BY <1>0, <2>1, <2>3, <3>1 DEF OneActive, Active
      <4>2. QueueInv'
        BY <1>0, <2>1, <2>3, <3>1 DEF QueueInv, Takes
      <4>3. AckInv'
        BY <1>0, <2>1, <2>3, <3>1 DEF AckInv, Takes
      <4>4. QED BY <4>1, <4>2, <4>3
    <3>3. MediaInv'
      BY <2>2 DEF MediaInv
    <3>4. QED BY <2>2, <3>2, <3>3
  <2>6. QED BY <2>4, <2>5
<1>2. CASE EvReadSdp
  <2>1. ev = "sdp" /\ ev' = "wait" /\ UNCHANGED <<uas, fifo, gen, handle, thr>>
    BY <1>2 DEF EvReadSdp, threads
  <2>2. NoMedia /\ NoMedia' /\ HandleInv'
    BY <2>1 DEF MediaInv, NoMedia, IsLive, AckSteps, Creates, HandleInv, ToMake
  <2>3. OneActive' /\ QueueInv' /\ AckInv' /\ MediaInv'
    BY <2>1, <2>2 DEF OneActive, Active, QueueInv, AckInv, MediaInv
  <2>4. QED BY <2>2, <2>3
<1>3. CASE EvAnswered
  <2>1. /\ ev = "wait" /\ Calm /\ uas' = uas /\ Len(fifo) > 0 /\ fifo[1][1] = "ANSWERED" /\ Takes
    BY <1>0, <1>3, TailTakes DEF EvAnswered, Take, threads, Calm
  <2>2. NoMedia /\ \A i \in 1 .. Len(fifo) : fifo[i][1] # "ACK"
    BY <1>0, <2>1 DEF MediaInv, AckInv, Joins
  <2>3. OneActive' /\ QueueInv' /\ AckInv'
    <3>1. OneActive'
      BY <1>0, <2>1, <2>2 DEF OneActive, Active
    <3>2. QueueInv'
      BY <1>0, <2>1, <2>2 DEF QueueInv, Takes
    <3>3. AckInv'
      BY <1>0, <2>1, <2>2 DEF AckInv, Takes
    <3>4. QED BY <3>1, <3>2, <3>3
  <2>4. MediaInv' /\ HandleInv'
    BY <2>1, <2>2, CalmMedia DEF MediaInv
  <2>5. QED BY <2>3, <2>4
<1>4. CASE EvAck
  <2>1. /\ ev = "wait" /\ ev' = "open_audio" /\ UNCHANGED <<uas, handle, thr>>
        /\ Len(fifo) > 0 /\ fifo[1][1] = "ACK" /\ Takes
    BY <1>0, <1>4, TailTakes DEF EvAck, Take, threads
  <2>2. /\ \A r \in Roles, g \in Gens : ~IsLive(r, g)
        /\ \A c \in Calls : uas[c] # "answered"
    BY <1>0, <2>1 DEF MediaInv, NoMedia, QueueInv
  <2>3. HandleInv'
    BY <2>1, <2>2 DEF HandleInv, IsLive, ToMake
  <2>4. OneActive' /\ QueueInv' /\ AckInv'
    <3>1. OneActive'
      BY <1>0, <2>1 DEF OneActive, Active
    <3>2. QueueInv'
      BY SMTT(20), <1>0, <2>1 DEF QueueInv, Takes
    <3>3. AckInv'
      BY <1>0, <2>1 DEF AckInv, Takes
    <3>4. QED BY <3>1, <3>2, <3>3
  <2>5. \/ Len(fifo') = 0 /\ \E c \in Calls : uas'[c] = "confirmed"
        \/ Len(fifo') > 0 /\ fifo'[1][1] = "CLOSED"
    BY <1>0, <2>1 DEF AckInv, QueueInv, Takes
  <2>6. MediaInv'
    BY <1>0, <2>1, <2>2, <2>4, <2>5 DEF MediaInv, AckInv, Takes
  <2>7. QED BY <2>3, <2>4, <2>6
<1>5. CASE EvClosed
  <2>1. /\ ev = "wait" /\ ev' = "join_audio_send" /\ UNCHANGED <<uas, gen, handle, thr>>
        /\ Len(fifo) > 0 /\ fifo[1][1] = "CLOSED" /\ Takes
    BY <1>0, <1>5, TailTakes DEF EvClosed, Take, threads
  <2>2. /\ \A i \in 1 .. Len(fifo) : fifo[i][1] # "ACK"
        /\ \A c \in Calls : uas[c] \notin {"answered", "confirmed"}
    BY <1>0, <2>1 DEF AckInv, QueueInv
  <2>3. HandleInv'
    BY <2>1 DEF HandleInv, IsLive, ToMake
  <2>4. OneActive' /\ QueueInv' /\ AckInv'
    <3>1. OneActive'
      BY <1>0, <2>1, <2>2 DEF OneActive, Active
    <3>2. QueueInv'
      BY <1>0, <2>1, <2>2 DEF QueueInv, Takes
    <3>3. AckInv'
      BY <1>0, <2>1, <2>2 DEF AckInv, Takes
    <3>4. QED BY <3>1, <3>2, <3>3
  <2>5. MediaInv'
    BY <1>0, <2>1, <2>2 DEF MediaInv, Takes, Joins
  <2>6. QED BY <2>3, <2>4, <2>5
<1>6. QED BY <1>1, <1>2, <1>3, <1>4, <1>5

\* Making and joining threads, and the threads themselves.
LEMMA ThreadPlain ==
  ASSUME IInv, IInv', PlainInv, EvMakeMedia \/ EvJoinMedia \/ ThreadsGoOn
  PROVE  PlainInv'
<1> USE MaxAcksAssumption DEF IInv, PlainInv
<1>1. ASSUME NEW kind \in {"audio", "video"}, NEW at \in {"open_audio", "open_video"},
             NEW next \in Creates, EvOpen(kind, at, next), ToMake' \subseteq ToMake
       PROVE  PlainInv'
  <2>1. OneActive' /\ QueueInv' /\ AckInv'
    BY <1>1 DEF EvOpen, EvKeeps, threads, OneActive, Active, QueueInv, AckInv
  <2>2. MediaInv'
    BY <1>1 DEF EvOpen, EvKeeps, threads, MediaInv, NoMedia, IsLive, Threads, AckSteps, Joins,
       Creates
  <2>3. HandleInv'
    BY <1>1 DEF EvOpen, EvKeeps, threads, HandleInv, IsLive, Threads
  <2>4. QED BY <2>1, <2>2, <2>3
<1>2. ASSUME NEW r \in Roles, NEW at \in Creates, NEW next \in AckSteps \cup {"wait"},
             EvCreate(r, at, next), r \in ToMake, ToMake' \subseteq ToMake \ {r}
       PROVE  PlainInv'
  <2>1. gen \in Gens /\ <<r, gen>> \in Threads
    BY <1>2 DEF EvCreate, StopInv, TypeOK, AckSteps, Gens, Threads
  <2>2. OneActive' /\ QueueInv' /\ AckInv'
    BY <1>2 DEF EvCreate, EvKeeps, files, history, OneActive, Active, QueueInv, AckInv
  <2>3. MediaInv'
    BY <1>2 DEF EvCreate, EvKeeps, files, history, MediaInv, NoMedia, AckSteps, Joins, Creates
  <2>4. /\ \A q \in Roles, g \in Gens : IsLive(q, g)' => IsLive(q, g) \/ (q = r
               /\ g = gen /\ handle'[r] = gen)
        /\ \A q \in Roles : q # r => handle'[q] = handle[q]
    BY SMTT(20), <1>2, <2>1 DEF EvCreate, IsLive, Live, TypeOK, Threads
  <2>5. HandleInv'
    <3>1. ASSUME NEW q \in Roles, NEW g \in Gens, IsLive(q, g)' PROVE handle'[q] = g
      BY <1>2, <2>4, <3>1 DEF HandleInv
    <3>2. ASSUME NEW q \in ToMake', NEW g \in Gens PROVE ~IsLive(q, g)'
      BY <1>2, <2>4, <3>2 DEF HandleInv, ToMake, Roles
    <3>3. QED BY <3>1, <3>2 DEF HandleInv
  <2>6. QED BY <2>2, <2>3, <2>5
<1>3. ASSUME NEW r \in Roles, NEW at \in Joins, NEW next \in Joins \cup {"wait"},
             EvJoin(r, at, next), ToMake' = {}
       PROVE  PlainInv'
  <2>1. OneActive' /\ QueueInv' /\ AckInv'
    BY <1>3 DEF EvJoin, files, OneActive, Active, QueueInv, AckInv
  <2>2. HandleInv'
    BY <1>3 DEF EvJoin, files, HandleInv, IsLive
  <2>3. next = "wait" => NoMedia'
    <3>1. SUFFICES ASSUME next = "wait" PROVE NoMedia'
      OBVIOUS
    <3>2. \A q \in Roles : Over(q)'
      BY <1>3, <3>1 DEF EvJoin, StopInv
    <3>3. ASSUME NEW q \in Roles, NEW g \in Gens PROVE ~IsLive(q, g)'
      BY <2>2, <3>2, <3>3 DEF Over, HandleInv, IsLive, Live, Gens
    <3>4. QED BY <1>3, <3>1, <3>3 DEF EvJoin, NoMedia, AckSteps, Creates
  <2>4. NoMedia => NoMedia'
    BY <1>3 DEF EvJoin, NoMedia, IsLive, AckSteps, Creates, Joins
  <2>5. MediaInv'
    BY <1>3, <2>3, <2>4 DEF EvJoin, files, MediaInv, Joins
  <2>6. QED BY <2>1, <2>2, <2>5
<1>4. CASE ThreadsGoOn
  <2>1. OneActive' /\ QueueInv' /\ AckInv'
    BY <1>4 DEF ThreadsGoOn, event, OneActive, Active, QueueInv, AckInv
  <2>2. NoMedia => NoMedia'
    BY <1>4 DEF ThreadsGoOn, event, NoMedia
  <2>3. MediaInv'
    BY <1>4, <2>2 DEF ThreadsGoOn, event, MediaInv
  <2>4. HandleInv'
    <3>1. UNCHANGED <<ev, handle>> /\ ToMake' = ToMake
      BY <1>4 DEF ThreadsGoOn, event, ToMake
    <3>2. \A q \in Roles, g \in Gens : IsLive(q, g)' => IsLive(q, g)
      BY <1>4 DEF ThreadsGoOn
    <3>3. ToMake \subseteq Roles
      BY DEF ToMake, Roles
    <3>4. QED BY <3>1, <3>2, <3>3 DEF HandleInv
  <2>5. QED BY <2>1, <2>3, <2>4
<1>5. CASE EvMakeMedia
  BY <1>1, <1>2, <1>5 DEF EvMakeMedia, ToMake, Creates, AckSteps, Roles, EvOpen, EvCreate
<1>6. CASE EvJoinMedia
  BY <1>3, <1>6 DEF EvJoinMedia, ToMake, Joins, Roles, EvJoin
<1>7. QED BY <1>4, <1>5, <1>6

LEMMA PlainStep ==
  ASSUME IInv, IInv', Plain, PlainInv, Next
  PROVE  PlainInv'
<1>0. IInv => TypeOK
  BY DEF IInv
<1>1. CASE \E c \in Calls : Peer(c)
  BY <1>1, PeerPlain
<1>2. CASE Main \/ EvCrash
  BY <1>2, PeerPlain
<1>3. CASE EventThread
  BY <1>3, EventPlain, ThreadPlain DEF EventThread
<1>4. CASE (\E r \in Roles, g \in Gens : MediaThread(r, g)) \/ \E g \in Gens : MediaFault(g)
  BY <1>0, <1>4, MediaGoesOn, ThreadPlain
<1>5. QED BY <1>1, <1>2, <1>3, <1>4 DEF Next

-----------------------------------------------------------------------------
(* Where the media go.                                                     *)

\* The call whose SDP is the last one read when the handler is back.
Target == IF ev = "sdp" THEN je ELSE dest

\* A call that is up, or whose CALL_ACK waits, is the one the destination was
\* read from; so are the call of the threads being made and that of every live
\* thread.
DestInv ==
  /\ \A c \in Calls : uas[c] \in {"answered", "confirmed"} => Target = c
  /\ \A i \in 1 .. Len(fifo) : fifo[i][1] = "ACK" => Target = fifo[i][2]
  /\ ev \in AckSteps => je = dest
  /\ ev \in AckSteps \ {"open_audio"} => peer[gen].call = dest
  /\ \A r \in Roles, g \in Gens : IsLive(r, g) => peer[g].call = dest
  /\ \A g \in Gens : peer[g].audio = peer[g].call /\ peer[g].video \in {None, peer[g].call}

\* The peer, eXosip and the user name no destination.
LEMMA PeerDest ==
  ASSUME IInv, Plain, DestInv, NEW d \in Calls \cup {None},
         (d \in Calls /\ Peer(d)) \/ Main \/ EvCrash
  PROVE  DestInv'
<1> USE DEF IInv
<1>0. /\ Len(fifo) \in Nat /\ uas \in [Calls -> {"idle", "invited", "answered", "confirmed",
                                                "calling", "talking", "hungup", "ended"}]
      /\ \A i \in 1 .. Len(fifo) : fifo[i][2] \in Calls
  BY QueueType DEF TypeOK
<1>1. UNCHANGED <<ev, je, gen, dest, thr, peer>>
  BY DEF Peer, PeerInvite, PeerCancel, PeerAck, PeerAnswer, PeerBye, AckTimeout, EnvKeeps,
     Main, MainHangup, MainInvite, MainStopVideo, MainQuit, MainExit, MainKeeps,
     EvCrash, EvUseFreed, EvNoSdp,
     event, threads, history
<1>2. \A c \in Calls : uas'[c] \in {"answered", "confirmed"}
          => uas[c] \in {"answered", "confirmed"}
  BY <1>0 DEF Peer, PeerInvite, PeerCancel, PeerAck, PeerAnswer, PeerBye, AckTimeout,
     Main, MainHangup, MainInvite, MainStopVideo, MainQuit, MainExit, EvCrash, EvUseFreed, EvNoSdp
<1>3. \A i \in 1 .. Len(fifo') : fifo'[i][1] = "ACK" =>
        \/ i \in 1 .. Len(fifo) /\ fifo'[i] = fifo[i]
        \/ fifo'[i][2] \in Calls /\ uas[fifo'[i][2]] \in {"answered", "confirmed"}
  <2>1. CASE d \in Calls /\ PeerAck(d)
    <3>1. Puts(<<"ACK", d>>) /\ uas[d] \in {"answered", "confirmed"}
      BY <2>1, ReportPuts DEF PeerAck
    <3>2. QED BY <1>0, <2>1, <3>1 DEF Puts
  <2>2. CASE \E type \in {"INVITE", "CLOSED", "ANSWERED"} : d \in Calls /\ Report(type, d)
    <3>1. PICK type \in {"INVITE", "CLOSED", "ANSWERED"} : Puts(<<type, d>>)
      BY <2>2, ReportPuts
    <3>2. QED BY <1>0, <3>1 DEF Puts
  <2>3. CASE fifo' = fifo
    BY <2>3
  <2>4. QED
    BY <2>1, <2>2, <2>3 DEF Peer, PeerInvite, PeerCancel, PeerAnswer, PeerBye, AckTimeout,
       Main, MainHangup, MainInvite, MainStopVideo, MainQuit, MainExit, MainKeeps,
       EvCrash, EvUseFreed, EvNoSdp
<1>4. Target' = Target
  BY <1>1 DEF Target
<1>5. QED BY <1>1, <1>2, <1>3, <1>4 DEF DestInv, IsLive

\* The events: the SDP that is read is that of the only call that is up, and
\* nothing is live meanwhile.
LEMMA EventDest ==
  ASSUME IInv, Plain, PlainInv, DestInv,
         EvInvite \/ EvReadSdp \/ EvAnswered \/ EvAck \/ EvClosed
  PROVE  DestInv'
<1> USE DEF IInv, PlainInv
<1>0. /\ Len(fifo) \in Nat /\ uas \in [Calls -> {"idle", "invited", "answered", "confirmed",
                                                "calling", "talking", "hungup", "ended"}]
      /\ \A i \in 1 .. Len(fifo) : fifo[i][2] \in Calls
      /\ fifo = <<>> <=> Len(fifo) = 0
      /\ fifo # <<>> => Head(fifo) = fifo[1]
  BY QueueType DEF TypeOK
<1>1. CASE EvInvite
  <2> DEFINE c == fifo[1][2]
  <2>1. /\ ev = "wait" /\ ev' = "sdp" /\ je' = c /\ Len(fifo) > 0 /\ fifo[1][1] = "INVITE"
        /\ UNCHANGED <<gen, dest, thr, peer>> /\ c \in Calls
        /\ \/ uas[c] = "invited" /\ uas' = [uas EXCEPT ![c] = "answered"] /\ fifo' = Tail(fifo)
           \/ /\ uas[c] = "invited" /\ uas' = [uas EXCEPT ![c] = "ended"]
              /\ fifo' = Append(Tail(fifo), <<"CLOSED", c>>)
           \/ uas[c] # "invited" /\ uas' = uas /\ fifo' = Tail(fifo)
    BY <1>0, <1>1 DEF EvInvite, Take, threads, history
  <2>2. \A d \in Calls : uas[d] \notin {"answered", "confirmed"}
    BY <1>0, <2>1 DEF QueueInv
  <2>3. \A d \in Calls : uas'[d] \in {"answered", "confirmed"} => d = c
    BY <1>0, <2>1, <2>2
  <2>4. \A i \in 1 .. Len(fifo) : fifo[i][1] # "ACK"
    BY <1>0, <2>1 DEF AckInv
  <2>5. \A i \in 1 .. Len(fifo') : fifo'[i][1] # "ACK"
    <3>1. fifo \in Seq({"INVITE", "ANSWERED", "ACK", "CLOSED"} \X Calls) /\ fifo # <<>>
      BY <1>0, <2>1 DEF TypeOK
    <3>2. CASE fifo' = Tail(fifo)
      BY <2>4, <3>1, <3>2
    <3>3. CASE fifo' = Append(Tail(fifo), <<"CLOSED", c>>)
      <4>1. /\ Len(fifo') = Len(fifo) /\ fifo'[Len(fifo)] = <<"CLOSED", c>>
            /\ \A i \in 1 .. Len(fifo) - 1 : fifo'[i] = fifo[i + 1]
        BY <3>1, <3>3
      <4>2. <<"CLOSED", c>>[1] # "ACK"
        OBVIOUS
      <4>3. QED BY <1>0, <2>4, <4>1, <4>2
    <3>4. QED BY <2>1, <3>2, <3>3
  <2>6. Target' = c
    BY <2>1 DEF Target
  <2>7. QED BY <2>1, <2>3, <2>5, <2>6 DEF DestInv, IsLive, AckSteps, Creates
<1>2. CASE EvReadSdp
  <2>1. /\ ev = "sdp" /\ ev' = "wait" /\ dest' = je
        /\ UNCHANGED <<uas, fifo, gen, thr, peer>>
    BY <1>2 DEF EvReadSdp, threads, history
  <2>2. Target' = Target
    BY <2>1 DEF Target
  <2>3. \A r \in Roles, g \in Gens : ~IsLive(r, g)
    BY <2>1 DEF MediaInv, NoMedia
  <2>4. QED BY <2>1, <2>2, <2>3 DEF DestInv, IsLive, AckSteps, Creates
<1>3. CASE EvAnswered \/ EvClosed
  <2>1. /\ ev = "wait" /\ ev' \in {"wait", "join_audio_send"}
        /\ UNCHANGED <<uas, gen, dest, thr, peer>> /\ Len(fifo) > 0 /\ Takes
    BY <1>0, <1>3, TailTakes DEF EvAnswered, EvClosed, Take, threads, history
  <2>2. Target' = Target
    BY <2>1 DEF Target
  <2>3. \A i \in 1 .. Len(fifo') : fifo'[i] = fifo[i + 1] /\ i + 1 \in 1 .. Len(fifo)
    BY <1>0, <2>1 DEF Takes
  <2>4. QED BY <2>1, <2>2, <2>3 DEF DestInv, IsLive, AckSteps, Creates
<1>4. CASE EvAck
  <2>1. /\ ev = "wait" /\ ev' = "open_audio" /\ je' = fifo[1][2]
        /\ UNCHANGED <<uas, dest, thr, peer>> /\ Len(fifo) > 0 /\ fifo[1][1] = "ACK" /\ Takes
    BY <1>0, <1>4, TailTakes DEF EvAck, Take, threads, history
  <2>2. Target' = Target /\ Target = dest /\ je' = dest
    BY <1>0, <2>1 DEF Target, DestInv
  <2>3. \A i \in 1 .. Len(fifo') : fifo'[i] = fifo[i + 1] /\ i + 1 \in 1 .. Len(fifo)
    BY <1>0, <2>1 DEF Takes
  <2>4. QED BY <2>1, <2>2, <2>3 DEF DestInv, IsLive
<1>5. QED BY <1>1, <1>2, <1>3, <1>4

\* Making and joining threads, and the threads themselves: the sound goes where
\* the call's SDP said, and video_send reads a destination that did not change.
LEMMA ThreadDest ==
  ASSUME IInv, DestInv,
         EvMakeMedia \/ EvJoinMedia
           \/ \E g \in Gens : MediaFault(g) \/ \E r \in Roles : MediaThread(r, g)
  PROVE  DestInv'
<1> USE MaxAcksAssumption DEF IInv
<1>0. peer \in [Gens -> PeerOf] /\ (ev \in AckSteps => gen \in Gens)
  BY DEF StopInv, TypeOK, Gens
<1>1. ASSUME NEW kind \in {"audio", "video"}, NEW at \in {"open_audio", "open_video"},
             NEW next \in Creates, EvOpen(kind, at, next), kind = "audio" <=> at = "open_audio"
       PROVE  DestInv'
  <2>1. /\ ev = at /\ UNCHANGED <<uas, fifo, gen, dest, thr>> /\ gen \in Gens /\ je = dest
        /\ ev' # "sdp" /\ ev # "sdp"
    BY <1>0, <1>1 DEF EvOpen, threads, AckSteps, Creates, DestInv
  <2>2. CASE peer' = peer /\ (ev' \in AckSteps => ev' = next /\ je' = je /\ kind = "video")
    BY <1>1, <2>1, <2>2 DEF DestInv, Target, IsLive, AckSteps
  <2>3. CASE /\ kind = "audio" /\ ev' = next /\ je' = je
             /\ peer' = [peer EXCEPT ![gen] = [call |-> je, audio |-> dest, video |-> None]]
    <3>1. /\ peer'[gen].call = dest /\ peer'[gen].audio = dest /\ peer'[gen].video = None
          /\ \A g \in Gens : g # gen => peer'[g] = peer[g]
      BY <1>0, <2>1, <2>3
    <3>2. QED BY <1>1, <2>1, <2>3, <3>1 DEF DestInv, Target, IsLive, AckSteps
  <2>4. QED BY <1>1, <2>2, <2>3 DEF EvOpen, AckSteps, Creates
<1>2. ASSUME NEW r \in Roles, NEW at \in Creates, NEW next \in AckSteps \cup {"wait"},
             EvCreate(r, at, next), next # "open_audio"
       PROVE  DestInv'
  <2>1. /\ ev = at /\ UNCHANGED <<uas, fifo, gen, dest, peer>> /\ gen \in Gens
        /\ ev' # "sdp" /\ ev # "sdp" /\ ev # "open_audio" /\ je = dest /\ ev' = next
        /\ next \in AckSteps => je' = je
        /\ peer[gen].call = dest
    BY <1>0, <1>2 DEF EvCreate, files, history, AckSteps, Creates, DestInv
  <2>2. \A q \in Roles, g \in Gens : IsLive(q, g)' => IsLive(q, g) \/ g = gen
    BY <1>2, <2>1 DEF EvCreate, IsLive, Live, TypeOK, Threads
  <2>3. Target' = Target
    BY <2>1 DEF Target
  <2>4. QED BY <1>2, <2>1, <2>2, <2>3 DEF DestInv
<1>3. ASSUME NEW r \in Roles, NEW at \in Joins, NEW next \in Joins \cup {"wait"},
             EvJoin(r, at, next)
       PROVE  DestInv'
  <2>1. /\ UNCHANGED <<uas, fifo, gen, dest, thr, peer>> /\ ev' # "sdp" /\ ev # "sdp"
        /\ ev' \notin AckSteps
    BY <1>3 DEF EvJoin, files, AckSteps, Creates, Joins
  <2>2. QED BY <2>1 DEF DestInv, Target, IsLive
<1>4. CASE EvMakeMedia
  BY <1>1, <1>2, <1>4 DEF EvMakeMedia, Creates, AckSteps, Roles
<1>5. CASE EvJoinMedia
  BY <1>3, <1>5 DEF EvJoinMedia, Joins, Roles
<1>6. ASSUME NEW g \in Gens, MediaFault(g) \/ \E r \in Roles : MediaThread(r, g) PROVE DestInv'
  <2>1. ThreadsGoOn
    BY <1>6, MediaGoesOn
  <2>2. UNCHANGED <<uas, fifo, ev, je, gen, dest>>
    BY <2>1 DEF ThreadsGoOn, event
  <2>3. \/ peer' = peer
        \/ thr[<<"video_send", g>>] = "start" /\ peer' = [peer EXCEPT ![g].video = dest]
    BY <1>6 DEF MediaFault, AudioSendFails, VideoReadFails, AudioDeviceFails, MediaThread,
       AudioThread, VideoSendThread, VideoRecvThread, AudioStart, LeaveLoop, CloseSocket,
       VideoRecvStart, VideoSendStart, VideoSendClose, history, Goto
  <2>4. /\ \A h \in Gens : peer'[h].call = peer[h].call /\ peer'[h].audio = peer[h].audio
        /\ \A h \in Gens : peer'[h].video \in {None, peer[h].call}
    <3>1. CASE peer' = peer
      BY <3>1 DEF DestInv
    <3>2. CASE thr[<<"video_send", g>>] = "start" /\ peer' = [peer EXCEPT ![g].video = dest]
      <4>1. peer[g].call = dest
        BY <3>2 DEF DestInv, IsLive, Live, Roles
      <4>2. QED BY <1>0, <3>2, <4>1 DEF DestInv, PeerOf
    <3>3. QED BY <2>3, <3>1, <3>2
  <2>5. Target' = Target
    BY <2>2 DEF Target
  <2>6. \A r \in Roles, h \in Gens : IsLive(r, h)' => IsLive(r, h)
    BY <2>1 DEF ThreadsGoOn
  <2>7. QED BY <1>0, <2>2, <2>4, <2>5, <2>6 DEF DestInv
<1>7. QED BY <1>4, <1>5, <1>6

LEMMA DestStep ==
  ASSUME IInv, Plain, PlainInv, DestInv, Next
  PROVE  DestInv'
<1>1. CASE \E c \in Calls : Peer(c)
  BY <1>1, PeerDest
<1>2. CASE Main \/ EvCrash
  BY <1>2, PeerDest
<1>3. CASE EventThread
  BY <1>3, EventDest, ThreadDest DEF EventThread
<1>4. CASE (\E r \in Roles, g \in Gens : MediaThread(r, g)) \/ \E g \in Gens : MediaFault(g)
  BY <1>4, ThreadDest
<1>5. QED BY <1>1, <1>2, <1>3, <1>4 DEF Next

-----------------------------------------------------------------------------
(* What the threads close.                                                 *)

\* video_send closes the socket it opened, video_recv that of its call, as long
\* as no audio thread closed a stranger's.
VideoFdInv ==
  /\ \A g \in Gens : thr[<<"video_send", g>>] \in {"none", "start"} => rtpfd[g] = NoFd
  /\ \A g \in Gens : thr[<<"video_send", g>>] \in {"run", "closing"} => rtpsock = g
  /\ foreign = "none" =>
       /\ \A g \in Gens :
            IsLive("video_recv", g)
              \/ (g = gen /\ ev \in {"create_video_send", "create_video_recv"}) =>
            sock["video"] \in Fds /\ fdt[sock["video"]] = <<"video", g>>
       /\ \A g \in Gens :
            thr[<<"video_send", g>>] \in {"run", "closing"} /\ rtpfd[g] # NoFd =>
            fdt[rtpfd[g]] = <<"rtp", g>>
  /\ foreign \in {"none", "audio_send", "audio_recv"}

\* The trials in which no step of the phone fails half-way.
Careful == Plain /\ NoFault({"openfail", "nothread", "initfail", "camfail"}) /\ Refused = {}

\* Thread r of generation g is live, or will be made for a socket that is open.
WillClose(r, g) == IsLive(r, g) \/ (r \in ToMake /\ g = gen /\ ev # "open_audio")

BeforeVideo == {"open_audio", "create_audio_send", "create_audio_recv", "open_video"}

\* A descriptor in use is known to threads that will close it.
Owned(f, g) ==
  /\ fdt[f] = <<"audio", g>> =>
       f = sock["audio"] /\ WillClose("audio_send", g) /\ WillClose("audio_recv", g)
  /\ fdt[f] = <<"video", g>> =>
       f = sock["video"] /\ WillClose("video_recv", g) /\ (ev \in BeforeVideo => g # gen)
  /\ fdt[f] = <<"rtp", g>> =>
       f = rtpfd[g] /\ thr[<<"video_send", g>>] \in {"run", "closing"}

OwnerInv == foreign = "none" => \A f \in Fds, g \in Gens : Owned(f, g)

FdInv == VideoFdInv /\ (Careful => OwnerInv)

\* Every step but the making of the media and those of the media threads.
Aside == \/ \E c \in Calls : Peer(c)
         \/ Main \/ EvCrash \/ EvInvite \/ EvReadSdp \/ EvAnswered \/ EvClosed \/ EvJoinMedia

LEMMA AsideFd ==
  ASSUME FdInv, Aside
  PROVE  FdInv'
<1>1. UNCHANGED <<world, gen, thr, sock, fdt, rtpsock, rtpfd, foreign>>
  <2>1. CASE \E c \in Calls : Peer(c)
    BY <2>1 DEF Peer, PeerInvite, PeerCancel, PeerAck, PeerAnswer, PeerBye, AckTimeout, EnvKeeps,
       event, threads, files, history
  <2>2. CASE Main \/ EvCrash
    BY <2>2 DEF Main, MainHangup, MainInvite, MainStopVideo, MainQuit, MainExit, MainKeeps,
       EvCrash, EvUseFreed, EvNoSdp, event, threads, files, history
  <2>3. CASE EvInvite \/ EvReadSdp \/ EvAnswered \/ EvClosed \/ EvJoinMedia
    BY <2>3 DEF EvInvite, EvReadSdp, EvAnswered, EvClosed, EvJoinMedia, EvJoin, EvKeeps,
       threads, files, history
  <2>4. QED BY <2>1, <2>2, <2>3 DEF Aside
<1>2. ev' = ev \/ (ev \notin AckSteps /\ ev' \notin AckSteps)
  <2>1. CASE \E c \in Calls : Peer(c)
    BY <2>1 DEF Peer, PeerInvite, PeerCancel, PeerAck, PeerAnswer, PeerBye, AckTimeout, EnvKeeps,
       event
  <2>2. CASE Main \/ EvCrash
    BY <2>2 DEF Main, MainHangup, MainInvite, MainStopVideo, MainQuit, MainExit, MainKeeps,
       EvCrash, EvUseFreed, EvNoSdp, event
  <2>3. CASE EvInvite \/ EvReadSdp \/ EvAnswered \/ EvClosed \/ EvJoinMedia
    BY <2>3 DEF EvInvite, EvReadSdp, EvAnswered, EvClosed, EvJoinMedia, EvJoin, Take,
       AckSteps, Creates
  <2>4. QED BY <2>1, <2>2, <2>3 DEF Aside
<1>3. ToMake' = ToMake /\ (ev' \in AckSteps => ev' = ev)
  BY <1>2 DEF ToMake, AckSteps, Creates
<1>4. \A r \in Roles, g \in Gens : WillClose(r, g) => WillClose(r, g)'
  BY <1>1, <1>2, <1>3 DEF WillClose, IsLive, ToMake, AckSteps, Creates
<1>5. VideoFdInv'
  BY <1>1, <1>3 DEF FdInv, VideoFdInv, IsLive, AckSteps, Creates
<1>6. Careful' => Careful
  BY <1>1 DEF Careful, Plain, NoFault, Faults, Refused
<1>7. OwnerInv => OwnerInv'
  <2>1. SUFFICES ASSUME OwnerInv, foreign' = "none", NEW f \in Fds, NEW g \in Gens
                 PROVE  Owned(f, g)'
    BY DEF OwnerInv
  <2>2. Owned(f, g)
    BY <1>1, <2>1 DEF OwnerInv
  <2>3. ev' \in BeforeVideo => ev' = ev
    BY <1>3 DEF BeforeVideo, AckSteps, Creates
  <2>4. QED BY <1>1, <1>4, <2>2, <2>3 DEF Owned, Roles
<1>8. QED BY <1>5, <1>6, <1>7 DEF FdInv

\* CALL_ACK finds no thread, so no descriptor anybody has to close.
LEMMA AckFd ==
  ASSUME IInv, PlainInv, FdInv, EvAck
  PROVE  FdInv'
<1>1. /\ UNCHANGED <<world, thr, sock, fdt, rtpsock, rtpfd, foreign>>
      /\ ev = "wait" /\ ev' = "open_audio" /\ Len(fifo) > 0 /\ fifo[1][1] = "ACK"
  BY QueueType DEF EvAck, Take, EvKeeps, threads, files, history, IInv
<1>2. \A r \in Roles, g \in Gens : ~IsLive(r, g)
  BY <1>1, QueueType DEF PlainInv, MediaInv, NoMedia, IInv
<1>3. ToMake = {}
  BY <1>1 DEF ToMake
<1>4. VideoFdInv'
  BY <1>1 DEF FdInv, VideoFdInv, IsLive
<1>5. OwnerInv => OwnerInv'
  BY <1>1, <1>2, <1>3 DEF OwnerInv, Owned, WillClose, IsLive, Roles, Live
<1>6. Careful' => Careful
  BY <1>1 DEF Careful, Plain, NoFault, Faults, Refused
<1>7. QED BY <1>4, <1>5, <1>6 DEF FdInv

\* A descriptor that is opened was free, so it is nobody's.
LEMMA OpenFd ==
  ASSUME IInv, PlainInv, FdInv, NEW kind \in {"audio", "video"},
         NEW at \in {"open_audio", "open_video"}, NEW next \in Creates, EvOpen(kind, at, next),
         \/ kind = "audio" /\ at = "open_audio" /\ next = "create_audio_send"
         \/ kind = "video" /\ at = "open_video" /\ next = "create_video_send"
  PROVE  FdInv'
<1> DEFINE F == LowestFree
<1>1. /\ UNCHANGED <<world, gen, thr, rtpsock, rtpfd, foreign>> /\ ev = at /\ gen \in Gens
      /\ F \in Fds /\ fdt[F] = Free
      /\ fdt \in [Fds -> (Kinds \X Gens) \cup {Free}]
             /\ sock \in [{"audio", "video"} -> Fds \cup {NoFd}]
      /\ rtpfd \in [Gens -> Fds \cup {NoFd}]
      /\ \/ /\ fdt' = [fdt EXCEPT ![F] = <<kind, gen>>] /\ sock' = [sock EXCEPT ![kind] = F]
            /\ ev' = next
         \/ /\ "openfail" \in Faults /\ fdt' \in {fdt, [fdt EXCEPT ![F] = <<kind, gen>>]}
            /\ ev' = "wait" /\ sock' = sock
  BY LowestFreeIsFree DEF EvOpen, EvKeeps, threads, Opened, IInv, TypeOK, StopInv, AckSteps, Gens
<1>2. "video_recv" \in ToMake /\ (at = "open_audio" => ToMake = Roles)
  BY <1>1 DEF ToMake, Roles
<1>3. \A g \in Gens : ~IsLive("video_recv", g)
  BY <1>2 DEF PlainInv, HandleInv
<1>4. at = "open_audio" => \A r \in Roles, g \in Gens : ~IsLive(r, g)
  BY <1>2 DEF PlainInv, HandleInv
<1>5. VideoFdInv'
  <2>1. \A g \in Gens : thr[<<"video_send", g>>] \in {"run", "closing"} /\ rtpfd[g] # NoFd
                          /\ foreign = "none" => fdt'[rtpfd[g]] = fdt[rtpfd[g]]
    BY <1>1 DEF FdInv, VideoFdInv, Free
  <2>2. ev' \in {"create_video_send", "create_video_recv"} =>
          sock'["video"] = F /\ fdt'[F] = <<"video", gen>>
    BY <1>1
  <2>3. \A g \in Gens : ~IsLive("video_recv", g)'
    BY <1>1, <1>3 DEF IsLive
  <2>4. QED BY <1>1, <2>1, <2>2, <2>3 DEF FdInv, VideoFdInv
<1>6. Careful' => Careful
  BY <1>1 DEF Careful, Plain, NoFault, Faults, Refused
<1>7. Careful /\ OwnerInv => OwnerInv'
  <2>1. SUFFICES ASSUME Careful, OwnerInv, foreign = "none" PROVE OwnerInv'
    BY <1>1 DEF OwnerInv
  <2>2. /\ fdt' = [fdt EXCEPT ![F] = <<kind, gen>>] /\ sock' = [sock EXCEPT ![kind] = F]
        /\ ev' = next
    BY <1>1, <2>1 DEF Careful, NoFault
  <2>3. SUFFICES ASSUME NEW f \in Fds, NEW g \in Gens PROVE Owned(f, g)'
    BY DEF OwnerInv
  <2>4. Owned(f, g)
    BY <2>1 DEF OwnerInv
  <2>5. fdt[f] # <<kind, g>>
    BY <1>1, <1>2, <1>3, <1>4, <2>4 DEF Owned, WillClose, BeforeVideo, Roles
  <2>6. /\ fdt'[f] = <<kind, g>> => f = F /\ g = gen
        /\ fdt'[f] # <<kind, g>> => fdt'[f] = fdt[f] \/ fdt'[f] = <<kind, gen>>
    BY <1>1, <2>2, <2>5
  <2>7. \A r \in Roles : WillClose(r, g) => WillClose(r, g)'
    BY <1>1, <1>4, <2>2 DEF WillClose, IsLive, ToMake, Roles
  <2>8. g = gen => \A r \in Roles : r \in ToMake => WillClose(r, g)'
    BY <1>1, <2>2 DEF WillClose, ToMake, Roles
  <2>9. CASE kind = "audio"
    <3>1. /\ fdt[f] # <<"video", g>> /\ fdt[f] # <<"rtp", g>> /\ ToMake = Roles
          /\ sock'["audio"] = F
      BY <1>1, <1>2, <1>4, <2>2, <2>4, <2>9 DEF Owned, WillClose, IsLive, Live, Roles
    <3>2. fdt'[f] # <<"video", g>> /\ fdt'[f] # <<"rtp", g>>
      BY <1>1, <2>2, <2>9, <3>1
    <3>3. fdt'[f] = <<"audio", g>> => f = F /\ g = gen
      BY <2>6, <2>9
    <3>4. g = gen => WillClose("audio_send", g)' /\ WillClose("audio_recv", g)'
      BY <2>8, <3>1 DEF Roles
    <3>5. QED BY <3>1, <3>2, <3>3, <3>4 DEF Owned
  <2>10. CASE kind = "video"
    <3>1. sock'["audio"] = sock["audio"] /\ sock'["video"] = F /\ ev' \notin BeforeVideo
      BY <1>1, <2>2, <2>10 DEF BeforeVideo
    <3>2. UNCHANGED <<thr, rtpfd>>
      BY <1>1
    <3>3. /\ fdt'[f] = <<"audio", g>> => fdt[f] = <<"audio", g>>
          /\ fdt'[f] = <<"rtp", g>> => fdt[f] = <<"rtp", g>>
      BY <1>1, <2>2, <2>10
    <3>4. fdt'[f] = <<"video", g>> => f = F /\ g = gen
      BY <2>6, <2>10
    <3>5. g = gen => WillClose("video_recv", g)'
      BY <1>2, <2>8 DEF Roles
    <3>6. /\ WillClose("audio_send", g) => WillClose("audio_send", g)'
          /\ WillClose("audio_recv", g) => WillClose("audio_recv", g)'
      BY <2>7 DEF Roles
    <3>7. QED BY <2>4, <3>1, <3>2, <3>3, <3>4, <3>5, <3>6 DEF Owned
  <2>11. QED BY <2>9, <2>10
<1>8. QED BY <1>5, <1>6, <1>7 DEF FdInv

\* Making a thread hands it the sockets that are open.
LEMMA CreateFd ==
  ASSUME IInv, FdInv, NEW r \in Roles, NEW at \in Creates, NEW next \in AckSteps \cup {"wait"},
         EvCreate(r, at, next),
         r \in ToMake, ToMake' = ToMake \ {r}, next # "open_audio",
         next \in BeforeVideo => at \in BeforeVideo,
         next \in {"create_video_send", "create_video_recv"} => at = "create_video_send",
         r = "video_recv" => at = "create_video_recv"
  PROVE  FdInv'
<1>1. /\ UNCHANGED <<world, gen, sock, fdt, rtpsock, rtpfd, foreign>> /\ ev = at /\ gen \in Gens
      /\ ev' = next /\ thr[<<r, gen>>] = "none" /\ <<r, gen>> \in Threads
      /\ \/ r \notin Refused /\ thr' = [thr EXCEPT ![<<r, gen>>] = "start"]
         \/ (r \in Refused \/ "nothread" \in Faults) /\ thr' = thr
  BY DEF EvCreate, EvKeeps, files, history, IInv, TypeOK, StopInv, AckSteps, Gens, Threads
<1>2. /\ \A q \in Roles, g \in Gens : <<q, g>> # <<r, gen>> => thr'[<<q, g>>] = thr[<<q, g>>]
      /\ thr'[<<r, gen>>] \in {"none", "start"}
      /\ r \notin Refused /\ "nothread" \notin Faults => thr'[<<r, gen>>] = "start"
  BY <1>1 DEF IInv, TypeOK, Threads
<1>3. VideoFdInv'
  <2>1. \A g \in Gens : /\ thr'[<<"video_send", g>>] \in {"none", "start"} =>
                             thr[<<"video_send", g>>] \in {"none", "start"}
                        /\ thr'[<<"video_send", g>>] \in {"run", "closing"} =>
                             thr[<<"video_send", g>>] \in {"run", "closing"}
    BY <1>1, <1>2 DEF Roles
  <2>2. \A g \in Gens : IsLive("video_recv", g)' =>
          IsLive("video_recv", g) \/ (g = gen /\ ev = "create_video_recv")
    BY <1>1, <1>2 DEF Roles, IsLive
  <2>3. ev' \in {"create_video_send", "create_video_recv"} => ev = "create_video_send"
    BY <1>1
  <2>4. QED BY <1>1, <2>1, <2>2, <2>3 DEF FdInv, VideoFdInv
<1>4. Careful' => Careful
  BY <1>1 DEF Careful, Plain, NoFault, Faults, Refused
<1>5. Careful /\ OwnerInv => OwnerInv'
  <2>1. SUFFICES ASSUME Careful, OwnerInv PROVE OwnerInv'
    OBVIOUS
  <2>2. thr'[<<r, gen>>] = "start"
    BY <1>2, <2>1 DEF Careful, NoFault
  <2>3. \A q \in Roles, g \in Gens : WillClose(q, g) => WillClose(q, g)'
    BY <1>1, <1>2, <2>2 DEF WillClose, IsLive, Live
  <2>4. \A g \in Gens : thr[<<"video_send", g>>] \in {"run", "closing"} =>
                        thr'[<<"video_send", g>>] \in {"run", "closing"}
    BY <1>1, <1>2 DEF Roles
  <2>5. SUFFICES ASSUME foreign = "none", NEW f \in Fds, NEW g \in Gens PROVE Owned(f, g)'
    BY <1>1 DEF OwnerInv
  <2>6. Owned(f, g)
    BY <2>1, <2>5 DEF OwnerInv
  <2>7. QED BY <1>1, <2>3, <2>4, <2>6 DEF Owned, Roles
<1>6. QED BY <1>3, <1>4, <1>5 DEF FdInv

\* A media thread that goes on without opening or closing anything.
LEMMA MoveFd ==
  ASSUME FdInv, NEW g \in Gens,
         UNCHANGED <<world, ev, gen, sock, fdt, rtpsock, rtpfd, foreign>>,
         \A h \in Gens : /\ thr'[<<"video_send", h>>] \in {"none", "start"} =>
                              thr[<<"video_send", h>>] \in {"none", "start"}
                         /\ thr'[<<"video_send", h>>] \in {"run", "closing"} =>
                              thr[<<"video_send", h>>] \in {"run", "closing"}
                         /\ IsLive("video_recv", h)' => IsLive("video_recv", h),
         Careful => /\ \A r \in Roles, h \in Gens : IsLive(r, h) => IsLive(r, h)'
                    /\ \A h \in Gens : thr[<<"video_send", h>>] \in {"run", "closing"} =>
                                       thr'[<<"video_send", h>>] \in {"run", "closing"}
  PROVE  FdInv'
<1>1. VideoFdInv'
  BY DEF FdInv, VideoFdInv
<1>2. ToMake' = ToMake
  BY DEF ToMake
<1>3. Careful => \A r \in Roles, h \in Gens : WillClose(r, h) => WillClose(r, h)'
  BY <1>2 DEF WillClose
<1>4. Careful' => Careful
  BY DEF Careful, Plain, NoFault, Faults, Refused
<1>5. Careful /\ OwnerInv => OwnerInv'
  <2>1. SUFFICES ASSUME Careful, OwnerInv, foreign = "none", NEW f \in Fds, NEW h \in Gens
                 PROVE  Owned(f, h)'
    BY DEF OwnerInv
  <2>2. Owned(f, h)
    BY <2>1 DEF OwnerInv
  <2>3. QED BY <1>3, <2>1, <2>2 DEF Owned, Roles
<1>6. QED BY <1>1, <1>4, <1>5 DEF FdInv

\* close() of an audio thread: the later of the two may hit a stranger.
LEMMA AudioCloseFd ==
  ASSUME IInv, FdInv, NEW r \in {"audio_send", "audio_recv"}, NEW g \in Gens,
         CloseSocket(r, g, "audio")
  PROVE  FdInv'
<1> DEFINE F == sock["audio"]
<1>1. /\ UNCHANGED <<world, ev, gen, sock, rtpsock, rtpfd>>
      /\ thr' = [thr EXCEPT ![<<r, g>>] = "done"] /\ <<r, g>> \in Threads
      /\ fdt' = [fdt EXCEPT ![F] = Free]
      /\ foreign' = IF foreign = "none"
             /\ fdt[F] \notin {Free, <<"audio", g>>} THEN r ELSE foreign
      /\ fdt \in [Fds -> (Kinds \X Gens) \cup {Free}] /\ F \in Fds \cup {NoFd} /\ NoFd \notin Fds
      /\ rtpfd \in [Gens -> Fds \cup {NoFd}]
  BY DEF CloseSocket, Goto, Close, ThreadKeeps, event, Threads, IInv, TypeOK, NoFd, Fds, Roles
<1>2. /\ \A q \in {"video_send", "video_recv"}, h \in Gens : thr'[<<q, h>>] = thr[<<q, h>>]
      /\ ToMake' = ToMake
  BY <1>1 DEF IInv, TypeOK, Threads, Roles, ToMake
<1>3. foreign' = "none" => foreign = "none" /\ fdt[F] \in {Free, <<"audio", g>>}
  BY <1>1
<1>4. \A f \in Fds : foreign' = "none" /\ fdt[f] \notin {Free, <<"audio", g>>} => fdt'[f] = fdt[f]
  BY <1>1, <1>3
<1>5. VideoFdInv'
  <2>1. \A h \in Gens : <<"video", h>> \notin {Free, <<"audio", g>>}
            /\ <<"rtp", h>> \notin {Free, <<"audio", g>>}
    BY DEF Free
  <2>2. \A h \in Gens : IsLive("video_recv", h)' <=> IsLive("video_recv", h)
    BY <1>2 DEF IsLive
  <2>3. foreign' \in {"none", "audio_send", "audio_recv"}
    BY <1>1 DEF FdInv, VideoFdInv
  <2>4. \A h \in Gens : rtpfd[h] # NoFd => rtpfd[h] \in Fds
    BY <1>1
  <2>5. QED BY <1>1, <1>2, <1>3, <1>4, <2>1, <2>2, <2>3, <2>4 DEF FdInv, VideoFdInv
<1>6. Careful' => Careful
  BY <1>1 DEF Careful, Plain, NoFault, Faults, Refused
<1>7. OwnerInv => OwnerInv'
  <2>1. SUFFICES ASSUME OwnerInv, foreign' = "none", NEW f \in Fds, NEW h \in Gens
                 PROVE  Owned(f, h)'
    BY DEF OwnerInv
  <2>2. Owned(f, h)
    BY <1>3, <2>1 DEF OwnerInv
  <2>3. fdt'[f] # <<"audio", h>>
    BY <1>1, <2>2 DEF Owned, Free
  <2>4. fdt'[f] \in {Free, fdt[f]} /\ Free \notin {<<"video", h>>, <<"rtp", h>>}
    BY <1>1 DEF Free
  <2>5. WillClose("video_recv", h) => WillClose("video_recv", h)'
    BY <1>1, <1>2 DEF WillClose, IsLive
  <2>6. QED BY <1>1, <1>2, <2>2, <2>3, <2>4, <2>5 DEF Owned
<1>8. QED BY <1>5, <1>6, <1>7 DEF FdInv

\* close() of video_recv: the only live one closes the socket of its call.
LEMMA VideoCloseFd ==
  ASSUME IInv, PlainInv, FdInv, NEW g \in Gens, CloseSocket("video_recv", g, "video")
  PROVE  FdInv'
<1> DEFINE F == sock["video"]
<1>1. /\ UNCHANGED <<world, ev, gen, sock, rtpsock, rtpfd>> /\ IsLive("video_recv", g)
      /\ thr' = [thr EXCEPT ![<<"video_recv", g>>] = "done"] /\ <<"video_recv", g>> \in Threads
      /\ fdt' = [fdt EXCEPT ![F] = Free]
      /\ foreign' = IF foreign = "none" /\ fdt[F] \notin {Free, <<"video", g>>}
                      THEN "video_recv" ELSE foreign
      /\ fdt \in [Fds -> (Kinds \X Gens) \cup {Free}] /\ F \in Fds \cup {NoFd} /\ NoFd \notin Fds
      /\ rtpfd \in [Gens -> Fds \cup {NoFd}]
  BY DEF CloseSocket, Goto, Close, ThreadKeeps, event, Threads, IInv, TypeOK, NoFd, Fds, Roles,
     IsLive, Live
<1>2. /\ \A q \in Roles \ {"video_recv"}, h \in Gens : thr'[<<q, h>>] = thr[<<q, h>>]
      /\ \A h \in Gens : ~IsLive("video_recv", h)'
      /\ ToMake' = ToMake /\ "video_recv" \notin ToMake
  <2>1. \A h \in Gens : h # g => ~IsLive("video_recv", h)
    BY <1>1 DEF PlainInv, HandleInv, Roles
  <2>2. "video_recv" \notin ToMake
    BY <1>1 DEF PlainInv, HandleInv
  <2>3. \A q \in Roles, h \in Gens : <<q, h>> # <<"video_recv", g>>
            => thr'[<<q, h>>] = thr[<<q, h>>]
    BY <1>1 DEF IInv, TypeOK, Threads
  <2>4. thr'[<<"video_recv", g>>] = "done"
    BY <1>1 DEF IInv, TypeOK
  <2>5. \A h \in Gens : ~IsLive("video_recv", h)'
    BY <2>1, <2>3, <2>4 DEF IsLive, Live, Roles
  <2>6. ToMake' = ToMake
    BY <1>1 DEF ToMake
  <2>7. QED BY <2>2, <2>3, <2>5, <2>6
<1>3. foreign' = foreign /\ (foreign = "none" => F \in Fds /\ fdt[F] = <<"video", g>>)
  BY <1>1 DEF FdInv, VideoFdInv
<1>4. \A f \in Fds : foreign = "none" /\ fdt[f] # <<"video", g>> => fdt'[f] = fdt[f]
  BY <1>1, <1>3
<1>5. VideoFdInv'
  <2>1. \A h \in Gens : <<"rtp", h>> # <<"video", g>> /\ (rtpfd[h] # NoFd => rtpfd[h] \in Fds)
    BY <1>1
  <2>2. ev \notin {"create_video_send", "create_video_recv"}
    BY <1>2 DEF ToMake
  <2>3. \A h \in Gens : thr'[<<"video_send", h>>] = thr[<<"video_send", h>>]
    BY <1>2 DEF Roles
  <2>4. QED BY <1>1, <1>2, <1>3, <1>4, <2>1, <2>2, <2>3 DEF FdInv, VideoFdInv
<1>6. Careful' => Careful
  BY <1>1 DEF Careful, Plain, NoFault, Faults, Refused
<1>7. OwnerInv => OwnerInv'
  <2>1. SUFFICES ASSUME OwnerInv, foreign = "none", NEW f \in Fds, NEW h \in Gens
                 PROVE  Owned(f, h)'
    BY <1>3 DEF OwnerInv
  <2>2. Owned(f, h)
    BY <2>1 DEF OwnerInv
  <2>3. fdt'[f] # <<"video", h>>
    BY <1>1, <2>2 DEF Owned, Free
  <2>4. fdt'[f] \in {Free, fdt[f]} /\ Free \notin {<<"audio", h>>, <<"rtp", h>>}
    BY <1>1 DEF Free
  <2>5. \A q \in {"audio_send", "audio_recv"} : WillClose(q, h) => WillClose(q, h)'
    BY <1>1, <1>2 DEF WillClose, IsLive, Roles
  <2>6. thr'[<<"video_send", h>>] = thr[<<"video_send", h>>]
    BY <1>2 DEF Roles
  <2>7. QED BY <1>1, <2>2, <2>3, <2>4, <2>5, <2>6 DEF Owned
<1>8. QED BY <1>5, <1>6, <1>7 DEF FdInv

\* video_send opens a socket of its own.
LEMMA VideoOpenFd ==
  ASSUME IInv, PlainInv, FdInv, NEW g \in Gens, VideoSendStart(g)
  PROVE  FdInv'
<1> DEFINE F == LowestFree
<1>1. /\ UNCHANGED <<world, ev, gen, sock, foreign>> /\ thr[<<"video_send", g>>] = "start"
      /\ thr' = [thr EXCEPT ![<<"video_send", g>>] = "run"] /\ <<"video_send", g>> \in Threads
      /\ F \in Fds /\ fdt[F] = Free /\ rtpsock' = g
      /\ fdt \in [Fds -> (Kinds \X Gens) \cup {Free}] /\ rtpfd \in [Gens -> Fds \cup {NoFd}]
      /\ \/ fdt' = [fdt EXCEPT ![F] = <<"rtp", g>>] /\ rtpfd' = [rtpfd EXCEPT ![g] = F]
         \/ /\ "openfail" \in Faults /\ fdt' \in {fdt, [fdt EXCEPT ![F] = <<"rtp", g>>]}
            /\ rtpfd' = rtpfd
  BY LowestFreeIsFree DEF VideoSendStart, Goto, Opened, ThreadKeeps, event, Threads, IInv,
     TypeOK, Roles
<1>2. /\ \A q \in Roles, h \in Gens : <<q, h>> # <<"video_send", g>>
             => thr'[<<q, h>>] = thr[<<q, h>>]
      /\ thr'[<<"video_send", g>>] = "run"
      /\ ToMake' = ToMake
  BY <1>1 DEF IInv, TypeOK, Threads, Roles, ToMake
<1>3. \A h \in Gens : h # g => thr[<<"video_send", h>>] \in {"none", "done"}
  <2>1. \A h \in Gens : h # g => ~IsLive("video_send", h)
    BY <1>1 DEF PlainInv, HandleInv, Roles, IsLive, Live
  <2>2. \A h \in Gens : thr[<<"video_send", h>>] \in {"none", "done"} \cup Live
    BY DEF IInv, TypeOK, Threads, Roles
  <2>3. QED BY <2>1, <2>2 DEF IsLive
<1>4. rtpfd[g] = NoFd
  BY <1>1 DEF FdInv, VideoFdInv
<1>5. VideoFdInv'
  <2>1. \A h \in Gens : h # g => rtpfd'[h] = rtpfd[h]
            /\ thr'[<<"video_send", h>>] = thr[<<"video_send", h>>]
    BY <1>1, <1>2 DEF Roles
  <2>2. rtpfd'[g] # NoFd => fdt'[rtpfd'[g]] = <<"rtp", g>>
    BY <1>1, <1>4
  <2>3. \A f \in Fds : fdt[f] # Free => fdt'[f] = fdt[f]
    BY <1>1
  <2>4. \A h \in Gens : (IsLive("video_recv", h)' <=> IsLive("video_recv", h))
            /\ <<"video", h>> # Free
    BY <1>2 DEF IsLive, Roles, Free
  <2>5. QED BY <1>1, <1>2, <1>3, <2>1, <2>2, <2>3, <2>4 DEF FdInv, VideoFdInv
<1>6. Careful' => Careful
  BY <1>1 DEF Careful, Plain, NoFault, Faults, Refused
<1>7. Careful /\ OwnerInv => OwnerInv'
  <2>1. SUFFICES ASSUME Careful, OwnerInv, foreign = "none", NEW f \in Fds, NEW h \in Gens
                 PROVE  Owned(f, h)'
    BY <1>1 DEF OwnerInv
  <2>2. Owned(f, h)
    BY <2>1 DEF OwnerInv
  <2>3. fdt' = [fdt EXCEPT ![F] = <<"rtp", g>>] /\ rtpfd' = [rtpfd EXCEPT ![g] = F]
    BY <1>1, <2>1 DEF Careful, NoFault
  <2>4. \A q \in Roles : WillClose(q, h) => WillClose(q, h)'
    BY <1>1, <1>2 DEF WillClose, IsLive, Live
  <2>5. /\ fdt'[f] = <<"audio", h>> => fdt[f] = <<"audio", h>>
        /\ fdt'[f] = <<"video", h>> => fdt[f] = <<"video", h>>
    BY <1>1, <2>3
  <2>6. fdt'[f] = <<"rtp", h>> => f = rtpfd'[h]
            /\ thr'[<<"video_send", h>>] \in {"run", "closing"}
    <3>1. CASE h = g
      <4>1. fdt[f] # <<"rtp", g>>
        BY <1>1, <2>2, <3>1 DEF Owned
      <4>2. QED BY <1>1, <1>2, <2>3, <3>1, <4>1
    <3>2. CASE h # g
      BY <1>1, <1>2, <2>2, <2>3, <3>2 DEF Owned, Roles
    <3>3. QED BY <3>1, <3>2
  <2>7. QED BY <1>1, <2>2, <2>4, <2>5, <2>6 DEF Owned, Roles
<1>8. QED BY <1>5, <1>6, <1>7 DEF FdInv

\* rtpclose finds the socket video_send opened.
LEMMA VideoSendCloseFd ==
  ASSUME IInv, PlainInv, FdInv, NEW g \in Gens, VideoSendClose(g)
  PROVE  FdInv'
<1> DEFINE F == rtpfd[g]
<1>1. /\ UNCHANGED <<world, ev, gen, sock, rtpsock, rtpfd>>
             /\ thr[<<"video_send", g>>] = "closing"
      /\ thr' = [thr EXCEPT ![<<"video_send", g>>] = "done"] /\ <<"video_send", g>> \in Threads
      /\ rtpsock = g
      /\ fdt \in [Fds -> (Kinds \X Gens) \cup {Free}] /\ F \in Fds \cup {NoFd} /\ NoFd \notin Fds
      /\ rtpfd \in [Gens -> Fds \cup {NoFd}]
  BY DEF VideoSendClose, Goto, ThreadKeeps, event, Threads, IInv, TypeOK, NoFd, Fds, Roles,
     FdInv, VideoFdInv
<1>2. \/ F = NoFd /\ fdt' = fdt /\ foreign' = foreign
      \/ F # NoFd /\ Close("video_send", F, <<"rtp", g>>)
  BY <1>1 DEF VideoSendClose
<1>3. foreign' = foreign /\ (foreign = "none" /\ F # NoFd => fdt[F] = <<"rtp", g>>)
  BY <1>1, <1>2 DEF Close, FdInv, VideoFdInv
<1>4. /\ \A q \in Roles, h \in Gens : <<q, h>> # <<"video_send", g>>
             => thr'[<<q, h>>] = thr[<<q, h>>]
      /\ thr'[<<"video_send", g>>] = "done"
      /\ ToMake' = ToMake
  BY <1>1 DEF IInv, TypeOK, Threads, Roles, ToMake
<1>5. \A f \in Fds : fdt'[f] = fdt[f] \/ (f = F /\ fdt'[f] = Free)
  BY <1>1, <1>2 DEF Close
<1>6. \A h \in Gens : h # g => thr[<<"video_send", h>>] \notin {"run", "closing"}
  BY <1>1 DEF PlainInv, HandleInv, Roles, IsLive, Live
<1>7. VideoFdInv'
  <2>1. \A h \in Gens : h # g => thr'[<<"video_send", h>>] = thr[<<"video_send", h>>]
    BY <1>4 DEF Roles
  <2>2. \A h \in Gens : (IsLive("video_recv", h)' <=> IsLive("video_recv", h))
            /\ <<"video", h>> # <<"rtp", g>>
    BY <1>4 DEF IsLive, Roles
  <2>3. QED BY <1>1, <1>3, <1>4, <1>5, <1>6, <2>1, <2>2 DEF FdInv, VideoFdInv
<1>8. Careful' => Careful
  BY <1>1 DEF Careful, Plain, NoFault, Faults, Refused
<1>9. OwnerInv => OwnerInv'
  <2>1. SUFFICES ASSUME OwnerInv, foreign = "none", NEW f \in Fds, NEW h \in Gens
                 PROVE  Owned(f, h)'
    BY <1>3 DEF OwnerInv
  <2>2. Owned(f, h)
    BY <2>1 DEF OwnerInv
  <2>3. \A q \in Roles \ {"video_send"} : WillClose(q, h) => WillClose(q, h)'
    BY <1>1, <1>4 DEF WillClose, IsLive
  <2>4. fdt'[f] \in {Free, fdt[f]} /\ Free \notin {<<"audio", h>>, <<"video", h>>, <<"rtp", h>>}
    BY <1>5 DEF Free
  <2>5. fdt'[f] = <<"rtp", h>> => h # g
    <3>1. SUFFICES ASSUME fdt'[f] = <<"rtp", g>>, h = g PROVE FALSE
      OBVIOUS
    <3>2. f = F /\ F # NoFd
      BY <1>1, <2>2, <2>4, <3>1 DEF Owned
    <3>3. fdt'[F] = Free
      BY <1>1, <1>2, <3>2 DEF Close
    <3>4. QED BY <2>4, <3>1, <3>2, <3>3
  <2>6. h # g => thr'[<<"video_send", h>>] = thr[<<"video_send", h>>]
    BY <1>4 DEF Roles
  <2>7. QED BY <1>1, <2>2, <2>3, <2>4, <2>5, <2>6 DEF Owned, Roles
<1>10. QED BY <1>7, <1>8, <1>9 DEF FdInv

LEMMA MediaFd ==
  ASSUME IInv, PlainInv, FdInv, NEW g \in Gens,
         MediaFault(g) \/ \E r \in Roles : MediaThread(r, g)
  PROVE  FdInv'
<1>1. ASSUME NEW r \in Roles, NEW from \in Live, NEW to \in {"run", "closing", "done"},
             Goto(r, g, from, to), UNCHANGED <<files, proc, history>>,
             r = "video_send" => from = "run",
             to = "done" => ~Careful
      PROVE  FdInv'
  <2>1. /\ UNCHANGED <<world, ev, gen, sock, fdt, rtpsock, rtpfd, foreign>>
        /\ thr' = [thr EXCEPT ![<<r, g>>] = to] /\ <<r, g>> \in Threads /\ thr[<<r, g>>] = from
    BY <1>1 DEF Goto, ThreadKeeps, event, files, history, Threads
  <2>2. /\ \A q \in Roles, h \in Gens : <<q, h>> # <<r, g>> => thr'[<<q, h>>] = thr[<<q, h>>]
        /\ thr'[<<r, g>>] = to
    BY <2>1 DEF IInv, TypeOK, Threads
  <2>3. \A h \in Gens : /\ thr'[<<"video_send", h>>] \in {"none", "start"} =>
                             thr[<<"video_send", h>>] \in {"none", "start"}
                        /\ thr'[<<"video_send", h>>] \in {"run", "closing"} =>
                             thr[<<"video_send", h>>] \in {"run", "closing"}
                        /\ IsLive("video_recv", h)' => IsLive("video_recv", h)
    BY <1>1, <2>1, <2>2 DEF IsLive, Live, Roles
  <2>4. Careful => /\ \A q \in Roles, h \in Gens : IsLive(q, h) => IsLive(q, h)'
                   /\ \A h \in Gens : thr[<<"video_send", h>>] \in {"run", "closing"} =>
                                      thr'[<<"video_send", h>>] \in {"run", "closing"}
    BY <1>1, <2>1, <2>2 DEF IsLive, Live, Roles
  <2>5. QED BY <2>1, <2>3, <2>4, MoveFd
<1>2. ASSUME NEW r \in Roles, AudioDeviceFails(r, g) PROVE FdInv'
  <2>1. UNCHANGED <<world, ev, gen, sock, fdt, rtpsock, rtpfd, foreign, thr>>
    BY <1>2 DEF AudioDeviceFails, ThreadKeeps, event, files, history
  <2>2. QED BY <2>1, MoveFd DEF IsLive
<1>3. ASSUME NEW r \in Roles, LeaveLoop(r, g) PROVE FdInv'
  BY <1>1, <1>3 DEF LeaveLoop, Live
<1>4. ASSUME NEW r \in {"audio_send", "audio_recv"}, AudioStart(r, g) PROVE FdInv'
  BY <1>1, <1>4 DEF AudioStart, Live, Roles
<1>5. CASE AudioSendFails(g)
  BY <1>1, <1>5 DEF AudioSendFails, Live, Roles
<1>6. CASE VideoReadFails(g)
  BY <1>1, <1>6 DEF VideoReadFails, Live, Roles, Careful, NoFault
<1>7. CASE VideoRecvStart(g)
  BY <1>1, <1>7 DEF VideoRecvStart, Live, Roles, Careful, NoFault
<1>8. QED
  BY <1>2, <1>3, <1>4, <1>5, <1>6, <1>7, AudioCloseFd, VideoCloseFd, VideoOpenFd, VideoSendCloseFd
  DEF MediaFault, MediaThread, AudioThread, VideoSendThread, VideoRecvThread, Roles

LEMMA FdStep ==
  ASSUME IInv, PlainInv, FdInv, Next
  PROVE  FdInv'
<1>1. CASE EvMakeMedia
  <2>1. CASE EvOpen("audio", "open_audio", "create_audio_send")
    BY <2>1, OpenFd DEF Creates
  <2>2. CASE EvOpen("video", "open_video", "create_video_send")
    BY <2>2, OpenFd DEF Creates
  <2> USE DEF ToMake, Roles, Creates, AckSteps, BeforeVideo
  <2>3. CASE EvCreate("audio_send", "create_audio_send", "create_audio_recv")
    <3>1. ToMake' = ToMake \ {"audio_send"} /\ "audio_send" \in ToMake
      BY <2>3 DEF EvCreate
    <3>2. QED BY <2>3, <3>1, CreateFd
  <2>4. CASE EvCreate("audio_recv", "create_audio_recv", "open_video")
    <3>1. ToMake' = ToMake \ {"audio_recv"} /\ "audio_recv" \in ToMake
      BY <2>4 DEF EvCreate
    <3>2. QED BY <2>4, <3>1, CreateFd
  <2>5. CASE EvCreate("video_send", "create_video_send", "create_video_recv")
    <3>1. ToMake' = ToMake \ {"video_send"} /\ "video_send" \in ToMake
      BY <2>5 DEF EvCreate
    <3>2. QED BY <2>5, <3>1, CreateFd
  <2>6. CASE EvCreate("video_recv", "create_video_recv", "wait")
    <3>1. ToMake' = ToMake \ {"video_recv"} /\ "video_recv" \in ToMake
      BY <2>6 DEF EvCreate
    <3>2. QED BY <2>6, <3>1, CreateFd
  <2>7. QED BY <1>1, <2>1, <2>2, <2>3, <2>4, <2>5, <2>6 DEF EvMakeMedia
<1>2. CASE Aside
  BY <1>2, AsideFd
<1>3. CASE EvAck
  BY <1>3, AckFd
<1>4. CASE (\E r \in Roles, g \in Gens : MediaThread(r, g)) \/ \E g \in Gens : MediaFault(g)
  BY <1>4, MediaFd
<1>5. QED BY <1>1, <1>2, <1>3, <1>4 DEF Next, EventThread, Aside

-----------------------------------------------------------------------------
(* Joins.                                                                  *)

\* The trials in which every CALL_CLOSED ends a call whose CALL_ACK was handled
\* to its end.
Strict == NoFault({"cancel", "noack", "overlap", "outgoing", "openfail"})

NotJoined(r) == handle[r] = 0 \/ <<r, handle[r]>> \notin joined

\* No handle the last CALL_ACK stored was joined.
Fresh == ev \notin Joins /\ \A r \in Roles \ ToMake : NotJoined(r)

\* A CALL_CLOSED behind the first j events would find fresh handles: a CALL_ACK
\* is before it with no CALL_CLOSED in between, or they are fresh already.
Armed(q, fresh, j) ==
  \/ \E i \in 1 .. j : q[i][1] = "ACK" /\ \A k \in (i + 1) .. j : q[k][1] # "CLOSED"
  \/ fresh /\ \A k \in 1 .. j : q[k][1] # "CLOSED"

JoinInv ==
  /\ OneActive
  /\ \A c \in Calls : uas[c] \notin {"calling", "talking"}
  /\ \A c \in Calls : uas[c] = "confirmed" => Armed(fifo, Fresh, Len(fifo))
  /\ \A j \in 1 .. Len(fifo) : fifo[j][1] = "CLOSED" => Armed(fifo, Fresh, j - 1)
  /\ ev \in Joins => \A r \in Roles \ JoinedSoFar : NotJoined(r)
  /\ ~twice

\* The event thread and the handles are left alone.
Still == UNCHANGED <<ev, handle, joined, twice>>

LEMMA StillFresh ==
  ASSUME Still
  PROVE  (Fresh' <=> Fresh) /\ ToMake' = ToMake /\ JoinedSoFar' = JoinedSoFar
           /\ \A r \in Roles : NotJoined(r)' <=> NotJoined(r)
BY DEF Still, Fresh, ToMake, JoinedSoFar, NotJoined

\* What was armed stays so when an event comes behind.
LEMMA PutsArmed ==
  ASSUME TypeOK, NEW x, Puts(x), Fresh' <=> Fresh
  PROVE  /\ \A j \in 0 .. Len(fifo) : Armed(fifo, Fresh, j) => Armed(fifo', Fresh', j)
         /\ x[1] = "ACK" \/ (x[1] # "CLOSED" /\ Armed(fifo, Fresh, Len(fifo)))
                => Armed(fifo', Fresh', Len(fifo'))
<1>1. Len(fifo) \in Nat
  BY QueueType
<1>2. /\ Len(fifo') = Len(fifo) + 1 /\ fifo'[Len(fifo')] = x
      /\ \A i \in 1 .. Len(fifo) : fifo'[i] = fifo[i]
  BY DEF Puts
<1>3. ASSUME NEW j \in 0 .. Len(fifo), Armed(fifo, Fresh, j) PROVE Armed(fifo', Fresh', j)
  BY SMTT(20), <1>1, <1>2, <1>3 DEF Armed
<1>4. ASSUME x[1] = "ACK" PROVE Armed(fifo', Fresh', Len(fifo'))
  BY <1>1, <1>2, <1>4 DEF Armed
<1>5. ASSUME x[1] # "CLOSED", Armed(fifo, Fresh, Len(fifo)) PROVE Armed(fifo', Fresh', Len(fifo'))
  BY <1>1, <1>2, <1>5 DEF Armed
<1>6. QED BY <1>3, <1>4, <1>5

\* So every CALL_CLOSED in the queue stays armed, and one that comes is.
LEMMA PutsClosed ==
  ASSUME TypeOK, JoinInv, NEW x, Puts(x), Fresh' <=> Fresh,
         x[1] = "CLOSED" => Armed(fifo, Fresh, Len(fifo))
  PROVE  \A j \in 1 .. Len(fifo') : fifo'[j][1] = "CLOSED" => Armed(fifo', Fresh', j - 1)
<1>1. SUFFICES ASSUME NEW j \in 1 .. Len(fifo'), fifo'[j][1] = "CLOSED"
               PROVE  Armed(fifo', Fresh', j - 1)
  OBVIOUS
<1>2. Len(fifo) \in Nat /\ Len(fifo') = Len(fifo) + 1
  BY QueueType DEF Puts
<1>3. j - 1 \in 0 .. Len(fifo)
  BY <1>1, <1>2
<1>4. Armed(fifo, Fresh, j - 1)
  <2>1. CASE j \in 1 .. Len(fifo)
    BY <1>1, <2>1 DEF JoinInv, Puts
  <2>2. CASE j = Len(fifo) + 1
    <3>1. fifo'[j] = x /\ j - 1 = Len(fifo)
      BY <1>2, <2>2 DEF Puts
    <3>2. QED BY <1>1, <3>1
  <2>3. QED BY <1>1, <1>2, <2>1, <2>2
<1>5. QED BY <1>3, <1>4, PutsArmed

\* What was armed stays so when the first event is taken; a CALL_ACK that is taken makes the
\* handles fresh, and behind a CALL_CLOSED it is a CALL_ACK that arms.
LEMMA TakesArmed ==
  ASSUME TypeOK, Takes, NEW j \in 1 .. Len(fifo), Armed(fifo, Fresh, j),
         \/ fifo[1][1] = "ACK" /\ Fresh'
         \/ fifo[1][1] \notin {"ACK", "CLOSED"} /\ (Fresh => Fresh')
         \/ fifo[1][1] = "CLOSED"
  PROVE  Armed(fifo', Fresh', j - 1)
<1>1. Len(fifo) \in Nat /\ j \in Nat /\ j - 1 \in Nat
  BY QueueType
<1>2. \A i \in 1 .. (j - 1) : fifo'[i] = fifo[i + 1] /\ i + 1 \in 2 .. j
  BY <1>1 DEF Takes
<1>3. CASE Fresh /\ \A k \in 1 .. j : fifo[k][1] # "CLOSED"
  <2>1. Fresh'
    BY <1>1, <1>3
  <2>2. QED BY SMTT(20), <1>1, <1>2, <1>3, <2>1 DEF Armed
<1>4. ASSUME NEW i \in 1 .. j, fifo[i][1] = "ACK", \A k \in (i + 1) .. j : fifo[k][1] # "CLOSED"
      PROVE  Armed(fifo', Fresh', j - 1)
  <2>1. CASE i = 1
    <3>1. Fresh'
      BY <1>4, <2>1
    <3>2. \A k \in 1 .. (j - 1) : fifo'[k][1] # "CLOSED"
      BY <1>1, <1>2, <1>4, <2>1
    <3>3. QED BY <3>1, <3>2 DEF Armed
  <2>2. CASE i > 1
    <3>1. /\ i - 1 \in 1 .. (j - 1) /\ fifo'[i - 1][1] = "ACK"
          /\ \A k \in ((i - 1) + 1) .. (j - 1) : fifo'[k][1] # "CLOSED"
      BY <1>1, <1>2, <1>4, <2>2
    <3>2. QED BY <3>1 DEF Armed
  <2>3. QED BY <2>1, <2>2
<1>5. QED BY <1>3, <1>4 DEF Armed

\* The peer, eXosip and the user: only a call that is up can end.
LEMMA PeerJoin ==
  ASSUME IInv, Strict, JoinInv, NEW d \in Calls \cup {None},
         (d \in Calls /\ Peer(d)) \/ Main \/ EvCrash
  PROVE  JoinInv'
<1> USE DEF IInv
<1>0. /\ Len(fifo) \in Nat /\ uas \in [Calls -> {"idle", "invited", "answered", "confirmed",
                                                "calling", "talking", "hungup", "ended"}]
  BY QueueType DEF TypeOK
<1>1. Still
  BY DEF Peer, PeerInvite, PeerCancel, PeerAck, PeerAnswer, PeerBye, AckTimeout, EnvKeeps,
     Main, MainHangup, MainInvite, MainStopVideo, MainQuit, MainExit, MainKeeps,
     EvCrash, EvUseFreed, EvNoSdp,
     event, threads, history, Still
<1>2. /\ Fresh' <=> Fresh
      /\ (ev' \in Joins => \A r \in Roles \ JoinedSoFar' : NotJoined(r)') /\ ~twice'
  BY <1>1, StillFresh DEF JoinInv, Still
<1>3. CASE d \in Calls /\ PeerInvite(d)
  <2>1. /\ uas[d] = "idle" /\ \A c \in Calls : ~Active(c)
        /\ uas' = [uas EXCEPT ![d] = "invited"] /\ Puts(<<"INVITE", d>>)
    BY <1>3, ReportPuts DEF PeerInvite, Strict, NoFault, Active
  <2>2. OneActive' /\ \A c \in Calls : uas'[c] \notin {"calling", "talking", "confirmed"}
    BY <1>0, <2>1 DEF OneActive, Active
  <2>3. \A j \in 1 .. Len(fifo') : fifo'[j][1] = "CLOSED" => Armed(fifo', Fresh', j - 1)
    <3>1. <<"INVITE", d>>[1] # "CLOSED"
      OBVIOUS
    <3>2. QED BY <1>2, <2>1, <3>1, PutsClosed
  <2>4. QED BY <1>2, <2>2, <2>3 DEF JoinInv
<1>4. CASE d \in Calls /\ PeerAck(d)
  <2>1. /\ Active(d) /\ \A c \in Calls : Active(c) => c = d
        /\ uas' = [uas EXCEPT ![d] = "confirmed"] /\ Puts(<<"ACK", d>>)
    BY <1>4, ReportPuts DEF PeerAck, JoinInv, OneActive, Active
  <2>2. OneActive' /\ \A c \in Calls : uas'[c] \notin {"calling", "talking"}
    BY <1>0, <2>1 DEF OneActive, Active, JoinInv
  <2>3. \A j \in 1 .. Len(fifo') : fifo'[j][1] = "CLOSED" => Armed(fifo', Fresh', j - 1)
    <3>1. <<"ACK", d>>[1] # "CLOSED"
      OBVIOUS
    <3>2. QED BY <1>2, <2>1, <3>1, PutsClosed
  <2>4. Armed(fifo', Fresh', Len(fifo'))
    BY <1>2, <2>1, PutsArmed
  <2>5. QED BY <1>2, <2>2, <2>3, <2>4 DEF JoinInv
<1>5. CASE d \in Calls /\ PeerBye(d)
  <2>1. /\ uas[d] = "confirmed" /\ Active(d) /\ \A c \in Calls : Active(c) => c = d
        /\ uas' = [uas EXCEPT ![d] = "ended"] /\ Puts(<<"CLOSED", d>>)
    BY <1>5, ReportPuts DEF PeerBye, JoinInv, OneActive, Active, Strict, NoFault
  <2>2. OneActive' /\ \A c \in Calls : uas'[c] \notin {"calling", "talking", "confirmed"}
    BY <1>0, <2>1 DEF OneActive, Active, JoinInv
  <2>3. Armed(fifo, Fresh, Len(fifo))
    BY <1>5, <2>1 DEF JoinInv
  <2>4. \A j \in 1 .. Len(fifo') : fifo'[j][1] = "CLOSED" => Armed(fifo', Fresh', j - 1)
    BY <1>2, <2>1, <2>3, PutsClosed
  <2>5. QED BY <1>2, <2>2, <2>4 DEF JoinInv
<1>6. CASE MainHangup \/ MainStopVideo \/ MainQuit \/ MainExit \/ EvCrash
  <2>1. /\ fifo' = fifo
        /\ \/ uas' = uas
           \/ cur \in Calls /\ uas' = [uas EXCEPT ![cur] = "hungup"]
    BY <1>6 DEF MainHangup, MainStopVideo, MainQuit, MainExit,
       EvCrash, EvUseFreed, EvNoSdp, MainKeeps, TypeOK
  <2>2. \A c \in Calls : uas'[c] = uas[c] \/ uas'[c] = "hungup"
    BY <1>0, <2>1
  <2>3. OneActive' /\ \A c \in Calls : uas'[c] \notin {"calling", "talking"}
    BY <2>2 DEF OneActive, Active, JoinInv
  <2>4. \A j \in 0 .. Len(fifo) : Armed(fifo, Fresh, j) => Armed(fifo', Fresh', j)
    BY <1>2, <2>1 DEF Armed
  <2>5. QED BY <1>0, <1>2, <2>1, <2>2, <2>3, <2>4 DEF JoinInv
<1>7. /\ d \in Calls => ~PeerCancel(d) /\ ~PeerAnswer(d) /\ ~AckTimeout(d)
      /\ \A c \in Calls : ~MainInvite(c)
  BY DEF PeerCancel, PeerAnswer, AckTimeout, MainInvite, Strict, NoFault, JoinInv
<1>8. QED
  BY <1>3, <1>4, <1>5, <1>6, <1>7 DEF Peer, Main

\* The events.
LEMMA EventJoin ==
  ASSUME IInv, Strict, JoinInv, EvInvite \/ EvReadSdp \/ EvAnswered \/ EvAck \/ EvClosed
  PROVE  JoinInv'
<1> USE DEF IInv
<1>0. /\ Len(fifo) \in Nat /\ uas \in [Calls -> {"idle", "invited", "answered", "confirmed",
                                                "calling", "talking", "hungup", "ended"}]
      /\ \A i \in 1 .. Len(fifo) : fifo[i][2] \in Calls
      /\ fifo = <<>> <=> Len(fifo) = 0
      /\ fifo # <<>> => Head(fifo) = fifo[1]
  BY QueueType DEF TypeOK
<1>1. CASE EvReadSdp
  <2>1. ev = "sdp" /\ ev' = "wait" /\ UNCHANGED <<uas, fifo, handle, joined, twice>>
    BY <1>1 DEF EvReadSdp, threads, history
  <2>2. Fresh' <=> Fresh
    BY <2>1 DEF Fresh, NotJoined, ToMake, Joins
  <2>3. \A j \in 0 .. Len(fifo) : Armed(fifo, Fresh, j) => Armed(fifo', Fresh', j)
    BY <2>1, <2>2 DEF Armed
  <2>4. QED BY <1>0, <2>1, <2>3 DEF JoinInv, OneActive, Active, Joins
<1>2. ASSUME fifo' = Tail(fifo), Len(fifo) > 0, UNCHANGED <<handle, joined, twice>>, ev = "wait",
             OneActive', \A c \in Calls : uas'[c] \notin {"calling", "talking"},
             \A c \in Calls : uas'[c] = "confirmed" => uas[c] = "confirmed",
             \/ fifo[1][1] = "ACK" /\ Fresh'
             \/ fifo[1][1] \notin {"ACK", "CLOSED"} /\ (Fresh => Fresh')
             \/ fifo[1][1] = "CLOSED",
             ev' \in Joins => \A r \in Roles : NotJoined(r)
      PROVE  JoinInv'
  <2>1. Takes
    BY <1>0, <1>2, TailTakes
  <2>2. \A j \in 1 .. Len(fifo) : Armed(fifo, Fresh, j) => Armed(fifo', Fresh', j - 1)
    BY <1>2, <2>1, TakesArmed
  <2>3. \A c \in Calls : uas'[c] = "confirmed" => Armed(fifo', Fresh', Len(fifo'))
    <3>1. Len(fifo') = Len(fifo) - 1 /\ Len(fifo) \in 1 .. Len(fifo)
      BY <1>0, <1>2, <2>1 DEF Takes
    <3>2. QED BY <1>2, <2>2, <3>1 DEF JoinInv
  <2>4. \A j \in 1 .. Len(fifo') : fifo'[j][1] = "CLOSED" => Armed(fifo', Fresh', j - 1)
    <3>1. SUFFICES ASSUME NEW j \in 1 .. Len(fifo'), fifo'[j][1] = "CLOSED"
                   PROVE  Armed(fifo', Fresh', j - 1)
      OBVIOUS
    <3>2. fifo[j + 1][1] = "CLOSED" /\ j + 1 \in 1 .. Len(fifo) /\ j \in 1 .. Len(fifo)
            /\ (j + 1) - 1 = j
      BY <1>0, <2>1, <3>1 DEF Takes
    <3>3. Armed(fifo, Fresh, j)
      BY <3>2 DEF JoinInv
    <3>4. QED BY <2>2, <3>2, <3>3
  <2>5. ev' \in Joins => \A r \in Roles \ JoinedSoFar' : NotJoined(r)'
    BY <1>2 DEF NotJoined
  <2>6. QED BY <1>2, <2>3, <2>4, <2>5 DEF JoinInv
<1>3. CASE EvInvite
  <2> DEFINE c == fifo[1][2]
  <2>1. /\ ev = "wait" /\ ev' = "sdp" /\ Len(fifo) > 0 /\ fifo[1][1] = "INVITE" /\ c \in Calls
        /\ UNCHANGED <<handle, joined, twice>> /\ fifo' = Tail(fifo)
        /\ \/ uas[c] = "invited" /\ uas' = [uas EXCEPT ![c] = "answered"]
           \/ uas' = uas
    BY <1>0, <1>3 DEF EvInvite, Take, threads, history, Strict, NoFault
  <2>2. OneActive' /\ \A d \in Calls : uas'[d] \notin {"calling", "talking"}
    BY <1>0, <2>1 DEF JoinInv, OneActive, Active
  <2>3. \A d \in Calls : uas'[d] = "confirmed" => uas[d] = "confirmed"
    BY <1>0, <2>1
  <2>4. Fresh => Fresh'
    BY <2>1 DEF Fresh, NotJoined, ToMake, Joins
  <2>5. ev' \notin Joins
    BY <2>1 DEF Joins
  <2>6. QED BY <1>2, <2>1, <2>2, <2>3, <2>4, <2>5
<1>4. CASE EvAnswered
  <2>1. /\ ev = "wait" /\ Still /\ uas' = uas /\ Len(fifo) > 0 /\ fifo[1][1] = "ANSWERED"
        /\ fifo' = Tail(fifo)
    BY <1>0, <1>4 DEF EvAnswered, Take, threads, history, Still
  <2>2. OneActive' /\ \A d \in Calls : uas'[d] \notin {"calling", "talking"}
    BY <2>1 DEF JoinInv, OneActive, Active
  <2>3. (Fresh' <=> Fresh) /\ ev' \notin Joins /\ UNCHANGED <<handle, joined, twice>>
    BY <2>1, StillFresh DEF Still, Joins
  <2>4. QED BY <1>2, <2>1, <2>2, <2>3
<1>5. CASE EvAck
  <2>1. /\ ev = "wait" /\ ev' = "open_audio" /\ uas' = uas /\ UNCHANGED <<handle, joined, twice>>
        /\ Len(fifo) > 0 /\ fifo[1][1] = "ACK" /\ fifo' = Tail(fifo)
    BY <1>0, <1>5 DEF EvAck, Take, threads, history
  <2>2. OneActive' /\ \A d \in Calls : uas'[d] \notin {"calling", "talking"}
    BY <2>1 DEF JoinInv, OneActive, Active
  <2>3. Fresh' /\ ev' \notin Joins
    BY <2>1 DEF Fresh, ToMake, Joins
  <2>4. QED BY <1>2, <2>1, <2>2, <2>3
<1>6. CASE EvClosed
  <2>1. /\ ev = "wait" /\ uas' = uas /\ UNCHANGED <<handle, joined, twice>>
        /\ Len(fifo) > 0 /\ fifo[1][1] = "CLOSED" /\ fifo' = Tail(fifo)
    BY <1>0, <1>6 DEF EvClosed, Take, threads, history
  <2>2. OneActive' /\ \A d \in Calls : uas'[d] \notin {"calling", "talking"}
    BY <2>1 DEF JoinInv, OneActive, Active
  <2>3. Armed(fifo, Fresh, 0)
    <3>1. 1 \in 1 .. Len(fifo) /\ 1 - 1 = 0
      BY <1>0, <2>1
    <3>2. QED BY <2>1, <3>1 DEF JoinInv
  <2>4. \A r \in Roles : NotJoined(r)
    BY <2>1, <2>3 DEF Armed, Fresh, ToMake
  <2>5. QED BY <1>2, <2>1, <2>2, <2>4
<1>7. QED BY <1>1, <1>3, <1>4, <1>5, <1>6

\* Making and joining threads, and the threads themselves: a new thread was not
\* joined, and the handler of CALL_CLOSED joins each handle once.
LEMMA ThreadJoin ==
  ASSUME IInv, Strict, JoinInv, EvMakeMedia \/ EvJoinMedia \/ (ThreadsGoOn /\ twice' = twice)
  PROVE  JoinInv'
<1> USE MaxAcksAssumption DEF IInv
<1>0. Len(fifo) \in Nat
  BY QueueType
<1>1. ASSUME UNCHANGED <<uas, fifo>>, Fresh => Fresh',
             ev' \in Joins => \A r \in Roles \ JoinedSoFar' : NotJoined(r)', ~twice'
      PROVE  JoinInv'
  <2>1. \A j \in 0 .. Len(fifo) : Armed(fifo, Fresh, j) => Armed(fifo', Fresh', j)
    BY <1>1 DEF Armed
  <2>2. QED BY <1>0, <1>1, <2>1 DEF JoinInv, OneActive, Active
<1>2. ASSUME NEW kind \in {"audio", "video"}, NEW at \in {"open_audio", "open_video"},
             NEW next \in Creates, EvOpen(kind, at, next), ToMake' = ToMake \/ ev' = "wait"
       PROVE  JoinInv'
  <2>1. /\ UNCHANGED <<uas, fifo, handle, joined, twice>> /\ ev' = next
    BY <1>2 DEF EvOpen, threads, Strict, NoFault
  <2>2. Fresh => Fresh'
    BY <1>2, <2>1 DEF Fresh, NotJoined, Joins, Creates
  <2>3. QED BY <1>1, <2>1, <2>2 DEF JoinInv, Joins, Creates
<1>3. ASSUME NEW r \in Roles, NEW at \in Creates, NEW next \in AckSteps \cup {"wait"},
             EvCreate(r, at, next), r \in ToMake, ToMake' = ToMake \ {r}
       PROVE  JoinInv'
  <2>1. /\ UNCHANGED <<uas, fifo, joined, twice>> /\ ev' = next /\ ev = at
        /\ <<r, gen>> \notin joined
        /\ handle' = [handle EXCEPT ![r] = gen] \/ handle' = [handle EXCEPT ![r] = 0]
    BY <1>3 DEF EvCreate, history, StopInv
  <2>2. NotJoined(r)' /\ \A q \in Roles : q # r => (NotJoined(q) => NotJoined(q)')
    BY <2>1 DEF NotJoined, TypeOK
  <2>3. Fresh => Fresh'
    BY <1>3, <2>1, <2>2 DEF Fresh, Joins, Creates, AckSteps
  <2>4. ev' \notin Joins
    BY <2>1 DEF Joins, Creates, AckSteps
  <2>5. QED BY <1>1, <2>1, <2>3, <2>4 DEF JoinInv
<1>4. ASSUME NEW r \in Roles, NEW at \in Joins, NEW next \in Joins \cup {"wait"},
             EvJoin(r, at, next), r \notin JoinedSoFar,
             next \in Joins => JoinedSoFar' = JoinedSoFar \cup {r}
       PROVE  JoinInv'
  <2>1. ev = at /\ ev \in Joins /\ ev' = next /\ UNCHANGED <<uas, fifo, handle>> /\ NotJoined(r)
    BY <1>4 DEF EvJoin, JoinInv
  <2>2. twice' = twice /\ joined' \in {joined, joined \cup {<<r, handle[r]>>}}
    BY <1>4, <2>1 DEF EvJoin, NotJoined
  <2>3. \A q \in Roles : q # r /\ NotJoined(q) => NotJoined(q)'
    BY <2>1, <2>2 DEF NotJoined
  <2>4. ~Fresh
    BY <2>1 DEF Fresh
  <2>5. QED BY <1>1, <1>4, <2>1, <2>2, <2>3, <2>4 DEF JoinInv
<1>5. CASE EvMakeMedia
  <2>1. CASE EvOpen("audio", "open_audio", "create_audio_send")
    BY <1>2, <2>1 DEF EvOpen, ToMake, Creates
  <2>2. CASE EvOpen("video", "open_video", "create_video_send")
    BY <1>2, <2>2 DEF EvOpen, ToMake, Creates
  <2>3. CASE EvCreate("audio_send", "create_audio_send", "create_audio_recv")
    BY <1>3, <2>3 DEF EvCreate, ToMake, Creates, AckSteps, Roles
  <2>4. CASE EvCreate("audio_recv", "create_audio_recv", "open_video")
    BY <1>3, <2>4 DEF EvCreate, ToMake, Creates, AckSteps, Roles
  <2>5. CASE EvCreate("video_send", "create_video_send", "create_video_recv")
    BY <1>3, <2>5 DEF EvCreate, ToMake, Creates, AckSteps, Roles
  <2>6. CASE EvCreate("video_recv", "create_video_recv", "wait")
    BY <1>3, <2>6 DEF EvCreate, ToMake, Creates, AckSteps, Roles
  <2>7. QED BY <1>5, <2>1, <2>2, <2>3, <2>4, <2>5, <2>6 DEF EvMakeMedia
<1>6. CASE EvJoinMedia
  <2>1. CASE EvJoin("audio_send", "join_audio_send", "join_audio_recv")
    BY <1>4, <2>1 DEF EvJoin, JoinedSoFar, Joins, Roles
  <2>2. CASE EvJoin("audio_recv", "join_audio_recv", "join_video_send")
    BY <1>4, <2>2 DEF EvJoin, JoinedSoFar, Joins, Roles
  <2>3. CASE EvJoin("video_send", "join_video_send", "join_video_recv")
    BY <1>4, <2>3 DEF EvJoin, JoinedSoFar, Joins, Roles
  <2>4. CASE EvJoin("video_recv", "join_video_recv", "wait")
    BY <1>4, <2>4 DEF EvJoin, JoinedSoFar, Joins, Roles
  <2>5. QED BY <1>6, <2>1, <2>2, <2>3, <2>4 DEF EvJoinMedia
<1>7. CASE ThreadsGoOn /\ twice' = twice
  <2>1. Still /\ UNCHANGED <<uas, fifo>>
    BY <1>7 DEF ThreadsGoOn, event, Still
  <2>2. (Fresh => Fresh') /\ (ev' \in Joins
            => \A r \in Roles \ JoinedSoFar' : NotJoined(r)') /\ ~twice'
    BY <2>1, StillFresh DEF Still, JoinInv
  <2>3. QED BY <1>1, <2>1, <2>2
<1>8. QED BY <1>5, <1>6, <1>7

LEMMA JoinStep ==
  ASSUME IInv, Strict, JoinInv, Next
  PROVE  JoinInv'
<1>1. CASE \E c \in Calls : Peer(c)
  BY <1>1, PeerJoin
<1>2. CASE Main \/ EvCrash
  BY <1>2, PeerJoin
<1>3. CASE EventThread
  BY <1>3, EventJoin, ThreadJoin DEF EventThread
<1>4. ASSUME NEW g \in Gens, MediaFault(g) \/ \E r \in Roles : MediaThread(r, g)
      PROVE  JoinInv'
  <2>1. ThreadsGoOn
    BY <1>4, MediaGoesOn DEF IInv
  <2>2. twice' = twice
    BY <1>4 DEF MediaFault, AudioSendFails, VideoReadFails, AudioDeviceFails, MediaThread,
       AudioThread, VideoSendThread, VideoRecvThread, AudioStart, LeaveLoop, CloseSocket,
       VideoRecvStart, VideoSendStart, VideoSendClose, history
  <2>3. QED BY <2>1, <2>2, ThreadJoin
<1>5. QED BY <1>1, <1>2, <1>3, <1>4 DEF Next

-----------------------------------------------------------------------------
(* The invariant of all trials, and what follows from it.                  *)

CallInv ==
  /\ IInv
  /\ Plain => PlainInv /\ DestInv /\ FdInv
  /\ Strict => JoinInv

LEMMA InitCallInv == Init => CallInv
<1> SUFFICES ASSUME Init PROVE CallInv
  OBVIOUS
<1>1. IInv
  BY InitIInv
<1>2. /\ \A c \in Calls : uas[c] = "idle"
      /\ Len(fifo) = 0 /\ ev = "wait" /\ foreign = "none" /\ twice = FALSE
      /\ \A t \in Threads : thr[t] = "none"
      /\ \A f \in Fds : fdt[f] = Free
      /\ \A g \in Gens : rtpfd[g] = NoFd
      /\ \A r \in Roles : handle[r] = 0
      /\ peer = [g \in Gens |-> [call |-> None, audio |-> None, video |-> None]]
  BY DEF Init
<1>3. (\A r \in Roles, g \in Gens : ~IsLive(r, g)) /\ ToMake = {}
  BY <1>2 DEF IsLive, Live, Threads, ToMake
<1>4. PlainInv
  BY <1>2, <1>3 DEF PlainInv, OneActive, Active, QueueInv, AckInv, MediaInv, NoMedia, HandleInv,
     AckSteps, Creates
<1>5. DestInv
  BY <1>2, <1>3 DEF DestInv, AckSteps, Creates
<1>6. VideoFdInv
  BY <1>2, <1>3 DEF VideoFdInv, Threads, Roles
<1>7. OwnerInv
  BY <1>2 DEF OwnerInv, Owned, Free
<1>8. JoinInv
  BY <1>2 DEF JoinInv, OneActive, Active, Joins
<1>9. QED BY <1>1, <1>4, <1>5, <1>6, <1>7, <1>8 DEF CallInv, FdInv

\* The trial is chosen once.
LEMMA WorldStays == [Next]_vars => world' = world
<1> SUFFICES ASSUME [Next]_vars PROVE world' = world
  OBVIOUS
<1>1. CASE \E c \in Calls : Peer(c)
  BY <1>1 DEF Peer, PeerInvite, PeerCancel, PeerAck, PeerAnswer, PeerBye, AckTimeout, EnvKeeps
<1>2. CASE Main \/ EvCrash
  BY <1>2 DEF Main, MainHangup, MainInvite, MainStopVideo, MainQuit, MainExit, MainKeeps,
     EvCrash, EvUseFreed, EvNoSdp
<1>3. CASE EventThread
  BY <1>3 DEF EventThread, EvInvite, EvReadSdp, EvAnswered, EvAck, EvMakeMedia, EvOpen, EvCreate,
     EvClosed, EvJoinMedia, EvJoin, EvKeeps
<1>4. CASE (\E r \in Roles, g \in Gens : MediaThread(r, g)) \/ \E g \in Gens : MediaFault(g)
  BY ZenonT(40), <1>4 DEF MediaFault, AudioSendFails, VideoReadFails, AudioDeviceFails,
     MediaThread, AudioThread, VideoSendThread, VideoRecvThread, AudioStart, LeaveLoop, CloseSocket,
     VideoRecvStart, VideoSendStart, VideoSendClose, Goto, ThreadKeeps
<1>5. CASE UNCHANGED vars
  BY <1>5 DEF vars
<1>6. QED BY <1>1, <1>2, <1>3, <1>4, <1>5 DEF Next

LEMMA NextCallInv == CallInv /\ [Next]_vars => CallInv'
<1> SUFFICES ASSUME CallInv, [Next]_vars PROVE CallInv'
  OBVIOUS
<1>1. IInv /\ IInv'
  BY NextIInv DEF CallInv
<1>2. (Plain' <=> Plain) /\ (Strict' <=> Strict)
  BY WorldStays DEF Plain, Strict, NoFault, Faults
<1>3. CASE Next
  BY <1>1, <1>2, <1>3, PlainStep, DestStep, FdStep, JoinStep DEF CallInv
<1>4. CASE UNCHANGED vars
  <2> USE <1>4 DEF vars, event, threads, files, history
  <2>1. /\ PlainInv => PlainInv'
        /\ DestInv => DestInv'
    BY DEF PlainInv, OneActive, Active, QueueInv, AckInv, MediaInv, NoMedia, HandleInv, IsLive,
       ToMake, DestInv, Target
  <2>2. /\ VideoFdInv => VideoFdInv'
        /\ OwnerInv => OwnerInv'
        /\ Careful' => Careful
    BY DEF VideoFdInv, OwnerInv, Owned, WillClose, IsLive, ToMake, Careful, Plain, NoFault,
       Faults, Refused
  <2>3. JoinInv => JoinInv'
    BY DEF JoinInv, OneActive, Active, Fresh, NotJoined, ToMake, JoinedSoFar
  <2>4. QED BY <1>1, <1>2, <2>1, <2>2, <2>3 DEF CallInv, FdInv
<1>5. QED BY <1>3, <1>4

\* No thread is orphaned: the handle that sip.c stores is that of the thread that
\* runs, so the joins of CALL_CLOSED wait for it, when every ACK comes once and
\* no call is answered before the last one was closed.
THEOREM NobodyOrphaned == Spec => []NoOrphan
<1>1. CallInv => NoOrphan
  BY DEF CallInv, Plain, PlainInv, HandleInv, NoOrphan
<1>2. QED
  BY InitCallInv, NextCallInv, <1>1, PTL DEF Spec

\* Sound and picture go to the peer that made the call, although video_send
\* reads dest_ip only after the event thread went on: no other SDP is read
\* while a thread of the call is live.
THEOREM MediaReachCaller == Spec => []MediaToCaller
<1>1. CallInv => MediaToCaller
  BY DEF CallInv, Plain, DestInv, MediaToCaller
<1>2. QED
  BY InitCallInv, NextCallInv, <1>1, PTL DEF Spec

\* The first close() of a number that was given out again is an audio thread's:
\* rtpclose and video_recv close what they opened.
THEOREM VideoClosesItsOwn == Spec => []ForeignCloseIsAudio
<1>1. CallInv => ForeignCloseIsAudio
  BY DEF CallInv, Plain, FdInv, VideoFdInv, ForeignCloseIsAudio
<1>2. QED
  BY InitCallInv, NextCallInv, <1>1, PTL DEF Spec

\* When the event thread waits and no media thread is live, every socket of the
\* calls so far was closed, by the threads that were made for it.
THEOREM NothingLeftOpen == Spec => []AllClosed
<1>1. ASSUME CallInv PROVE AllClosed
  <2>1. SUFFICES ASSUME NoFault({"openfail", "nothread", "initfail", "camfail",
                                 "dupack", "overlap", "hangup"}),
                        Refused = {}, ev = "wait", foreign = "none",
                        \A r \in Roles, g \in Gens : ~IsLive(r, g),
                        NEW f \in Fds
                 PROVE  fdt[f] = Free
    BY DEF AllClosed
  <2>2. Plain /\ Careful
    BY <2>1 DEF Plain, Careful, NoFault
  <2>3. \A g \in Gens : Owned(f, g)
    BY <1>1, <2>1, <2>2 DEF CallInv, FdInv, OwnerInv
  <2>4. \A g \in Gens : fdt[f] \notin {<<"audio", g>>, <<"video", g>>, <<"rtp", g>>}
    BY <2>1, <2>3 DEF Owned, WillClose, IsLive, Live, ToMake, Roles
  <2>5. fdt[f] \in (Kinds \X Gens) \cup {Free}
    BY <1>1 DEF CallInv, IInv, TypeOK
  <2>6. QED BY <2>4, <2>5 DEF Kinds
<1>2. QED
  BY InitCallInv, NextCallInv, <1>1, PTL DEF Spec

\* osip_thread_join is called once for each thread, although the handles are
\* never reset to NULL: a CALL_ACK comes before every CALL_CLOSED and renews them.
THEOREM EachJoinedOnce == Spec => []JoinedOnce
<1>1. CallInv => JoinedOnce
  BY DEF CallInv, Strict, JoinInv, JoinedOnce
<1>2. QED
  BY InitCallInv, NextCallInv, <1>1, PTL DEF Spec
=============================================================================
