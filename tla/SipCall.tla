------------------------------ MODULE SipCall ------------------------------
(***************************************************************************)
(* The call control of the phone (sip.c) with the life cycle of the four   *)
(* media threads it starts (audio_rtp_send.c, audio_rtp_recv.c,            *)
(* video_rtp_send.c, video_rtp_recv.c) and the descriptors they share.     *)
(*                                                                         *)
(* Three kinds of threads run: main reads commands, sipEventThread takes   *)
(* events from the eXosip queue, and every CALL_ACK starts a generation of *)
(* four media threads.  They share the four parameter structures           *)
(* (quit flags, sockets, destination) without a lock.                      *)
(*                                                                         *)
(* eXosip and the peer are the environment.  What goes wrong there or in   *)
(* the devices is chosen at the start among Trials and named in Faults:    *)
(*   cancel    the caller cancels, or no answer can be built               *)
(*   noack     the call ends before its ACK arrives                        *)
(*   nosdp     an INVITE has no SDP with both media, or its call is gone   *)
(*             before the SDP is read                                      *)
(*   dupack    an ACK is received again (a retransmitted 200 was answered) *)
(*   overlap   a second INVITE arrives while a call is up                  *)
(*   hangup    the user ends the call with the command h                   *)
(*   outgoing  the user calls with the command i                           *)
(*   stopvideo the user stops the picture with the command t               *)
(*   quit      the user ends the program with the command q                *)
(*   openfail  a setsockopt or bind fails after socket() succeeded         *)
(*   nothread  osip_thread_create returns NULL now and then                *)
(*   senderr   a send of an audio packet fails                             *)
(*   initfail  omx_init fails in video_recv                                *)
(*   camfail   the camera fails while video_send reads                     *)
(*   device    the sound card fails: the thread calls exit(1)              *)
(***************************************************************************)
EXTENDS Naturals, Sequences

CONSTANTS Calls,    \* the calls the peer or the user may make
          MaxAcks,  \* bound on the CALL_ACK events of a behaviour
          Trials,   \* what may go wrong: the sets of faults to try, each with the
                    \* media threads osip_thread_create never manages to make
          None      \* no call

FaultKinds == {"cancel", "noack", "dupack", "overlap", "hangup", "outgoing",
               "stopvideo", "quit", "openfail", "nothread", "senderr", "initfail",
               "camfail", "device", "nosdp"}

ASSUME MaxAcksAssumption == MaxAcks \in Nat \ {0}
ASSUME NoneAssumption == None \notin Calls

Roles == {"audio_send", "audio_recv", "video_send", "video_recv"}

ASSUME TrialsAssumption ==
  Trials \subseteq [faults : SUBSET FaultKinds, refused : SUBSET Roles]

Gens == 1 .. MaxAcks
Threads == Roles \X Gens

Kinds == {"audio", "video", "rtp"}
Free == <<"free", 0>>
\* An ACK opens at most three sockets, so the table never fills up.
Fds == 1 .. (3 * MaxAcks)
NoFd == 0

VARIABLES
  world,     \* the trial; it never changes
  uas,       \* eXosip: the state of each call
  acks,      \* how many CALL_ACK events were put in the queue
  fifo,      \* eXosip.j_events
  ev,        \* where sipEventThread is
  je,        \* the event it handles
  flag,      \* send_quit / recv_quit of the four parameter structures
  handle,    \* audio_thread_send, ... : the generation, 0 for NULL
  thr,       \* where each media thread is
  joined,    \* the threads pthread_join was called on
  sock,      \* audio_rtp_socket and video_rtp_socket of the structures
  fdt,       \* the descriptor table of the process
  rtpsock,   \* the RtpSend context of video_rtp_send.c: its generation
  rtpfd,     \* the descriptor in each RtpSend context
  freed,     \* the contexts rtpclose has freed
  dest,      \* dest_ip and dest_port: the call whose SDP was read last
  cur,       \* call_id and dialog_id
  gen,       \* how many CALL_ACK events were handled
  proc,      \* the process: up, quit (in eXosip_quit), exited
  peer,      \* history: whom the media of a generation go to
  twice,     \* history: a thread was joined again
  foreign    \* history: the first thread that closed what was not its own

event == <<ev, je, gen, cur, dest>>
threads == <<handle, thr, joined>>
files == <<sock, fdt, rtpsock, rtpfd, freed>>
history == <<peer, twice, foreign>>
vars == <<world, uas, acks, fifo, event, flag, threads, files, proc, history>>

Live == {"start", "run", "closing"}
Creates == {"create_audio_send", "create_audio_recv", "create_video_send", "create_video_recv"}
Joins == {"join_audio_send", "join_audio_recv", "join_video_send", "join_video_recv"}
AckSteps == Creates \cup {"open_audio", "open_video"}

PeerOf == [call : Calls \cup {None}, audio : Calls \cup {None}, video : Calls \cup {None}]

TypeOK ==
  /\ world \in Trials
  /\ uas \in [Calls -> {"idle", "invited", "answered", "confirmed", "calling",
                        "talking", "hungup", "ended"}]
  /\ acks \in 0 .. MaxAcks
  /\ fifo \in Seq({"INVITE", "ANSWERED", "ACK", "CLOSED"} \X Calls)
  /\ ev \in {"wait", "sdp"} \cup AckSteps \cup Joins
  /\ je \in Calls \cup {None}
  /\ gen \in 0 .. MaxAcks
  /\ cur \in Calls \cup {None}
  /\ dest \in Calls \cup {None}
  /\ flag \in [Roles -> {0, 1}]
  /\ handle \in [Roles -> 0 .. MaxAcks]
  /\ thr \in [Threads -> {"none", "done"} \cup Live]
  /\ joined \subseteq Threads
  /\ sock \in [{"audio", "video"} -> Fds \cup {NoFd}]
  /\ fdt \in [Fds -> (Kinds \X Gens) \cup {Free}]
  /\ rtpsock \in 0 .. MaxAcks
  /\ rtpfd \in [Gens -> Fds \cup {NoFd}]
  /\ freed \subseteq Gens
  /\ proc \in {"up", "quit", "exited"}
  /\ peer \in [Gens -> PeerOf]
  /\ twice \in BOOLEAN
  /\ foreign \in Roles \cup {"none"}

Init ==
  /\ world \in Trials
  /\ uas = [c \in Calls |-> "idle"]
  /\ acks = 0
  /\ fifo = <<>>
  /\ ev = "wait" /\ je = None /\ gen = 0 /\ cur = None /\ dest = None
  /\ flag = [r \in Roles |-> 1]
  /\ handle = [r \in Roles |-> 0]
  /\ thr = [t \in Threads |-> "none"]
  /\ joined = {}
  /\ sock = [k \in {"audio", "video"} |-> NoFd]
  /\ fdt = [f \in Fds |-> Free]
  /\ rtpsock = 0
  /\ rtpfd = [g \in Gens |-> NoFd]
  /\ freed = {}
  /\ proc = "up"
  /\ peer = [g \in Gens |-> [call |-> None, audio |-> None, video |-> None]]
  /\ twice = FALSE
  /\ foreign = "none"

Running == proc # "exited"

Faults == world.faults
Refused == world.refused

-----------------------------------------------------------------------------
(* The descriptor table: open takes the lowest free number (POSIX).        *)

LowestFree == CHOOSE f \in Fds : fdt[f] = Free /\ \A g \in 1 .. (f - 1) : fdt[g] # Free
HasFree == \E f \in Fds : fdt[f] = Free

Opened(obj) == [fdt EXCEPT ![LowestFree] = obj]

\* Thread r closes the number f, meant to be the socket obj; whatever has the
\* number now is closed, and an unused number is left alone (EBADF).
Close(r, f, obj) ==
  /\ fdt' = [fdt EXCEPT ![f] = Free]
  /\ foreign' = IF foreign = "none" /\ fdt[f] \notin {Free, obj} THEN r ELSE foreign

-----------------------------------------------------------------------------
(* eXosip and the peer.  An event is appended to eXosip.j_events.          *)

\* Mutant of Report: the event of another kind is put in the queue.
MutReport(type, c) == fifo' = Append(fifo, <<"RELEASED", c>>)

Report(type, c) == fifo' = Append(fifo, <<type, c>>)

EnvKeeps == UNCHANGED <<world, event, flag, threads, files, proc, history>>

\* A new INVITE opens a dialog; an answered call takes all of the phone.
PeerInvite(c) ==
  /\ Running
  /\ uas[c] = "idle"
  /\ \/ "overlap" \in Faults
     \/ \A d \in Calls : uas[d] \in {"idle", "hungup", "ended"}
  /\ uas' = [uas EXCEPT ![c] = "invited"]
  /\ Report("INVITE", c)
  /\ UNCHANGED acks /\ EnvKeeps

\* A CANCEL before the answer: eXosip answers 487 and reports the call closed.
PeerCancel(c) ==
  /\ Running
  /\ "cancel" \in Faults /\ uas[c] = "invited"
  /\ uas' = [uas EXCEPT ![c] = "ended"]
  /\ Report("CLOSED", c)
  /\ UNCHANGED acks /\ EnvKeeps

\* Every ACK that matches a dialog is reported, a repeated one too.
PeerAck(c) ==
  /\ Running
  /\ acks < MaxAcks
  /\ \/ uas[c] = "answered"
     \/ uas[c] = "confirmed" /\ "dupack" \in Faults
  /\ uas' = [uas EXCEPT ![c] = "confirmed"]
  /\ acks' = acks + 1
  /\ Report("ACK", c)
  /\ EnvKeeps

\* The peer answers an outgoing call.
PeerAnswer(c) ==
  /\ Running
  /\ uas[c] = "calling"
  /\ uas' = [uas EXCEPT ![c] = "talking"]
  /\ Report("ANSWERED", c)
  /\ UNCHANGED acks /\ EnvKeeps

PeerBye(c) ==
  /\ Running
  /\ \/ uas[c] \in {"confirmed", "talking"}
     \/ uas[c] = "answered" /\ "noack" \in Faults
  /\ uas' = [uas EXCEPT ![c] = "ended"]
  /\ Report("CLOSED", c)
  /\ UNCHANGED acks /\ EnvKeeps

\* eXosip_event_wait finds that ten retransmissions of the 200 got no ACK.
AckTimeout(c) ==
  /\ Running
  /\ "noack" \in Faults
  /\ ev = "wait" /\ fifo = <<>>
  /\ uas[c] = "answered"
  /\ uas' = [uas EXCEPT ![c] = "ended"]
  /\ Report("CLOSED", c)
  /\ UNCHANGED acks /\ EnvKeeps

-----------------------------------------------------------------------------
(* main: the commands that change state.                                   *)

MainKeeps == UNCHANGED <<world, acks, event, threads, files, history>>

\* i
MainInvite(c) ==
  /\ proc = "up"
  /\ "outgoing" \in Faults
  /\ \A d \in Calls : uas[d] \in {"idle", "hungup", "ended"}
  /\ uas[c] = "idle"
  /\ uas' = [uas EXCEPT ![c] = "calling"]
  /\ UNCHANGED <<fifo, flag, proc>> /\ MainKeeps

\* h: eXosip sends the BYE and drops the dialog; no event is reported.
MainHangup ==
  /\ proc = "up"
  /\ "hangup" \in Faults
  /\ cur # None
  /\ uas[cur] \in {"confirmed", "talking"}
  /\ uas' = [uas EXCEPT ![cur] = "hungup"]
  /\ UNCHANGED <<fifo, flag, proc>> /\ MainKeeps

\* t
MainStopVideo ==
  /\ proc = "up"
  /\ "stopvideo" \in Faults
  /\ flag' = [flag EXCEPT !["video_send"] = 0, !["video_recv"] = 0]
  /\ UNCHANGED <<uas, fifo, proc>> /\ MainKeeps

\* q, then the end of main
MainQuit ==
  /\ proc = "up"
  /\ "quit" \in Faults
  /\ proc' = "quit"
  /\ UNCHANGED <<uas, fifo, flag>> /\ MainKeeps

MainExit ==
  /\ proc = "quit"
  /\ proc' = "exited"
  /\ UNCHANGED <<uas, fifo, flag>> /\ MainKeeps

Main == MainHangup \/ MainStopVideo \/ MainQuit \/ MainExit \/ \E c \in Calls : MainInvite(c)

-----------------------------------------------------------------------------
(* sipEventThread                                                          *)

EvKeeps == UNCHANGED <<world, acks, proc>>

Take(type) ==
  /\ Running
  /\ ev = "wait"
  /\ fifo # <<>> /\ Head(fifo)[1] = type

\* CALL_INVITE: 180, then 200 with the SDP, or 400 when no answer can be built
\* (then eXosip reports the call closed).
EvInvite ==
  /\ Take("INVITE")
  /\ LET c == Head(fifo)[2] IN
     \/ /\ uas[c] = "invited"
        /\ uas' = [uas EXCEPT ![c] = "answered"]
        /\ fifo' = Tail(fifo)
     \/ /\ uas[c] = "invited" /\ "cancel" \in Faults
        /\ uas' = [uas EXCEPT ![c] = "ended"]
        /\ fifo' = Append(Tail(fifo), <<"CLOSED", c>>)
     \/ /\ uas[c] # "invited"
        /\ uas' = uas
        /\ fifo' = Tail(fifo)
  /\ ev' = "sdp" /\ je' = Head(fifo)[2]
  /\ UNCHANGED <<gen, cur, dest, flag, threads, files, history>> /\ EvKeeps

\* Mutant of EvReadSdp: the destination is kept once it is set.
MutDestKept ==
  /\ Running /\ ev = "sdp"
  /\ dest' = IF dest = None THEN je ELSE dest
  /\ ev' = "wait" /\ je' = None
  /\ UNCHANGED <<uas, fifo, gen, cur, flag, threads, files, history>> /\ EvKeeps

\* The destination is read from the SDP of the INVITE, whatever the answer was.
EvReadSdp ==
  /\ Running
  /\ ev = "sdp"
  /\ dest' = je
  /\ ev' = "wait" /\ je' = None
  /\ UNCHANGED <<uas, fifo, gen, cur, flag, threads, files, history>> /\ EvKeeps

\* CALL_ANSWERED: the ACK is sent; no media thread is started.
EvAnswered ==
  /\ Take("ANSWERED")
  /\ cur' = Head(fifo)[2]
  /\ fifo' = Tail(fifo)
  /\ UNCHANGED <<uas, ev, je, gen, dest, flag, threads, files, history>> /\ EvKeeps

\* CALL_ACK: the quit flags are set, then sockets and threads are made in turn.
EvAck ==
  /\ Take("ACK")
  /\ gen < MaxAcks          \* always so: no more ACK events are reported
  /\ fifo' = Tail(fifo)
  /\ cur' = Head(fifo)[2]
  /\ gen' = gen + 1
  /\ flag' = [r \in Roles |-> 1]
  /\ ev' = "open_audio" /\ je' = Head(fifo)[2]
  /\ UNCHANGED <<uas, dest, threads, files, history>> /\ EvKeeps

\* open_audio_socket, open_video_socket: a failure ends the handler, leaves the
\* threads not yet made unmade and, after socket(), leaks the descriptor.
EvOpen(kind, at, next) ==
  /\ Running
  /\ ev = at
  /\ HasFree
  /\ \/ /\ fdt' = Opened(<<kind, gen>>)
        /\ sock' = [sock EXCEPT ![kind] = LowestFree]
        /\ ev' = next /\ je' = je
        /\ peer' = IF kind = "audio"
                     THEN [peer EXCEPT ![gen] = [call |-> je, audio |-> dest, video |-> None]]
                     ELSE peer
     \/ /\ "openfail" \in Faults
        /\ fdt' \in {fdt, Opened(<<kind, gen>>)}
        /\ ev' = "wait" /\ je' = None
        /\ UNCHANGED <<sock, peer>>
  /\ UNCHANGED <<uas, fifo, gen, cur, dest, flag, threads, rtpsock, rtpfd, freed,
                 twice, foreign>>
  /\ EvKeeps

\* Mutant of EvCreate: a handle is stored only where there was none.
MutHandleKept(r, at, next) ==
  /\ Running
  /\ ev = at
  /\ \/ /\ r \notin Refused
        /\ handle' = [handle EXCEPT ![r] = IF @ = 0 THEN gen ELSE @]
        /\ thr' = [thr EXCEPT ![<<r, gen>>] = "start"]
     \/ /\ r \in Refused \/ "nothread" \in Faults
        /\ UNCHANGED <<handle, thr>>
  /\ ev' = next
  /\ je' = IF next = "wait" THEN None ELSE je
  /\ UNCHANGED <<uas, fifo, gen, cur, dest, flag, joined, files, history>> /\ EvKeeps

EvCreate(r, at, next) ==
  /\ Running
  /\ ev = at
  /\ \/ /\ r \notin Refused
        /\ handle' = [handle EXCEPT ![r] = gen]
        /\ thr' = [thr EXCEPT ![<<r, gen>>] = "start"]
     \/ /\ r \in Refused \/ "nothread" \in Faults
        /\ handle' = [handle EXCEPT ![r] = 0]
        /\ thr' = thr
  /\ ev' = next
  /\ je' = IF next = "wait" THEN None ELSE je
  /\ UNCHANGED <<uas, fifo, gen, cur, dest, flag, joined, files, history>> /\ EvKeeps

EvMakeMedia ==
  \/ EvOpen("audio", "open_audio", "create_audio_send")
  \/ EvCreate("audio_send", "create_audio_send", "create_audio_recv")
  \/ EvCreate("audio_recv", "create_audio_recv", "open_video")
  \/ EvOpen("video", "open_video", "create_video_send")
  \/ EvCreate("video_send", "create_video_send", "create_video_recv")
  \/ EvCreate("video_recv", "create_video_recv", "wait")

\* Mutant of EvClosed: recv_quit of the audio is forgotten.
MutFlagForgotten ==
  /\ Take("CLOSED")
  /\ fifo' = Tail(fifo)
  /\ flag' = [r \in Roles |-> IF r = "audio_recv" THEN flag[r] ELSE 0]
  /\ ev' = "join_audio_send" /\ je' = Head(fifo)[2]
  /\ UNCHANGED <<uas, gen, cur, dest, threads, files, history>> /\ EvKeeps

\* CALL_CLOSED: the four quit flags are cleared, then the four handles joined.
EvClosed ==
  /\ Take("CLOSED")
  /\ fifo' = Tail(fifo)
  /\ flag' = [r \in Roles |-> 0]
  /\ ev' = "join_audio_send" /\ je' = Head(fifo)[2]
  /\ UNCHANGED <<uas, gen, cur, dest, threads, files, history>> /\ EvKeeps

\* osip_thread_join: NULL is refused, a thread is waited for.  The handle is
\* kept, so a later CALL_CLOSED may join the same thread again, which is
\* undefined: glibc returns an error or the process dies.
EvJoin(r, at, next) ==
  /\ Running
  /\ ev = at
  /\ LET t == <<r, handle[r]>> IN
     \/ /\ handle[r] = 0
        /\ UNCHANGED <<joined, twice, proc>>
     \/ /\ handle[r] # 0 /\ t \notin joined
        /\ thr[t] = "done"
        /\ joined' = joined \cup {t}
        /\ UNCHANGED <<twice, proc>>
     \/ /\ handle[r] # 0 /\ t \in joined
        /\ twice' = TRUE
        /\ proc' \in {proc, "exited"}
        /\ joined' = joined
  /\ ev' = next
  /\ je' = IF next = "wait" THEN None ELSE je
  /\ UNCHANGED <<world, uas, acks, fifo, gen, cur, dest, flag, handle, thr, files, peer, foreign>>

\* Mutant of EvJoinMedia: the last join is left out.
MutJoinLeftOut ==
  \/ EvJoin("audio_send", "join_audio_send", "join_audio_recv")
  \/ EvJoin("audio_recv", "join_audio_recv", "join_video_send")
  \/ EvJoin("video_send", "join_video_send", "wait")

EvJoinMedia ==
  \/ EvJoin("audio_send", "join_audio_send", "join_audio_recv")
  \/ EvJoin("audio_recv", "join_audio_recv", "join_video_send")
  \/ EvJoin("video_send", "join_video_send", "join_video_recv")
  \/ EvJoin("video_recv", "join_video_recv", "wait")

\* eXosip_event_wait after eXosip_quit freed what it works on: the process may die.
EvUseFreed ==
  /\ proc = "quit"
  /\ ev = "wait"
  /\ proc' = "exited"
  /\ UNCHANGED <<world, uas, acks, fifo, event, flag, threads, files, history>>

\* eXosip_get_remote_sdp or what is looked for in the SDP gives NULL, which is used.
EvNoSdp ==
  /\ Running /\ ev = "sdp"
  /\ "nosdp" \in Faults
  /\ proc' = "exited"
  /\ UNCHANGED <<world, uas, acks, fifo, event, flag, threads, files, history>>

EvCrash == EvUseFreed \/ EvNoSdp

EventThread ==
  \/ EvInvite \/ EvReadSdp \/ EvAnswered \/ EvAck \/ EvMakeMedia
  \/ EvClosed \/ EvJoinMedia

-----------------------------------------------------------------------------
(* The media threads.  A turn of a loop that reads or sends changes none   *)
(* of this state, so only the ways out of the loop are steps.              *)

ThreadKeeps == UNCHANGED <<world, uas, acks, fifo, event, flag, handle, joined>>

Goto(r, g, from, to) ==
  /\ Running
  /\ thr[<<r, g>>] = from
  /\ thr' = [thr EXCEPT ![<<r, g>>] = to]
  /\ ThreadKeeps

\* The sound device is opened.
AudioStart(r, g) ==
  /\ r \in {"audio_send", "audio_recv"}
  /\ Goto(r, g, "start", "run")
  /\ UNCHANGED <<files, proc, history>>

\* A sound device that fails ends the whole process.
AudioDeviceFails(r, g) ==
  /\ Running
  /\ "device" \in Faults
  /\ r \in {"audio_send", "audio_recv"}
  /\ \/ thr[<<r, g>>] = "start"
     \/ thr[<<r, g>>] = "run" /\ r = "audio_send"
  /\ proc' = "exited"
  /\ thr' = thr
  /\ ThreadKeeps /\ UNCHANGED <<files, history>>

\* Mutant of LeaveLoop: the loop of audio_recv does not test its flag.
MutDeafLoop(r, g) ==
  /\ r # "audio_recv"
  /\ Goto(r, g, "run", "closing")
  /\ flag[r] # 1
  /\ UNCHANGED <<files, proc, history>>

\* The loop ends when the quit flag is no longer 1.
LeaveLoop(r, g) ==
  /\ Goto(r, g, "run", "closing")
  /\ flag[r] # 1
  /\ UNCHANGED <<files, proc, history>>

\* A packet that cannot be sent ends the loop of audio_send.
AudioSendFails(g) ==
  /\ "senderr" \in Faults
  /\ Goto("audio_send", g, "run", "closing")
  /\ UNCHANGED <<files, proc, history>>

\* close() of the number the parameter structure holds at that time.
CloseSocket(r, g, kind) ==
  /\ Goto(r, g, "closing", "done")
  /\ Close(r, sock[kind], <<kind, g>>)
  /\ UNCHANGED <<sock, rtpsock, rtpfd, freed, proc, peer, twice>>

\* omx_init; when it fails the thread returns and leaves the socket open.
VideoRecvStart(g) ==
  /\ \/ Goto("video_recv", g, "start", "run")
     \/ "initfail" \in Faults /\ Goto("video_recv", g, "start", "done")
  /\ UNCHANGED <<files, proc, history>>

\* sock_create and rtpopen: a socket of its own, to the destination of now.
VideoSendStart(g) ==
  /\ Goto("video_send", g, "start", "run")
  /\ HasFree
  /\ rtpsock' = g
  /\ \/ /\ fdt' = Opened(<<"rtp", g>>)
        /\ rtpfd' = [rtpfd EXCEPT ![g] = LowestFree]
     \/ /\ "openfail" \in Faults
        /\ fdt' \in {fdt, Opened(<<"rtp", g>>)}
        /\ rtpfd' = rtpfd
  /\ peer' = [peer EXCEPT ![g].video = dest]
  /\ UNCHANGED <<sock, freed, proc, twice, foreign>>

\* A failed read of the camera returns at once: nothing is closed or freed.
VideoReadFails(g) ==
  /\ "camfail" \in Faults
  /\ Goto("video_send", g, "run", "done")
  /\ UNCHANGED <<files, proc, history>>

\* Mutant of VideoSendClose: the context is freed, its socket is not closed.
MutFreeOnly(g) ==
  /\ Goto("video_send", g, "closing", "done")
  /\ freed' = freed \cup {rtpsock}
  /\ UNCHANGED <<sock, fdt, rtpsock, rtpfd, proc, history>>

\* Mutant of VideoSendClose: the receiver's socket is closed instead.
MutWrongSocket(g) ==
  /\ Goto("video_send", g, "closing", "done")
  /\ Close("video_send", sock["video"], <<"rtp", g>>)
  /\ freed' = freed \cup {rtpsock}
  /\ UNCHANGED <<sock, rtpsock, rtpfd, proc, peer, twice>>

\* rtpclose of the context the global rtpsock points to.  A context freed
\* before is undefined: the process may die, or the number in it is closed.
VideoSendClose(g) ==
  /\ Goto("video_send", g, "closing", "done")
  /\ IF rtpfd[rtpsock] = NoFd THEN UNCHANGED <<fdt, foreign>>
     ELSE Close("video_send", rtpfd[rtpsock], <<"rtp", g>>)
  /\ freed' = freed \cup {rtpsock}
  /\ \/ proc' = proc
     \/ rtpsock \in freed /\ proc' = "exited"
  /\ UNCHANGED <<sock, rtpsock, rtpfd, peer, twice>>

AudioThread(r, g) == AudioStart(r, g) \/ LeaveLoop(r, g) \/ CloseSocket(r, g, "audio")

VideoSendThread(g) ==
  VideoSendStart(g) \/ LeaveLoop("video_send", g) \/ VideoSendClose(g)

VideoRecvThread(g) ==
  VideoRecvStart(g) \/ LeaveLoop("video_recv", g) \/ CloseSocket("video_recv", g, "video")

MediaThread(r, g) ==
  \/ r \in {"audio_send", "audio_recv"} /\ AudioThread(r, g)
  \/ r = "video_send" /\ VideoSendThread(g)
  \/ r = "video_recv" /\ VideoRecvThread(g)

MediaFault(g) ==
  \/ AudioSendFails(g)
  \/ VideoReadFails(g)
  \/ \E r \in {"audio_send", "audio_recv"} : AudioDeviceFails(r, g)

-----------------------------------------------------------------------------
Peer(c) ==
  \/ PeerInvite(c) \/ PeerCancel(c) \/ PeerAck(c) \/ PeerAnswer(c) \/ PeerBye(c)
  \/ AckTimeout(c)

Next ==
  \/ \E c \in Calls : Peer(c)
  \/ Main
  \/ EventThread
  \/ EvCrash
  \/ \E r \in Roles, g \in Gens : MediaThread(r, g)
  \/ \E g \in Gens : MediaFault(g)

Spec == Init /\ [][Next]_vars

\* What the scheduler owes: the event thread and every media thread run on.
\* Their loops never block for good (non-blocking sockets, sleeps of 100us;
\* the sound card and the camera deliver).  Peer and user owe nothing.
Fairness ==
  /\ WF_vars(EventThread)
  /\ \A r \in Roles, g \in Gens : WF_vars(MediaThread(r, g))

FairSpec == Spec /\ Fairness

-----------------------------------------------------------------------------
(* Properties                                                              *)

IsLive(r, g) == thr[<<r, g>>] \in Live

NoFault(kinds) == Faults \cap kinds = {}

\* The thread whose handle is kept for r is over.
Over(r) == handle[r] # 0 => thr[<<r, handle[r]>>] = "done"

\* When the event thread is back in eXosip_event_wait after a CALL_CLOSED and
\* before the next CALL_ACK (only then are all four quit flags 0), every thread
\* whose handle it still has is over: the joins of sip.c:318-325 miss none,
\* whatever failed before and whoever else cleared a flag.
ClosedMeansStopped ==
  (ev = "wait" /\ \A r \in Roles : flag[r] = 0) => \A r \in Roles : Over(r)

\* The roles whose thread the handler of CALL_ACK has yet to make.
ToMake ==
  CASE ev \in {"open_audio", "create_audio_send"} -> Roles
    [] ev = "create_audio_recv" -> {"audio_recv", "video_send", "video_recv"}
    [] ev \in {"open_video", "create_video_send"} -> {"video_send", "video_recv"}
    [] ev = "create_video_recv" -> {"video_recv"}
    [] OTHER -> {}

\* The roles the handler of CALL_CLOSED has joined so far.
JoinedSoFar ==
  CASE ev = "join_audio_recv" -> {"audio_send"}
    [] ev = "join_video_send" -> {"audio_send", "audio_recv"}
    [] ev = "join_video_recv" -> {"audio_send", "audio_recv", "video_send"}
    [] OTHER -> {}

\* Why ClosedMeansStopped holds, as an inductive invariant: a thread is made
\* once and with the flags set, one that was joined is over for good, and the
\* flags stay 0 from the first join to the next ACK.
StopInv ==
  /\ flag["audio_send"] = 0 => \A r \in Roles : flag[r] = 0
  /\ ev \in AckSteps => gen # 0 /\ flag["audio_send"] = 1
  /\ ev \in Joins => \A r \in Roles : flag[r] = 0
  /\ \A r \in Roles, g \in Gens : g > gen => thr[<<r, g>>] = "none"
  /\ \A r \in ToMake : thr[<<r, gen>>] = "none"
  /\ \A g \in Gens : thr[<<"video_send", g>>] \in {"run", "closing"} => rtpsock # 0
  /\ \A t \in joined : thr[t] = "done"
  /\ \A r \in JoinedSoFar : Over(r)
  /\ (ev \in {"wait", "sdp"} /\ \A r \in Roles : flag[r] = 0) => \A r \in Roles : Over(r)

\* A thread that runs is one whose handle is kept, so that CALL_CLOSED waits
\* for it: as long as every ACK comes once and every call ends with a
\* CALL_CLOSED before the next is answered.
NoOrphan ==
  NoFault({"dupack", "overlap", "hangup"})
    => \A r \in Roles, g \in Gens : IsLive(r, g) => handle[r] = g

\* No thread is joined twice, as long as every CALL_CLOSED was preceded by a
\* CALL_ACK that made all four threads (the handles are never reset to NULL).
JoinedOnce ==
  NoFault({"cancel", "noack", "overlap", "outgoing", "openfail"}) => ~twice

\* audio_send and audio_recv both close the audio socket.  When a number was
\* given out again in between, the later close hits a stranger: the first
\* wrong close of a process is always one of those two.
ForeignCloseIsAudio ==
  NoFault({"dupack", "overlap", "hangup"})
    => foreign \in {"none", "audio_send", "audio_recv"}

\* When nothing runs any more, every descriptor has been given back, unless a
\* step failed half-way or a set of threads was forgotten.
AllClosed ==
  ( /\ NoFault({"openfail", "nothread", "initfail", "camfail", "dupack", "overlap", "hangup"})
    /\ Refused = {}
    /\ ev = "wait" /\ fifo = <<>>
    /\ \A r \in Roles, g \in Gens : ~IsLive(r, g)
    /\ foreign = "none" )
  => \A f \in Fds : fdt[f] = Free

\* Sound and picture of a call go to the peer that made it.  video_send reads
\* the destination only when it starts, after the event thread went on: with a
\* repeated ACK the picture of a forgotten thread may go to the next caller.
MediaToCaller ==
  NoFault({"dupack", "overlap", "hangup"})
    => \A g \in Gens : /\ peer[g].audio = peer[g].call
                       /\ peer[g].video \in {None, peer[g].call}

\* The event thread always comes back for the next event: no join waits for a
\* thread that was not told to stop, or that nobody will stop.
EventThreadReturns == (ev # "wait") ~> (ev = "wait" \/ ~Running)

\* A media thread told to stop stops, or is started into a new call, or dies
\* with the process; also one whose handle was lost.
MediaStops ==
  \A r \in Roles, g \in Gens :
    (IsLive(r, g) /\ flag[r] = 0) ~> (~IsLive(r, g) \/ flag[r] = 1 \/ ~Running)

\* The command h, announced as "hang up" (sip.c:442), ends the media of the
\* call.  It does not: eXosip reports no event for a call ended from here.
HangupStopsMedia ==
  \A c \in Calls :
    (uas[c] = "hungup" /\ cur = c)
      ~> (cur # c \/ ~Running \/ \A r \in Roles, g \in Gens : ~IsLive(r, g))
=============================================================================
