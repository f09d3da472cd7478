# A TLA+ model of sipvideophone-raspberry

The program is a SIP video phone for the Raspberry Pi: it takes commands from the
terminal, answers calls through the eXosip library, sends and receives G.711 sound
through ALSA and H.264 pictures through the hardware codec (OpenMAX), the latter with
the help of the omxcam library. This directory holds TLA+ modules for the parts that
keep state or do arithmetic, TLC configurations that check them on small instances,
and TLAPS proofs.

## The system

| part | source | state | operations |
|---|---|---|---|
| call control | `sip.c` | quit flags, sockets and destination in four parameter structures; thread handles; `call_id`, `dialog_id`; `quit_flag` | commands `r i h t s m q` of main; events of eXosip in `sipEventThread` |
| audio threads | `audio_rtp_send.c`, `audio_rtp_recv.c` | sound device, the shared audio socket | capture/encode/send, receive/decode/play, close |
| video sender | `video_rtp_send.c`, `rtpavcsend.c` | RTP context `rtpsock`: own socket, sequence number, time stamp, send buffer | open, packetise (start codes, fragmentation), close |
| video receiver | `video_rtp_recv.c` | last sequence number, unpack buffer | receive, unpack RTP, decode (the queue and `dec_thread` are compiled out) |
| frame queue | `queue.c` | ring of slots, `head`, `tail`, `count` | put, get, peek, under a mutex or not |
| decoder | `omx_decode.c` | OpenMAX components, tunnels, `first_packet`, `status`, all global | init, decode, deinit |
| G.711 | `g711.c`, `g711codec.c` | none | encode, decode (two implementations) |
| omxcam events | `omxcam/event.c`, `omxcam/core.c` | event flags under a mutex and a condition variable, last error | wake, wait, wait for one of several |
| omxcam video | `omxcam/video.c` | `running`, `ready`, `sleeping`, background thread, capture state | start, stop, sleep, wake, start_npt, read_npt, stop_npt |
| omxcam still | `omxcam/still.c`, `jpeg.c`, `h264.c`, `camera.c`, `error.c`, `debug.c`, `utils.c` | settings | setters, one shot |
| eXosip calls | `lib-osip/libeXosip2-3.6.0`: `udp.c`, `jcallback.c`, `eXcall_api.c`, `eXosip.c` | `eXosip_call_t`, `eXosip_dialog_t`, the event queue | a pass of `eXosip_execute`, the requests and answers it sorts, the callbacks, answer, terminate, send ACK |
| eXosip registration | `eXregister_api.c`, `jreg.c`, `jauth.c` | `r_reg_period`, `r_retry`, `r_last_tr`, `http_auths` | register, refresh, retry, unregister, release |
| eXosip others | subscriptions, publications, options, transfers; `eXtl_*.c`, `eXutils.c` | lists of their own; sockets | not used by the phone; the network |
| osip transactions | `lib-osip/libosip2-3.6.0/src/osip2` | four state machines, their timers and queue | events of peer, user and timers; `osip_transaction_execute` |
| osip parser, threads | `osipparser2`, `port_thread.c`, `port_sema.c` | none | parse and write; create and join |

How they interact: `main` and `sipEventThread` share the parameter structures and the
scratch variables of `sip.c` without a lock (`eXosip_lock` protects eXosip only). Every
`CALL_ACK` opens two sockets and starts four threads that read their structure through a
pointer: the quit flag at every turn of the loop, the socket number when they read, send
and close. `CALL_CLOSED` clears the flags and joins the handles. The video receiver hands
packets to the decoder in the order they arrive; the video sender reads the camera
through omxcam, whose OpenMAX callbacks run in a thread of their own and set event flags.
eXosip is built with `OSIP_MT`: a thread of its own (`eXconf.c:1126`) runs `eXosip_execute`,
which reads the socket and runs every transaction. `sipEventThread` takes the events that
this makes (`eXosip_event_wait`, which also sends a 200 again that was not acknowledged,
`jevents.c:367`, `404`), calls `eXosip_automatic_action`, both under the lock of eXosip, and
handles the event in `sip.c`; main calls eXosip's commands under the same lock. eXosip sees
the wire through the transactions of osip, whose callbacks make its events.

### What is hard, and what makes each part correct

* **Call control and media threads.** Nothing but a flag per thread ties a call to its
  threads, and the handles, sockets and destination are those of the last call. Correct
  means: a thread that runs can be found and stopped, no handle is joined twice, after
  `CALL_CLOSED` nothing is left alive, media go to the peer that called, descriptors are
  closed once by their owner and all of them at the end, the event thread always returns.
* **RTP.** A byte stream is cut at start codes wherever buffers happen to end, NALs are
  cut into fragments, packets get lost, overtaken and repeated, the 16-bit number starts
  again. Correct means: the decoder is fed the NALs as they were, or an alarm is raised,
  and not without a reason.
* **Decoder.** Global state outlives the call and every step may fail. Correct means: a
  call leaves nothing behind, and an error of one call is not one of the next.
* **omxcam events.** Two threads, a flag word, a condition variable whose wait is not in a
  loop. Correct means: a wait returns after its event and not before, none is lost, the
  error code belongs to the error.
* **Transactions.** Retransmissions, timers, failed sends and the user's answer reach one
  queue in any order. Correct means: one final answer goes to the user, an answer goes out
  for what came in, a transaction that no one waits for ends.
* **Calls.** Both sides decide with what they know: CANCEL crosses the answer, a copy of
  the INVITE outlives the call, the ACK is lost with all its copies. Correct means: the
  applications hear of each leg in an order `sip.c` can live with, both sides agree in the
  end, and nothing stays for ever.
* **Registration.** A period is negotiated, challenged, cut and refreshed by a clock, and
  attempts fail. Correct means: the binding never lapses while the registrar answers, what
  the application hears is true, the phone comes back after a failure.
* **omxcam video and still.** Long sequences of commands and waits over three components,
  each of which can fail. Correct means: what is ready works, what failed or stopped
  leaves nothing, every call returns, the picture is whole.

`PROJECT.json` lists the hazards one by one with the line where each bites and the
properties that watch it.

## The modules

| module | models | state and actions |
|---|---|---|
| `SipCall` | `sip.c`, the life of the four media threads, the part of eXosip they see | `ev` is the statement the event thread has reached; `thr[r, g]` a thread of role r made at the g-th `CALL_ACK`; `handle`, `flag`, `sock`, `dest` the globals of `sip.c`; `fdt` the descriptors of the process, each with what it was opened for, so that a number given out again is seen. One action per statement that another thread can observe: each `socket`, `create`, `join`, `close`, each read of a flag |
| `EventFlags` | `event.c` | pure operators on a component's flags: what a wake, the entry and the exit of a wait do. Shared by the next three |
| `OmxCommands` | a thread of omxcam that sends commands to one component and waits | the position in a `Program` of commands, the component, the events it owes; `disturbed` is a history variable |
| `Completion` | the promise of `internal.h:209-219` | the abstract specification of a wait |
| `StillCapture` | the loop of `omxcam_still_start` | flags of camera and encoder, slices made and emitted |
| `VideoNpt` | `omxcam_video_start_npt`, `_read_npt`, `_stop_npt` | a call is a sequence of steps read off the code (`StartSteps`, `ReadSteps`, `StopSteps`) and carried out one by one on three components; `ctx` holds running, ready and stopping. A start tests `running` only, as the code does: it opens every component again, whatever an earlier call left, `gen` counts the handles that are lost this way, and `owed` has what each of them has still to report to the flags they share |
| `RtpPackets` | `AvcAnalyzeAndSend`, `rtpsend_nal`, `UnpackRTPH264` | pure operators: the next start code and the NAL before it, what is left of a NAL to send and its next packet, what the receiver makes of a packet |
| `RtpVideo` | sender, network and receiver of the picture | bytes not yet handed over, `pending_buff` and where it is searched, the NAL in hand, packets under way, what the decoder was fed; a call of `AvcAnalyzeAndSend` is `Analyze`, a `NextNal` for each start code with its `SendPacket`s or a `SendFails`, and `KeepRest`; extends `RtpPackets` |
| `VideoThreaded` | `omxcam_video_start*`, `_stop`, `_sleep`, `_wake` and the capture thread | `pc[th]` is the place of main, the capture thread and other callers of stop; `ctx` and `flag` the fields they share without a lock; `live` what exists to be used, the components as a whole, in part or not at all; `omx` counts `OMX_Init` against `OMX_Deinit`; `tangle`, `misuse` and `gaveup` are history variables |
| `OsipTransaction` | `ict_fsm.c`, `ist_fsm.c`, `nict_fsm.c`, `nist_fsm.c` | pure operators: what an event does to a transaction, what it sends, what it reports. Shared by the next two |
| `TransactionLife` | one transaction with its queue | events of peer, user, timers; `Perform` takes one from the queue |
| `Exchange` | | the abstract specification of a transaction: open, then answered, then closed, and what it may say in each |
| `SipDialog` | a call between two phones over eXosip and osip | `leg` is call and dialog, `tr` and `fifo` its transactions, `net` the wire, `told` what `sip.c` hears; `Receive` reads a message, `Pass` is the rest of `eXosip_execute` under the lock; the commands of main, and what `sipEventThread` calls (`AutomaticAction`, `ResendOk`, `GiveUp`), run between the two |
| `SipRegistration` | a registration | `jr`, `tr`, `nonce` the state of eXosip, `wire` and `bound` what network and registrar make of it; `Tick` moves the clock to the next second that matters |
| `VideoDecoder` | `omx_decode.c` | the globals of that file over the calls of a process; `omx_init` in three actions, as no other thread looks at them in between |
| `SipCallProofs`, `OmxCommandsProofs`, `CaptureProofs`, `SipDialogProofs`, `RtpVideoProofs`, `VideoDecoderProofs`, `TransactionLifeProofs`, `SipRegistrationProofs` | | theorems and proofs |
| `MC...` | | small instances for TLC |

How they are put together: `SipDialog` and `TransactionLife` both use `OsipTransaction`,
the first within a call over a network, the second alone against every order of events;
`SipDialog` shows (`NewsInOrder`, `NewsComplete`) the order of events `SipCall` takes as
its environment; `SipCall` names what its threads call, and `RtpVideo`, `VideoDecoder` and
`VideoNpt` are what happens inside one such thread.

`world` in `SipCall`, `VideoNpt`, `RtpVideo`, `SipDialog` and `SipRegistration` is a
variable that is chosen in the initial state and never changes: which faults can happen in
this behaviour (in `RtpVideo` also which stream is sent, in `VideoNpt` whether there is an
encoder, in `SipRegistration` which registrar it is). So one run covers
several combinations, and a property can name the faults without which it holds.
Definitions whose name begins with `Mut` are wrong variants of the definition after them;
each property is shown to fail with one of them, and nothing else uses them.

### Abstractions

* SIP messages are the events they lead to; the SDP is the call it belongs to.
* In `SipCall` sound and picture are not data: only the socket and destination they use.
* A NAL header is one number in `RtpPackets`; indicator and header of a fragment carry
  all of it but the forbidden bit, which is 0. Bytes are small numbers, those that make a
  start code real. Marker bit and time stamps are left out: the receiver prints neither,
  and the decoder's use of the stamp (`recpts`) only serves a change of speed that is
  commented out.
* In `VideoDecoder` all error codes are one, -1. ilclient and OpenMAX are external: a
  call fails or does what it says; `ilclient_create_component` leaves NULL when it fails.
  The threads `video_recv` follow each other, as they do in `SipCall` (`NoOrphan`) unless
  an ACK comes twice, calls overlap or one is ended with h.
* In `SipDialog` a message is its method or answer and the leg it belongs to; the wire is
  a set, so messages overtake each other freely. A timer that is not among the slow ones of
  the trial runs out only when nothing is on its way, which is how long T1 is meant to be.
  The caller's proxy is external: it answers the first INVITEs of a trial with 407 at once
  and lets everything else through.
* In `SipRegistration` time jumps to the next second in which a comparison can change;
  several registrations, and a challenge of a challenge, are left out.
* In `VideoThreaded` set-up and tear-down of the components are one step each, which may
  succeed, fail or give up half way and leave components open: `VideoNpt` has their steps,
  which are the same code. A component that reported an error makes every tear down give
  up, as each waits for all components and nothing clears the flag. OpenMAX is external:
  `OMX_Init` and `OMX_Deinit` are taken to count, and `VideoNpt` takes `OMX_GetHandle` to make
  a second handle beside a live one.
* `malloc`, `pthread_mutex_init` and their like do not fail in any model; so the paths of
  eXosip and osip that only a clone that fails can take are left out (`ack == NULL` in
  `ict_fsm.c:472`: `ict_create_ack` copies headers of a request that was parsed).
* Undefined behaviour (an absent component, the event thread after `eXosip_quit`) goes
  on or ends the process.

## The runs

| run | module | shows |
|---|---|---|
| `sip_calls` | `MCSipCall` | two calls with one ACK each under four sets of faults: failing devices and the command t; every way a call may end, an INVITE whose SDP cannot be used among them (the process dies, `sip.c:230-260`); the descriptors up to the end of the program; calls that overlap. `TypeOK`, `NoOrphan`, `JoinedOnce`, `MediaToCaller`, `ClosedMeansStopped`, `ForeignCloseIsAudio`, `AllClosed` hold, each under the faults its definition names |
| `sip_live` | `MCSipCall` | one call with all faults but a second ACK, and one with two ACKs: `EventThreadReturns`, `MediaStops` |
| `sip_hangup` | `MCSipCall` | violation of `HangupStopsMedia` (the finding below) |
| `sip_dialog` | `MCSipDialog` | a call over a network that loses and repeats, each timer too early in turn, failing sends, CANCEL against answer, both users hanging up, a proxy that answers the INVITE with 407 once or for ever: `Agreement`, `NewsComplete`, `NewsInOrder`, `Settles` |
| `transaction` | `TransactionLife` | each of the four machines against peer, user and timers in any order: the refinement `KeepsExchange`, and `Ends` |
| `registration` | `MCSipRegistration` | eight registrars and three requests that fail in any of five ways: `BindingKept`, `NewsHonest`, `Released`, `Recovers` |
| `omx_waits` | `MCOmxCommands` | `Answered` whatever happens; `WaitsUntilSetIfOrderly`, `NothingLeftOver` and the refinement `KeepsPromise` until the exchange is disturbed |
| `npt_calls` | `MCVideoNpt` | raw and H.264 pictures with every set of faults (refused calls, errors, events out of order), each video starting with nothing left; H.264 with refused calls and with errors, each video starting over what one failed video left: `ReadyMeansExecuting`, `LeakNeedsFault`, `ClosedWhenSilent`, `CallsReturn` |
| `video_thread` | `VideoThreaded` | two starts in each of four ways against two stops from anywhere, with set-ups and tear-downs that give up: `Orderly`, `ReturnsClosed`, `Unblocks` |
| `still_jpeg` | `MCStillCapture` | `OnlyTheLastAtRisk`, `CaptureEnds` |
| `rtp_path` | `MCRtpVideo` | `Faithful`, `LastHeldBack`, `Noticed`, `NoFalseAlarm` |
| `decoder` | `VideoDecoder` | `ReleasedWhenOver`, `CallStarts`, `PictureReady`, `AbsentNeedsError` |

Where a property names exceptions, they are what the code does: each was seen to be
needed, and the section on findings says what it means.

### Bounds, and why they are enough

* `SipCall`: two calls and `MaxAcks` = 2 generations of threads, six
  descriptors; a third generation could only meet what two already show, since `sip.c` keeps
  one handle per role, and the theorem `StoppedWhenClosed` needs no bound. With
  overlapping calls two of the four roles are refused, to keep two living generations
  small; the pair left has one thread of each media and both kinds of socket.
* `OmxCommands`: five commands of the encoder's program, two events nobody asked for. A
  disturbed wait and the one it spoils are two commands; `TypeOK` and the orderly
  properties are proved for every program.
* `StillCapture`: six slices; the loop treats the first five alike, and the invariant is
  proved for any number.
* `VideoNpt`: any number of calls, one picture at a time. `inits` bounds the `OMX_Init` calls
  that no `OMX_Deinit` has undone: with 1 a video starts only when nothing is left (all
  sixteen combinations of picture and faults), with 2 also over the components of one failed
  video, whose handles may report at any later time. A third video over two failed ones
  finds the flags as the second did, since a start overwrites handle and flags alike. The
  run has the H.264 trials of the phone with 2, one kind of fault each; raw pictures (refused
  calls, errors, both) and H.264 with errors and one more kind were checked with 2 apart from
  the run, which they would make too long.
* `RtpVideo`: fragments of 2 bytes instead of 1300 and NALs of 2 to 6 bytes give one, two
  and three fragments; 5 sequence numbers instead of 65536 start again within a stream;
  three troubles of the network, fewer than make the numbers come round (the assumption
  `SeqNosAssumption`: a loss of all 65536 could not be noticed by any number).
* `VideoDecoder`: three calls: one to fail, one to suffer, one to follow.
* `SipDialog`: two legs at the callee (`MaxCalls`): the call and the one a late copy of the
  INVITE makes; a third would be made like the second. One resend of each request and of
  the 200 (`MaxResend`, `MaxOk`) instead of up to eleven: the code only counts them. Every
  trial has one kind of trouble, at most two messages hit (`MCSipDialog`). One retry of a
  challenged INVITE (`MaxRetry`) instead of three, and a proxy that asks once or more often.
* `TransactionLife`: four events in the queue; eXosip empties it at every pass, and four
  let each pair of answer, timer, failed send and user meet in both orders.
* `VideoThreaded`: two starts, so that what the first leaves behind meets the second, and
  two stops, the fewest that meet each other; one caller besides main and the
  thread (with two, 2.7 million states, the same properties hold). The safety properties are
  proved for any number of each.
* `SipRegistration`: the registrars of `MCSipRegistration` are on both sides of each
  comparison (15 seconds, min, grant, Contact or Expires, the nonce shorter than the
  period and than two minutes); answers within one second; three requests that fail use up
  the retries. The three invariants are proved for every registrar and up to ten seconds.

### Fairness

`SipCall`: the event thread and each media thread go on when they can (threads of a
preemptive scheduler; a blocked join is not enabled). Nothing is assumed of main, of the
peer or of faults, and sockets and devices may never fail. The media loops come round
because `recv` on the sockets is bounded: non-blocking for sound (sip.c:69), with a time
limit of one second for the picture (sip.c:110). `OmxCommands`, `StillCapture`,
`VideoNpt`: the calling thread goes on when it is not blocked, and a component reports
what it owes, which the OpenMAX specification asks of it; no fairness of errors or of
spurious wake-ups. `SipDialog`, `SipRegistration`: weak fairness of `Progress`, what the
threads of eXosip, the network and the clock do: eXosip's own thread runs
`eXosip_execute` again and again (`eXconf.c:1130`), `sipEventThread` comes round ten times a
second (sip.c:156-159); messages that may be lost are lost by a fault, no others; nothing of the
users. `TransactionLife`: the queue is emptied (WF), and a timer that stays armed runs out
at last (SF of `Expire`, which other events may interrupt). `VideoThreaded`: main, the
capture thread and every thread in stop go on when they can; nobody has to call stop.
Safety properties need no fairness.

CHECK_DEADLOCK is off where the program really ends or may wait for ever for a call: the
phone after `q`, a program of commands at its end, a capture that is done, a stream that
is sent, the last call of the decoder, a transaction or a call that is over, a registration
that is released, a capture nobody stops. `npt_calls` checks it.

## What is proved

`SipCallProofs`, from the assumptions on the constants alone (`MaxAcks` at least 1, the
trials made of known faults, `None` no call):

* `TypeCorrect`: `Spec => []TypeOK`.
* `StoppedWhenClosed`: `Spec => []ClosedMeansStopped`, for any number of calls and ACKs,
  any faults, any interleaving. `ClosedMeansStopped` speaks only of the moment the event
  thread is back in its wait; between the first join and that moment it says nothing, so
  it is not inductive. `StopInv` adds what makes it so: a thread is made in a generation
  that was unused, while the flags are up; the flags stay down from the first join to
  the next ACK, so that no join is undone; a thread once joined is over for good; and
  the handler's position says which roles are joined so far. The proof has one lemma for
  each of open, create, join and the threads' own steps, and one step per action.
* `NobodyOrphaned`, `MediaReachCaller`, `VideoClosesItsOwn`, `NothingLeftOpen`,
  `EachJoinedOnce`: the five other invariants of `sip_calls`, for any number of calls,
  threads and descriptors. `CallInv` adds to `IInv` (`TypeOK` and `StopInv`), each part
  under the faults it needs excluded:
  `PlainInv`, that where the event thread stands determines which threads can be alive, which
  ACK is still to come and that the handles are the current ones (`OneActive`, `QueueInv`,
  `AckInv`, `MediaInv`, `HandleInv`); `DestInv`, that no SDP is read while a thread
  that still has to read its destination lives; `VideoFdInv`, who holds which descriptor:
  a socket is open from its opening to the one close that is meant for it, and a number
  given out again has another owner; `OwnerInv`, that each open descriptor has an owner
  that lives; `JoinInv`, that a role is joined only in a generation not joined before.
  `NoOrphan` alone would not do: a thread may be made only because the place of the
  handler says that the one before is over.

`OmxCommandsProofs`, for any program of commands:

* `OmxTypeCorrect`, `WaitIsAWait`, `WaitsLeaveNothing`, `ErrorCodeIsKept`, by the
  invariant `TypeOK /\ (Orderly => OrderInv)`. `OrderInv` relates the flags of the
  component to what it still owes at each point of the wait: the flag is there because
  the wait set it and the event is owed, or because the event came; the two look the
  same to the code, and only this relation tells why the wait is right in the end.
* `PromiseKept`: `Spec => KeepsPromise`, the refinement of `Completion`: every step of
  the detailed module is one of the abstract or stutters.

`CaptureProofs`, for any number of starts and stops and any set of callers:

* `TypeCorrect`, `StopsInOrder`: `Spec => []Orderly`, `StartReturnsClosed`:
  `Spec => []ReturnsClosed` (thread, mutex and condition are gone when a start returns;
  components are left only where a set-up or tear-down gave up, and then not all of them;
  OpenMAX is undone, if only after the return), and `SleepsOnCondition`: the condition
  exists exactly while the
  starter sleeps on it. The invariant has a part that always holds (`AlwaysInv`: where main
  can be in each mode, who sleeps, that a start that returned has cleared `running`) and one
  for runs without a tangle but an error's (`OrderInv`: what of camera, mutex and thread is
  there at each place, and that at most one caller is past the test of `stopping`). The
  second rests on the first, since a new start is made with whatever the last one left. A
  third, `OmxInv`, counts: `OMX_Init` calls not undone are those the place of main and a stop
  that has passed the wake account for, so that the `OMX_Deinit` that comes after the wake,
  when start may have returned and been called again, never takes the one of the new
  capture, and what stays is due to a set-up that gave up or a refused `OMX_Deinit`.

and, in its second part, for any number of slices of a picture, JPEG and raw:

* `StillTypeCorrect`, `LastSliceAlone`: `Spec => []OnlyTheLastAtRisk`. `SliceInv` relates the
  flags of the component that fills to the slices it made: a thread in the wait has set
  `FILL_BUFFER_DONE` itself, so that the flag does not say that a slice is there; that a
  wait returns without one only when the flag of the end woke it, and that this flag comes
  before the last slice alone, is what confines the loss.

`RtpVideoProofs`, for every stream (whose NALs hold no start code and end with a byte that is
not 0, as H.264 has it), every size of a fragment, every way the stream is cut into buffers,
and more sequence numbers than the network makes trouble (`SeqNosAssumption`). `StreamInv` has
four parts:

* `TypeInv`, for `TypeCorrect`: `Spec => []TypeOK`.
* `IInv`, for `NoAlarmWithoutTrouble`: `Spec => []NoFalseAlarm`. The property speaks of the
  receiver only; what makes it inductive (`NumberInv`) is that the numbers follow each other
  from the packet received last over all those under way to the one sent next, round the end
  as well. Nothing is needed of the content of packets.
* `TroubleInv`, that what the network did is in the history.
* `ThreadInv`, for the bytes, as long as buffers and sockets do no harm: `FedInOrder`
  (`Spec => []Faithful`), `OnlyTheLastWaits` (`Spec => []LastHeldBack`) and
  `TroubleIsNoticed` (`Spec => []Noticed`). The argument is about positions: the stream of the
  encoder and what the decoder should be fed hold the same NALs, each at a place that is fixed
  (`StreamIs`, `FeedIs`). `pending_buff` is a slice of the first that begins where a NAL does,
  with no start code that was passed over (`HandedOver`); what is left of the NAL in hand is a
  slice of the second (`Left`); packet i carries the bytes from where packet i - 1 ended
  (`Path`). The receiver knows the numbers alone, modulo their count: `Followed` says that
  as long as there was no alarm, packet r was the last one received and what was fed is
  exactly what was sent with the first r; a packet under way is no further from its turn than
  the network made trouble (`Near`), so that among fewer troubles than numbers the one that
  has the next number is the next packet. The packets that were sent are not in the state:
  `PathInv` says that there are such packets, and each step of the proof names them.

The lemmas these rest on say what `FlattenSeq`, `SubSeq`, `Min` and `Max` give, position by
position; the one induction they need, over the number of sequences put together, is done
with a set of numbers (`Induction`), since the prover takes no predicate.

`VideoDecoderProofs`, for any number of calls and any set of failing steps:

* `CallLeavesNothing`, `EveryCallStarts`, `PictureIsReady`, `NoErrorNoAbsence`. The
  invariant `DecoderInv` adds that with status 0 all components are there from the moment
  they were made, that `first_packet` is 1 outside the loop and cleared only by a packet
  that told the start, and that decoder and clock run throughout the loop.

`TransactionLifeProofs`, for a queue of any length:

* `TypeCorrect`: `Spec => []TypeOK`, and `ExchangeKept`: `Spec => KeepsExchange`, the
  refinement of `Exchange`. There is one lemma for each of the four machines, which goes
  through its transitions once and says which of six effects each has (nothing, a first
  request, a provisional answer, a final one, a repetition, the end); the rest of the proof
  only knows the effects. The invariant `Settled` ties the state of the machine to what the
  abstract exchange has heard: without it a transition could not tell that its answer is
  the first.

`SipRegistrationProofs`, for every set of registrars and a round trip of up to ten seconds:

* `TypeCorrect`: `Spec => []TypeOK`.
* `BindingIsKept`: `Spec => []BindingKept`. That a binding has not lapsed is not inductive:
  it does not say when the refresh was sent. `RegistrationInv` says that a registration
  that once succeeded goes round four stations (resting, refreshing, challenged, retrying)
  and how much of the binding each leaves: resting, all but the age of the request; then
  a tenth of the period, less a round trip for the refresh and another for the retry. The
  definition `Sound` holds exactly what the argument needs: a tenth of the period is more
  than two round trips and a second. The clock is the hard step: it must be shown not to
  jump beyond the second in which the refresh is due.
* `NewsIsHonest`: `Spec => []NewsHonest`, with any number of failures. `WireInv` ties the
  transaction to its request (trying, and at most 32 seconds old, exactly while something
  is on the wire); `NewsInv` says what period can stand in the registration then, and that
  a transaction that is over either told FAILURE, or ended after a 100, or has a binding
  that outlives the next refresh.
* `EndIsReached`: `Spec => []Released`. `LeaveInv` counts the retries: between two successes
  there is one for a stale nonce, one for a 423 and one for the nonce of that, so the three
  of `eXosip_automatic_action` are never used up while the registrar answers, and what it
  asks for is sent again in the same second; so the 75 seconds of
  `eXosip_release_terminated_registrations` do not run out.

`SipDialogProofs`, for any number of legs at the callee, of resends of a request, a refusal and
a 200, any trial, and either number of retries that `BoundsAssumption` allows:

* `CallTypeCorrect`: `Spec => []TypeOK`.
* `CalleeKnows`: `Spec => []NewsComplete`. The property speaks of the moment when all is still;
  what is kept at every moment (`Fate`, for each leg) is where the news can still come from. A
  confirmed dialog has its 200 kept, so that it is sent again until the ACK is told or
  `GiveUp` closes the call; a leg without a dialog was told CLOSED, or has a BYE of its own;
  a leg with a BYE that came, or whose INVITE was refused, was told CLOSED, for it is these
  two that `ReleaseDialog` may take as the end of the call. `Fits` says what a queue can hold
  where the machines take it for granted: the queue of a BYE that was not sent begins with its
  request, and a challenged INVITE gets no second request.

  A pass works on a state that is none of the module's until the pass is over: between two
  events a CLOSED may be due that the callback has not reported, and a BYE out of its queue and
  not executed. The invariant is therefore an operator on that state, `Good(S, X, Y, b)`, with
  the legs in X and Y excepted for these two reasons, and `b` for "nothing has failed to be
  sent". There is one lemma for each operator of the module: the machines of `OsipTransaction`
  (`Executes`), a callback, an event (`DoKeeps`), a queue, a role, the release of calls, each
  handler of a message, each command; the steps of `Next` put them together. The queues and the
  legs are recursive functions of the module; what they give is shown by induction on a set of
  numbers (`StepByStep`: a relation kept by each step holds of the last state), since the
  prover takes no predicate.

Two properties were found too strong by the attempt to prove them, and TLC then showed it
on instances the runs do not have:

* `MediaToCaller` does not hold with a repeated ACK: a forgotten `video_send` that starts
  late reads the SDP of the next call, and sends the picture there (it needs a thread that
  has not read its destination when the next INVITE comes). `dupack` is now among the
  faults it excludes.
* `Released` does not hold when nonces die within a round trip: each retry is challenged,
  after the third the registration is released with its binding. `NonceLives` is now a
  condition of it, as it was of `BindingKept`.

Only model-checked: the liveness properties (the prover has no ENABLED); the properties of
`VideoNpt` (every set of faults but for starts over leaked components, which are bounded as said
above); and `Agreement` and `NewsInOrder` of `SipDialog`. `Agreement` compares the two
phones, and needs to know which messages of the other leg can still be on the wire, between any
two events of a pass; `NewsInOrder` needs the same for the ACKs that are under way.

## Findings

`sip.c:522`: the command h, "hang up", ends the dialog but not the media: eXosip reports no
CALL_CLOSED for an end of one's own (run `sip_hangup`).

Seen on the way, and kept in the models as conditions of their properties:

* call control: a second ACK loses four threads (`NoOrphan`), and the picture of one of them
  may go to the next caller (`MediaToCaller`, `video_rtp_send.c:88`); the second close of the audio
  socket can hit another one (`ForeignCloseIsAudio`).
* calls: a copy of the INVITE that arrives after its call is a new one, which rings at
  nobody's wish and ends by a timer; a CANCEL that crosses the answer is accepted with 200
  although the 200 of the INVITE is queued, and both sides then have to end the call
  (exceptions of `Agreement` and `NewsInOrder`); a command h between a 407 and the retry
  finds no dialog, is refused, and the call goes out all the same (`AutomaticAction`).
* registration: a timeout after a 100 is not reported (`jcallback.c:232`); a 423 without
  Min-Expires drops the transaction, and nothing refreshes any more (`eXregister_api.c:130`);
  with nonces of at most 122 seconds the phone can go on failing once its three retries are
  used up, each attempt being challenged with no retry left, and with nonces that live
  shorter than a round trip its end fails too (`Released`); an unregister that comes while
  a REGISTER is under way is refused but leaves the period at 0, so that the registration
  is dropped later (`eXregister_api.c:276`); a period cut by 15 seconds or less is not taken
  over (`jcallback.c:1034`), which lapses the binding only when it is short.
* omxcam: after an error of the encoder the automatic stop fails at its first wait for it
  and releases nothing (`video.c:1473`, `LeakNeedsFault`), the same with a thread
  (`video.c:356-459`, `ReturnsClosed`); the next start opens all components over those left,
  whose late reports reach the flags of the new ones and may end a wait of the new video
  early (`stray`, the exception of `ReadyMeansExecuting`); `OMX_Deinit` comes after the wake,
  so that the starter may have returned, and started again, before it (`video.c:1062`); the last slice of a picture may
  be lost (`still.c:392`, `OnlyTheLastAtRisk`); a stop before the starter sleeps is missed
  (`Unblocks`); the four ways in which calls that meet tangle are named in `Orderly`, among
  them a join after an error of a thread that stop has joined already.
* RTP: a buffer of the encoder that ends exactly behind `00 00 01` merges two NALs, and a
  first buffer with no start code is dropped ("cut" in `RtpVideo`); a NAL of 1301 bytes is sent as a single fragment and arrives without
  start code and header (`rtpavcsend.c:69`, a condition of `Faithful`).
* decoder: after one error `status` stays set and no later call decodes (`omx_decode.c:30`);
  the clock such a call uses was freed (`AbsentNeedsError`).

## Not modelled, and why

* `queue.c`, the reordering and `dec_thread` of `video_rtp_recv.c`: compiled out.
* `g711.c`, `g711codec.c`: arithmetic without state, planned below.
* Settings and validation of omxcam, error texts, dumps: no state, no concurrency.
* `omxcam_still_stop`, which is empty; what `change_state` compares when a wait fails for
  another reason than an event of its own (`video.c:29`).
* eXosip: redirections and further challenges of a call, several registrations, re-INVITE, REFER, INFO, session
  timers, subscriptions and publications (the phone sends none), the transports TCP, TLS and
  DTLS (the phone opens UDP only), DNS. osip: the parser, and the matching of messages to
  transactions by branch and tags, of which `SipDialog` has the outcome.
* Packets shorter than an RTP header (`video_rtp_recv.c:26`).
* `TypeOK` is stated in every module with variables; for `OmxCommands`, `TransactionLife`,
  `SipRegistration`, `VideoThreaded`, `StillCapture`, `VideoDecoder`, `SipDialog` and `RtpVideo` it is
  proved, for `SipCall` both checked and proved.
* The commands r, s, m and c, the texts of SIP messages, and the scratch variables they
  share without a lock (hazards without a property).

## Plan

1. Proofs: `NewsInOrder`, then `Agreement` of `SipDialog`, with an invariant of the wire beside
   `Good`.
2. `SipRegistration` with several registrations, which share `http_auths`.
3. `SipDialog` with redirections (no limit of retries stands behind them) and re-INVITEs.
4. `G711`: both encoders and decoders as operators, the round trip against a reference
   definition, with the width of the integers.
