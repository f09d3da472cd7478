------------------------------ MODULE VideoNpt ------------------------------
(***************************************************************************)
(* The video of omxcam in "no pthread" mode (omxcam/video.c: start_npt,    *)
(* read_npt, stop_npt), the way the video sender of the phone uses it.     *)
(* Each call is a list of steps on the OpenMAX components; the first step  *)
(* that fails ends the call, and what was acquired before stays acquired.  *)
(* The components answer commands through the event flags of EventFlags.   *)
(* The next start does not look at what a failed call has left: it opens   *)
(* every component again.  A handle that OMX_GetHandle overwrites is       *)
(* abandoned; what it has still to report goes to the same flags.          *)
(***************************************************************************)
EXTENDS Integers, Sequences, Bags, EventFlags

CONSTANT Trials  \* which pictures are wanted, and what may go wrong

\* "refuse": a call of OMX returns an error; "error": a component reports
\* OMX_EventError; "order": the encoder going to Executing may report
\* PORT_SETTINGS_CHANGED before STATE_SET.
FaultKinds == {"refuse", "error", "order"}

\* inits is a bound: the calls of OMX_Init that no OMX_Deinit has undone.  With 1
\* no video starts over the components of another.
ASSUME TrialsAssumption ==
  Trials \subseteq [encoder : BOOLEAN, faults : SUBSET FaultKinds, inits : Nat \ {0}]

VARIABLES
  world,   \* the trial; it never changes
  ctx,     \* omxcam__ctx: state.running, state.stopping, state.ready, no_pthread
  call,    \* the call in progress; "abort" is stop_npt on an error of read_npt
  pos,     \* its step
  inside,  \* the thread is in pthread_cond_wait
  result,  \* what the last call returned
  omx,     \* OMX_Init calls that are not undone
  handles, \* the devices whose component->handle is live
  gen,     \* by device: the live handles that were overwritten
  buffer,  \* output_buffer is allocated
  comp,    \* component->event, by device
  mode,    \* the state each component is in
  owed,    \* the bag of what the handles have still to report
  refused, \* history: the calls since the last start in which OMX returned an error
  stray,   \* history: the devices to whose flags an abandoned handle reported
           \* since they were opened
  before   \* history: omx at the last start

vars == <<world, ctx, call, pos, inside, result, omx, handles, gen, buffer, comp, mode,
          owed, refused, stray, before>>

Faults == world.faults

\* H.264 is filled by video_encode; raw pictures by the camera.
DevicesOf(encoder) ==
  {"camera", "null_sink"} \cup (IF encoder THEN {"video_encode"} ELSE {})
FillerOf(encoder) == IF encoder THEN "video_encode" ELSE "camera"
Devices == DevicesOf(world.encoder)

Modes == {"Loaded", "Idle", "Executing"}

-----------------------------------------------------------------------------
(* The steps of the calls                                                  *)

\* to: the state a command takes the component to, "same" for others
Step(op, dev, event, to) == [op |-> op, dev |-> dev, event |-> event, mode |-> to]

Call(dev) == << Step("call", dev, "ERROR", "same") >>
Send(dev, event, to) == << Step("send", dev, event, to) >>
Wait(dev, event) == << Step("wait", dev, event, "same") >>
Buffer(op, dev) == << Step(op, dev, "ERROR", "same") >>

Command(dev, event) == Send(dev, event, "same") \o Wait(dev, event)
SetMode(dev, to) == Send(dev, "STATE_SET", to) \o Wait(dev, "STATE_SET")
Only(encoder, steps) == IF encoder THEN steps ELSE <<>>

\* A command to the port that has the buffer: the buffer is allocated or freed
\* between the command and its wait.
BufferPort(dev, event, op) ==
  Send(dev, event, "same") \o Buffer(op, dev) \o Wait(dev, event)

\* omxcam__component_init; its disabling of every port is one command here
Open(dev) == << Step("open", dev, "ERROR", "same") >> \o Command(dev, "PORT_DISABLE")

\* omxcam__video_change_state
ChangeState(encoder, to) ==
  SetMode("camera", to) \o SetMode("null_sink", to)
  \o Only(encoder, SetMode("video_encode", to)
                   \o Only(to = "Executing", Wait("video_encode", "PORT_SETTINGS_CHANGED")))

\* The five ports, in the order of omx_init and omx_deinit: camera 71 and 70,
\* null_sink 240, video_encode 200 and 201.
Ports(encoder, event, op) ==
  (IF encoder THEN Command("camera", event) ELSE BufferPort("camera", event, op))
  \o Command("camera", event) \o Command("null_sink", event)
  \o Only(encoder, Command("video_encode", event) \o BufferPort("video_encode", event, op))

\* omxcam__init, omxcam__omx_init
StartSteps(encoder) ==
  << Step("init", "camera", "ERROR", "same") >>
  \o Open("camera") \o Open("null_sink") \o Only(encoder, Open("video_encode"))
  \o Command("camera", "PARAM_OR_CONFIG_CHANGED")
  \o Call("camera") \o Only(encoder, Call("video_encode"))
  \o ChangeState(encoder, "Idle") \o Ports(encoder, "PORT_ENABLE", "alloc")
  \o ChangeState(encoder, "Executing") \o Call("camera")

ReadSteps(encoder) == Command(FillerOf(encoder), "FILL_BUFFER_DONE")

Close(dev) == << Step("close", dev, "ERROR", "same") >>

\* Mutant of StopSteps: the components are freed before they are Loaded.
MutNotLoaded(encoder) ==
  Call("camera") \o ChangeState(encoder, "Idle") \o Ports(encoder, "PORT_DISABLE", "free")
  \o Close("camera") \o Close("null_sink") \o Only(encoder, Close("video_encode"))
  \o << Step("deinit", "camera", "ERROR", "same") >>

\* omxcam__omx_deinit, omxcam__deinit
StopSteps(encoder) ==
  Call("camera") \o ChangeState(encoder, "Idle") \o Ports(encoder, "PORT_DISABLE", "free")
  \o ChangeState(encoder, "Loaded")
  \o Close("camera") \o Close("null_sink") \o Only(encoder, Close("video_encode"))
  \o << Step("deinit", "camera", "ERROR", "same") >>

Programs ==
  [encoder \in BOOLEAN |->
     [none |-> <<>>, start |-> StartSteps(encoder), read |-> ReadSteps(encoder),
      stop |-> StopSteps(encoder), abort |-> StopSteps(encoder)]]

-----------------------------------------------------------------------------
Steps == Programs[world.encoder][call]

Context == [running : BOOLEAN, stopping : BOOLEAN, ready : BOOLEAN, no_pthread : BOOLEAN]
Cleared == [running |-> FALSE, stopping |-> FALSE, ready |-> FALSE, no_pthread |-> FALSE]

TypeOK ==
  /\ world \in Trials
  /\ ctx \in Context
  /\ call \in {"none", "start", "read", "stop", "abort"}
  /\ pos \in 1 .. (Len(Steps) + 1)
  /\ inside \in BOOLEAN
  /\ result \in {0, -1}
  /\ omx \in 0 .. world.inits /\ before \in 0 .. world.inits
  /\ buffer \in BOOLEAN
  /\ refused \subseteq {"start", "read", "stop", "abort"}
  /\ handles \subseteq Devices /\ stray \subseteq Devices
  /\ gen \in [Devices -> 0 .. world.inits - 1]
  /\ comp \in [Devices -> Component]
  /\ mode \in [Devices -> Modes]
  /\ IsABag(owed)
  /\ BagToSet(owed) \subseteq [dev : Devices, gen : 0 .. world.inits - 1, event : Events,
                              mode : Modes \cup {"same"}]

Init ==
  /\ world \in Trials
  /\ ctx = Cleared
  /\ call = "none" /\ pos = 1 /\ inside = FALSE /\ result = 0
  /\ omx = 0 /\ handles = {} /\ buffer = FALSE
  /\ gen = [d \in Devices |-> 0]
  /\ comp = [d \in Devices |-> Created]
  /\ mode = [d \in Devices |-> "Loaded"]
  /\ owed = EmptyBag
  /\ refused = {} /\ stray = {} /\ before = 0

-----------------------------------------------------------------------------
(* The caller                                                              *)

OmxKeeps == UNCHANGED <<world, omx, handles, gen, buffer, comp, mode, owed, stray>>

Begin(name) == call' = name /\ pos' = 1 /\ inside' = FALSE

\* omxcam__exit_npt
Exit(code) ==
  /\ ctx' = Cleared
  /\ result' = code
  /\ Begin("none")

\* omxcam_video_start_npt, whatever an earlier call left open.
Start ==
  /\ call = "none"
  /\ IF ctx.running
       THEN result' = -1 /\ UNCHANGED <<ctx, call, pos, inside, refused, before>>
       ELSE /\ omx < world.inits
            /\ ctx' = [ctx EXCEPT !.no_pthread = TRUE, !.running = TRUE]
            /\ Begin("start")
            /\ refused' = {} /\ before' = omx
            /\ UNCHANGED result
  /\ OmxKeeps

Usable == ctx.running /\ ctx.no_pthread

\* omxcam_video_read_npt
Read ==
  /\ call = "none"
  /\ IF Usable THEN Begin("read") /\ UNCHANGED <<ctx, result>>
               ELSE Exit(-1)
  /\ OmxKeeps /\ UNCHANGED <<refused, before>>

\* omxcam_video_stop_npt
Stop ==
  /\ call = "none"
  /\ IF Usable /\ ~ctx.stopping
       THEN /\ ctx' = [ctx EXCEPT !.stopping = TRUE]
            /\ Begin("stop")
            /\ UNCHANGED result
       ELSE Exit(-1)
  /\ OmxKeeps /\ UNCHANGED <<refused, before>>

-----------------------------------------------------------------------------
(* A call                                                                  *)

Current == Steps[pos]

\* Mutant of Fails: a read that fails does not stop the video.
MutReadGivesUp == Exit(-1)

\* The step failed: start and stop give up, read stops the video first
\* (omxcam__handle_error_npt).
Fails ==
  IF call = "read"
    THEN /\ ctx' = [ctx EXCEPT !.stopping = TRUE]
         /\ Begin("abort")
         /\ UNCHANGED result
    ELSE Exit(-1)

\* The step is done.
Succeeded ==
  IF pos < Len(Steps)
    THEN pos' = pos + 1 /\ inside' = FALSE /\ UNCHANGED <<ctx, call, result>>
  ELSE IF call \in {"stop", "abort"}
    THEN Exit(IF call = "stop" THEN 0 ELSE -1)
    ELSE /\ ctx' = [ctx EXCEPT !.ready = TRUE]
         /\ result' = 0
         /\ Begin("none")

\* What device d has still to report once a step has called it: the event of the
\* command; going to Executing, the encoder will also say that its port settings
\* changed.
Answers(s) ==
  LET answer(event, to) ==
        [dev |-> s.dev, gen |-> gen[s.dev], event |-> event, mode |-> to]
  IN  IF s.op # "send" THEN EmptyBag
      ELSE SetToBag({answer(s.event, s.mode)})
           (+) (IF s.mode = "Executing" /\ s.dev = "video_encode"
                  THEN SetToBag({answer("PORT_SETTINGS_CHANGED", "same")}) ELSE EmptyBag)

\* A handle that is freed reports no more.
Silent(s) ==
  IF s.op # "close" THEN owed
  ELSE LET others == {o \in BagToSet(owed) : o.dev # s.dev \/ o.gen < gen[s.dev]}
       IN  [o \in others |-> owed[o]]

\* Mutant of Opened: the events of an earlier video stay set.
MutKeepsEvents(s, flags) == flags

\* omxcam__event_create comes before OMX_GetHandle, over a live mutex if need be.
Opened(s, flags) == IF s.op = "open" THEN [flags EXCEPT ![s.dev] = Created] ELSE flags

\* A step that calls OMX and does not wait.  component->handle and output_buffer
\* are overwritten, whatever they point to.
Effect(s) ==
  /\ omx' = IF s.op = "init" THEN omx + 1 ELSE IF s.op = "deinit" THEN omx - 1 ELSE omx
  /\ handles' = IF s.op = "open" THEN handles \cup {s.dev}
                ELSE IF s.op = "close" THEN handles \ {s.dev} ELSE handles
  /\ gen' = IF s.op = "open" /\ s.dev \in handles
              THEN [gen EXCEPT ![s.dev] = @ + 1] ELSE gen
  /\ buffer' = IF s.op = "alloc" THEN TRUE ELSE IF s.op = "free" THEN FALSE ELSE buffer
  /\ comp' = Opened(s, comp)
  /\ mode' = IF s.op = "open" THEN [mode EXCEPT ![s.dev] = "Loaded"] ELSE mode
  /\ stray' = IF s.op = "open" THEN stray \ {s.dev} ELSE stray
  /\ owed' = Silent(s) (+) Answers(s)

Act ==
  /\ call # "none" /\ Current.op # "wait"
  /\ Effect(Current) /\ Succeeded
  /\ UNCHANGED <<world, refused, before>>

\* The OMX function of the step returns an error.
Refuse ==
  /\ "refuse" \in Faults
  /\ call # "none" /\ Current.op # "wait"
  /\ Fails
  /\ comp' = Opened(Current, comp)
  /\ refused' = refused \cup {call}
  /\ UNCHANGED <<world, omx, handles, gen, buffer, mode, owed, stray, before>>

\* omxcam__event_wait
Return ==
  LET d == Current.dev IN
  /\ comp' = [comp EXCEPT ![d] = Left(@, {Current.event})]
  /\ IF Succeeds(comp[d]) THEN Succeeded ELSE Fails

WaitKeeps ==
  UNCHANGED <<world, omx, handles, gen, buffer, mode, owed, refused, stray, before>>

Enter ==
  /\ call # "none" /\ Current.op = "wait" /\ ~inside
  /\ LET d == Current.dev IN
       IF MustWait(comp[d], {Current.event})
         THEN /\ comp' = [comp EXCEPT ![d] = Blocked(@, {Current.event})]
              /\ inside' = TRUE
              /\ UNCHANGED <<ctx, call, pos, result>>
         ELSE Return
  /\ WaitKeeps

Resume ==
  /\ inside /\ Wakeable(comp[Current.dev])
  /\ Return
  /\ WaitKeeps

Thread == Act \/ Enter \/ Resume

-----------------------------------------------------------------------------
(* The components                                                          *)

CallerKeeps ==
  UNCHANGED <<world, ctx, call, pos, inside, result, omx, handles, gen, buffer, refused,
              before>>

Abandoned(o) == o.gen < gen[o.dev]

\* The callback finds the flags through app_data, which is the component for the
\* handle in use and for those abandoned alike.  Once the handle in use is freed an
\* abandoned one finds the mutex destroyed; what it sets is cleared at the next open.
Callback(o, event, code) ==
  /\ owed' = owed (-) SetToBag({o})
  /\ comp' = [comp EXCEPT ![o.dev] = Waked(@, event, code)]
  /\ stray' = IF Abandoned(o) THEN stray \cup {o.dev} ELSE stray
  /\ CallerKeeps

\* A component completes its commands; the state it is asked for it takes on.
Report ==
  \E o \in BagToSet(owed) :
    /\ \/ "order" \in Faults
       \/ o.event # "PORT_SETTINGS_CHANGED"
       \/ ~\E p \in BagToSet(owed) :
             p.dev = o.dev /\ p.gen = o.gen /\ p.event = "STATE_SET"
    /\ mode' = IF o.mode = "same" \/ Abandoned(o) THEN mode
                                                  ELSE [mode EXCEPT ![o.dev] = o.mode]
    /\ Callback(o, o.event, "OMX_ErrorNone")

\* ... or reports an error instead.
ReportError ==
  /\ "error" \in Faults
  /\ \E o \in BagToSet(owed) : Callback(o, "ERROR", "OMX_Error")
  /\ UNCHANGED mode

Next == Start \/ Read \/ Stop \/ Thread \/ Refuse \/ Report \/ ReportError

Spec == Init /\ [][Next]_vars

\* A call that is made goes on, and a component answers in the end.
FairSpec == Spec /\ WF_vars(Thread) /\ WF_vars(Report)

-----------------------------------------------------------------------------
(* Properties                                                              *)

Quiet == call = "none"

\* The devices whose waits may have taken one event for another: a handle abandoned
\* by an earlier start reported to their flags, or the encoder broke its order.
Disturbed == stray \cup (IF "order" \in Faults THEN {"video_encode"} ELSE {})

\* The handle of device d in use has something to report.
Owes(d) == \E o \in BagToSet(owed) : o.dev = d /\ ~Abandoned(o)

\* omxcam.h:512: the data of a video that is ready can be read, also when the start
\* came over the components of a failed call: every component is there and, unless
\* disturbed, in Executing with nothing left of the commands that took it there.
ReadyMeansExecuting ==
  Quiet /\ ctx.ready =>
    /\ handles = Devices /\ buffer /\ omx > 0
    /\ \A d \in Devices \ Disturbed : mode[d] = "Executing" /\ ~Owes(d)

\* A component that is not disturbed is freed in Loaded and when it has nothing more
\* to report: no callback of its own finds the mutex destroyed (core.c:187 destroys
\* it before OMX_FreeHandle).
ClosedWhenSilent ==
  [][\A d \in (handles \ handles') \ Disturbed : mode[d] = "Loaded" /\ ~Owes(d)]_vars

\* The video is over and has undone what its start did.
Released == handles = {} /\ ~buffer /\ omx = before

\* What stays behind when the video is over is the work of a fault of this video,
\* not of an earlier one: an error that is still set in a component, or a call
\* refused on the way up or down; a read that is refused is cleaned up after
\* (video.c:1503-1508), and a video that ends well frees what it opened over the
\* components left before it.
LeakNeedsFault ==
  Quiet /\ ~ctx.running /\ ~Released =>
    \/ refused \cap {"start", "stop", "abort"} # {}
    \/ \E d \in Devices : "ERROR" \in comp[d].flags

\* No call blocks for ever.
CallsReturn == (call # "none") ~> (call = "none")
=============================================================================
