---------------------------- MODULE StillCapture ----------------------------
(***************************************************************************)
(* The loop of omxcam_still_start that takes a picture slice by slice      *)
(* (omxcam/still.c:359-407), on the event flags of the camera and of the   *)
(* JPEG encoder.  At the end of the picture the components report          *)
(* BUFFER_FLAG one after the other and then the last slice, the order      *)
(* still.c:389-391 describes; each report finds the thread wherever it is. *)
(* (StillInit, StillNext: CaptureProofs extends this module and            *)
(* VideoThreaded, which has the plain names.)                              *)
(***************************************************************************)
EXTENDS Naturals, Sequences, EventFlags

CONSTANTS
  Slices,      \* the slices of the picture
  UseEncoder,  \* JPEG: the encoder fills the buffer; else the camera does
  MayFail      \* the component that fills may refuse the buffer or report an error

ASSUME SlicesAssumption == Slices \in Nat \ {0}
ASSUME UseEncoderAssumption == UseEncoder \in BOOLEAN
ASSUME MayFailAssumption == MayFail \in BOOLEAN

Devices == IF UseEncoder THEN {"camera", "encoder"} ELSE {"camera"}

\* fill_component
Filler == IF UseEncoder THEN "encoder" ELSE "camera"

VARIABLES
  stage,     \* the wait of the loop, or one of the two after it
  at,        \* where the thread is in the stage
  comp,      \* component->event, by device
  asked,     \* the component has the buffer (OMX_FillThisBuffer)
  produced,  \* slices the component filled in
  flagged,   \* the devices that reported BUFFER_FLAG
  buffer,    \* the slice in output_buffer, 0 while nFilledLen = 0
  emitted    \* what on_data was given

stillVars == <<stage, at, comp, asked, produced, flagged, buffer, emitted>>

StillTypeOK ==
  /\ stage \in {"slice", "clearCamera", "clearEncoder"}
  /\ at \in {"ask", "enter", "inside", "done", "failed"}
  /\ comp \in [Devices -> Component]
  /\ asked \in BOOLEAN
  /\ produced \in 0 .. Slices
  /\ flagged \subseteq Devices
  /\ buffer \in 0 .. Slices
  /\ emitted \in Seq(1 .. Slices)

StillInit ==
  /\ stage = "slice" /\ at = "ask"
  /\ comp = [d \in Devices |-> Created]
  /\ asked = FALSE /\ produced = 0 /\ flagged = {}
  /\ buffer = 0 /\ emitted = <<>>

\* The component and the event of the wait.
WaitOn == [slice |-> Filler, clearCamera |-> "camera", clearEncoder |-> Filler][stage]
Awaited == IF stage = "slice" THEN "FILL_BUFFER_DONE" ELSE "BUFFER_FLAG"

EndEvents == {"BUFFER_FLAG", "FILL_BUFFER_DONE"}

-----------------------------------------------------------------------------
(* The thread                                                              *)

DeviceKeeps == UNCHANGED <<produced, flagged, buffer>>

\* Mutant of NextStage: the loop goes on until an event that never comes.
MutNeverEnds(current) ==
  IF stage = "slice" THEN IF current = EndEvents \cup {"FLUSH"} THEN "clearCamera" ELSE "slice"
  ELSE IF stage = "clearCamera" /\ UseEncoder THEN "clearEncoder"
  ELSE "end"

\* What follows a wait that returned current.
NextStage(current) ==
  IF stage = "slice" THEN IF current = EndEvents THEN "clearCamera" ELSE "slice"
  ELSE IF stage = "clearCamera" /\ UseEncoder THEN "clearEncoder"
  ELSE "end"

\* OMX_FillThisBuffer; start returns when it is refused.
Ask ==
  /\ at = "ask"
  /\ \/ asked' = TRUE /\ at' = "enter"
     \/ MayFail /\ at' = "failed" /\ UNCHANGED asked
  /\ UNCHANGED <<stage, comp, emitted>> /\ DeviceKeeps

\* The wait is over: the slice is emitted, and the end looked for.
Finish ==
  LET c == comp[WaitOn]
      next == NextStage(c.flags)
  IN /\ comp' = [comp EXCEPT ![WaitOn] = Left(c, {Awaited})]
     /\ IF ~Succeeds(c)
          THEN /\ at' = "failed"
               /\ UNCHANGED <<stage, emitted>>
          ELSE /\ emitted' = IF stage = "slice" /\ buffer # 0
                               THEN Append(emitted, buffer) ELSE emitted
               /\ IF next = "end"
                    THEN at' = "done" /\ UNCHANGED stage
                    ELSE /\ stage' = next
                         /\ at' = IF next = "slice" THEN "ask" ELSE "enter"

EnterWait ==
  /\ at = "enter"
  /\ IF MustWait(comp[WaitOn], {Awaited})
       THEN /\ comp' = [comp EXCEPT ![WaitOn] = Blocked(@, {Awaited})]
            /\ at' = "inside"
            /\ UNCHANGED <<stage, emitted>>
       ELSE Finish
  /\ UNCHANGED asked /\ DeviceKeeps

Resume ==
  /\ at = "inside"
  /\ Wakeable(comp[WaitOn])
  /\ Finish
  /\ UNCHANGED asked /\ DeviceKeeps

Thread == Ask \/ EnterWait \/ Resume

-----------------------------------------------------------------------------
(* The components                                                          *)

ThreadKeeps == UNCHANGED <<stage, at, emitted>>

LastSlice == asked /\ produced + 1 = Slices

\* The end of the stream passes the camera, then the encoder that makes the
\* last slice.
Flag(d) ==
  /\ d \in Devices \ flagged
  /\ d = "encoder" => "camera" \in flagged
  /\ d = Filler => LastSlice
  /\ flagged' = flagged \cup {d}
  /\ comp' = [comp EXCEPT ![d] = Waked(@, "BUFFER_FLAG", "OMX_ErrorNone")]
  /\ UNCHANGED <<asked, produced, buffer>> /\ ThreadKeeps

FillBufferDone ==
  /\ asked /\ produced < Slices
  /\ LastSlice => flagged = Devices
  /\ asked' = FALSE
  /\ produced' = produced + 1
  /\ buffer' = produced + 1
  /\ comp' = [comp EXCEPT ![Filler] = Waked(@, "FILL_BUFFER_DONE", "OMX_ErrorNone")]
  /\ UNCHANGED flagged /\ ThreadKeeps

\* OMX_EventError instead of a slice.
Fail ==
  /\ MayFail /\ asked /\ "ERROR" \notin comp[Filler].flags
  /\ comp' = [comp EXCEPT ![Filler] = Waked(@, "ERROR", "OMX_Error")]
  /\ UNCHANGED <<asked, produced, flagged, buffer>> /\ ThreadKeeps

StillNext == Thread \/ (\E d \in Devices : Flag(d)) \/ FillBufferDone \/ Fail

StillSpec == StillInit /\ [][StillNext]_stillVars

\* The thread runs, and a component that has the buffer fills it in the end.
Fairness == /\ WF_stillVars(Thread) /\ WF_stillVars(FillBufferDone)
            /\ WF_stillVars(\E d \in Devices : Flag(d))

FairStillSpec == StillSpec /\ Fairness

-----------------------------------------------------------------------------
(* Properties                                                              *)

\* No slice before the last is lost, repeated or out of order, and at the end
\* only the last slice may be missing, the one before it standing in its place.
OnlyTheLastAtRisk ==
  /\ Len(emitted) <= Slices
  /\ \A i \in 1 .. Len(emitted) : emitted[i] = i \/ (i = Slices /\ emitted[i] = Slices - 1)
  /\ at = "done" => Len(emitted) >= Slices - 1

\* The picture ends, whatever order flags, slices and waits come in.
CaptureEnds == <>(at \in {"done", "failed"})
=============================================================================
