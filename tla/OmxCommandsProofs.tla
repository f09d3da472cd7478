------------------------- MODULE OmxCommandsProofs -------------------------
(* Proofs about OmxCommands: as long as the component reports nothing but  *)
(* the completion of the command in hand, omxcam__event_wait is a wait for *)
(* that completion, for every sequence of commands.                        *)
EXTENDS OmxCommands, SequenceTheorems, TLAPS

\* What the flags, the owed completion and the waiter are at every place of an
\* orderly exchange.
OrderInv ==
  /\ early = {}
  /\ at \in {"enter", "inside"} => Program[pos].owes = {Awaited}
  /\ at = "send" => owed = {} /\ comp.flags = {} /\ comp.waiter = "out"
  /\ at = "enter" =>
       /\ comp.waiter = "out"
       /\ \/ owed = {<<pos, Awaited>>} /\ comp.flags = {}
          \/ owed = {} /\ <<pos, Awaited>> \in given /\ comp.flags = {Awaited}
          \/ owed = {} /\ "ERROR" \in comp.flags
  /\ at = "inside" =>
       \/ owed = {<<pos, Awaited>>} /\ comp.flags = {Awaited} /\ comp.waiter = "blocked"
       \/ owed = {} /\ <<pos, Awaited>> \in given /\ comp.flags = {Awaited}
            /\ comp.waiter = "woken"
       \/ owed = {} /\ "ERROR" \in comp.flags /\ comp.waiter = "woken"
  /\ at = "failed" => owed = {}
  /\ "ERROR" \in comp.flags => comp.omx_error = "OMX_Error"

IInv == TypeOK /\ (Orderly => OrderInv)

\* The program is a sequence of steps, each with an event that is no error.
LEMMA StepOfProgram ==
  ASSUME NEW n \in Positions
  PROVE  /\ Program[n].owes \subseteq Events
         /\ Program[n].wait \in Events /\ Program[n].wait # "ERROR"
<1>1. Program[n] \in [owes : SUBSET (Events \ {"ERROR"}), wait : Events \ {"ERROR"}]
  BY ProgramAssumption, ElementOfSeq DEF Positions
<1> QED BY <1>1

\* Every event has a place in the record, and the operators keep its type.
LEMMA ComponentTypes ==
  ASSUME NEW c \in Component, NEW e \in Events, NEW code \in Codes
  PROVE  /\ Waked(c, e, code) \in Component
         /\ Blocked(c, {e}) \in Component
         /\ Left(c, {e}) \in Component
         /\ Spurious(c) \in Component
BY DEF Component, Waked, Blocked, Left, Spurious

\* Every variable keeps its type in a step.
LEMMA NextTypeOK == TypeOK /\ [Next]_vars => TypeOK'
<1> SUFFICES ASSUME TypeOK, [Next]_vars PROVE TypeOK'
  OBVIOUS
<1>0. Len(Program) \in Nat
  BY ProgramAssumption
<1>1. CASE Send
  <2>1. pos \in Positions
    BY <1>1 DEF Send
  <2>2. {<<pos, e>> : e \in Program[pos].owes} \subseteq Positions \X Events
    BY <2>1, StepOfProgram
  <2> QED BY <1>1, <2>1, <2>2 DEF Send, TypeOK
<1>2. ASSUME Return, pos \in Positions, UNCHANGED <<owed, given, unasked, disturbed>>
      PROVE  TypeOK'
  <2>1. Left(comp, {Awaited}) \in Component
    BY <1>2, StepOfProgram, ComponentTypes DEF TypeOK, Awaited, Codes
  <2>2. early' \subseteq Positions
    BY <1>2 DEF Return, TypeOK
  <2>3. pos' \in 1 .. (Len(Program) + 1) /\ at' \in {"send", "failed"}
    BY <1>0, <1>2 DEF Return, TypeOK, Positions
  <2> QED BY <1>2, <2>1, <2>2, <2>3 DEF Return, TypeOK
<1>3. CASE Enter
  <2>1. pos \in Positions
    BY <1>3 DEF Enter, TypeOK
  <2>2. CASE MustWait(comp, {Awaited})
    <3>1. Blocked(comp, {Awaited}) \in Component
      BY <2>1, StepOfProgram, ComponentTypes DEF TypeOK, Awaited, Codes
    <3> QED BY <1>3, <2>2, <3>1 DEF Enter, TypeOK
  <2> QED BY <1>2, <1>3, <2>1, <2>2 DEF Enter
<1>4. CASE Resume
  BY <1>2, <1>4 DEF Resume, TypeOK
<1>5. CASE Report
  BY <1>5, ComponentTypes DEF Report, TypeOK, ThreadKeeps, Codes
<1>6. CASE ReportError
  BY <1>6, ComponentTypes DEF ReportError, TypeOK, ThreadKeeps, Codes, Events
<1>7. CASE ReportUnasked
  <2>1. ASSUME NEW e \in Unasked, comp' = Waked(comp, e, "OMX_ErrorNone")
        PROVE comp' \in Component
    BY <2>1, UnaskedAssumption, ComponentTypes DEF TypeOK, Codes
  <2> QED BY <1>7, <2>1, MaxUnaskedAssumption DEF ReportUnasked, TypeOK, ThreadKeeps
<1>8. CASE WakeForNothing
  BY <1>8, ComponentTypes DEF WakeForNothing, TypeOK, ThreadKeeps, Codes, Events
<1>9. CASE UNCHANGED vars
  BY <1>9 DEF vars, TypeOK
<1> QED BY <1>1, <1>3, <1>4, <1>5, <1>6, <1>7, <1>8, <1>9 DEF Next, Thread

\* What the thread does when omxcam__event_wait is over, seen from an orderly
\* component: the completion was reported, or there was an error.
LEMMA ReturnOrdered ==
  ASSUME TypeOK, OrderInv, Return, pos \in Positions,
         owed = {}, owed' = owed, given' = given,
         \/ <<pos, Awaited>> \in given /\ comp.flags = {Awaited}
         \/ "ERROR" \in comp.flags
  PROVE  OrderInv'
<1>1. Awaited \in Events /\ Awaited # "ERROR"
  BY StepOfProgram DEF Awaited
<1>2. comp'.flags = comp.flags \ {Awaited} /\ comp'.waiter = "out"
      /\ comp'.omx_error = comp.omx_error
  BY DEF Return, Left, TypeOK, Component
<1>3. CASE "ERROR" \in comp.flags
  <2>1. at' = "failed" /\ early' = early
    BY <1>3 DEF Return, Succeeds
  <2> QED BY <1>2, <1>3, <2>1 DEF OrderInv
<1>4. CASE "ERROR" \notin comp.flags
  <2>1. <<pos, Awaited>> \in given /\ comp.flags = {Awaited}
    BY <1>4
  <2>2. at' = "send" /\ early' = early
    BY <1>4, <2>1 DEF Return, Succeeds, Arrived
  <2>3. comp'.flags = {}
    BY <1>2, <2>1
  <2> QED BY <1>2, <2>2, <2>3 DEF OrderInv
<1> QED BY <1>3, <1>4

\* Every step of the thread and of an orderly component keeps the order.
LEMMA NextOrderInv == TypeOK /\ OrderInv /\ [Next]_vars /\ Orderly' => OrderInv'
<1> SUFFICES ASSUME TypeOK, OrderInv, [Next]_vars, Orderly' PROVE OrderInv'
  OBVIOUS
<1>1. CASE Send
  <2>1. pos \in Positions /\ Program[pos].owes = {Awaited}
    BY <1>1 DEF Send, Orderly, Awaited
  <2>2. owed' = {<<pos, Awaited>>}
    BY <1>1, <2>1 DEF Send, OrderInv
  <2>3. Awaited' = Awaited
    BY <1>1 DEF Send, Awaited
  <2>4. Program[pos'].owes = {Awaited'}
    BY <1>1, <2>1, <2>3 DEF Send
  <2> QED BY <1>1, <2>2, <2>3, <2>4 DEF Send, OrderInv
<1>2. CASE Enter
  <2>1. pos \in Positions /\ UNCHANGED <<owed, given>>
    BY <1>2 DEF Enter, TypeOK
  <2>2. Awaited # "ERROR"
    BY <2>1, StepOfProgram DEF Awaited
  <2>3. CASE MustWait(comp, {Awaited})
    <3>1. owed = {<<pos, Awaited>>} /\ comp.flags = {}
      BY <1>2, <2>3 DEF Enter, OrderInv, MustWait
    <3>2. comp'.flags = {Awaited} /\ comp'.waiter = "blocked"
          /\ comp'.omx_error = comp.omx_error
      BY ZenonT(40), <1>2, <2>3, <3>1 DEF Enter, Blocked, TypeOK, Component
    <3>3. at' = "inside" /\ pos' = pos /\ early' = early /\ Awaited' = Awaited
      BY <1>2, <2>3 DEF Enter, Awaited
    <3>4. Program[pos'].owes = {Awaited'}
      BY <1>2, <3>3 DEF Enter, OrderInv
    <3> QED BY <2>1, <2>2, <3>1, <3>2, <3>3, <3>4 DEF OrderInv
  <2>4. CASE ~MustWait(comp, {Awaited})
    <3>1. \/ owed = {} /\ <<pos, Awaited>> \in given /\ comp.flags = {Awaited}
          \/ owed = {} /\ "ERROR" \in comp.flags
      BY <1>2, <2>4 DEF Enter, OrderInv, MustWait
    <3>2. Return
      BY <1>2, <2>4 DEF Enter
    <3> QED BY <2>1, <3>1, <3>2, ReturnOrdered
  <2> QED BY <2>3, <2>4
<1>3. CASE Resume
  <2>1. pos \in Positions /\ UNCHANGED <<owed, given>> /\ Return
    BY <1>3 DEF Resume, TypeOK
  <2>2. \/ owed = {} /\ <<pos, Awaited>> \in given /\ comp.flags = {Awaited}
        \/ owed = {} /\ "ERROR" \in comp.flags
    BY <1>3 DEF Resume, OrderInv, Wakeable
  <2> QED BY <2>1, <2>2, ReturnOrdered
<1>4. CASE Report
  <2>1. PICK p \in owed : /\ owed' = owed \ {p} /\ given' = given \cup {p}
                          /\ comp' = Waked(comp, p[2], "OMX_ErrorNone")
    BY <1>4 DEF Report
  <2>2. UNCHANGED <<pos, at, early>> /\ Awaited' = Awaited
    BY <1>4 DEF Report, ThreadKeeps, Awaited
  <2>3. at \in {"enter", "inside"} /\ pos \in Positions
    BY <2>1 DEF OrderInv, TypeOK
  <2>4. p = <<pos, Awaited>> /\ owed' = {} /\ p \in given'
    BY <2>1, <2>3 DEF OrderInv
  <2>5. Awaited # "ERROR"
    BY <2>3, StepOfProgram DEF Awaited
  <2>6. comp'.flags = {Awaited}
    BY <2>1, <2>3, <2>4 DEF OrderInv, Waked
  <2>7. comp'.waiter = IF at = "enter" THEN "out" ELSE "woken"
    BY <2>1, <2>3, <2>4 DEF OrderInv, Waked
  <2> QED BY <2>2, <2>3, <2>4, <2>5, <2>6, <2>7 DEF OrderInv
<1>5. CASE ReportError
  <2>1. PICK p \in owed : owed' = owed \ {p}
    BY <1>5 DEF ReportError
  <2>2. UNCHANGED <<pos, at, early, given>> /\ Awaited' = Awaited
    BY <1>5 DEF ReportError, ThreadKeeps, Awaited
  <2>3. at \in {"enter", "inside"} /\ owed' = {}
    BY <2>1 DEF OrderInv, TypeOK
  <2>4. "ERROR" \in comp'.flags /\ comp'.omx_error = "OMX_Error"
    BY <1>5 DEF ReportError, Waked
  <2>5. comp'.waiter = IF at = "enter" THEN "out" ELSE "woken"
    BY <1>5, <2>1, <2>3 DEF ReportError, OrderInv, Waked
  <2> QED BY <2>2, <2>3, <2>4, <2>5 DEF OrderInv
<1>6. CASE ReportUnasked
  BY <1>6 DEF ReportUnasked, Orderly
<1>7. CASE WakeForNothing
  BY <1>7 DEF WakeForNothing, Orderly
<1>8. CASE UNCHANGED vars
  BY <1>8 DEF vars, OrderInv, Awaited
<1> QED BY <1>1, <1>2, <1>3, <1>4, <1>5, <1>6, <1>7, <1>8 DEF Next, Thread

\* The inductive invariant holds from the creation of the component on.
LEMMA Invariance == Spec => []IInv
<1>1. Init => IInv
  <2>1. Len(Program) \in Nat
    BY ProgramAssumption
  <2>2. Init => TypeOK
    <3> SUFFICES ASSUME Init PROVE TypeOK
      OBVIOUS
    <3>1. comp \in Component
      BY DEF Init, Created, Component, Codes
    <3>2. disturbed \in BOOLEAN
      BY DEF Init
    <3> QED BY <2>1, <3>1, <3>2, MaxUnaskedAssumption DEF Init, TypeOK
  <2>3. Init => OrderInv
    BY DEF Init, OrderInv, Created
  <2> QED BY <2>2, <2>3 DEF IInv
<1>2. IInv /\ [Next]_vars => IInv'
  <2> SUFFICES ASSUME IInv, [Next]_vars PROVE IInv'
    OBVIOUS
  <2>1. Orderly' => Orderly
    BY DEF Orderly, Next, Thread, Send, Enter, Resume, Report, ReportError, ReportUnasked,
           WakeForNothing, vars
  <2> QED BY <2>1, NextTypeOK, NextOrderInv DEF IInv
<1> QED BY <1>1, <1>2, PTL DEF Spec

\* Every variable keeps its type.
THEOREM OmxTypeCorrect == Spec => []TypeOK
<1>1. IInv => TypeOK
  BY DEF IInv
<1> QED BY <1>1, Invariance, PTL

\* omxcam__event_wait of an orderly component returns success only after the
\* awaited event was set, for every sequence of commands.
THEOREM WaitIsAWait == Spec => []WaitsUntilSetIfOrderly
<1>1. IInv => WaitsUntilSetIfOrderly
  BY DEF IInv, OrderInv, WaitsUntilSetIfOrderly, WaitsUntilSet
<1> QED BY <1>1, Invariance, PTL

\* No flag of an orderly component outlives the wait it belongs to.
THEOREM WaitsLeaveNothing == Spec => []NothingLeftOver
<1>1. IInv => NothingLeftOver
  BY DEF IInv, OrderInv, NothingLeftOver
<1> QED BY <1>1, Invariance, PTL

\* The code of an error is there for the wait that fails because of it.
THEOREM ErrorCodeIsKept == Spec => []ErrorCodeKept
<1>1. IInv => ErrorCodeKept
  BY DEF IInv, OrderInv, ErrorCodeKept
<1> QED BY <1>1, Invariance, PTL

\* Until it is disturbed, an exchange implements the promise of internal.h:
\* every step of the thread or the component is a step of Completion or stutters.
THEOREM PromiseKept == Spec => KeepsPromise
<1> DEFINE Done == {n \in Positions : \E p \in given : p = <<n, Program[n].wait>>}
<1> DEFINE bar == <<pos - 1, Done, at = "failed", disturbed>>
<1>1. Init => Promise!Init
  BY DEF Init, Promise!Init
<1>2. IInv /\ IInv' /\ [Next]_vars => [Promise!Next]_bar
  <2> SUFFICES ASSUME IInv, IInv', [Next]_vars PROVE [Promise!Next]_bar
    OBVIOUS
  <2>0. pos \in Nat /\ pos' \in Nat
    BY ProgramAssumption DEF IInv, TypeOK
  <2>1. CASE Send
    <3>1. UNCHANGED <<pos, Done>> /\ at # "failed" /\ at' # "failed"
      BY <2>1 DEF Send
    <3>2. disturbed' = disturbed \/ disturbed' = TRUE
      BY <2>1 DEF Send, IInv, TypeOK
    <3>3. CASE disturbed' = TRUE
      BY <3>1, <3>3 DEF Promise!Next, Promise!Excuse
    <3> QED BY <3>1, <3>2, <3>3
  <2>2. ASSUME Return, pos \in Positions, at \in {"enter", "inside"},
               UNCHANGED <<given, disturbed>>
        PROVE  [Promise!Next]_bar
    <3>1. CASE Succeeds(comp)
      <4>1. pos' = pos + 1 /\ at' = "send" /\ Done' = Done
        BY <2>2, <3>1 DEF Return
      <4>2. disturbed \/ pos \in Done
        <5> SUFFICES ASSUME ~disturbed PROVE <<pos, Awaited>> \in given
          BY <2>2 DEF Awaited
        <5>1. Awaited \in Program[pos].owes
          BY <2>2 DEF IInv, Orderly, OrderInv
        <5>2. early' = {}
          BY <2>2 DEF IInv, Orderly, OrderInv
        <5>3. Arrived
          BY <2>2, <3>1, <5>2 DEF Return
        <5> QED BY <5>1, <5>3 DEF Arrived
      <4>3. disturbed \/ (pos - 1) + 1 \in Done
        BY <2>0, <4>2
      <4>4. pos' - 1 = (pos - 1) + 1
        BY <2>0, <4>1
      <4>5. at # "failed" /\ at' # "failed"
        BY <2>2, <4>1
      <4>6. Promise!Return
        BY <2>2, <4>1, <4>3, <4>4, <4>5 DEF Promise!Return
      <4> QED BY <4>6 DEF Promise!Next
    <3>2. CASE ~Succeeds(comp)
      <4>1. pos' = pos /\ Done' = Done /\ at' = "failed"
        BY <2>2, <3>2 DEF Return
      <4>2. Promise!Break
        BY <2>2, <4>1 DEF Promise!Break
      <4> QED BY <4>2 DEF Promise!Next
    <3> QED BY <3>1, <3>2
  <2>3. CASE Enter
    <3>1. CASE MustWait(comp, {Awaited})
      BY <2>3, <3>1 DEF Enter
    <3>2. CASE ~MustWait(comp, {Awaited})
      BY <2>2, <2>3, <3>2 DEF Enter, IInv, TypeOK
    <3> QED BY <3>1, <3>2
  <2>4. CASE Resume
    BY <2>2, <2>4 DEF Resume, IInv, TypeOK
  <2>5. CASE Report
    <3>1. PICK p \in owed : given' = given \cup {p}
      BY <2>5 DEF Report
    <3>2. UNCHANGED <<pos, at, disturbed>>
      BY <2>5 DEF Report, ThreadKeeps
    <3>3. PICK n \in Positions, e \in Events : p = <<n, e>>
      BY <3>1 DEF IInv, TypeOK
    <3>4. CASE e = Program[n].wait
      <4>1. Done' = Done \cup {n}
        BY <3>1, <3>3, <3>4
      <4>2. Promise!Complete
        BY <3>2, <4>1 DEF Promise!Complete, Positions
      <4> QED BY <4>2 DEF Promise!Next
    <3>5. CASE e # Program[n].wait
      <4>1. Done' = Done
        BY <3>1, <3>3, <3>5
      <4> QED BY <3>2, <4>1
    <3> QED BY <3>4, <3>5
  <2>6. CASE ReportError
    BY <2>6 DEF ReportError, ThreadKeeps
  <2>7. CASE ReportUnasked \/ WakeForNothing
    <3>1. UNCHANGED <<pos, at, Done>> /\ disturbed' = TRUE
      BY <2>7 DEF ReportUnasked, WakeForNothing, ThreadKeeps
    <3> QED BY <3>1 DEF Promise!Next, Promise!Excuse
  <2>9. CASE UNCHANGED vars
    BY <2>9 DEF vars
  <2> QED BY <2>1, <2>3, <2>4, <2>5, <2>6, <2>7, <2>9 DEF Next, Thread
<1> QED BY <1>1, <1>2, Invariance, PTL DEF Spec, KeepsPromise, Promise!Spec
=============================================================================
