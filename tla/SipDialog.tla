---------------------------- MODULE SipDialog ----------------------------
(***************************************************************************)
(* One call between two phones, both built on eXosip2 and osip2: the call  *)
(* layer of eXosip (udp.c, jcallback.c, eXcall_api.c, eXosip.c) on each    *)
(* side, over the transactions of OsipTransaction and an UDP network that  *)
(* loses, repeats and reorders messages.                                   *)
(*                                                                         *)
(* Leg 0 is the call at the caller.  Legs 1.. are the calls the callee     *)
(* makes of the INVITE it gets: one, or more when a copy of the INVITE     *)
(* arrives after the first call is over.  The number of a leg is also the  *)
(* tag the callee puts in To; 0 is no tag.                                 *)
(*                                                                         *)
(* Each side runs one eXosip thread, whose pass (eXosip_execute) reads at  *)
(* most one message, and then, under the lock, queues the timers, executes *)
(* all queued events and releases the calls that are over.  Reading is the *)
(* action Receive, the rest is the action Pass.  The commands of the       *)
(* application take the same lock and run before, between and after them.  *)
(*                                                                         *)
(* What may go wrong and what the users do is chosen at the start:         *)
(*   slow    timers that messages and answers may outlive; any other runs  *)
(*           out only when nothing is on the wire (ok: the resends of 200) *)
(*   never   messages that never arrive                                    *)
(*   risky   the messages the network may lose or repeat                   *)
(*   lose    how many are lost                                             *)
(*   dup     how many arrive once more                                     *)
(*   fail    how many passes have a send of theirs fail                    *)
(*   asks    how many INVITEs the caller's proxy answers with 407 at once;  *)
(*           the next goes through (external: the proxy)                   *)
(*   users   cancel: the caller's command before the answer;               *)
(*           hangup_caller, hangup_callee: a command after it;             *)
(*           refuse: the callee's application answers 400, as sip.c does   *)
(*           when it cannot build a 200                                    *)
(***************************************************************************)
EXTENDS OsipTransaction, Sequences

CONSTANTS Trials,
          MaxCalls,   \* legs the callee can open
          MaxResend,  \* resends of a request or refusal before its last timer
                      \* (six of timer A in the code, ten of E and G)
          MaxOk,      \* resends of a 200 without ACK (nine in the code)
          MaxRetry    \* INVITEs sent after a 407 (three in the code)

ASSUME BoundsAssumption == MaxCalls \in Nat \ {0} /\ MaxResend \in Nat /\ MaxOk \in Nat
                           /\ MaxRetry \in {0, 1}

Callee == 1 .. MaxCalls
Legs == 0 .. MaxCalls
Sides == {"caller", "callee"}
Side(l) == IF l = 0 THEN "caller" ELSE "callee"
LegsOf(side) == {l \in Legs : Side(l) = side}

\* The transactions a leg may have: its INVITE, the one before it that was
\* challenged, its CANCEL, the BYE it sends and the BYE it gets.
Roles == {"invite", "asked", "cancel", "bye", "inbye"}
Ids == Legs \X Roles

KindOf(id) ==
  CASE id[2] = "invite" -> IF id[1] = 0 THEN "ICT" ELSE "IST"
    [] id[2] = "asked" -> "ICT"
    [] id[2] = "cancel" -> IF id[1] = 0 THEN "NICT" ELSE "NIST"
    [] id[2] = "bye" -> "NICT"
    [] id[2] = "inbye" -> "NIST"

\* BYE4 is the BYE that answers a 200 out of transaction: its CSeq is raised by
\* four and no transaction stands behind it.  A 407 has no tag to speak of: its
\* leg is the number of the INVITE it answers.
ToCallee == {"INVITE", "ACK", "NACK", "CANCEL", "BYE", "BYE4", "ok_bye", "no_bye"}
ToCaller == {"100", "101", "2xx", "3456xx", "407", "ok_cancel", "no_cancel", "BYE", "ok_bye", "no_bye"}
Messages == [to : {"callee"}, m : ToCallee, leg : Legs] \cup [to : {"caller"}, m : ToCaller, leg : Legs]

\* type_t: requests and answers to send, those received, and timers.
Events == {"snd_request", "snd_1xx", "snd_2xx", "snd_3456xx", "rcv_request", "rcv_ack",
           "rcv_1xx", "rcv_2xx", "rcv_3456xx", "A", "B", "D", "E", "F", "G", "H", "I", "J", "K"}

News == {"INVITE", "ANSWERED", "ACK", "CLOSED", "REQUESTFAILURE", "NOANSWER", "RELEASED"}
Dialog == {"none", "null", "early", "confirmed"}

VARIABLES
  world,   \* the trial; it never changes
  spent,   \* how many messages were lost and repeated, and passes hit
  net,     \* the messages on the wire
  tr,      \* the transactions; "pre" with nothing queued is one never made
  fifo,    \* transactionff of each: events, with the tag of the message
  tries,   \* how often the request or refusal of each was sent again
  read,    \* a message was read: the rest of the pass is due
  leg,     \* eXosip_call_t and its dialog
  todo,    \* events the applications have not handled yet
  told,    \* history: what each application was told of each leg
  again,   \* history: what it was told more than once
  finals   \* history: the final answers each leg put on the wire

history == <<told, again, finals>>
vars == <<world, spent, net, tr, fifo, tries, read, leg, todo, history>>

Leg == [call  : {"none", "up", "released"},
        dlg   : Dialog,    \* none: no eXosip_dialog_t; null: its d_dialog is NULL
        rem   : Legs,      \* remote tag of the caller's dialog
        acked : BOOLEAN,   \* d_ack is kept
        ok200 : BOOLEAN,   \* d_200Ok is kept
        count : 0 .. MaxOk,
        retry : 0 .. MaxRetry,   \* c_retry
        bye   : {"none", "BYE", "BYE4"}, \* which BYE the inbye transaction is for,
        byeleg : Legs]                   \* and the tag in it

TypeOK ==
  /\ world \in Trials
  /\ spent \in [{"lose", "dup", "fail"} -> Nat]
  /\ net \subseteq Messages
  /\ tr \in [Ids -> Transaction]
  /\ \A id \in Ids : tr[id].kind = KindOf(id) /\ fifo[id] \in Seq([e : Events, leg : Legs])
  /\ tries \in [Ids -> 0 .. MaxResend]
  /\ read \in [Sides -> BOOLEAN]
  /\ leg \in [Legs -> Leg]
  /\ todo \subseteq {"ANSWERED", "INVITE"} \X Legs
  /\ told \in [Legs -> SUBSET News] /\ again \in [Legs -> SUBSET News]
  /\ finals \in [Legs -> SUBSET Finals]

NoLeg == [call |-> "none", dlg |-> "none", rem |-> 0, acked |-> FALSE, ok200 |-> FALSE,
          count |-> 0, retry |-> 0, bye |-> "none", byeleg |-> 0]

Init ==
  /\ world \in Trials
  /\ spent = [x \in {"lose", "dup", "fail"} |-> 0]
  /\ net = {}
  /\ tr = [id \in Ids |-> New(KindOf(id))]
  /\ fifo = [id \in Ids |-> <<>>]
  /\ tries = [id \in Ids |-> 0]
  /\ read = [s \in Sides |-> FALSE]
  /\ leg = [l \in Legs |-> NoLeg]
  /\ todo = {}
  /\ told = [l \in Legs |-> {}] /\ again = [l \in Legs |-> {}]
  /\ finals = [l \in Legs |-> {}]

\* The caller's INVITE meets the proxy, not the callee.
Challenged(S) == S.leg[0].retry < world.asks

Users == world.users
Timely == world.slow = {}

-----------------------------------------------------------------------------
(* The state a handler works on, threaded through the events of a pass.    *)

\* F(S); binding the value of S keeps TLC from evaluating S at each use.
After(S, F(_)) == CHOOSE R \in {F(T) : T \in {S}} : TRUE

Now == [tr |-> tr, fifo |-> fifo, net |-> net, leg |-> leg, todo |-> todo,
        told |-> told, again |-> again, finals |-> finals]

Become(S) ==
  /\ tr' = S.tr /\ fifo' = S.fifo /\ net' = S.net /\ leg' = S.leg /\ todo' = S.todo
  /\ told' = S.told /\ again' = S.again /\ finals' = S.finals

Msg(to, m, l) == [to |-> to, m |-> m, leg |-> l]
Put(S, m) == IF m.m \in world.never THEN S ELSE [S EXCEPT !.net = @ \cup {m}]

Event(e, l) == [e |-> e, leg |-> l]
AddEvent(S, id, e, l) == [S EXCEPT !.fifo[id] = Append(@, Event(e, l))]

\* Known to osip: a transaction is taken out of the list when it is over.
Listed(S, id) == ~Over(S.tr[id]) /\ (S.tr[id].state # "pre" \/ S.fifo[id] # <<>>)
Made(S, id) == S.tr[id].state # "pre" \/ S.fifo[id] # <<>>

\* report_call_event.  sip.c does something on ANSWERED, INVITE, ACK and CLOSED.
Report(S, l, type) ==
  [S EXCEPT !.told[l] = @ \cup {type},
            !.again[l] = IF type \in S.told[l] THEN @ \cup {type} ELSE @,
            !.todo = IF type \in {"ANSWERED", "INVITE"} THEN @ \cup {<<type, l>>} ELSE @]

HasDialog(l) == l.dlg \in {"early", "confirmed"}

\* eXosip_delete_early_dialog
DeleteEarly(S, l) == [S EXCEPT !.leg[l].dlg = IF @ = "early" THEN "null" ELSE @]

-----------------------------------------------------------------------------
(* What a transaction puts on the wire.                                    *)

ResponseTo(l, r) == Msg("caller", IF r = "1xx" THEN "101" ELSE r, l)

\* Which message the transaction id sends when it sends what, for the event ev.
Wired(S, id, what, ev) ==
  LET l == id[1]
      t == S.tr[id]
      verdict == IF t.last = "2xx" THEN "ok_" ELSE "no_"
      other == IF l = 0 THEN "callee" ELSE "caller" IN
  CASE what = "ack" -> Msg("callee", "NACK", ev.leg)
    [] what = "request" /\ id = <<0, "invite">> ->
         IF Challenged(S) THEN Msg("caller", "407", S.leg[0].retry) ELSE Msg("callee", "INVITE", 0)
    [] what = "request" /\ id[2] = "cancel" -> Msg("callee", "CANCEL", 0)
    [] what = "request" /\ id[2] = "bye" -> Msg(other, "BYE", IF l = 0 THEN S.leg[0].rem ELSE l)
    [] what = "response" /\ id[2] = "cancel" ->
         Msg("caller", IF t.last = "2xx" THEN "ok_cancel" ELSE "no_cancel", 0)
    [] what = "response" /\ id[2] = "inbye" ->
         Msg(other, IF t.last = "2xx" THEN "ok_bye" ELSE "no_bye", S.leg[l].byeleg)
    [] what = "response" /\ id[2] = "invite" ->
         IF ev.e = "snd_1xx" /\ ev.leg = 0 THEN Msg("caller", "100", 0) ELSE ResponseTo(l, t.last)

\* The answers to a BYE4 find no transaction at the caller.  The ACK of a 407 goes
\* to the proxy.
Send(S, id, what, ev) ==
  IF \/ what = "none"
     \/ what = "response" /\ id[2] = "inbye" /\ S.leg[id[1]].bye = "BYE4"
     \/ what = "ack" /\ (id[2] = "asked" \/ Challenged(S)) THEN S
  ELSE LET m == Wired(S, id, what, ev)
           T == Put(S, m) IN
       IF KindOf(id) = "IST" /\ m.m \in Finals THEN [T EXCEPT !.finals[id[1]] = @ \cup {m.m}] ELSE T

-----------------------------------------------------------------------------
(* The callbacks of eXosip: what it makes of the outcome of an event.      *)

\* A provisional answer makes the dialog, or replaces one with another tag.
cb_rcv1xx(S, k) ==
  IF k = 0 \/ S.leg[0].dlg = "null" THEN S
  ELSE IF S.leg[0].dlg = "none" \/ S.leg[0].rem # k
    THEN [S EXCEPT !.leg[0].dlg = "early", !.leg[0].rem = k]
  ELSE S

\* After a BYE there is no dialog: the answer is silently discarded.
cb_rcv2xx_4invite(S, k) ==
  IF S.leg[0].dlg = "null" THEN S
  ELSE Report([S EXCEPT !.leg[0].dlg = "confirmed", !.leg[0].rem = k], 0, "ANSWERED")

cb_rcv3456xx(S) == DeleteEarly(Report(S, 0, "REQUESTFAILURE"), 0)

\* Mutant of cb_snd3456xx: the application is not told.
MutSilentClose(S, l) == DeleteEarly(S, l)

\* A final refusal of the INVITE that made the call closes it.
cb_snd3456xx(S, l) == Report(DeleteEarly(S, l), l, "CLOSED")

Callback(S, id, tell, k) ==
  CASE id = <<0, "invite">> /\ tell = "1xx" -> cb_rcv1xx(S, k)
    [] id = <<0, "invite">> /\ tell = "2xx" -> cb_rcv2xx_4invite(S, k)
    [] id = <<0, "invite">> /\ tell = "3456xx" -> cb_rcv3456xx(S)
    [] KindOf(id) = "IST" /\ tell = "3456xx" -> cb_snd3456xx(S, id[1])
    [] OTHER -> S

\* osip_transaction_execute with its callbacks; a transaction that is over
\* keeps no timer.
Do(S, id, ev, i) ==
  LET r == Execute(S.tr[id], ev.e, i)
      t == IF Over(r.tr) THEN [r.tr EXCEPT !.armed = {}] ELSE r.tr IN
  After(After([S EXCEPT !.tr[id] = t], LAMBDA T : Send(T, id, r.out, ev)),
        LAMBDA T : Callback(T, id, r.tell, ev.leg))

\* osip_xist_execute: everything queued for id, the sends of which end with i.
Drain(S, id, i) ==
  LET run[n \in 0 .. Len(S.fifo[id])] ==
        IF n = 0 THEN [S EXCEPT !.fifo[id] = <<>>]
        ELSE After(run[n - 1], LAMBDA T : Do(T, id, S.fifo[id][n], i)) IN
  run[Len(S.fifo[id])]

DrainRole(S, side, role, i) ==
  LET upto[n \in 0 .. MaxCalls] ==
        IF n = 0 THEN S ELSE After(upto[n - 1], LAMBDA T : Drain(T, <<n, role>>, i)) IN
  IF side = "caller" THEN Drain(S, <<0, role>>, i) ELSE upto[MaxCalls]

-----------------------------------------------------------------------------
(* Receive: _eXosip_handle_incoming_message.  A message goes to the        *)
(* transaction it matches, or a new one is made, or the call layer takes   *)
(* it alone.                                                               *)

\* osip_dialog_match_as_uas compares Call-ID and the From tag.  At the callee
\* every leg has the caller's tag, whatever the tag in To.
MatchingLegs(S, side, m) ==
  {l \in LegsOf(side) : HasDialog(S.leg[l]) /\ (side = "caller" => S.leg[l].rem = m.leg)}

First(legs) == CHOOSE l \in legs : \A j \in legs : l <= j

\* eXosip_process_bye: 200, the end of the dialog, CLOSED.
eXosip_process_bye(S, l, m, i) ==
  LET T == [S EXCEPT !.tr[<<l, "inbye">>] = New("NIST"),
                     !.fifo[<<l, "inbye">>] = <<Event("rcv_request", 0), Event("snd_2xx", 0)>>,
                     !.leg[l] = [@ EXCEPT !.bye = m.m, !.byeleg = m.leg, !.dlg = "null"]]
      U == DrainRole(T, Side(l), "inbye", i) IN
  Report(IF l = 0 THEN U ELSE DrainRole(U, "callee", "cancel", i), l, "CLOSED")

ReceiveBye(S, side, m, i) ==
  LET same == {l \in LegsOf(side) : Listed(S, <<l, "inbye">>) /\ S.leg[l].bye = m.m
                                                          /\ S.leg[l].byeleg = m.leg}
      match == MatchingLegs(S, side, m) IN
  CASE same # {} -> AddEvent(S, <<First(same), "inbye">>, "rcv_request", 0)
    [] same = {} /\ match # {} -> eXosip_process_bye(S, First(match), m, i)
    [] OTHER -> IF m.m = "BYE4" THEN S      \* 481, by a transaction of its own
                ELSE Put(S, Msg(IF side = "caller" THEN "callee" ELSE "caller", "no_bye", m.leg))

\* eXosip_process_ack: every ACK is reported and ends the resending of the 200.
eXosip_process_ack(S, l) ==
  Report([S EXCEPT !.leg[l] = [@ EXCEPT !.ok200 = FALSE, !.count = 0]], l, "ACK")

\* An ACK for a 200 never matches the INVITE's transaction.
ReceiveAck(S, m) ==
  LET open == {k \in Callee : Listed(S, <<k, "invite">>)}
      match == MatchingLegs(S, "callee", m) IN
  CASE m.m = "NACK" /\ open # {} -> AddEvent(S, <<First(open), "invite">>, "rcv_ack", m.leg)
    [] (m.m = "ACK" \/ open = {}) /\ match # {} -> eXosip_process_ack(S, First(match))
    [] OTHER -> S

\* eXosip_process_new_invite: 100 and 101 at once, a dialog, INVITE reported.
eXosip_process_new_invite(S, k, i) ==
  LET T == [S EXCEPT !.fifo[<<k, "invite">>] =
                        <<Event("rcv_request", 0), Event("snd_1xx", 0), Event("snd_1xx", k)>>,
                     !.leg[k] = [@ EXCEPT !.call = "up", !.dlg = "early"]] IN
  Report(DrainRole(T, "callee", "invite", i), k, "INVITE")

\* A copy of the INVITE goes to the transaction that waits for the answer; after
\* that it has the CSeq the dialog knows and is dropped; after the dialog it is
\* a new call.
ReceiveInvite(S, m, i) ==
  LET open == {k \in Callee : Listed(S, <<k, "invite">>)}
      free == {k \in Callee : S.leg[k].call = "none"} IN
  CASE open # {} -> AddEvent(S, <<First(open), "invite">>, "rcv_request", 0)
    [] open = {} /\ MatchingLegs(S, "callee", m) = {} /\ free # {} ->
         eXosip_process_new_invite(S, First(free), i)
    [] OTHER -> S

\* Mutant of eXosip_process_cancel: an answered INVITE is cancelled as well.
MutCancelAnswered(S) ==
  LET up == {k \in Callee : S.leg[k].call = "up"} IN
  IF up = {} THEN Put(S, Msg("caller", "no_cancel", 0))
  ELSE LET k == First(up) IN
       Report(DeleteEarly([S EXCEPT !.leg[k].dlg = "early"], k), k, "CLOSED")

\* eXosip_process_cancel: 481 when the INVITE is unknown or answered, else 200
\* and a 487 for the INVITE.  Only the state of the INVITE's transaction is
\* looked at, not what its queue holds.
eXosip_process_cancel(S) ==
  LET up == {k \in Callee : S.leg[k].call = "up"} IN
  IF up = {} THEN Put(S, Msg("caller", "no_cancel", 0))
  ELSE LET k == First(up)
           answered == S.tr[<<k, "invite">>].state \in {"terminated", "confirmed", "completed"}
           T == [S EXCEPT !.tr[<<k, "cancel">>] = New("NIST"),
                          !.fifo[<<k, "cancel">>] =
                             <<Event("rcv_request", 0),
                               Event(IF answered THEN "snd_3456xx" ELSE "snd_2xx", 0)>>] IN
       IF answered THEN T ELSE AddEvent(T, <<k, "invite">>, "snd_3456xx", 0)

ReceiveCancel(S) ==
  LET same == {k \in Callee : Listed(S, <<k, "cancel">>)} IN
  IF same # {} THEN AddEvent(S, <<First(same), "cancel">>, "rcv_request", 0)
  ELSE eXosip_process_cancel(S)

\* eXosip_process_response_out_of_transaction: the ACK again for the dialog that
\* has one; ACK and BYE for any other, which needs a Contact to go to.
ResponseOutOfTransaction(S, m) ==
  LET l == S.leg[0] IN
  CASE l.call # "up" \/ l.dlg = "none" -> S
    [] l.call = "up" /\ HasDialog(l) /\ m.leg # 0 /\ l.rem = m.leg ->
         IF l.acked THEN Put(S, Msg("callee", "ACK", m.leg)) ELSE S
    [] OTHER -> IF m.m \in {"101", "2xx"}
                  THEN Put(Put(S, Msg("callee", "ACK", m.leg)), Msg("callee", "BYE4", m.leg))
                  ELSE S

ToClient(S, id, e, l) == IF Listed(S, id) THEN AddEvent(S, id, e, l) ELSE S

\* A 407 is for the INVITE at hand or for the one before it, whose copies it may
\* answer; one that finds neither is dropped.
ReceiveResponse(S, m) ==
  CASE m.m = "407" ->
         ToClient(S, <<0, IF m.leg = S.leg[0].retry THEN "invite" ELSE "asked">>, "rcv_3456xx", 0)
    [] m.m \in {"100", "101", "2xx", "3456xx"} ->
         IF Listed(S, <<0, "invite">>)
           THEN AddEvent(S, <<0, "invite">>,
                         CASE m.m = "2xx" -> "rcv_2xx"
                           [] m.m = "3456xx" -> "rcv_3456xx"
                           [] OTHER -> "rcv_1xx", m.leg)
           ELSE ResponseOutOfTransaction(S, m)
    [] m.m = "ok_cancel" -> ToClient(S, <<0, "cancel">>, "rcv_2xx", 0)
    [] m.m = "no_cancel" -> ToClient(S, <<0, "cancel">>, "rcv_3456xx", 0)
    [] m.m \in {"ok_bye", "no_bye"} ->
         LET id == IF m.to = "callee" THEN <<m.leg, "bye">> ELSE <<0, "bye">> IN
         IF m.to = "caller" /\ m.leg # S.leg[0].rem THEN S
         ELSE ToClient(S, id, IF m.m = "ok_bye" THEN "rcv_2xx" ELSE "rcv_3456xx", 0)

Handle(S, m, i) ==
  CASE m.m \in {"BYE", "BYE4"} -> ReceiveBye(S, m.to, m, i)
    [] m.m = "INVITE" -> ReceiveInvite(S, m, i)
    [] m.m = "CANCEL" -> ReceiveCancel(S)
    [] m.m \in {"ACK", "NACK"} -> ReceiveAck(S, m)
    [] OTHER -> ReceiveResponse(S, m)

\* A step that ends in F(i) when its sends end with i.
Sends(F(_)) ==
  \/ /\ \E S \in {F("sent")} : Become(S)
     /\ UNCHANGED spent
  \/ /\ spent["fail"] < world.fail
     /\ \E S \in {F("pending"), F("failed")} \ {F("sent")} : Become(S)
     /\ spent' = [spent EXCEPT !["fail"] = @ + 1]

Receive(m) ==
  /\ m \in net /\ ~read[m.to]
  /\ \/ Sends(LAMBDA i : Handle([Now EXCEPT !.net = @ \ {m}], m, i))
     \/ /\ spent["dup"] < world.dup /\ m.m \in world.risky
        /\ spent' = [spent EXCEPT !["dup"] = @ + 1]
        /\ \E S \in {Handle(Now, m, "sent")} : Become(S)
  /\ read' = [read EXCEPT ![m.to] = TRUE]
  /\ UNCHANGED <<world, tries>>

Lose(m) ==
  /\ m \in net /\ m.m \in world.risky
  /\ spent["lose"] < world.lose
  /\ spent' = [spent EXCEPT !["lose"] = @ + 1]
  /\ net' = net \ {m}
  /\ UNCHANGED <<world, tr, fifo, tries, read, leg, todo, history>>

-----------------------------------------------------------------------------
(* Pass: the rest of eXosip_execute, under the lock.                       *)

\* The thread of a side has nothing to do: it passes far more often than a timer
\* runs out.
Idle(side) == ~read[side] /\ \A id \in Ids : Side(id[1]) = side => fifo[id] = <<>>
Quiet == net = {} /\ \A id \in Ids : fifo[id] = <<>>
Fires(id) == MayFire(tr[id], Len(fifo[id]))

\* Nobody sends a request or an answer again any more.
NoResend == \A id \in Ids : Fires(id) \cap Resending = {}
NoOk == \A k \in Callee : ~(leg[k].call = "up" /\ HasDialog(leg[k]) /\ leg[k].ok200)

\* The timers of id that may run out now.  Unless the timer is slow, a message
\* arrives before the next resend of it, and the side that keeps answering
\* outlives the side that keeps asking.
Expiring(id) ==
  {x \in Fires(id) :
     /\ Idle(Side(id[1]))
     /\ x \in Resending => tries[id] < MaxResend
     /\ \/ x \in world.slow
        \/ /\ Quiet
           /\ x \in {"B", "F", "H"} => tries[id] = MaxResend
           /\ x \in {"D", "J"} => NoResend}

\* The transactions of a leg are taken from osip.
Drop(S, ids) ==
  [S EXCEPT !.tr = [id \in Ids |-> IF id \in ids /\ Made(S, id)
                                     THEN [To(S.tr[id], "terminated") EXCEPT !.armed = {}]
                                     ELSE S.tr[id]],
            !.fifo = [id \in Ids |-> IF id \in ids THEN <<>> ELSE S.fifo[id]]]

\* eXosip_dialog_free
RemoveDialog(S, l) ==
  [Drop(S, {l} \X {"cancel", "bye", "inbye"}) EXCEPT
     !.leg[l] = [@ EXCEPT !.dlg = "none", !.acked = FALSE, !.ok200 = FALSE, !.count = 0]]

__eXosip_release_call(S, l) ==
  Report([Drop(RemoveDialog(S, l), {<<l, "invite">>}) EXCEPT !.leg[l].call = "released"],
         l, "RELEASED")

\* The first loop of eXosip_release_terminated_calls, for the dialog of l.
ReleaseDialog(S, l, elapsed) ==
  LET inv == S.tr[<<l, "invite">>]
      byes == {S.tr[<<l, r>>] : r \in {r \in {"bye", "inbye"} : Made(S, <<l, r>>)}} IN
  CASE \/ S.leg[l].dlg = "none"
       \/ \E b \in byes : ~Over(b)
       \/ ~Over(inv) /\ ~elapsed -> S
    [] OTHER ->
       CASE byes # {} -> RemoveDialog(S, l)
         [] byes = {} /\ ~Over(inv) -> RemoveDialog(Report(S, l, "NOANSWER"), l)
         [] byes = {} /\ Over(inv) /\ (inv.last = "3456xx" \/ (l = 0 /\ inv.last = "none")) ->
              __eXosip_release_call(S, l)
         [] OTHER -> S

\* The second loop: the caller's call is kept for ten seconds.
ReleaseCall(S, l, elapsed) ==
  IF /\ S.leg[l].call = "up" /\ S.leg[l].dlg = "none"
     /\ elapsed \/ (l # 0 /\ Over(S.tr[<<l, "invite">>]))
    THEN __eXosip_release_call(S, l) ELSE S

ReleaseLeg(S, l, elapsed) ==
  After(ReleaseDialog(S, l, elapsed), LAMBDA T : ReleaseCall(T, l, elapsed))

eXosip_release_terminated_calls(S, side, elapsed) ==
  LET upto[n \in 0 .. MaxCalls] ==
        IF n = 0 THEN S ELSE After(upto[n - 1], LAMBDA T : ReleaseLeg(T, n, elapsed)) IN
  IF side = "caller" THEN ReleaseLeg(S, 0, elapsed) ELSE upto[MaxCalls]

\* osip_nist_execute, osip_nict_execute, osip_ist_execute, osip_ict_execute: the roles
\* in the order of their turns (no side has invitations of both kinds).
ExecutionOrder == <<"inbye", "cancel", "bye", "asked", "invite">>

\* The timers have queued their events in S.
Executed(S, side, i) ==
  LET upto[n \in 0 .. 5] ==
        IF n = 0 THEN S ELSE After(upto[n - 1], LAMBDA T : DrainRole(T, side, ExecutionOrder[n], i)) IN
  After(upto[5], LAMBDA T : eXosip_release_terminated_calls(T, side, FALSE))

Queued(S, id, x) == AddEvent(S, id, x, IF id[1] = 0 THEN leg[0].rem ELSE id[1])

Pass(side) ==
  /\ \/ /\ read[side] \/ Executed(Now, side, "sent") # Now
        /\ Sends(LAMBDA i : Executed(Now, side, i))
        /\ UNCHANGED tries
     \/ \E id \in LegsOf(side) \X Roles : \E x \in Expiring(id) :
          /\ Sends(LAMBDA i : Executed(Queued(Now, id, x), side, i))
          /\ tries' = [tries EXCEPT ![id] = IF x \in Resending THEN @ + 1 ELSE @]
  /\ read' = [read EXCEPT ![side] = FALSE]
  /\ UNCHANGED world

\* The challenge of an INVITE that made no dialog may be answered.
MayRetry ==
  LET inv == tr[<<0, "invite">>] IN
  /\ leg[0].call = "up" /\ ~HasDialog(leg[0])
  /\ inv.state \in {"completed", "terminated"} /\ inv.last = "3456xx"
  /\ Challenged(Now) /\ leg[0].retry < MaxRetry

\* A pass that finds the caller's call too old: 180 seconds without a final
\* answer, or 10 seconds without a dialog.
Elapse ==
  /\ ~read["caller"] /\ fifo[<<0, "invite">>] = <<>>
  /\ tr[<<0, "invite">>].state \in {"proceeding", "terminated"}
  /\ Quiet /\ NoResend /\ NoOk /\ todo = {} /\ ~MayRetry
  /\ \E S \in {eXosip_release_terminated_calls(Now, "caller", TRUE)} : S # Now /\ Become(S)
  /\ UNCHANGED <<world, spent, tries, read>>

-----------------------------------------------------------------------------
(* The applications.  Every command runs under the lock.                   *)

AppKeeps == UNCHANGED <<world, spent, tries, read>>

\* main, command i: eXosip_call_send_initial_invite.
Call ==
  /\ leg[0].call = "none"
  /\ Become(AddEvent([Now EXCEPT !.leg[0].call = "up"], <<0, "invite">>, "snd_request", 0))
  /\ AppKeeps

\* sipEventThread after each event: eXosip_automatic_action, which sends the INVITE
\* again with credentials (_eXosip_call_retry_request).  The challenged one is left
\* to osip.  Nothing is asked of the user: a command that came between the 407 and
\* the retry found no dialog to end and has changed nothing.
AutomaticAction ==
  /\ MayRetry
  /\ LET inv == <<0, "invite">>
         asked == <<0, "asked">>
         S == [Now EXCEPT !.tr = [@ EXCEPT ![asked] = tr[inv], ![inv] = New("ICT")],
                          !.fifo = [@ EXCEPT ![asked] = fifo[inv], ![inv] = <<>>],
                          !.leg[0].retry = @ + 1] IN
     /\ Become(AddEvent(S, inv, "snd_request", 0))
     /\ tries' = [tries EXCEPT ![asked] = tries[inv], ![inv] = 0]
  /\ UNCHANGED <<world, spent, read>>

\* sipEventThread on ANSWERED: eXosip_call_build_ack and eXosip_call_send_ack.
\* Without a dialog there is nothing to build the ACK from.
SendAck ==
  LET S == [Now EXCEPT !.todo = @ \ {<<"ANSWERED", 0>>}] IN
  /\ <<"ANSWERED", 0>> \in todo
  /\ Become(IF leg[0].call = "up" /\ HasDialog(leg[0])
               THEN Put([S EXCEPT !.leg[0].acked = TRUE], Msg("callee", "ACK", leg[0].rem))
               ELSE S)
  /\ AppKeeps

\* sipEventThread on INVITE: 180, then 200, or 400 when no 200 can be built.
\* The test whether the INVITE is answered looks at its state alone.
SendAnswer(k) ==
  LET S == [Now EXCEPT !.todo = @ \ {<<"INVITE", k>>}]
      R == AddEvent(S, <<k, "invite">>, "snd_1xx", k)
      inv == <<k, "invite">> IN
  /\ <<"INVITE", k>> \in todo
  /\ Become(CASE leg[k].call # "up" \/ tr[inv].state \in {"completed", "confirmed", "terminated"} -> S
              [] OTHER -> IF HasDialog(leg[k]) /\ "refuse" \notin Users
                            THEN AddEvent([R EXCEPT !.leg[k] = [@ EXCEPT !.dlg = "confirmed",
                                                                         !.ok200 = TRUE, !.count = 0]],
                                          inv, "snd_2xx", k)
                            ELSE AddEvent(R, inv, "snd_3456xx", k))
  /\ AppKeeps

\* The BYE of eXosip_call_terminate: its dialog is gone at once.
WithBye(S, l) ==
  AddEvent([S EXCEPT !.leg[l].dlg = "null"], <<l, "bye">>, "snd_request", 0)

\* eXosip_call_terminate at the caller: BYE for a dialog that is confirmed,
\* CANCEL while there are only provisional answers, nothing before them.
Terminate ==
  LET early == leg[0].dlg # "confirmed" IN
  /\ leg[0].call = "up"
  /\ IF early THEN "cancel" \in Users /\ ~Made(Now, <<0, "cancel">>)
                  /\ tr[<<0, "invite">>].last = "1xx"
     ELSE "hangup_caller" \in Users
  /\ Become(IF early THEN AddEvent(Now, <<0, "cancel">>, "snd_request", 0) ELSE WithBye(Now, 0))
  /\ AppKeeps

\* main at the callee, command h: sip.c knows the dialog since its ACK.
HangUp(k) ==
  /\ "hangup_callee" \in Users /\ "ACK" \in told[k]
  /\ leg[k].call = "up" /\ leg[k].dlg = "confirmed"
  /\ Become(WithBye(Now, k))
  /\ AppKeeps

\* eXosip_retransmit_lost200ok, called by eXosip_event_wait in sipEventThread: the
\* 200 again while it has no ACK, at last a BYE and CLOSED.  When it may outlive an
\* answer it comes between any two steps of the eXosip thread.
Unacked(k) == leg[k].call = "up" /\ HasDialog(leg[k]) /\ leg[k].ok200

ResendOk(k) ==
  /\ Unacked(k) /\ leg[k].count < MaxOk
  /\ "ok" \in world.slow \/ (Idle("callee") /\ Quiet /\ todo = {})
  /\ Become(Put([Now EXCEPT !.leg[k].count = @ + 1, !.finals[k] = @ \cup {"2xx"}],
                Msg("caller", "2xx", k)))
  /\ AppKeeps

\* Mutant of GiveUp: the dialog is dropped without a BYE.
MutSilentGiveUp(k) ==
  /\ Unacked(k) /\ leg[k].count = MaxOk
  /\ "ok" \in world.slow \/ (Idle("callee") /\ Over(tr[<<k, "invite">>]))
  /\ Become(Report([Now EXCEPT !.leg[k].ok200 = FALSE, !.leg[k].count = 0, !.leg[k].dlg = "null"],
                   k, "CLOSED"))
  /\ AppKeeps

GiveUp(k) ==
  /\ Unacked(k) /\ leg[k].count = MaxOk
  /\ "ok" \in world.slow \/ (Idle("callee") /\ Over(tr[<<k, "invite">>]))
  /\ Become(Report(WithBye([Now EXCEPT !.leg[k] = [@ EXCEPT !.ok200 = FALSE, !.count = 0]], k),
                   k, "CLOSED"))
  /\ AppKeeps

-----------------------------------------------------------------------------
(* What goes on of itself, and what the users may do.                      *)

Progress ==
  \/ \E m \in net : Receive(m)
  \/ \E side \in Sides : Pass(side)
  \/ Elapse
  \/ AutomaticAction
  \/ SendAck
  \/ \E k \in Callee : SendAnswer(k) \/ ResendOk(k) \/ GiveUp(k)

Next ==
  \/ Progress
  \/ \E m \in net : Lose(m)
  \/ Call \/ Terminate
  \/ \E k \in Callee : HangUp(k)

Spec == Init /\ [][Next]_vars /\ WF_vars(Progress)

-----------------------------------------------------------------------------
(* Properties                                                              *)

\* Nothing is on the way or due any more.
Still ==
  /\ Quiet /\ NoOk /\ todo = {} /\ ~MayRetry
  /\ \A s \in Sides : ~read[s]
  /\ \A id \in Ids : Over(tr[id]) \/ ~Made(Now, id)

\* The order of events SipCall takes for granted, for the call the INVITE made:
\* CALL_ACK, on which sip.c starts the media, comes after the 200 was sent, and
\* nothing but CALL_RELEASED comes after CALL_CLOSED, on which sip.c joins the
\* media threads.  A call made of a copy of the INVITE is excepted: the caller
\* acknowledges its 101, which comes out of transaction, before it is answered.
\* So is an answer that crossed the CANCEL: the dialog is confirmed although the
\* refusal is out.
Crossed(k) == finals[k] = Finals \/ (leg[k].dlg = "confirmed" /\ "3456xx" \in finals[k])

NewsInOrder ==
  [][\A l \in {0, 1} :
       LET news == (told'[l] \ told[l]) \cup (again'[l] \ again[l]) IN
       (l = 1 => ~Crossed(1)) =>
         /\ "ACK" \in news => "2xx" \in finals[1]
         /\ "CLOSED" \in told[l] => news \subseteq {"RELEASED"}]_vars

\* In a timely world the two phones agree in the end: the caller has a confirmed
\* dialog with a leg of the callee just when that leg has one.  And a call that
\* nobody takes back or refuses is answered, although an INVITE is lost and the
\* proxy asks for credentials, as often as eXosip gives them.  (A lost 200 is sent
\* again, but the last copy is given no time before the BYE.)
Agreement ==
  (Still /\ Timely /\ spent["fail"] = 0) =>
    /\ \A k \in Callee : ~Crossed(k) =>
         ((leg[0].dlg = "confirmed" /\ leg[0].rem = k) <=> leg[k].dlg = "confirmed")
    /\ (/\ leg[0].call # "none" /\ Users \cap {"cancel", "refuse"} = {}
        /\ world.asks <= MaxRetry
        /\ "2xx" \in world.risky => spent["lose"] = 0) => "ANSWERED" \in told[0]

\* In the end the application of the callee knows what became of each call: of
\* one that is up it got the ACK, of one that is gone the CLOSED, unless it hung
\* up itself or the refusal could not be sent.
NewsComplete ==
  (Still /\ spent["fail"] = 0) =>
    \A k \in Callee :
      /\ leg[k].dlg = "confirmed" => "ACK" \in told[k]
      /\ "INVITE" \in told[k] /\ ~HasDialog(leg[k]) => "CLOSED" \in told[k] \/ Made(Now, <<k, "bye">>)

\* Whatever is lost or refused, a call comes to rest: no transaction is resent or
\* kept for ever, and no timer is left that could wake it.
Settles == <>[]Still
=============================================================================
