------------------------- MODULE OsipTransaction -------------------------
(***************************************************************************)
(* The four transaction machines of osip2, which carry every request of    *)
(* the phone: ICT and IST (INVITE, sent and received), NICT and NIST (any  *)
(* other request).  osip_transaction_execute takes one event and looks the *)
(* pair of state and event up in the table of the machine; a pair that is  *)
(* not there is discarded.  The handlers are written as functions of the   *)
(* transaction: they return its next value, what goes on the wire and what *)
(* the call layer is told.                                                 *)
(*                                                                         *)
(* A message is known by its class only.  The transport is UDP, so that    *)
(* the timers of unreliable transports run.  A send has three outcomes:    *)
(* sent (0), pending (> 0: a host name is still being resolved, nothing    *)
(* was written) and failed (< 0).                                          *)
(***************************************************************************)
EXTENDS Naturals

Kinds == {"ICT", "IST", "NICT", "NIST"}
States == {"pre", "calling", "trying", "proceeding", "completed", "confirmed", "terminated"}
Finals == {"2xx", "3456xx"}
Responses == {"1xx"} \cup Finals
Outcomes == {"sent", "pending", "failed"}

Timers == [ICT |-> {"A", "B", "D"}, IST |-> {"G", "H", "I"},
           NICT |-> {"E", "F", "K"}, NIST |-> {"J"}]

Transaction ==
  [kind  : Kinds, state : States,
   last  : {"none"} \cup Responses,                  \* last_response
   armed : SUBSET {"A", "B", "D", "E", "F", "G", "H", "I", "J", "K"}]
                                                     \* timer_x_start # -1

\* Mutant of New: a request is never given up.
MutNoGiveUp(kind) ==
  [kind |-> kind, state |-> "pre", last |-> "none",
   armed |-> IF kind = "ICT" THEN {"A", "B"} ELSE {}]

\* osip_transaction_init with __osip_xxx_init: the timers that run at once.
New(kind) ==
  [kind |-> kind, state |-> "pre", last |-> "none",
   armed |-> CASE kind = "ICT" -> {"A", "B"} [] kind = "NICT" -> {"F"} [] OTHER -> {}]

Over(t) == t.state = "terminated"

-----------------------------------------------------------------------------
(* What a handler returns.                                                 *)

Result(t, out, tell) == [tr |-> t, out |-> out, tell |-> tell]

Useless(t) == Result(t, "none", "none")

To(t, state) == [t EXCEPT !.state = state]
Arm(t, timers) == [t EXCEPT !.armed = @ \cup timers]
Disarm(t, timer) == [t EXCEPT !.armed = @ \ {timer}]

\* xxx_handle_transport_error: the callback, then the end of the transaction.
TransportError(t) == Result(To(t, "terminated"), "none", "error")

Gone(t, timer, tell) == Result(To(Disarm(t, timer), "terminated"), "none", tell)

Wire(i, what) == IF i = "sent" THEN what ELSE "none"

-----------------------------------------------------------------------------
(* INVITE client transaction                                               *)

ict_snd_invite(t, i) ==
  IF i = "failed" THEN TransportError(t)
  ELSE Result(To(t, "calling"), Wire(i, "request"), "none")

osip_ict_timeout_a_event(t, i) ==
  IF i = "failed" THEN TransportError(t) ELSE Result(t, Wire(i, "request"), "none")

osip_ict_timeout_b_event(t) == Gone(t, "B", "timeout")

ict_rcv_1xx(t) == Result([t EXCEPT !.last = "1xx", !.state = "proceeding"], "none", "1xx")

ict_rcv_2xx(t) == Result([t EXCEPT !.last = "2xx", !.state = "terminated"], "none", "2xx")

\* The ACK must be written at once: a send that is still pending counts as
\* a failure, and then the answer is not reported.  (ack == NULL takes a malloc that
\* fails, which none of the models has.)
ict_rcv_3456xx(t, i) ==
  LET s == [t EXCEPT !.last = "3456xx"] IN
  IF i # "sent" THEN TransportError(s)
  ELSE Result(Arm(To(s, "completed"), {"D"}), "ack", "3456xx")

ict_retransmit_ack(t, i) ==
  IF i # "sent" THEN TransportError(t) ELSE Result(t, "ack", "again")

osip_ict_timeout_d_event(t) == Gone(t, "D", "none")

ict_transition(t, e, i) ==
  CASE t.state = "pre" /\ e = "snd_request" -> ict_snd_invite(t, i)
    [] t.state = "calling" /\ e = "A" -> osip_ict_timeout_a_event(t, i)
    [] t.state = "calling" /\ e = "B" -> osip_ict_timeout_b_event(t)
    [] t.state \in {"calling", "proceeding"} /\ e = "rcv_1xx" -> ict_rcv_1xx(t)
    [] t.state \in {"calling", "proceeding"} /\ e = "rcv_2xx" -> ict_rcv_2xx(t)
    [] t.state \in {"calling", "proceeding"} /\ e = "rcv_3456xx" -> ict_rcv_3456xx(t, i)
    [] t.state = "completed" /\ e = "rcv_3456xx" -> ict_retransmit_ack(t, i)
    [] t.state = "completed" /\ e = "D" -> osip_ict_timeout_d_event(t)
    [] OTHER -> Useless(t)

-----------------------------------------------------------------------------
(* INVITE server transaction                                               *)

\* __osip_transaction_snd_xxx and its test, common to every answer.
Answer(t, r, i, next, timers) ==
  LET s == [t EXCEPT !.last = r] IN
  IF i # "sent" THEN TransportError(s)
  ELSE Result(Arm(To(s, next), timers), "response", r)

\* A repeated request is answered with the last response, if there is one.
AnswerAgain(t, i) ==
  IF t.last = "none" THEN Result(t, "none", "again")
  ELSE IF i # "sent" THEN TransportError(t) ELSE Result(t, "response", "again")

ist_rcv_invite(t, i) ==
  IF t.state = "pre" THEN Result(To(t, "proceeding"), "none", "request")
  ELSE AnswerAgain(t, i)

ist_snd_1xx(t, i) == Answer(t, "1xx", i, "proceeding", {})

ist_snd_2xx(t, i) == Answer(t, "2xx", i, "terminated", {})
ist_snd_3456xx(t, i) == Answer(t, "3456xx", i, "completed", {"G", "H"})

osip_ist_timeout_g_event(t, i) ==
  IF i # "sent" THEN TransportError(t) ELSE Result(t, "response", "again")

osip_ist_timeout_h_event(t) == Gone(t, "H", "none")

ist_rcv_ack(t) == Result(Arm(To(t, "confirmed"), {"I"}), "none", "ack")

osip_ist_timeout_i_event(t) == Gone(t, "I", "none")

ist_transition(t, e, i) ==
  CASE t.state \in {"pre", "proceeding", "completed"} /\ e = "rcv_request" -> ist_rcv_invite(t, i)
    [] t.state = "proceeding" /\ e = "snd_1xx" -> ist_snd_1xx(t, i)
    [] t.state = "proceeding" /\ e = "snd_2xx" -> ist_snd_2xx(t, i)
    [] t.state = "proceeding" /\ e = "snd_3456xx" -> ist_snd_3456xx(t, i)
    [] t.state = "completed" /\ e = "G" -> osip_ist_timeout_g_event(t, i)
    [] t.state = "completed" /\ e = "H" -> osip_ist_timeout_h_event(t)
    [] t.state \in {"completed", "confirmed"} /\ e = "rcv_ack" -> ist_rcv_ack(t)
    [] t.state = "confirmed" /\ e = "I" -> osip_ist_timeout_i_event(t)
    [] OTHER -> Useless(t)

-----------------------------------------------------------------------------
(* Client and server transactions of the other requests                    *)

nict_snd_request(t, i) ==
  IF i = "failed" THEN TransportError(t)
  ELSE Result(Arm(To(t, "trying"), {"E"}), Wire(i, "request"), "none")

osip_nict_timeout_e_event(t, i) ==
  IF i = "failed" THEN TransportError(t) ELSE Result(t, Wire(i, "request"), "none")

osip_nict_timeout_f_event(t) == Gone(t, "F", "timeout")
osip_nict_timeout_k_event(t) == Gone(t, "K", "none")

nict_rcv_1xx(t) == Result([t EXCEPT !.last = "1xx", !.state = "proceeding"], "none", "1xx")

nict_rcv_23456xx(t, r) ==
  Result(Arm([t EXCEPT !.last = r, !.state = "completed"], {"K"}), "none", r)

nict_transition(t, e, i) ==
  CASE t.state = "pre" /\ e = "snd_request" -> nict_snd_request(t, i)
    [] t.state \in {"trying", "proceeding"} /\ e = "F" -> osip_nict_timeout_f_event(t)
    [] t.state \in {"trying", "proceeding"} /\ e = "E" -> osip_nict_timeout_e_event(t, i)
    [] t.state \in {"trying", "proceeding"} /\ e = "rcv_1xx" -> nict_rcv_1xx(t)
    [] t.state \in {"trying", "proceeding"} /\ e = "rcv_2xx" -> nict_rcv_23456xx(t, "2xx")
    [] t.state \in {"trying", "proceeding"} /\ e = "rcv_3456xx" -> nict_rcv_23456xx(t, "3456xx")
    [] t.state = "completed" /\ e = "K" -> osip_nict_timeout_k_event(t)
    [] OTHER -> Useless(t)

nist_rcv_request(t, i) ==
  IF t.state = "pre" THEN Result(To(t, "trying"), "none", "request")
  ELSE AnswerAgain(t, i)

nist_snd_1xx(t, i) == Answer(t, "1xx", i, "proceeding", {})

\* Mutant of nist_snd_23456xx: another answer can be sent after it.
MutStaysOpen(t, r, i) == Answer(t, r, i, "proceeding", {"J"})

nist_snd_23456xx(t, r, i) == Answer(t, r, i, "completed", {"J"})

osip_nist_timeout_j_event(t) == Gone(t, "J", "none")

nist_transition(t, e, i) ==
  CASE t.state \in {"pre", "proceeding", "completed"} /\ e = "rcv_request" -> nist_rcv_request(t, i)
    [] t.state \in {"trying", "proceeding"} /\ e = "snd_1xx" -> nist_snd_1xx(t, i)
    [] t.state \in {"trying", "proceeding"} /\ e = "snd_2xx" -> nist_snd_23456xx(t, "2xx", i)
    [] t.state \in {"trying", "proceeding"} /\ e = "snd_3456xx" -> nist_snd_23456xx(t, "3456xx", i)
    [] t.state = "completed" /\ e = "J" -> osip_nist_timeout_j_event(t)
    [] OTHER -> Useless(t)

-----------------------------------------------------------------------------
\* osip_transaction_execute and fsm_callmethod; i is the outcome of the send.
Execute(t, e, i) ==
  CASE t.kind = "ICT"  -> ict_transition(t, e, i)
    [] t.kind = "IST"  -> ist_transition(t, e, i)
    [] t.kind = "NICT" -> nict_transition(t, e, i)
    [] t.kind = "NIST" -> nist_transition(t, e, i)

\* __osip_xxx_need_timer_y_event: the states a timer is looked at in.
While(timer) ==
  CASE timer \in {"A", "B"} -> {"calling"}
    [] timer \in {"E", "F"} -> {"trying", "proceeding"}
    [] timer = "I" -> {"confirmed"}
    [] OTHER -> {"completed"}

\* osip_timers_xxx_execute queues at most one timer event for a transaction,
\* one that is armed and meant for its state; ICT only when nothing is queued.
MayFire(t, queued) ==
  {x \in t.armed \cap Timers[t.kind] : t.state \in While(x) /\ (t.kind = "ICT" => queued = 0)}

Resending == {"A", "E", "G"}
=============================================================================
