-------------------------- MODULE SipDialogProofs --------------------------
(***************************************************************************)
(* What holds of a call between two phones, however many legs the callee   *)
(* opens, however often a message is sent again, and whatever the network, *)
(* the timers and the users do.                                            *)
(*                                                                         *)
(* The handlers are operators on the state S a pass works on, and so is    *)
(* the invariant: Good(S, X, Y, b).  X and Y hold the legs a handler is    *)
(* not done with: those it is about to report CLOSED, and those whose BYE  *)
(* was taken out of its queue and is not sent yet.  b says that no send    *)
(* has failed so far.                                                      *)
(***************************************************************************)
EXTENDS SipDialog, WellFoundedInduction, SequenceTheorems, TLAPS

Entry == [e : Events, leg : Legs]

Phones ==
  [tr : [Ids -> Transaction], fifo : [Ids -> Seq(Entry)], net : SUBSET Messages,
   leg : [Legs -> Leg], todo : SUBSET ({"ANSWERED", "INVITE"} \X Legs),
   told : [Legs -> SUBSET News], again : [Legs -> SUBSET News],
   finals : [Legs -> SUBSET Finals]]

\* A transaction and its queue as they are found: an INVITE that was challenged is
\* past its answer, a completed one was refused, and a BYE begins with its request.
Fits(id, t, queue) ==
  /\ t.kind = KindOf(id)
  /\ id[2] = "asked" => t.state \in {"completed", "terminated"} \/ (t.state = "pre" /\ queue = <<>>)
  /\ t.kind = "IST" /\ t.state = "completed" => t.last = "3456xx"
  /\ id[2] = "bye" /\ t.state = "pre" /\ queue # <<>> => queue[1].e = "snd_request"

Sound(S) == S \in Phones /\ \A id \in Ids : Fits(id, S.tr[id], S.fifo[id])

Closed(S, k, X) == "CLOSED" \in S.told[k] \/ k \in X

\* The fate of a call at the callee, and what its application was told of it.
Fate(S, k, X, Y) ==
  /\ HasDialog(S.leg[k]) => S.leg[k].call = "up"
  /\ "INVITE" \in S.told[k] => S.leg[k].call # "none"
  /\ S.leg[k].dlg = "confirmed" => S.leg[k].ok200 \/ "ACK" \in S.told[k]
  /\ S.leg[k].call # "none" /\ ~HasDialog(S.leg[k]) =>
       Closed(S, k, X) \/ Made(S, <<k, "bye">>) \/ k \in Y
  /\ Made(S, <<k, "inbye">>) => Closed(S, k, X)
  /\ S.tr[<<k, "invite">>].last = "3456xx" => Closed(S, k, X)

Good(S, X, Y, b) == Sound(S) /\ (b => \A k \in Callee : Fate(S, k, X, Y))

IInv ==
  /\ world \in Trials
  /\ spent \in [{"lose", "dup", "fail"} -> Nat]
  /\ tries \in [Ids -> 0 .. MaxResend]
  /\ read \in [Sides -> BOOLEAN]
  /\ Good(Now, {}, {}, spent["fail"] = 0)

-----------------------------------------------------------------------------
(* What one event does to a transaction                                    *)

Refused(t) == t.kind = "IST" /\ t.state = "completed" => t.last = "3456xx"

Moves(t, e, i, r) ==
  /\ r.tr \in Transaction /\ r.tr.kind = t.kind /\ Refused(r.tr)
  /\ t.state # "pre" => r.tr.state # "pre"
  /\ t.kind = "ICT" /\ t.state \in {"completed", "terminated"} =>
       r.tr.state \in {"completed", "terminated"} /\ r.out # "request"
  /\ t.kind = "NICT" /\ e = "snd_request" => r.tr.state # "pre"
  /\ r.out \in {"none", "request", "response", "ack"}
  /\ r.out = "request" => t.kind \in {"ICT", "NICT"}
  /\ r.out = "response" => t.kind \in {"IST", "NIST"} /\ r.tr.last \in Responses
  /\ t.kind = "IST" /\ i = "sent" /\ r.tr.last = "3456xx" =>
       t.last = "3456xx" \/ r.tell = "3456xx"

\* The machine of an INVITE that was sent.
LEMMA InviteSent ==
  ASSUME NEW t \in Transaction, NEW e, NEW i \in Outcomes, t.kind = "ICT", Refused(t)
  PROVE  Moves(t, e, i, ict_transition(t, e, i))
<1>1. CASE t.state = "pre" /\ e = "snd_request"
  <2>1. Moves(t, e, i, ict_snd_invite(t, i))
    BY <1>1 DEF Moves, Refused, Transaction, States, Outcomes, Responses, Finals,
       ict_snd_invite, Result, To, TransportError, Wire
  <2> QED BY <1>1, <2>1 DEF ict_transition
<1>2. CASE t.state = "calling" /\ e = "A"
  <2>1. Moves(t, e, i, osip_ict_timeout_a_event(t, i))
    BY <1>2 DEF Moves, Refused, Transaction, States, Outcomes, Responses, Finals,
       osip_ict_timeout_a_event, Result, To, TransportError, Wire
  <2> QED BY <1>2, <2>1 DEF ict_transition
<1>3. CASE t.state = "calling" /\ e = "B"
  <2>1. Moves(t, e, i, osip_ict_timeout_b_event(t))
    BY <1>3 DEF Moves, Refused, Transaction, States, Outcomes, Responses, Finals,
       osip_ict_timeout_b_event, Disarm, Gone, Result, To
  <2> QED BY <1>3, <2>1 DEF ict_transition
<1>4. CASE t.state \in {"calling", "proceeding"} /\ e = "rcv_1xx"
  <2>1. Moves(t, e, i, ict_rcv_1xx(t))
    BY <1>4 DEF Moves, Refused, Transaction, States, Outcomes, Responses, Finals,
       ict_rcv_1xx, Result
  <2> QED BY <1>4, <2>1 DEF ict_transition
<1>5. CASE t.state \in {"calling", "proceeding"} /\ e = "rcv_2xx"
  <2>1. Moves(t, e, i, ict_rcv_2xx(t))
    BY <1>5 DEF Moves, Refused, Transaction, States, Outcomes, Responses, Finals,
       ict_rcv_2xx, Result
  <2> QED BY <1>5, <2>1 DEF ict_transition
<1>6. CASE t.state \in {"calling", "proceeding"} /\ e = "rcv_3456xx"
  <2>1. Moves(t, e, i, ict_rcv_3456xx(t, i))
    BY <1>6 DEF Moves, Refused, Transaction, States, Outcomes, Responses, Finals,
       ict_rcv_3456xx, Arm, Result, To, TransportError
  <2> QED BY <1>6, <2>1 DEF ict_transition
<1>7. CASE t.state = "completed" /\ e = "rcv_3456xx"
  <2>1. Moves(t, e, i, ict_retransmit_ack(t, i))
    BY <1>7 DEF Moves, Refused, Transaction, States, Outcomes, Responses, Finals,
       ict_retransmit_ack, Result, To, TransportError
  <2> QED BY <1>7, <2>1 DEF ict_transition
<1>8. CASE t.state = "completed" /\ e = "D"
  <2>1. Moves(t, e, i, osip_ict_timeout_d_event(t))
    BY <1>8 DEF Moves, Refused, Transaction, States, Outcomes, Responses, Finals,
       osip_ict_timeout_d_event, Disarm, Gone, Result, To
  <2> QED BY <1>8, <2>1 DEF ict_transition
<1>9. CASE /\ ~(t.state = "pre" /\ e = "snd_request")
          /\ ~(t.state = "calling" /\ e = "A")
          /\ ~(t.state = "calling" /\ e = "B")
          /\ ~(t.state \in {"calling", "proceeding"} /\ e = "rcv_1xx")
          /\ ~(t.state \in {"calling", "proceeding"} /\ e = "rcv_2xx")
          /\ ~(t.state \in {"calling", "proceeding"} /\ e = "rcv_3456xx")
          /\ ~(t.state = "completed" /\ e = "rcv_3456xx")
          /\ ~(t.state = "completed" /\ e = "D")
  <2>1. Moves(t, e, i, Useless(t))
    BY DEF Moves, Refused, Useless, Result
  <2> QED BY <1>9, <2>1 DEF ict_transition
<1> QED BY <1>1, <1>2, <1>3, <1>4, <1>5, <1>6, <1>7, <1>8, <1>9

\* The machine of an INVITE that was received.
LEMMA InviteReceived ==
  ASSUME NEW t \in Transaction, NEW e, NEW i \in Outcomes, t.kind = "IST", Refused(t)
  PROVE  Moves(t, e, i, ist_transition(t, e, i))
<1>1. CASE t.state \in {"pre", "proceeding", "completed"} /\ e = "rcv_request"
  <2>1. Moves(t, e, i, ist_rcv_invite(t, i))
    BY <1>1 DEF Moves, Refused, Transaction, States, Outcomes, Responses, Finals,
       ist_rcv_invite, AnswerAgain, Result, To, TransportError
  <2> QED BY <1>1, <2>1 DEF ist_transition
<1>2. CASE t.state = "proceeding" /\ e = "snd_1xx"
  <2>1. Moves(t, e, i, ist_snd_1xx(t, i))
    BY <1>2 DEF Moves, Refused, Transaction, States, Outcomes, Responses, Finals,
       ist_snd_1xx, Answer, Arm, Result, To, TransportError
  <2> QED BY <1>2, <2>1 DEF ist_transition
<1>3. CASE t.state = "proceeding" /\ e = "snd_2xx"
  <2>1. Moves(t, e, i, ist_snd_2xx(t, i))
    BY <1>3 DEF Moves, Refused, Transaction, States, Outcomes, Responses, Finals,
       ist_snd_2xx, Answer, Arm, Result, To, TransportError
  <2> QED BY <1>3, <2>1 DEF ist_transition
<1>4. CASE t.state = "proceeding" /\ e = "snd_3456xx"
  <2>1. Moves(t, e, i, ist_snd_3456xx(t, i))
    BY <1>4 DEF Moves, Refused, Transaction, States, Outcomes, Responses, Finals,
       ist_snd_3456xx, Answer, Arm, Result, To, TransportError
  <2> QED BY <1>4, <2>1 DEF ist_transition
<1>5. CASE t.state = "completed" /\ e = "G"
  <2>1. Moves(t, e, i, osip_ist_timeout_g_event(t, i))
    BY <1>5 DEF Moves, Refused, Transaction, States, Outcomes, Responses, Finals,
       osip_ist_timeout_g_event, Result, To, TransportError
  <2> QED BY <1>5, <2>1 DEF ist_transition
<1>6. CASE t.state = "completed" /\ e = "H"
  <2>1. Moves(t, e, i, osip_ist_timeout_h_event(t))
    BY <1>6 DEF Moves, Refused, Transaction, States, Outcomes, Responses, Finals,
       osip_ist_timeout_h_event, Disarm, Gone, Result, To
  <2> QED BY <1>6, <2>1 DEF ist_transition
<1>7. CASE t.state \in {"completed", "confirmed"} /\ e = "rcv_ack"
  <2>1. Moves(t, e, i, ist_rcv_ack(t))
    BY <1>7 DEF Moves, Refused, Transaction, States, Outcomes, Responses, Finals,
       ist_rcv_ack, Arm, Result, To
  <2> QED BY <1>7, <2>1 DEF ist_transition
<1>8. CASE t.state = "confirmed" /\ e = "I"
  <2>1. Moves(t, e, i, osip_ist_timeout_i_event(t))
    BY <1>8 DEF Moves, Refused, Transaction, States, Outcomes, Responses, Finals,
       osip_ist_timeout_i_event, Disarm, Gone, Result, To
  <2> QED BY <1>8, <2>1 DEF ist_transition
<1>9. CASE /\ ~(t.state \in {"pre", "proceeding", "completed"} /\ e = "rcv_request")
          /\ ~(t.state = "proceeding" /\ e = "snd_1xx")
          /\ ~(t.state = "proceeding" /\ e = "snd_2xx")
          /\ ~(t.state = "proceeding" /\ e = "snd_3456xx")
          /\ ~(t.state = "completed" /\ e = "G")
          /\ ~(t.state = "completed" /\ e = "H")
          /\ ~(t.state \in {"completed", "confirmed"} /\ e = "rcv_ack")
          /\ ~(t.state = "confirmed" /\ e = "I")
  <2>1. Moves(t, e, i, Useless(t))
    BY DEF Moves, Refused, Useless, Result
  <2> QED BY <1>9, <2>1 DEF ist_transition
<1> QED BY <1>1, <1>2, <1>3, <1>4, <1>5, <1>6, <1>7, <1>8, <1>9

\* The machine of any other request that was sent.
LEMMA RequestSent ==
  ASSUME NEW t \in Transaction, NEW e, NEW i \in Outcomes, t.kind = "NICT", Refused(t)
  PROVE  Moves(t, e, i, nict_transition(t, e, i))
<1>1. CASE t.state = "pre" /\ e = "snd_request"
  <2>1. Moves(t, e, i, nict_snd_request(t, i))
    BY <1>1 DEF Moves, Refused, Transaction, States, Outcomes, Responses, Finals,
       nict_snd_request, Arm, Result, To, TransportError, Wire
  <2> QED BY <1>1, <2>1 DEF nict_transition
<1>2. CASE t.state \in {"trying", "proceeding"} /\ e = "F"
  <2>1. Moves(t, e, i, osip_nict_timeout_f_event(t))
    BY <1>2 DEF Moves, Refused, Transaction, States, Outcomes, Responses, Finals,
       osip_nict_timeout_f_event, Disarm, Gone, Result, To
  <2> QED BY <1>2, <2>1 DEF nict_transition
<1>3. CASE t.state \in {"trying", "proceeding"} /\ e = "E"
  <2>1. Moves(t, e, i, osip_nict_timeout_e_event(t, i))
    BY <1>3 DEF Moves, Refused, Transaction, States, Outcomes, Responses, Finals,
       osip_nict_timeout_e_event, Result, To, TransportError, Wire
  <2> QED BY <1>3, <2>1 DEF nict_transition
<1>4. CASE t.state \in {"trying", "proceeding"} /\ e = "rcv_1xx"
  <2>1. Moves(t, e, i, nict_rcv_1xx(t))
    BY <1>4 DEF Moves, Refused, Transaction, States, Outcomes, Responses, Finals,
       nict_rcv_1xx, Result
  <2> QED BY <1>4, <2>1 DEF nict_transition
<1>5. CASE t.state \in {"trying", "proceeding"} /\ e = "rcv_2xx"
  <2>1. Moves(t, e, i, nict_rcv_23456xx(t, "2xx"))
    BY <1>5 DEF Moves, Refused, Transaction, States, Outcomes, Responses, Finals,
       nict_rcv_23456xx, Arm, Result
  <2> QED BY <1>5, <2>1 DEF nict_transition
<1>6. CASE t.state \in {"trying", "proceeding"} /\ e = "rcv_3456xx"
  <2>1. Moves(t, e, i, nict_rcv_23456xx(t, "3456xx"))
    BY <1>6 DEF Moves, Refused, Transaction, States, Outcomes, Responses, Finals,
       nict_rcv_23456xx, Arm, Result
  <2> QED BY <1>6, <2>1 DEF nict_transition
<1>7. CASE t.state = "completed" /\ e = "K"
  <2>1. Moves(t, e, i, osip_nict_timeout_k_event(t))
    BY <1>7 DEF Moves, Refused, Transaction, States, Outcomes, Responses, Finals,
       osip_nict_timeout_k_event, Disarm, Gone, Result, To
  <2> QED BY <1>7, <2>1 DEF nict_transition
<1>8. CASE /\ ~(t.state = "pre" /\ e = "snd_request")
          /\ ~(t.state \in {"trying", "proceeding"} /\ e = "F")
          /\ ~(t.state \in {"trying", "proceeding"} /\ e = "E")
          /\ ~(t.state \in {"trying", "proceeding"} /\ e = "rcv_1xx")
          /\ ~(t.state \in {"trying", "proceeding"} /\ e = "rcv_2xx")
          /\ ~(t.state \in {"trying", "proceeding"} /\ e = "rcv_3456xx")
          /\ ~(t.state = "completed" /\ e = "K")
  <2>1. Moves(t, e, i, Useless(t))
    BY <1>8 DEF Moves, Refused, Useless, Result
  <2> QED BY <1>8, <2>1 DEF nict_transition
<1> QED BY <1>1, <1>2, <1>3, <1>4, <1>5, <1>6, <1>7, <1>8

\* The machine of any other request that was received.
LEMMA RequestReceived ==
  ASSUME NEW t \in Transaction, NEW e, NEW i \in Outcomes, t.kind = "NIST", Refused(t)
  PROVE  Moves(t, e, i, nist_transition(t, e, i))
<1>1. CASE t.state \in {"pre", "proceeding", "completed"} /\ e = "rcv_request"
  <2>1. Moves(t, e, i, nist_rcv_request(t, i))
    BY <1>1 DEF Moves, Refused, Transaction, States, Outcomes, Responses, Finals,
       nist_rcv_request, AnswerAgain, Result, To, TransportError
  <2> QED BY <1>1, <2>1 DEF nist_transition
<1>2. CASE t.state \in {"trying", "proceeding"} /\ e = "snd_1xx"
  <2>1. Moves(t, e, i, nist_snd_1xx(t, i))
    BY <1>2 DEF Moves, Refused, Transaction, States, Outcomes, Responses, Finals,
       nist_snd_1xx, Answer, Arm, Result, To, TransportError
  <2> QED BY <1>2, <2>1 DEF nist_transition
<1>3. CASE t.state \in {"trying", "proceeding"} /\ e = "snd_2xx"
  <2>1. Moves(t, e, i, nist_snd_23456xx(t, "2xx", i))
    BY <1>3 DEF Moves, Refused, Transaction, States, Outcomes, Responses, Finals,
       nist_snd_23456xx, Answer, Arm, Result, To, TransportError
  <2> QED BY <1>3, <2>1 DEF nist_transition
<1>4. CASE t.state \in {"trying", "proceeding"} /\ e = "snd_3456xx"
  <2>1. Moves(t, e, i, nist_snd_23456xx(t, "3456xx", i))
    BY <1>4 DEF Moves, Refused, Transaction, States, Outcomes, Responses, Finals,
       nist_snd_23456xx, Answer, Arm, Result, To, TransportError
  <2> QED BY <1>4, <2>1 DEF nist_transition
<1>5. CASE t.state = "completed" /\ e = "J"
  <2>1. Moves(t, e, i, osip_nist_timeout_j_event(t))
    BY <1>5 DEF Moves, Refused, Transaction, States, Outcomes, Responses, Finals,
       osip_nist_timeout_j_event, Disarm, Gone, Result, To
  <2> QED BY <1>5, <2>1 DEF nist_transition
<1>6. CASE /\ ~(t.state \in {"pre", "proceeding", "completed"} /\ e = "rcv_request")
          /\ ~(t.state \in {"trying", "proceeding"} /\ e = "snd_1xx")
          /\ ~(t.state \in {"trying", "proceeding"} /\ e = "snd_2xx")
          /\ ~(t.state \in {"trying", "proceeding"} /\ e = "snd_3456xx")
          /\ ~(t.state = "completed" /\ e = "J")
  <2>1. Moves(t, e, i, Useless(t))
    BY DEF Moves, Refused, Useless, Result
  <2> QED BY <1>6, <2>1 DEF nist_transition
<1> QED BY <1>1, <1>2, <1>3, <1>4, <1>5, <1>6

LEMMA Executes ==
  ASSUME NEW t \in Transaction, NEW e, NEW i \in Outcomes, Refused(t)
  PROVE  Moves(t, e, i, Execute(t, e, i))
<1>1. t.kind \in {"ICT", "IST", "NICT", "NIST"}
  BY DEF Transaction, Kinds
<1>2. CASE t.kind = "ICT"
  BY <1>2, InviteSent DEF Execute
<1>3. CASE t.kind = "IST"
  BY <1>3, InviteReceived DEF Execute
<1>4. CASE t.kind = "NICT"
  BY <1>4, RequestSent DEF Execute
<1>5. CASE t.kind = "NIST"
  BY <1>5, RequestReceived DEF Execute
<1> QED BY <1>1, <1>2, <1>3, <1>4, <1>5

-----------------------------------------------------------------------------
(* The legs, their transactions and the wire                               *)

LEMMA Numbers ==
  /\ MaxCalls \in Nat /\ MaxCalls >= 1 /\ MaxRetry \in {0, 1} /\ MaxOk \in Nat /\ MaxResend \in Nat
  /\ Legs \subseteq Nat /\ 0 \in Legs /\ 1 \in Legs /\ Callee = Legs \ {0} /\ 0 .. MaxRetry \subseteq Legs
BY BoundsAssumption DEF Legs, Callee

LEMMA IdParts ==
  ASSUME NEW id \in Ids
  PROVE  /\ id[1] \in Legs /\ id[2] \in Roles /\ id = <<id[1], id[2]>>
         /\ id[1] # 0 <=> id[1] \in Callee
BY Numbers DEF Ids

LEMMA Pairs ==
  ASSUME NEW l \in Legs, NEW role \in Roles
  PROVE  <<l, role>> \in Ids
BY DEF Ids

\* Which machine stands behind a role.
LEMMA KindsOf ==
  ASSUME NEW id \in Ids
  PROVE  /\ id[2] = "invite" => KindOf(id) = IF id[1] = 0 THEN "ICT" ELSE "IST"
         /\ id[2] = "asked" => KindOf(id) = "ICT"
         /\ id[2] = "cancel" => KindOf(id) = IF id[1] = 0 THEN "NICT" ELSE "NIST"
         /\ id[2] = "bye" => KindOf(id) = "NICT"
         /\ id[2] = "inbye" => KindOf(id) = "NIST"
BY DEF KindOf

\* The fields of the state a pass works on.
LEMMA Fields ==
  ASSUME NEW S \in Phones
  PROVE  /\ S.tr \in [Ids -> Transaction] /\ S.fifo \in [Ids -> Seq(Entry)]
         /\ S.net \subseteq Messages /\ S.leg \in [Legs -> Leg]
         /\ S.todo \subseteq {"ANSWERED", "INVITE"} \X Legs
         /\ S.told \in [Legs -> SUBSET News] /\ S.again \in [Legs -> SUBSET News]
         /\ S.finals \in [Legs -> SUBSET Finals]
BY DEF Phones

LEMMA PutKeeps ==
  ASSUME NEW S \in Phones, NEW m \in Messages
  PROVE  /\ Put(S, m) \in Phones
         /\ Put(S, m).tr = S.tr /\ Put(S, m).fifo = S.fifo /\ Put(S, m).leg = S.leg
         /\ Put(S, m).todo = S.todo /\ Put(S, m).told = S.told /\ Put(S, m).again = S.again
BY DEF Put, Phones

LEMMA ToTheCallee ==
  ASSUME NEW m \in ToCallee, NEW l \in Legs
  PROVE  Msg("callee", m, l) \in Messages
BY DEF Msg, Messages

LEMMA ToTheCaller ==
  ASSUME NEW m \in ToCaller, NEW l \in Legs
  PROVE  Msg("caller", m, l) \in Messages
BY DEF Msg, Messages

\* What a transaction may be asked to put on the wire.
Sendable(S, id, what) ==
  /\ what = "request" => id[2] # "asked" /\ KindOf(id) \in {"ICT", "NICT"}
  /\ what = "response" => KindOf(id) \in {"IST", "NIST"} /\ S.tr[id].last \in Responses

LEMMA Wiring ==
  ASSUME NEW S \in Phones, NEW id \in Ids, NEW ev \in Entry,
         NEW what \in {"request", "response", "ack"}, Sendable(S, id, what)
  PROVE  Wired(S, id, what, ev) \in Messages
<1>1. /\ id[1] \in Legs /\ id[2] \in Roles /\ ev.leg \in Legs /\ 0 \in Legs
      /\ S.leg[id[1]] \in Leg /\ S.leg[0] \in Leg
      /\ id = <<id[1], id[2]>>
  BY IdParts, Numbers, Fields DEF Entry
<1>2. S.leg[0].rem \in Legs /\ S.leg[0].retry \in Legs /\ S.leg[id[1]].byeleg \in Legs
  BY <1>1, Numbers DEF Leg
<1>3. CASE what = "ack"
  <2>1. Wired(S, id, what, ev) = Msg("callee", "NACK", ev.leg)
    BY <1>3 DEF Wired
  <2> QED BY <1>1, <2>1, ToTheCallee DEF ToCallee
<1>4. CASE what = "request"
  <2>1. id[2] # "asked" /\ KindOf(id) \in {"ICT", "NICT"}
    BY <1>4 DEF Sendable
  <2>2. id = <<0, "invite">> \/ (id[1] = 0 /\ id[2] = "cancel") \/ id[2] = "bye"
    BY <1>1, <2>1, KindsOf DEF Roles
  <2>3. CASE id = <<0, "invite">>
    <3>1. Wired(S, id, what, ev) = IF Challenged(S) THEN Msg("caller", "407", S.leg[0].retry)
                                   ELSE Msg("callee", "INVITE", 0)
      BY <1>4, <2>3 DEF Wired
    <3>2. Msg("caller", "407", S.leg[0].retry) \in Messages /\ Msg("callee", "INVITE", 0) \in Messages
      BY <1>1, <1>2, ToTheCallee, ToTheCaller DEF ToCallee, ToCaller
    <3> QED BY <3>1, <3>2
  <2>4. CASE id[1] = 0 /\ id[2] = "cancel"
    <3>1. Wired(S, id, what, ev) = Msg("callee", "CANCEL", 0)
      BY <1>4, <2>4 DEF Wired
    <3> QED BY <1>1, <3>1, ToTheCallee DEF ToCallee
  <2>5. CASE id[2] = "bye"
    <3>1. Wired(S, id, what, ev) = Msg(IF id[1] = 0 THEN "callee" ELSE "caller", "BYE",
                                       IF id[1] = 0 THEN S.leg[0].rem ELSE id[1])
      BY <1>4, <2>5 DEF Wired
    <3> QED BY <1>1, <1>2, <3>1, ToTheCallee, ToTheCaller DEF ToCallee, ToCaller
  <2> QED BY <2>2, <2>3, <2>4, <2>5
<1>5. CASE what = "response"
  <2>1. KindOf(id) \in {"IST", "NIST"} /\ S.tr[id].last \in {"1xx", "2xx", "3456xx"}
    BY <1>5 DEF Sendable, Responses, Finals
  <2>2. id[2] \in {"cancel", "inbye", "invite"}
    BY <1>1, <2>1, KindsOf DEF Roles
  <2>3. CASE id[2] = "cancel"
    <3>1. Wired(S, id, what, ev) =
            Msg("caller", IF S.tr[id].last = "2xx" THEN "ok_cancel" ELSE "no_cancel", 0)
      BY <1>5, <2>3 DEF Wired
    <3> QED BY <1>1, <3>1, ToTheCaller DEF ToCaller
  <2>4. CASE id[2] = "inbye"
    <3>1. Wired(S, id, what, ev) =
            Msg(IF id[1] = 0 THEN "callee" ELSE "caller",
                IF S.tr[id].last = "2xx" THEN "ok_bye" ELSE "no_bye", S.leg[id[1]].byeleg)
      BY <1>5, <2>4 DEF Wired
    <3> QED BY <1>2, <3>1, ToTheCallee, ToTheCaller DEF ToCallee, ToCaller
  <2>5. CASE id[2] = "invite"
    <3>1. Wired(S, id, what, ev) =
            IF ev.e = "snd_1xx" /\ ev.leg = 0 THEN Msg("caller", "100", 0)
            ELSE ResponseTo(id[1], S.tr[id].last)
      BY <1>5, <2>5 DEF Wired
    <3>2. Msg("caller", "100", 0) \in Messages
      BY <1>1, ToTheCaller DEF ToCaller
    <3>3. ResponseTo(id[1], S.tr[id].last) \in Messages
      BY <1>1, <2>1, ToTheCaller DEF ResponseTo, ToCaller
    <3> QED BY <3>1, <3>2, <3>3
  <2> QED BY <2>2, <2>3, <2>4, <2>5
<1> QED BY <1>3, <1>4, <1>5

\* A send changes the wire and the history of the final answers alone.
LEMMA SendKeeps ==
  ASSUME NEW S \in Phones, NEW id \in Ids, NEW ev \in Entry,
         NEW what \in {"none", "request", "response", "ack"}, Sendable(S, id, what)
  PROVE  LET R == Send(S, id, what, ev) IN
         /\ R \in Phones
         /\ R.tr = S.tr /\ R.fifo = S.fifo /\ R.leg = S.leg
         /\ R.todo = S.todo /\ R.told = S.told /\ R.again = S.again
<1>1. CASE \/ what = "none"
           \/ what = "response" /\ id[2] = "inbye" /\ S.leg[id[1]].bye = "BYE4"
           \/ what = "ack" /\ (id[2] = "asked" \/ Challenged(S))
  <2>1. Send(S, id, what, ev) = S
    BY <1>1 DEF Send
  <2> QED BY <2>1
<1>2. CASE ~ \/ what = "none"
             \/ what = "response" /\ id[2] = "inbye" /\ S.leg[id[1]].bye = "BYE4"
             \/ what = "ack" /\ (id[2] = "asked" \/ Challenged(S))
  <2> DEFINE m == Wired(S, id, what, ev)
             T == Put(S, m)
  <2>1. Send(S, id, what, ev) =
          IF KindOf(id) = "IST" /\ m.m \in Finals THEN [T EXCEPT !.finals[id[1]] = @ \cup {m.m}] ELSE T
    BY <1>2 DEF Send
  <2>2. m \in Messages
    BY <1>2, Wiring
  <2> HIDE DEF m
  <2>3. /\ T \in Phones /\ T.tr = S.tr /\ T.fifo = S.fifo /\ T.leg = S.leg
        /\ T.todo = S.todo /\ T.told = S.told /\ T.again = S.again
    BY <2>2, PutKeeps
  <2> HIDE DEF T
  <2>4. id[1] \in Legs
    BY IdParts
  <2>5. CASE KindOf(id) = "IST" /\ m.m \in Finals
    <3> DEFINE U == [T EXCEPT !.finals[id[1]] = @ \cup {m.m}]
    <3>1. U \in Phones /\ U.tr = T.tr /\ U.fifo = T.fifo /\ U.leg = T.leg
          /\ U.todo = T.todo /\ U.told = T.told /\ U.again = T.again
      BY <2>3, <2>4, <2>5 DEF Phones
    <3> QED BY <2>1, <2>3, <2>5, <3>1
  <2> QED BY <2>1, <2>3, <2>5
<1> QED BY <1>1, <1>2

-----------------------------------------------------------------------------
(* One event and its callback                                              *)

\* Nothing is taken back from an application, and no call begins or ends.
Keeps(S, R) ==
  \A l \in Legs : S.told[l] \subseteq R.told[l] /\ R.leg[l].call = S.leg[l].call

\* A handler that does not touch a leg keeps its fate.
LEMMA FateKept ==
  ASSUME NEW S, NEW R, NEW k, NEW X, NEW Y, Fate(S, k, X, Y),
         R.leg[k] = S.leg[k], R.told[k] = S.told[k],
         Made(S, <<k, "bye">>) => Made(R, <<k, "bye">>),
         Made(R, <<k, "inbye">>) => Made(S, <<k, "inbye">>) \/ Closed(S, k, X),
         R.tr[<<k, "invite">>].last = "3456xx" =>
           S.tr[<<k, "invite">>].last = "3456xx" \/ Closed(S, k, X)
  PROVE  Fate(R, k, X, Y)
BY DEF Fate, Closed

\* A leg whose refusal was sent and reported.
LEMMA FateRefused ==
  ASSUME NEW S, NEW R, NEW k, NEW X, NEW Y, Fate(S, k, X, Y),
         R.leg[k].call = S.leg[k].call, R.leg[k].ok200 = S.leg[k].ok200,
         R.leg[k].dlg = S.leg[k].dlg \/ ~HasDialog(R.leg[k]),
         R.told[k] = S.told[k] \cup {"CLOSED"}
  PROVE  Fate(R, k, X, Y)
BY DEF Fate, Closed, HasDialog

LEMMA ReportKeeps ==
  ASSUME NEW S \in Phones, NEW l \in Legs, NEW type \in News
  PROVE  LET R == Report(S, l, type) IN
         /\ R \in Phones /\ R.tr = S.tr /\ R.fifo = S.fifo /\ R.leg = S.leg /\ R.net = S.net
         /\ R.told = [S.told EXCEPT ![l] = @ \cup {type}]
<1> DEFINE told1 == [S.told EXCEPT ![l] = @ \cup {type}]
           again1 == [S.again EXCEPT ![l] = IF type \in S.told[l] THEN @ \cup {type} ELSE @]
           todo1 == IF type \in {"ANSWERED", "INVITE"} THEN S.todo \cup {<<type, l>>} ELSE S.todo
<1>1. /\ told1 \in [Legs -> SUBSET News] /\ again1 \in [Legs -> SUBSET News]
      /\ todo1 \subseteq {"ANSWERED", "INVITE"} \X Legs
  BY Fields
<1>2. Report(S, l, type) = [S EXCEPT !.told = told1, !.again = again1, !.todo = todo1]
  BY DEF Report
<1>3. told1 = [S.told EXCEPT ![l] = @ \cup {type}]
  OBVIOUS
<1> HIDE DEF told1, again1, todo1
<1> QED BY <1>1, <1>2, <1>3 DEF Phones

\* The state with another leg.
WithLeg(S, l, x) == [S EXCEPT !.leg = [S.leg EXCEPT ![l] = x]]

LEMMA WithLegKeeps ==
  ASSUME NEW S \in Phones, NEW l \in Legs, NEW x \in Leg
  PROVE  LET R == WithLeg(S, l, x) IN
         /\ R \in Phones /\ R.tr = S.tr /\ R.fifo = S.fifo /\ R.told = S.told /\ R.net = S.net
         /\ R.leg = [S.leg EXCEPT ![l] = x]
BY DEF WithLeg, Phones

LEMMA DeleteEarlyKeeps ==
  ASSUME NEW S \in Phones, NEW l \in Legs
  PROVE  LET R == DeleteEarly(S, l) IN
         /\ R \in Phones /\ R.tr = S.tr /\ R.fifo = S.fifo /\ R.told = S.told /\ R.net = S.net
         /\ R.leg = [S.leg EXCEPT ![l].dlg = IF @ = "early" THEN "null" ELSE @]
<1> DEFINE d == IF S.leg[l].dlg = "early" THEN "null" ELSE S.leg[l].dlg
           x == [S.leg[l] EXCEPT !.dlg = d]
<1>1. S.leg[l] \in Leg
  BY Fields
<1>2. d \in Dialog
  BY <1>1 DEF Leg, Dialog
<1>3. DeleteEarly(S, l) = WithLeg(S, l, x)
  BY DEF DeleteEarly, WithLeg
<1>4. [S.leg EXCEPT ![l].dlg = IF @ = "early" THEN "null" ELSE @] = [S.leg EXCEPT ![l] = x]
  OBVIOUS
<1> HIDE DEF d
<1>5. x \in Leg
  BY <1>1, <1>2 DEF Leg
<1> HIDE DEF x
<1> QED BY <1>3, <1>4, <1>5, WithLegKeeps

\* What is reported for the caller's INVITE concerns the caller.
LEMMA CallerCallback ==
  ASSUME NEW S \in Phones, NEW k \in Legs,
         NEW R \in {cb_rcv1xx(S, k), cb_rcv2xx_4invite(S, k), cb_rcv3456xx(S)}
  PROVE  /\ R \in Phones /\ R.tr = S.tr /\ R.fifo = S.fifo /\ Keeps(S, R)
         /\ \A l \in Callee : R.leg[l] = S.leg[l] /\ R.told[l] = S.told[l]
<1>1. 0 \in Legs /\ \A l \in Callee : l \in Legs /\ l # 0
  BY Numbers
<1>2. CASE R = cb_rcv1xx(S, k)
  <2> DEFINE x == [S.leg[0] EXCEPT !.dlg = "early", !.rem = k]
  <2>0. [S EXCEPT !.leg[0].dlg = "early", !.leg[0].rem = k] = WithLeg(S, 0, x)
    BY Zenon DEF WithLeg
  <2>1. R = S \/ R = WithLeg(S, 0, x)
    BY <1>2, <2>0 DEF cb_rcv1xx
  <2>2. S.leg \in [Legs -> Leg] /\ S.leg[0] \in Leg
    BY <1>1, Fields
  <2>3. x \in Leg /\ x.call = S.leg[0].call
    BY <2>2 DEF Leg, Dialog
  <2> HIDE DEF x
  <2>4. CASE R = S
    BY <2>4 DEF Keeps
  <2>5. CASE R = WithLeg(S, 0, x)
    <3>1. /\ R \in Phones /\ R.tr = S.tr /\ R.fifo = S.fifo /\ R.told = S.told
          /\ R.leg = [S.leg EXCEPT ![0] = x]
      BY <1>1, <2>3, <2>5, WithLegKeeps
    <3>2. \A l \in Legs : R.leg[l].call = S.leg[l].call
      BY <1>1, <2>2, <2>3, <3>1
    <3> QED BY <1>1, <2>2, <3>1, <3>2 DEF Keeps
  <2> QED BY <2>1, <2>4, <2>5
<1>3. CASE R = cb_rcv2xx_4invite(S, k)
  <2> DEFINE x == [S.leg[0] EXCEPT !.dlg = "confirmed", !.rem = k]
             T == WithLeg(S, 0, x)
  <2>0. x \in Leg /\ x.call = S.leg[0].call
    <3>1. S.leg[0] \in Leg
      BY <1>1, Fields
    <3> QED BY <3>1 DEF Leg, Dialog
  <2>2. R = S \/ R = Report(T, 0, "ANSWERED")
    BY <1>3 DEF cb_rcv2xx_4invite, WithLeg
  <2> HIDE DEF x
  <2>1. /\ T \in Phones /\ T.tr = S.tr /\ T.fifo = S.fifo /\ T.told = S.told
        /\ T.leg = [S.leg EXCEPT ![0] = x]
    BY <1>1, <2>0, WithLegKeeps
  <2> HIDE DEF T
  <2>3. CASE R = S
    BY <2>3 DEF Keeps
  <2>4. CASE R = Report(T, 0, "ANSWERED")
    <3>1. /\ R \in Phones /\ R.tr = T.tr /\ R.fifo = T.fifo /\ R.leg = T.leg
          /\ R.told = [T.told EXCEPT ![0] = @ \cup {"ANSWERED"}]
      BY <1>1, <2>1, <2>4, ReportKeeps DEF News
    <3> QED BY <1>1, <2>0, <2>1, <3>1, Fields DEF Keeps
  <2> QED BY <2>2, <2>3, <2>4
<1>4. CASE R = cb_rcv3456xx(S)
  <2> DEFINE T == Report(S, 0, "REQUESTFAILURE")
  <2>1. /\ T \in Phones /\ T.tr = S.tr /\ T.fifo = S.fifo /\ T.leg = S.leg
        /\ T.told = [S.told EXCEPT ![0] = @ \cup {"REQUESTFAILURE"}]
    BY <1>1, ReportKeeps DEF News
  <2> HIDE DEF T
  <2>2. /\ R \in Phones /\ R.tr = T.tr /\ R.fifo = T.fifo /\ R.told = T.told
        /\ R.leg = [T.leg EXCEPT ![0].dlg = IF @ = "early" THEN "null" ELSE @]
    BY <1>1, <1>4, <2>1, DeleteEarlyKeeps DEF cb_rcv3456xx, T
  <2> QED BY <1>1, <2>1, <2>2, Fields DEF Keeps, Leg
<1> QED BY <1>2, <1>3, <1>4

\* A refusal that was sent is reported for its leg.
LEMMA RefusalCallback ==
  ASSUME NEW S \in Phones, NEW k \in Legs
  PROVE  LET R == cb_snd3456xx(S, k) IN
         /\ R \in Phones /\ R.tr = S.tr /\ R.fifo = S.fifo /\ Keeps(S, R)
         /\ \A l \in Legs \ {k} : R.leg[l] = S.leg[l] /\ R.told[l] = S.told[l]
         /\ R.told[k] = S.told[k] \cup {"CLOSED"}
         /\ R.leg[k].ok200 = S.leg[k].ok200
         /\ R.leg[k].dlg = S.leg[k].dlg \/ ~HasDialog(R.leg[k])
<1> DEFINE T == DeleteEarly(S, k)
           R == Report(T, k, "CLOSED")
<1>1. /\ T \in Phones /\ T.tr = S.tr /\ T.fifo = S.fifo /\ T.told = S.told
      /\ T.leg = [S.leg EXCEPT ![k].dlg = IF @ = "early" THEN "null" ELSE @]
  BY DeleteEarlyKeeps
<1> HIDE DEF T
<1>2. /\ R \in Phones /\ R.tr = T.tr /\ R.fifo = T.fifo /\ R.leg = T.leg
      /\ R.told = [T.told EXCEPT ![k] = @ \cup {"CLOSED"}]
  BY <1>1, ReportKeeps DEF News
<1>3. cb_snd3456xx(S, k) = R
  BY DEF cb_snd3456xx, T
<1> HIDE DEF R
<1>4. S.leg \in [Legs -> Leg] /\ S.told \in [Legs -> SUBSET News]
  BY Fields
<1>5. /\ R.leg[k].call = S.leg[k].call /\ R.leg[k].ok200 = S.leg[k].ok200
      /\ R.leg[k].dlg = IF S.leg[k].dlg = "early" THEN "null" ELSE S.leg[k].dlg
      /\ R.told[k] = S.told[k] \cup {"CLOSED"}
  BY <1>1, <1>2, <1>4 DEF Leg
<1>6. \A l \in Legs \ {k} : R.leg[l] = S.leg[l] /\ R.told[l] = S.told[l]
  BY <1>1, <1>2, <1>4
<1>7. Keeps(S, R)
  BY <1>5, <1>6 DEF Keeps
<1> QED BY <1>1, <1>2, <1>3, <1>5, <1>6, <1>7 DEF HasDialog

Refusal(id, tell) == KindOf(id) = "IST" /\ tell = "3456xx"

LEMMA CallbackKeeps ==
  ASSUME NEW S \in Phones, NEW id \in Ids, NEW tell, NEW k \in Legs
  PROVE  LET R == Callback(S, id, tell, k) IN
         /\ R \in Phones /\ R.tr = S.tr /\ R.fifo = S.fifo /\ Keeps(S, R)
         /\ \A l \in Callee : l # id[1] \/ ~Refusal(id, tell) =>
              R.leg[l] = S.leg[l] /\ R.told[l] = S.told[l]
         /\ Refusal(id, tell) =>
              /\ R.told[id[1]] = S.told[id[1]] \cup {"CLOSED"}
              /\ R.leg[id[1]].ok200 = S.leg[id[1]].ok200
              /\ R.leg[id[1]].dlg = S.leg[id[1]].dlg \/ ~HasDialog(R.leg[id[1]])
<1> DEFINE R == Callback(S, id, tell, k)
<1>0. id = <<0, "invite">> => KindOf(id) = "ICT"
  BY KindsOf
<1>1. CASE id = <<0, "invite">> /\ tell \in {"1xx", "2xx", "3456xx"}
  <2>1. ~Refusal(id, tell)
    BY <1>0, <1>1 DEF Refusal
  <2>2. R \in {cb_rcv1xx(S, k), cb_rcv2xx_4invite(S, k), cb_rcv3456xx(S)}
    <3>1. CASE tell = "1xx"
      BY <1>1, <3>1 DEF Callback
    <3>2. CASE tell = "2xx"
      BY <1>1, <3>2 DEF Callback
    <3>3. CASE tell = "3456xx"
      BY <1>1, <2>1, <3>3 DEF Callback, Refusal
    <3> QED BY <1>1, <3>1, <3>2, <3>3
  <2> HIDE DEF R
  <2>3. /\ R \in Phones /\ R.tr = S.tr /\ R.fifo = S.fifo /\ Keeps(S, R)
        /\ \A l \in Callee : R.leg[l] = S.leg[l] /\ R.told[l] = S.told[l]
    BY <2>2, CallerCallback
  <2> QED BY <2>1, <2>3 DEF R
<1>2. CASE Refusal(id, tell)
  <2>1. id # <<0, "invite">>
    BY <1>0, <1>2 DEF Refusal
  <2>2. R = cb_snd3456xx(S, id[1])
    BY <1>2, <2>1 DEF Callback, Refusal
  <2>3. id[1] \in Legs /\ Callee \subseteq Legs
    BY IdParts, Numbers
  <2> HIDE DEF R
  <2>4. /\ R \in Phones /\ R.tr = S.tr /\ R.fifo = S.fifo /\ Keeps(S, R)
        /\ \A l \in Legs \ {id[1]} : R.leg[l] = S.leg[l] /\ R.told[l] = S.told[l]
        /\ R.told[id[1]] = S.told[id[1]] \cup {"CLOSED"}
        /\ R.leg[id[1]].ok200 = S.leg[id[1]].ok200
        /\ R.leg[id[1]].dlg = S.leg[id[1]].dlg \/ ~HasDialog(R.leg[id[1]])
    BY <2>2, <2>3, RefusalCallback
  <2> QED BY <1>2, <2>3, <2>4 DEF R
<1>3. CASE ~Refusal(id, tell) /\ ~(id = <<0, "invite">> /\ tell \in {"1xx", "2xx", "3456xx"})
  <2>1. R = S
    BY <1>3 DEF Callback, Refusal
  <2> HIDE DEF R
  <2> QED BY <1>3, <2>1 DEF R, Keeps
<1> QED BY <1>1, <1>2, <1>3

\* What must be known of a transaction before an event of its queue is executed:
\* the challenged one is past its answer, and the BYE that came is reported.
Ready(S, id, X, b) ==
  /\ id[2] = "asked" => S.tr[id].state # "pre"
  /\ b /\ id[2] = "inbye" /\ id[1] \in Callee => Closed(S, id[1], X)

LEMMA DoKeeps ==
  ASSUME NEW S, NEW X, NEW Y, NEW b \in BOOLEAN, Good(S, X, Y, b),
         NEW id \in Ids, NEW ev \in Entry, NEW i \in Outcomes, b => i = "sent",
         Ready(S, id, X, b)
  PROVE  LET R == Do(S, id, ev, i) IN
         /\ Good(R, X, Y, b) /\ Ready(R, id, X, b) /\ Keeps(S, R)
         /\ R.fifo = S.fifo
         /\ S.tr[id].state # "pre" => R.tr[id].state # "pre"
         /\ KindOf(id) = "NICT" /\ ev.e = "snd_request" => R.tr[id].state # "pre"
<1> DEFINE r == Execute(S.tr[id], ev.e, i)
           t == IF Over(r.tr) THEN [r.tr EXCEPT !.armed = {}] ELSE r.tr
           T == [S EXCEPT !.tr[id] = t]
           U == Send(T, id, r.out, ev)
           R == Callback(U, id, r.tell, ev.leg)
<1>1. Do(S, id, ev, i) = R
  BY DEF Do, After
<1>2. /\ S \in Phones /\ S.tr \in [Ids -> Transaction] /\ S.tr[id] \in Transaction
      /\ Fits(id, S.tr[id], S.fifo[id]) /\ S.tr[id].kind = KindOf(id) /\ Refused(S.tr[id])
      /\ id[1] \in Legs /\ id[2] \in Roles /\ id = <<id[1], id[2]>> /\ ev.leg \in Legs
  BY SMTT(20), IdParts, Fields DEF Good, Sound, Fits, Refused, Entry
<1>3. Moves(S.tr[id], ev.e, i, r)
  BY <1>2, Executes
<1> HIDE DEF r
<1>4. /\ t \in Transaction /\ t.kind = r.tr.kind /\ t.state = r.tr.state /\ t.last = r.tr.last
  BY <1>3 DEF Moves, Transaction
<1> HIDE DEF t
<1>5. T \in Phones /\ T.tr = [S.tr EXCEPT ![id] = t] /\ T.fifo = S.fifo /\ T.leg = S.leg /\ T.told = S.told
  BY <1>2, <1>4 DEF Phones
<1>6. T.tr[id] = t /\ \A j \in Ids \ {id} : T.tr[j] = S.tr[j]
  BY <1>2, <1>5
<1> HIDE DEF T
<1>7. Sendable(T, id, r.out)
  <2>1. CASE id[2] = "asked"
    <3>1. S.tr[id].state \in {"completed", "terminated"} /\ S.tr[id].kind = "ICT"
      BY <1>2, <2>1, KindsOf DEF Ready, Fits
    <3> QED BY <1>2, <1>3, <3>1 DEF Sendable, Moves
  <2>2. CASE id[2] # "asked"
    BY <1>2, <1>3, <1>4, <1>6, <2>2 DEF Sendable, Moves
  <2> QED BY <2>1, <2>2
<1>8. U \in Phones /\ U.tr = T.tr /\ U.fifo = T.fifo /\ U.leg = T.leg /\ U.told = T.told
  BY <1>3, <1>5, <1>7, SendKeeps DEF Moves
<1> HIDE DEF U
<1>9. /\ R \in Phones /\ R.tr = U.tr /\ R.fifo = U.fifo /\ Keeps(U, R)
      /\ \A l \in Callee : l # id[1] \/ ~Refusal(id, r.tell) =>
           R.leg[l] = U.leg[l] /\ R.told[l] = U.told[l]
      /\ Refusal(id, r.tell) =>
           /\ R.told[id[1]] = U.told[id[1]] \cup {"CLOSED"}
           /\ R.leg[id[1]].ok200 = U.leg[id[1]].ok200
           /\ R.leg[id[1]].dlg = U.leg[id[1]].dlg \/ ~HasDialog(R.leg[id[1]])
  BY <1>2, <1>8, CallbackKeeps
<1> HIDE DEF R
<1>10. Keeps(S, R)
  BY <1>5, <1>8, <1>9 DEF Keeps
<1>11. R.fifo = S.fifo /\ R.tr[id] = t /\ \A j \in Ids \ {id} : R.tr[j] = S.tr[j]
  BY <1>5, <1>6, <1>8, <1>9
<1>12. S.tr[id].state # "pre" => t.state # "pre"
  BY <1>3, <1>4 DEF Moves
<1>13. KindOf(id) = "NICT" /\ ev.e = "snd_request" => t.state # "pre"
  BY <1>2, <1>3, <1>4 DEF Moves
<1>14. Sound(R)
  <2>1. SUFFICES ASSUME NEW j \in Ids PROVE Fits(j, R.tr[j], R.fifo[j])
    BY <1>9 DEF Sound
  <2>2. Fits(j, S.tr[j], S.fifo[j])
    BY DEF Good, Sound
  <2>3. CASE j # id
    BY <1>11, <2>2, <2>3
  <2>4. CASE j = id
    <3>1. t.kind = KindOf(id) /\ (t.kind = "IST" /\ t.state = "completed" => t.last = "3456xx")
      BY <1>2, <1>3, <1>4 DEF Moves, Refused
    <3>2. id[2] = "asked" => t.state \in {"completed", "terminated"}
      <4>1. SUFFICES ASSUME id[2] = "asked" PROVE t.state \in {"completed", "terminated"}
        OBVIOUS
      <4>2. S.tr[id].state \in {"completed", "terminated"} /\ S.tr[id].kind = "ICT"
        BY <1>2, <4>1, KindsOf DEF Ready, Fits
      <4> QED BY <1>3, <1>4, <4>2 DEF Moves
    <3>3. t.state = "pre" => S.tr[id].state = "pre"
      BY <1>12
    <3> QED BY <1>11, <2>2, <2>4, <3>1, <3>2, <3>3 DEF Fits
  <2> QED BY <2>3, <2>4
<1>15. ASSUME b, NEW k \in Callee PROVE Fate(R, k, X, Y)
  <2>1. Fate(S, k, X, Y) /\ k \in Legs /\ k # 0
    BY <1>15, Numbers DEF Good
  <2>2. /\ <<k, "bye">> \in Ids /\ <<k, "inbye">> \in Ids /\ <<k, "invite">> \in Ids
        /\ KindOf(<<k, "invite">>) = "IST"
    BY <2>1, Pairs, KindsOf DEF Roles
  <2>3. Made(S, <<k, "bye">>) => Made(R, <<k, "bye">>)
    BY <1>11, <1>12, <2>2 DEF Made
  <2>4. Made(R, <<k, "inbye">>) => Made(S, <<k, "inbye">>) \/ Closed(S, k, X)
    <3>1. CASE id = <<k, "inbye">>
      BY <1>15, <3>1 DEF Ready
    <3>2. CASE id # <<k, "inbye">>
      BY <1>11, <2>2, <3>2 DEF Made
    <3> QED BY <3>1, <3>2
  <2>5. CASE k = id[1] /\ Refusal(id, r.tell)
    <3>1. /\ R.told[k] = S.told[k] \cup {"CLOSED"} /\ R.leg[k].ok200 = S.leg[k].ok200
          /\ R.leg[k].dlg = S.leg[k].dlg \/ ~HasDialog(R.leg[k])
          /\ R.leg[k].call = S.leg[k].call
      BY <1>5, <1>8, <1>9, <1>10, <2>1, <2>5 DEF Keeps
    <3> QED BY <2>1, <3>1, FateRefused
  <2>6. CASE ~(k = id[1] /\ Refusal(id, r.tell))
    <3>1. R.leg[k] = S.leg[k] /\ R.told[k] = S.told[k]
      BY <1>5, <1>8, <1>9, <2>6
    <3>2. R.tr[<<k, "invite">>].last = "3456xx" => S.tr[<<k, "invite">>].last = "3456xx"
      <4>1. CASE id = <<k, "invite">>
        <5>1. r.tell # "3456xx" /\ i = "sent" /\ S.tr[id].kind = "IST"
          BY <1>2, <1>15, <2>2, <2>6, <4>1 DEF Refusal
        <5> QED BY <1>3, <1>4, <1>11, <4>1, <5>1 DEF Moves
      <4>2. CASE id # <<k, "invite">>
        BY <1>11, <2>2, <4>2
      <4> QED BY <4>1, <4>2
    <3> QED BY <2>1, <2>3, <2>4, <3>1, <3>2, FateKept
  <2> QED BY <2>5, <2>6
<1>16. Ready(R, id, X, b)
  BY <1>2, <1>10, <1>11, <1>12 DEF Ready, Closed, Keeps
<1> QED BY <1>1, <1>10, <1>11, <1>12, <1>13, <1>14, <1>15, <1>16 DEF Good

-----------------------------------------------------------------------------
(* What a queue, a side and a pass come to                                 *)

\* Induction over the numbers, for a set: the prover takes no predicate.
LEMMA Induction ==
  ASSUME NEW T, T \subseteq Nat, 0 \in T, \A n \in T : n + 1 \in T
  PROVE  T = Nat
<1> DEFINE U == Nat \ T
<1> SUFFICES ASSUME U # {} PROVE FALSE
  OBVIOUS
<1>1. PICK n \in U : \A m \in U : <<m, n>> \notin OpToRel(<, Nat)
  BY NatLessThanWellFounded, WFMin
<1>2. n \in Nat /\ n # 0 /\ n \notin T
  OBVIOUS
<1>3. n - 1 \in Nat /\ n - 1 < n /\ n = (n - 1) + 1
  BY <1>2
<1>4. n - 1 \in T
  BY <1>1, <1>3 DEF OpToRel
<1> QED BY <1>2, <1>3, <1>4

\* What each step takes from one set to the next stays in them.
LEMMA Stays ==
  ASSUME NEW N \in Nat, NEW f, NEW sets, f[0] \in sets[0],
         \A n \in 1 .. N : f[n - 1] \in sets[n - 1] => f[n] \in sets[n]
  PROVE  \A n \in 0 .. N : f[n] \in sets[n]
<1> DEFINE T == {n \in Nat : n <= N => f[n] \in sets[n]}
<1>1. 0 \in T
  OBVIOUS
<1>2. ASSUME NEW n \in T PROVE n + 1 \in T
  <2>1. SUFFICES ASSUME n + 1 <= N PROVE f[n + 1] \in sets[n + 1]
    OBVIOUS
  <2>2. n \in Nat /\ n <= N /\ n + 1 \in 1 .. N /\ (n + 1) - 1 = n
    BY <2>1
  <2>3. f[n] \in sets[n]
    BY <2>2
  <2> QED BY <2>2, <2>3
<1> HIDE DEF T
<1>3. T = Nat
  <2>1. T \subseteq Nat
    BY DEF T
  <2> QED BY <1>1, <1>2, <2>1, Induction
<1> QED BY <1>3 DEF T

\* The values of a function defined step by step, the first M of them.
Begun(M, f, s, step) ==
  f = [n \in 0 .. M |-> IF n = 0 THEN s ELSE step[n][f[n - 1]]]

LEMMA StepByStep ==
  ASSUME NEW N \in Nat, NEW s, NEW step
  PROVE  \E f : Begun(N, f, s, step)
<1> DEFINE T == {M \in Nat : \E f : Begun(M, f, s, step)}
<1>1. 0 \in T
  <2> DEFINE f == [n \in 0 .. 0 |-> s]
  <2>1. f = [n \in 0 .. 0 |-> IF n = 0 THEN s ELSE step[n][f[n - 1]]]
    OBVIOUS
  <2> HIDE DEF f
  <2>2. Begun(0, f, s, step)
    BY <2>1 DEF Begun
  <2> QED BY <2>2
<1>2. ASSUME NEW M \in T PROVE M + 1 \in T
  <2>1. M \in Nat
    OBVIOUS
  <2>2. PICK f : Begun(M, f, s, step)
    OBVIOUS
  <2>3. f = [n \in 0 .. M |-> IF n = 0 THEN s ELSE step[n][f[n - 1]]]
    BY <2>2 DEF Begun
  <2> DEFINE g == [n \in 0 .. M + 1 |-> IF n = M + 1 THEN step[n][f[M]] ELSE f[n]]
  <2>4. ASSUME NEW n \in 0 .. M + 1
        PROVE  g[n] = IF n = 0 THEN s ELSE step[n][g[n - 1]]
    <3>1. CASE n = M + 1
      <4>1. n # 0 /\ n - 1 = M /\ M \in 0 .. M + 1 /\ M # M + 1
        BY <2>1, <3>1
      <4>2. g[n] = step[n][f[M]] /\ g[n - 1] = f[M]
        BY <3>1, <4>1
      <4> QED BY <4>1, <4>2
    <3>2. CASE n # M + 1
      <4>1. n \in 0 .. M /\ g[n] = f[n]
        BY <2>1, <3>2
      <4>2. CASE n = 0
        BY <2>3, <4>1, <4>2
      <4>3. CASE n # 0
        <5>1. n - 1 \in 0 .. M + 1 /\ n - 1 # M + 1 /\ n - 1 \in 0 .. M
          BY <2>1, <4>1, <4>3
        <5>2. g[n - 1] = f[n - 1]
          BY <5>1
        <5>3. f[n] = step[n][f[n - 1]]
          BY <2>3, <4>1, <4>3
        <5> QED BY <4>1, <4>3, <5>2, <5>3
      <4> QED BY <4>2, <4>3
    <3> QED BY <3>1, <3>2
  <2>5. g = [n \in 0 .. M + 1 |-> g[n]]
    OBVIOUS
  <2>6. Begun(M + 1, g, s, step)
    <3> HIDE DEF g
    <3> QED BY <2>4, <2>5 DEF Begun
  <2> QED BY <2>1, <2>6
<1> HIDE DEF T
<1>3. T = Nat
  <2>1. T \subseteq Nat
    BY DEF T
  <2> QED BY <1>1, <1>2, <2>1, Induction
<1> QED BY <1>3 DEF T

LEMMA KeepsKeeps ==
  ASSUME NEW S, NEW T, NEW R, Keeps(S, T), Keeps(T, R)
  PROVE  Keeps(S, R)
BY DEF Keeps

LEMMA KeepsItself == ASSUME NEW S PROVE Keeps(S, S)
BY DEF Keeps

\* The state when the queue of id is about to be executed.
LEMMA Emptied ==
  ASSUME NEW S, NEW X, NEW Y, NEW b \in BOOLEAN, Good(S, X, Y, b),
         NEW id \in Ids, S.fifo[id] # <<>>,
         NEW R, R = [S EXCEPT !.fifo[id] = <<>>],
         NEW Y1, Y1 = IF id[2] = "bye" THEN Y \cup {id[1]} ELSE Y
  PROVE  /\ Good(R, X, Y1, b) /\ Ready(R, id, X, b)
         /\ R.tr = S.tr /\ R.leg = S.leg /\ R.told = S.told
<1>1. S \in Phones /\ S.fifo \in [Ids -> Seq(Entry)] /\ \A j \in Ids : Fits(j, S.tr[j], S.fifo[j])
  BY Fields DEF Good, Sound
<1>2. <<>> \in Seq(Entry)
  OBVIOUS
<1>3. /\ R \in Phones /\ R.tr = S.tr /\ R.leg = S.leg /\ R.told = S.told
      /\ R.fifo = [S.fifo EXCEPT ![id] = <<>>]
  BY <1>1, <1>2 DEF Phones
<1>4. R.fifo[id] = <<>> /\ \A j \in Ids \ {id} : R.fifo[j] = S.fifo[j]
  BY <1>1, <1>3
<1>5. id[2] = "asked" => S.tr[id].state # "pre"
  BY <1>1 DEF Fits
<1>6. Sound(R)
  <2>1. SUFFICES ASSUME NEW j \in Ids PROVE Fits(j, R.tr[j], R.fifo[j])
    BY <1>3 DEF Sound
  <2>2. Fits(j, S.tr[j], S.fifo[j])
    BY <1>1
  <2>3. CASE j = id
    BY <1>3, <1>4, <1>5, <2>2, <2>3 DEF Fits
  <2>4. CASE j # id
    BY <1>3, <1>4, <2>2, <2>4
  <2> QED BY <2>3, <2>4
<1>7. ASSUME b, NEW k \in Callee PROVE Fate(R, k, X, Y1)
  <2>1. Fate(S, k, X, Y) /\ k \in Legs
    BY <1>7, Numbers DEF Good
  <2>2. <<k, "bye">> \in Ids /\ <<k, "inbye">> \in Ids
    BY <2>1, Pairs DEF Roles
  <2>3. Made(R, <<k, "inbye">>) => Made(S, <<k, "inbye">>)
    BY <1>3, <1>4, <2>2 DEF Made
  <2>4. CASE id = <<k, "bye">>
    <3>1. k \in Y1
      BY <2>4
    <3> QED BY <1>3, <2>1, <2>3, <3>1 DEF Fate, Closed
  <2>5. CASE id # <<k, "bye">>
    <3>1. Made(R, <<k, "bye">>) <=> Made(S, <<k, "bye">>)
      BY <1>3, <1>4, <2>2, <2>5 DEF Made
    <3>2. k \in Y => k \in Y1
      OBVIOUS
    <3> QED BY <1>3, <2>1, <2>3, <3>1, <3>2 DEF Fate, Closed
  <2> QED BY <2>4, <2>5
<1>8. Ready(R, id, X, b)
  <2>1. ASSUME b, id[2] = "inbye", id[1] \in Callee PROVE Closed(S, id[1], X)
    <3>1. id = <<id[1], "inbye">> /\ Made(S, id)
      BY <2>1, IdParts DEF Made
    <3> QED BY <2>1, <3>1 DEF Good, Fate
  <2> QED BY <1>3, <1>5, <2>1 DEF Ready, Closed
<1> QED BY <1>3, <1>6, <1>7, <1>8 DEF Good

\* Once the BYE is on its way the leg is not pending any more.
LEMMA Sent ==
  ASSUME NEW S, NEW X, NEW Y, NEW k, NEW b, Good(S, X, Y \cup {k}, b),
         Made(S, <<k, "bye">>)
  PROVE  Good(S, X, Y, b)
<1>1. ASSUME b, NEW l \in Callee PROVE Fate(S, l, X, Y)
  <2>1. Fate(S, l, X, Y \cup {k})
    BY <1>1 DEF Good
  <2> QED BY <2>1 DEF Fate
<1> QED BY <1>1 DEF Good

LEMMA DrainKeeps ==
  ASSUME NEW S, NEW X, NEW Y, NEW b \in BOOLEAN, Good(S, X, Y, b),
         NEW id \in Ids, NEW i \in Outcomes, b => i = "sent"
  PROVE  Good(Drain(S, id, i), X, Y, b) /\ Keeps(S, Drain(S, id, i))
<1> DEFINE queue == S.fifo[id]
           N == Len(queue)
           first == [S EXCEPT !.fifo[id] = <<>>]
           Y1 == IF id[2] = "bye" THEN Y \cup {id[1]} ELSE Y
           run[n \in 0 .. N] ==
             IF n = 0 THEN first ELSE After(run[n - 1], LAMBDA T : Do(T, id, queue[n], i))
           step == [n \in 1 .. N |-> [T \in Phones |-> Do(T, id, queue[n], i)]]
<1>1. /\ S \in Phones /\ queue \in Seq(Entry) /\ N \in Nat
      /\ \A n \in 1 .. N : queue[n] \in Entry
  BY Fields DEF Good, Sound
<1>2. Drain(S, id, i) = run[N]
  BY DEF Drain
<1>3. CASE queue = <<>>
  <2>1. [S.fifo EXCEPT ![id] = <<>>] = S.fifo
    BY <1>1, <1>3, Fields
  <2>2. first = S
    BY <1>1, <2>1 DEF Phones
  <2>3. N = 0
    BY <1>3
  <2>4. run = [n \in 0 .. N |->
                 IF n = 0 THEN first ELSE After(run[n - 1], LAMBDA T : Do(T, id, queue[n], i))]
    <3> DEFINE f == [n \in 0 .. N |-> first]
    <3>1. f = [n \in 0 .. N |->
                 IF n = 0 THEN first ELSE After(f[n - 1], LAMBDA T : Do(T, id, queue[n], i))]
      BY <2>3
    <3> HIDE DEF f
    <3> QED BY <3>1
  <2> HIDE DEF run
  <2>5. run[N] = S
    BY <2>2, <2>3, <2>4
  <2> QED BY <1>2, <2>5, KeepsItself
<1>4. CASE queue # <<>>
  <2>1. N # 0
    BY <1>1, <1>4
  <2>2. /\ Good(first, X, Y1, b) /\ Ready(first, id, X, b)
        /\ first.tr = S.tr /\ first.leg = S.leg /\ first.told = S.told
    <3>1. S.fifo[id] # <<>> /\ first = [S EXCEPT !.fifo[id] = <<>>]
          /\ Y1 = IF id[2] = "bye" THEN Y \cup {id[1]} ELSE Y
      BY <1>4
    <3> HIDE DEF first, Y1, queue
    <3> QED BY SMTT(20), <3>1, Emptied
  <2>3. Fits(id, S.tr[id], queue)
    BY DEF Good, Sound
  <2>4. id[2] = "bye" => KindOf(id) = "NICT"
    BY KindsOf
  <2> HIDE DEF queue, first, Y1
  <2> DEFINE Underway(T) == id[2] = "bye" => T.tr[id].state # "pre"
             sets == [n \in 0 .. N |->
                        IF n = 0 THEN {first}
                        ELSE {T \in Phones : /\ Good(T, X, Y1, b) /\ Ready(T, id, X, b)
                                             /\ Keeps(S, T) /\ Underway(T)}]
  <2>5. first \in Phones /\ Keeps(S, first)
    BY <2>2 DEF Good, Sound, Keeps
  <2>6. ASSUME NEW n \in 1 .. N, NEW T \in sets[n - 1]
        PROVE  T \in Phones /\ Do(T, id, queue[n], i) \in sets[n]
    <3>1. n - 1 \in 0 .. N /\ n \in 0 .. N /\ n # 0 /\ queue[n] \in Entry
      BY <1>1
    <3>2. T \in Phones /\ Good(T, X, Y1, b) /\ Ready(T, id, X, b) /\ Keeps(S, T)
      <4>1. CASE n - 1 = 0
        BY <2>2, <2>5, <3>1, <4>1
      <4>2. CASE n - 1 # 0
        BY <3>1, <4>2
      <4> QED BY <4>1, <4>2
    <3> DEFINE R == Do(T, id, queue[n], i)
    <3>3. /\ Good(R, X, Y1, b) /\ Ready(R, id, X, b) /\ Keeps(T, R)
          /\ T.tr[id].state # "pre" => R.tr[id].state # "pre"
          /\ KindOf(id) = "NICT" /\ queue[n].e = "snd_request" => R.tr[id].state # "pre"
      BY <3>1, <3>2, DoKeeps
    <3> HIDE DEF R
    <3>4. id[2] = "bye" => T.tr[id].state # "pre" \/ queue[n].e = "snd_request"
      <4>1. CASE n - 1 = 0
        <5>1. n = 1 /\ T = first
          BY <3>1, <4>1
        <5> QED BY <1>4, <2>2, <2>3, <5>1 DEF Fits, queue
      <4>2. CASE n - 1 # 0
        BY <3>1, <4>2
      <4> QED BY <4>1, <4>2
    <3>5. Underway(R)
      BY <2>4, <3>3, <3>4
    <3>6. R \in Phones /\ Keeps(S, R)
      BY <3>2, <3>3, KeepsKeeps DEF Good, Sound
    <3>7. R \in sets[n]
      BY <3>1, <3>3, <3>5, <3>6
    <3> QED BY <3>2, <3>7 DEF R
  <2>7. first \in sets[0]
    BY <1>1
  <2> HIDE DEF sets
  <2>8. PICK f : Begun(N, f, first, step)
    BY <1>1, StepByStep
  <2>9. f = [n \in 0 .. N |-> IF n = 0 THEN first ELSE step[n][f[n - 1]]]
    BY <2>8 DEF Begun
  <2>10. \A n \in 0 .. N : f[n] \in sets[n]
    <3>1. f[0] \in sets[0]
      BY <1>1, <2>7, <2>9
    <3>2. ASSUME NEW n \in 1 .. N, f[n - 1] \in sets[n - 1] PROVE f[n] \in sets[n]
      <4>1. f[n - 1] \in Phones /\ Do(f[n - 1], id, queue[n], i) \in sets[n]
        BY <2>6, <3>2
      <4>2. f[n] = step[n][f[n - 1]]
        <5> HIDE DEF step, N
        <5> QED BY <1>1, <2>9
      <4> QED BY <4>1, <4>2
    <3> HIDE DEF step, N
    <3> QED BY <1>1, <3>1, <3>2, Stays
  <2>11. ASSUME NEW n \in 0 .. N
         PROVE  f[n] = IF n = 0 THEN first
                       ELSE After(f[n - 1], LAMBDA T : Do(T, id, queue[n], i))
    <3>1. CASE n = 0
      BY <2>9, <3>1
    <3>2. CASE n # 0
      <4>1. n \in 1 .. N /\ n - 1 \in 0 .. N
        BY <1>1, <3>2
      <4>2. f[n - 1] \in Phones
        BY <2>6, <2>10, <4>1
      <4>3. f[n] = step[n][f[n - 1]]
        BY <2>9, <3>2
      <4>4. f[n] = Do(f[n - 1], id, queue[n], i)
        BY <4>1, <4>2, <4>3
      <4>5. After(f[n - 1], LAMBDA T : Do(T, id, queue[n], i)) = Do(f[n - 1], id, queue[n], i)
        BY DEF After
      <4> HIDE DEF step, N
      <4> QED BY <3>2, <4>4, <4>5
    <3> QED BY <3>1, <3>2
  <2>12. f = [n \in 0 .. N |->
                IF n = 0 THEN first ELSE After(f[n - 1], LAMBDA T : Do(T, id, queue[n], i))]
    <3>1. f = [n \in 0 .. N |-> f[n]]
      BY <2>9
    <3> HIDE DEF step
    <3> QED BY <2>11, <3>1
  <2>13. run = [n \in 0 .. N |->
                 IF n = 0 THEN first ELSE After(run[n - 1], LAMBDA T : Do(T, id, queue[n], i))]
    <3> HIDE DEF N
    <3> QED BY <2>12
  <2> HIDE DEF run
  <2>14. \A n \in 0 .. N : run[n] \in sets[n]
    <3>1. run[0] \in sets[0]
      BY <1>1, <2>7, <2>13
    <3>2. ASSUME NEW n \in 1 .. N, run[n - 1] \in sets[n - 1] PROVE run[n] \in sets[n]
      <4>1. Do(run[n - 1], id, queue[n], i) \in sets[n]
        BY <2>6, <3>2
      <4>2. run[n] = Do(run[n - 1], id, queue[n], i)
        <5> HIDE DEF N
        <5> QED BY <1>1, <2>13 DEF After
      <4> QED BY <4>1, <4>2
    <3> HIDE DEF N
    <3> QED BY <1>1, <3>1, <3>2, Stays
  <2>15. run[N] \in sets[N] /\ N \in 0 .. N
    BY <1>1, <2>14
  <2> DEFINE R == run[N]
  <2>16. Good(R, X, Y1, b) /\ Keeps(S, R) /\ (id[2] = "bye" => R.tr[id].state # "pre")
    BY <2>1, <2>15 DEF sets
  <2> HIDE DEF R
  <2>17. Good(R, X, Y, b)
    <3>1. CASE id[2] = "bye"
      <4>1. id = <<id[1], "bye">> /\ Y1 = Y \cup {id[1]}
        BY <3>1, IdParts DEF Y1
      <4> QED BY <2>16, <3>1, <4>1, Sent DEF Made
    <3>2. CASE id[2] # "bye"
      BY <2>16, <3>2 DEF Y1
    <3> QED BY <3>1, <3>2
  <2> QED BY <1>2, <2>16, <2>17 DEF R
<1> QED BY <1>3, <1>4

\* The queues of one role, at all legs of a side.
LEMMA DrainRoleKeeps ==
  ASSUME NEW S, NEW X, NEW Y, NEW b \in BOOLEAN, Good(S, X, Y, b),
         NEW side, NEW role \in Roles, NEW i \in Outcomes, b => i = "sent"
  PROVE  Good(DrainRole(S, side, role, i), X, Y, b) /\ Keeps(S, DrainRole(S, side, role, i))
<1> DEFINE upto[n \in 0 .. MaxCalls] ==
             IF n = 0 THEN S ELSE After(upto[n - 1], LAMBDA T : Drain(T, <<n, role>>, i))
           step == [n \in 1 .. MaxCalls |-> [T \in Phones |-> Drain(T, <<n, role>>, i)]]
           Fine == {T \in Phones : Good(T, X, Y, b) /\ Keeps(S, T)}
           sets == [n \in 0 .. MaxCalls |-> Fine]
<1>1. DrainRole(S, side, role, i) =
        IF side = "caller" THEN Drain(S, <<0, role>>, i) ELSE upto[MaxCalls]
  BY DEF DrainRole
<1>2. MaxCalls \in Nat /\ <<0, role>> \in Ids /\ \A n \in 1 .. MaxCalls : <<n, role>> \in Ids
  BY Numbers, Pairs DEF Legs
<1>3. CASE side = "caller"
  BY <1>1, <1>2, <1>3, DrainKeeps
<1>4. CASE side # "caller"
  <2>1. S \in Fine
    BY KeepsItself DEF Good, Sound
  <2>2. ASSUME NEW n \in 1 .. MaxCalls, NEW T \in Fine
        PROVE  T \in Phones /\ Drain(T, <<n, role>>, i) \in Fine
    <3> DEFINE R == Drain(T, <<n, role>>, i)
    <3>1. Good(R, X, Y, b) /\ Keeps(T, R)
      BY <1>2, DrainKeeps
    <3> HIDE DEF R
    <3>2. R \in Phones /\ Keeps(S, R)
      BY <3>1, KeepsKeeps DEF Good, Sound
    <3> QED BY <3>1, <3>2 DEF R
  <2> HIDE DEF Fine
  <2>3. ASSUME NEW f, f[0] \in Fine,
               \A n \in 1 .. MaxCalls : f[n - 1] \in Fine => f[n] \in Fine
        PROVE  \A n \in 0 .. MaxCalls : f[n] \in Fine
    <3>1. f[0] \in sets[0] /\ \A n \in 1 .. MaxCalls : f[n - 1] \in sets[n - 1] => f[n] \in sets[n]
      BY <1>2, <2>3
    <3>2. \A n \in 0 .. MaxCalls : sets[n] = Fine
      OBVIOUS
    <3> HIDE DEF sets
    <3>3. \A n \in 0 .. MaxCalls : f[n] \in sets[n]
      BY <1>2, <3>1, Stays
    <3> QED BY <3>2, <3>3
  <2> HIDE DEF sets
  <2>4. PICK f : Begun(MaxCalls, f, S, step)
    BY <1>2, StepByStep
  <2>5. f = [n \in 0 .. MaxCalls |-> IF n = 0 THEN S ELSE step[n][f[n - 1]]]
    BY <2>4 DEF Begun
  <2>6. \A n \in 0 .. MaxCalls : f[n] \in Fine
    <3>1. ASSUME NEW n \in 1 .. MaxCalls, f[n - 1] \in Fine PROVE f[n] \in Fine
      <4>1. f[n - 1] \in Phones /\ Drain(f[n - 1], <<n, role>>, i) \in Fine
        BY <2>2, <3>1
      <4>2. f[n] = step[n][f[n - 1]]
        <5> HIDE DEF step
        <5> QED BY <1>2, <2>5
      <4> QED BY <4>1, <4>2
    <3>2. f[0] \in Fine
      BY <1>2, <2>1, <2>5
    <3> HIDE DEF step
    <3> QED BY <2>3, <3>1, <3>2
  <2>7. ASSUME NEW n \in 0 .. MaxCalls
        PROVE  f[n] = IF n = 0 THEN S ELSE After(f[n - 1], LAMBDA T : Drain(T, <<n, role>>, i))
    <3>1. CASE n = 0
      BY <2>5, <3>1
    <3>2. CASE n # 0
      <4>1. n \in 1 .. MaxCalls /\ n - 1 \in 0 .. MaxCalls
        BY <1>2, <3>2
      <4>2. f[n - 1] \in Phones
        BY <2>2, <2>6, <4>1
      <4>3. f[n] = step[n][f[n - 1]]
        BY <2>5, <3>2
      <4>4. f[n] = Drain(f[n - 1], <<n, role>>, i)
        BY <4>1, <4>2, <4>3
      <4>5. After(f[n - 1], LAMBDA T : Drain(T, <<n, role>>, i)) = Drain(f[n - 1], <<n, role>>, i)
        BY DEF After
      <4> HIDE DEF step
      <4> QED BY <3>2, <4>4, <4>5
    <3> QED BY <3>1, <3>2
  <2>8. f = [n \in 0 .. MaxCalls |->
               IF n = 0 THEN S ELSE After(f[n - 1], LAMBDA T : Drain(T, <<n, role>>, i))]
    <3>1. f = [n \in 0 .. MaxCalls |-> f[n]]
      BY <2>5
    <3> HIDE DEF step
    <3> QED BY <2>7, <3>1
  <2>9. upto = [n \in 0 .. MaxCalls |->
                  IF n = 0 THEN S ELSE After(upto[n - 1], LAMBDA T : Drain(T, <<n, role>>, i))]
    BY <2>8
  <2> HIDE DEF upto
  <2>10. \A n \in 0 .. MaxCalls : upto[n] \in Fine
    <3>1. ASSUME NEW n \in 1 .. MaxCalls, upto[n - 1] \in Fine PROVE upto[n] \in Fine
      <4>1. Drain(upto[n - 1], <<n, role>>, i) \in Fine
        BY <2>2, <3>1
      <4>2. upto[n] = Drain(upto[n - 1], <<n, role>>, i)
        BY <1>2, <2>9 DEF After
      <4> QED BY <4>1, <4>2
    <3>2. upto[0] \in Fine
      BY <1>2, <2>1, <2>9
    <3> QED BY <2>3, <3>1, <3>2
  <2>11. upto[MaxCalls] \in Fine
    BY <1>2, <2>10
  <2> QED BY <1>1, <1>4, <2>11 DEF Fine
<1> QED BY <1>3, <1>4

-----------------------------------------------------------------------------
(* The release of dialogs and calls                                        *)

\* Transactions that are taken from osip stay known as made.
LEMMA DropKeeps ==
  ASSUME NEW S, Sound(S), NEW ids, \A id \in ids : id[2] # "asked"
  PROVE  LET R == Drop(S, ids) IN
         /\ Sound(R) /\ R.leg = S.leg /\ R.told = S.told
         /\ \A id \in Ids : /\ Made(R, id) <=> Made(S, id)
                            /\ R.tr[id].last = S.tr[id].last
<1> DEFINE tr1 == [id \in Ids |-> IF id \in ids /\ Made(S, id)
                                    THEN [To(S.tr[id], "terminated") EXCEPT !.armed = {}]
                                    ELSE S.tr[id]]
           fifo1 == [id \in Ids |-> IF id \in ids THEN <<>> ELSE S.fifo[id]]
           R == Drop(S, ids)
<1>1. /\ S \in Phones /\ S.tr \in [Ids -> Transaction] /\ S.fifo \in [Ids -> Seq(Entry)]
      /\ \A id \in Ids : Fits(id, S.tr[id], S.fifo[id])
  BY Fields DEF Sound
<1>2. ASSUME NEW id \in Ids
      PROVE  /\ tr1[id] \in Transaction /\ tr1[id].kind = S.tr[id].kind
             /\ tr1[id].last = S.tr[id].last
             /\ id \in ids /\ Made(S, id) => tr1[id].state = "terminated"
             /\ ~(id \in ids /\ Made(S, id)) => tr1[id] = S.tr[id]
  <2>1. S.tr[id] \in Transaction
    BY <1>1
  <2> DEFINE t == [To(S.tr[id], "terminated") EXCEPT !.armed = {}]
  <2>2. t \in Transaction /\ t.kind = S.tr[id].kind /\ t.last = S.tr[id].last /\ t.state = "terminated"
    BY <2>1 DEF To, Transaction, States
  <2>3. tr1[id] = IF id \in ids /\ Made(S, id) THEN t ELSE S.tr[id]
    OBVIOUS
  <2> HIDE DEF t, tr1
  <2> QED BY <2>1, <2>2, <2>3
<1>3. tr1 \in [Ids -> Transaction]
  BY <1>2
<1>4. fifo1 \in [Ids -> Seq(Entry)] /\ \A id \in Ids : fifo1[id] = IF id \in ids THEN <<>> ELSE S.fifo[id]
  <2>1. <<>> \in Seq(Entry)
    OBVIOUS
  <2> QED BY <1>1, <2>1
<1>5. R = [S EXCEPT !.tr = tr1, !.fifo = fifo1]
  BY DEF Drop
<1> HIDE DEF tr1, fifo1, R
<1>6. R \in Phones /\ R.tr = tr1 /\ R.fifo = fifo1 /\ R.leg = S.leg /\ R.told = S.told
  BY <1>1, <1>3, <1>4, <1>5 DEF Phones
<1>7. ASSUME NEW id \in Ids PROVE Fits(id, R.tr[id], R.fifo[id])
  <2>1. Fits(id, S.tr[id], S.fifo[id])
    BY <1>1
  <2>2. CASE id \in ids /\ Made(S, id)
    BY <1>2, <1>6, <2>1, <2>2 DEF Fits
  <2>3. CASE id \in ids /\ ~Made(S, id)
    <3>1. S.fifo[id] = <<>>
      BY <2>3 DEF Made
    <3> QED BY <1>2, <1>4, <1>6, <2>1, <2>3, <3>1
  <2>4. CASE id \notin ids
    BY <1>2, <1>4, <1>6, <2>1, <2>4
  <2> QED BY <2>2, <2>3, <2>4
<1>8. ASSUME NEW id \in Ids
      PROVE  (Made(R, id) <=> Made(S, id)) /\ R.tr[id].last = S.tr[id].last
  <2>1. CASE id \in ids /\ Made(S, id)
    BY <1>2, <1>6, <2>1 DEF Made
  <2>2. CASE ~(id \in ids /\ Made(S, id))
    BY <1>2, <1>4, <1>6, <2>2 DEF Made
  <2> QED BY <2>1, <2>2
<1> QED BY <1>6, <1>7, <1>8 DEF Sound, R

\* Of a leg whose dialog goes the application has been told, or it hung up.
Settled(S, l, X, Y, b) ==
  b /\ l \in Callee => Closed(S, l, X) \/ Made(S, <<l, "bye">>) \/ l \in Y

\* Another leg l of S, which is settled or keeps its dialog.
LEMMA Relegged ==
  ASSUME NEW S, NEW X, NEW Y, NEW b, NEW R, NEW l, Good(S, X, Y, b), Sound(R),
         \A k \in Callee \ {l} : R.leg[k] = S.leg[k],
         R.told = S.told, Settled(S, l, X, Y, b),
         l \in Callee => /\ R.leg[l].dlg = "none"
                         /\ "INVITE" \in S.told[l] => R.leg[l].call # "none",
         \A id \in Ids : (Made(R, id) <=> Made(S, id)) /\ R.tr[id].last = S.tr[id].last
  PROVE  Good(R, X, Y, b)
<1>1. ASSUME b, NEW k \in Callee PROVE Fate(R, k, X, Y)
  <2>1. Fate(S, k, X, Y)
    BY <1>1 DEF Good
  <2>2. /\ <<k, "bye">> \in Ids /\ <<k, "inbye">> \in Ids /\ <<k, "invite">> \in Ids
    BY Numbers, Pairs DEF Roles
  <2>3. CASE k = l
    BY <1>1, <2>1, <2>2, <2>3 DEF Fate, Closed, Settled, HasDialog
  <2>4. CASE k # l
    BY <2>1, <2>2, <2>4, FateKept
  <2> QED BY <2>3, <2>4
<1> QED BY <1>1 DEF Good

\* A leg that loses its dialog.
Undialled(x) == [x EXCEPT !.dlg = "none", !.acked = FALSE, !.ok200 = FALSE, !.count = 0]

LEMMA Undial ==
  ASSUME NEW x \in Leg
  PROVE  /\ Undialled(x) \in Leg
         /\ Undialled(x).dlg = "none" /\ Undialled(x).call = x.call
<1>1. 0 \in 0 .. MaxOk
  BY Numbers
<1> QED BY <1>1 DEF Undialled, Leg, Dialog

LEMMA RemoveDialogKeeps ==
  ASSUME NEW S, NEW X, NEW Y, NEW b, Good(S, X, Y, b), NEW l \in Legs, Settled(S, l, X, Y, b)
  PROVE  LET R == RemoveDialog(S, l) IN
         /\ Good(R, X, Y, b) /\ Settled(R, l, X, Y, b) /\ R.told = S.told
         /\ R.leg[l].dlg = "none" /\ R.leg[l].call = S.leg[l].call
         /\ \A id \in Ids : Made(R, id) <=> Made(S, id)
<1> DEFINE T == Drop(S, {l} \X {"cancel", "bye", "inbye"})
           x == Undialled(T.leg[l])
           R == RemoveDialog(S, l)
<1>1. /\ Sound(T) /\ T.leg = S.leg /\ T.told = S.told
      /\ \A id \in Ids : (Made(T, id) <=> Made(S, id)) /\ T.tr[id].last = S.tr[id].last
  <2>1. \A id \in {l} \X {"cancel", "bye", "inbye"} : id[2] # "asked"
    OBVIOUS
  <2> QED BY <2>1, DropKeeps DEF Good
<1>2. R = WithLeg(T, l, x)
  BY DEF RemoveDialog, WithLeg, Undialled
<1> HIDE DEF T
<1>3. T \in Phones /\ S.leg \in [Legs -> Leg] /\ T.leg[l] \in Leg
  BY <1>1, Fields DEF Good, Sound
<1>4. x \in Leg /\ x.dlg = "none" /\ x.call = S.leg[l].call
  BY <1>1, <1>3, Undial
<1> HIDE DEF x, R
<1>6. /\ R \in Phones /\ R.tr = T.tr /\ R.fifo = T.fifo /\ R.told = T.told
      /\ R.leg = [T.leg EXCEPT ![l] = x]
  BY <1>2, <1>3, <1>4, WithLegKeeps
<1>7. Sound(R)
  BY <1>1, <1>6 DEF Sound
<1>8. \A id \in Ids : (Made(R, id) <=> Made(S, id)) /\ R.tr[id].last = S.tr[id].last
  BY <1>1, <1>6 DEF Made
<1>9. R.leg[l] = x /\ (\A k \in Callee \ {l} : R.leg[k] = S.leg[k]) /\ R.told = S.told
  BY <1>1, <1>3, <1>6, Numbers
<1>10. Good(R, X, Y, b)
  <2>1. CASE b
    <3>1. l \in Callee => /\ R.leg[l].dlg = "none"
                          /\ "INVITE" \in S.told[l] => R.leg[l].call # "none"
      BY <1>4, <1>9, <2>1 DEF Good, Fate
    <3> QED BY <1>7, <1>8, <1>9, <3>1, Relegged
  <2>2. CASE ~b
    BY <1>7, <2>2 DEF Good
  <2> QED BY <2>1, <2>2
<1>11. Settled(R, l, X, Y, b)
  <2>1. <<l, "bye">> \in Ids
    BY Pairs DEF Roles
  <2> QED BY <1>8, <1>9, <2>1 DEF Settled, Closed
<1> QED BY <1>4, <1>8, <1>9, <1>10, <1>11 DEF R

\* A report that adds nothing the fate of a leg depends on.
LEMMA GoodReport ==
  ASSUME NEW S, NEW X, NEW Y, NEW b, Good(S, X, Y, b), NEW l \in Legs,
         NEW type \in News \ {"INVITE"}
  PROVE  LET R == Report(S, l, type) IN
         /\ Good(R, X, Y, b) /\ Keeps(S, R) /\ R.tr = S.tr /\ R.fifo = S.fifo /\ R.leg = S.leg
         /\ R.told = [S.told EXCEPT ![l] = @ \cup {type}]
<1> DEFINE R == Report(S, l, type)
<1>1. /\ R \in Phones /\ R.tr = S.tr /\ R.fifo = S.fifo /\ R.leg = S.leg
      /\ R.told = [S.told EXCEPT ![l] = @ \cup {type}]
  BY ReportKeeps DEF Good, Sound
<1> HIDE DEF R
<1>2. S.told \in [Legs -> SUBSET News]
  BY Fields DEF Good, Sound
<1>3. \A k \in Legs : /\ S.told[k] \subseteq R.told[k]
                      /\ "INVITE" \in R.told[k] => "INVITE" \in S.told[k]
  BY <1>1, <1>2
<1>4. Sound(R)
  BY <1>1 DEF Good, Sound
<1>5. ASSUME b, NEW k \in Callee PROVE Fate(R, k, X, Y)
  <2>1. Fate(S, k, X, Y) /\ k \in Legs
    BY <1>5, Numbers DEF Good
  <2>2. Closed(S, k, X) => Closed(R, k, X)
    BY <1>3, <2>1 DEF Closed
  <2>3. \A j : Made(R, j) <=> Made(S, j)
    BY <1>1 DEF Made
  <2> QED BY <1>1, <1>3, <2>1, <2>2, <2>3 DEF Fate
<1> QED BY <1>1, <1>3, <1>4, <1>5 DEF Good, Keeps, R

LEMMA ReleasingKeeps ==
  ASSUME NEW S, NEW X, NEW Y, NEW b, Good(S, X, Y, b), NEW l \in Legs, Settled(S, l, X, Y, b)
  PROVE  Good(__eXosip_release_call(S, l), X, Y, b)
<1> DEFINE T == RemoveDialog(S, l)
           U == Drop(T, {<<l, "invite">>})
           x == [U.leg[l] EXCEPT !.call = "released"]
           V == WithLeg(U, l, x)
<1>1. Good(T, X, Y, b) /\ Settled(T, l, X, Y, b) /\ T.leg[l].dlg = "none"
  BY RemoveDialogKeeps
<1>2. __eXosip_release_call(S, l) = Report(V, l, "RELEASED")
  BY DEF __eXosip_release_call, WithLeg
<1> HIDE DEF T
<1>3. /\ Sound(U) /\ U.leg = T.leg /\ U.told = T.told
      /\ \A id \in Ids : (Made(U, id) <=> Made(T, id)) /\ U.tr[id].last = T.tr[id].last
  <2>1. \A id \in {<<l, "invite">>} : id[2] # "asked"
    OBVIOUS
  <2> QED BY <1>1, <2>1, DropKeeps DEF Good
<1> HIDE DEF U
<1>4. U \in Phones /\ U.leg \in [Legs -> Leg] /\ U.leg[l] \in Leg
  BY <1>3, Fields DEF Sound
<1>5. x \in Leg /\ x.dlg = "none" /\ x.call = "released"
  BY <1>1, <1>3, <1>4 DEF Leg
<1> HIDE DEF x
<1>6. /\ V \in Phones /\ V.tr = U.tr /\ V.fifo = U.fifo /\ V.told = U.told
      /\ V.leg = [U.leg EXCEPT ![l] = x]
  BY <1>4, <1>5, WithLegKeeps
<1> HIDE DEF V
<1>7. Sound(V)
  BY <1>3, <1>6 DEF Sound
<1>8. \A id \in Ids : (Made(V, id) <=> Made(T, id)) /\ V.tr[id].last = T.tr[id].last
  BY <1>3, <1>6 DEF Made
<1>9. V.leg[l] = x /\ (\A k \in Callee \ {l} : V.leg[k] = T.leg[k]) /\ V.told = T.told
  BY <1>3, <1>4, <1>6, Numbers
<1>10. Good(V, X, Y, b)
  BY <1>1, <1>5, <1>7, <1>8, <1>9, Relegged
<1>11. "RELEASED" \in News \ {"INVITE"}
  BY DEF News
<1>12. Good(Report(V, l, "RELEASED"), X, Y, b)
  BY <1>10, <1>11, GoodReport
<1> QED BY <1>2, <1>12

LEMMA ReleaseDialogKeeps ==
  ASSUME NEW S, NEW X, NEW Y, NEW b, Good(S, X, Y, b),
         NEW l \in Legs, NEW elapsed \in BOOLEAN, l \in Callee => ~elapsed
  PROVE  Good(ReleaseDialog(S, l, elapsed), X, Y, b)
<1> DEFINE inv == S.tr[<<l, "invite">>]
           byes == {S.tr[<<l, r>>] : r \in {r \in {"bye", "inbye"} : Made(S, <<l, r>>)}}
           R == ReleaseDialog(S, l, elapsed)
<1>1. \/ R = S
      \/ byes # {} /\ R = RemoveDialog(S, l)
      \/ elapsed /\ R = RemoveDialog(Report(S, l, "NOANSWER"), l)
      \/ (inv.last = "3456xx" \/ l = 0) /\ R = __eXosip_release_call(S, l)
  <2> DEFINE keep == \/ S.leg[l].dlg = "none"
                     \/ \E t \in byes : ~Over(t)
                     \/ ~Over(inv) /\ ~elapsed
  <2>1. CASE keep
    <3>1. R = S
      BY <2>1 DEF ReleaseDialog
    <3> HIDE DEF R, byes, inv
    <3> QED BY <3>1
  <2>2. CASE ~keep
    <3>1. R = CASE byes # {} -> RemoveDialog(S, l)
                [] byes = {} /\ ~Over(inv) -> RemoveDialog(Report(S, l, "NOANSWER"), l)
                [] byes = {} /\ Over(inv) /\ (inv.last = "3456xx" \/ (l = 0 /\ inv.last = "none")) ->
                     __eXosip_release_call(S, l)
                [] OTHER -> S
      BY <2>2 DEF ReleaseDialog
    <3>2. ~Over(inv) => elapsed
      BY <2>2
    <3> HIDE DEF R, inv, byes
    <3>3. CASE byes # {}
      BY <3>1, <3>3
    <3>4. CASE byes = {} /\ ~Over(inv)
      BY <3>1, <3>2, <3>4
    <3>5. CASE byes = {} /\ Over(inv) /\ (inv.last = "3456xx" \/ (l = 0 /\ inv.last = "none"))
      BY <3>1, <3>5
    <3>6. CASE ~(byes # {}) /\ ~(byes = {} /\ ~Over(inv))
               /\ ~(byes = {} /\ Over(inv) /\ (inv.last = "3456xx" \/ (l = 0 /\ inv.last = "none")))
      BY <3>1, <3>6
    <3> QED BY <3>3, <3>4, <3>5, <3>6
  <2> QED BY <2>1, <2>2
<1>2. b /\ l \in Callee => Fate(S, l, X, Y)
  BY DEF Good
<1>3. byes # {} => Made(S, <<l, "bye">>) \/ Made(S, <<l, "inbye">>)
  OBVIOUS
<1> HIDE DEF R, byes
<1>4. CASE byes # {} /\ R = RemoveDialog(S, l)
  <2>1. Settled(S, l, X, Y, b)
    BY <1>2, <1>3, <1>4 DEF Settled, Fate
  <2> QED BY <1>4, <2>1, RemoveDialogKeeps DEF R
<1>5. CASE elapsed /\ R = RemoveDialog(Report(S, l, "NOANSWER"), l)
  <2> DEFINE T == Report(S, l, "NOANSWER")
  <2>1. Good(T, X, Y, b)
    BY GoodReport DEF News
  <2>2. Settled(T, l, X, Y, b)
    BY <1>5 DEF Settled
  <2>3. R = RemoveDialog(T, l)
    BY <1>5
  <2> HIDE DEF T
  <2>4. Good(RemoveDialog(T, l), X, Y, b)
    BY <2>1, <2>2, RemoveDialogKeeps
  <2> QED BY <2>3, <2>4 DEF R
<1>6. CASE (inv.last = "3456xx" \/ l = 0) /\ R = __eXosip_release_call(S, l)
  <2>1. Settled(S, l, X, Y, b)
    BY <1>2, <1>6, Numbers DEF Settled, Fate
  <2> QED BY <1>6, <2>1, ReleasingKeeps DEF R
<1> QED BY <1>1, <1>4, <1>5, <1>6 DEF R

LEMMA ReleaseLegKeeps ==
  ASSUME NEW S, NEW X, NEW Y, NEW b, Good(S, X, Y, b),
         NEW l \in Legs, NEW elapsed \in BOOLEAN, l \in Callee => ~elapsed
  PROVE  Good(ReleaseLeg(S, l, elapsed), X, Y, b)
<1> DEFINE T == ReleaseDialog(S, l, elapsed)
           R == ReleaseCall(T, l, elapsed)
<1>1. ReleaseLeg(S, l, elapsed) = R
  BY DEF ReleaseLeg, After
<1>2. Good(T, X, Y, b)
  BY ReleaseDialogKeeps
<1> HIDE DEF T
<1>3. R = T \/ (T.leg[l].call = "up" /\ T.leg[l].dlg = "none" /\ R = __eXosip_release_call(T, l))
  BY DEF ReleaseCall
<1> HIDE DEF R
<1>4. CASE T.leg[l].call = "up" /\ T.leg[l].dlg = "none" /\ R = __eXosip_release_call(T, l)
  <2>1. b /\ l \in Callee => Fate(T, l, X, Y)
    BY <1>2 DEF Good
  <2>2. Settled(T, l, X, Y, b)
    BY <1>4, <2>1 DEF Settled, Fate, HasDialog
  <2>3. Good(R, X, Y, b)
    BY <1>2, <1>4, <2>2, ReleasingKeeps
  <2> QED BY <1>1, <2>3
<1> QED BY <1>1, <1>2, <1>3, <1>4

\* Both loops, at all legs of a side.  Only the caller keeps a call for a time.
LEMMA ReleaseKeeps ==
  ASSUME NEW S, NEW X, NEW Y, NEW b, Good(S, X, Y, b),
         NEW side, NEW elapsed \in BOOLEAN, side = "caller" \/ ~elapsed
  PROVE  Good(eXosip_release_terminated_calls(S, side, elapsed), X, Y, b)
<1> DEFINE upto[n \in 0 .. MaxCalls] ==
             IF n = 0 THEN S ELSE After(upto[n - 1], LAMBDA T : ReleaseLeg(T, n, elapsed))
           step == [n \in 1 .. MaxCalls |-> [T \in Phones |-> ReleaseLeg(T, n, elapsed)]]
           Fine == {T \in Phones : Good(T, X, Y, b)}
           sets == [n \in 0 .. MaxCalls |-> Fine]
<1>1. eXosip_release_terminated_calls(S, side, elapsed) =
        IF side = "caller" THEN ReleaseLeg(S, 0, elapsed) ELSE upto[MaxCalls]
  BY DEF eXosip_release_terminated_calls
<1>2. MaxCalls \in Nat /\ 0 \in Legs /\ 0 \notin Callee /\ \A n \in 1 .. MaxCalls : n \in Legs
  BY Numbers DEF Legs
<1>3. CASE side = "caller"
  BY <1>1, <1>2, <1>3, ReleaseLegKeeps
<1>4. CASE side # "caller"
  <2>1. S \in Fine
    BY DEF Good, Sound
  <2>2. ASSUME NEW n \in 1 .. MaxCalls, NEW T \in Fine
        PROVE  T \in Phones /\ ReleaseLeg(T, n, elapsed) \in Fine
    <3> DEFINE R == ReleaseLeg(T, n, elapsed)
    <3>1. Good(R, X, Y, b)
      BY <1>2, <1>4, ReleaseLegKeeps
    <3> HIDE DEF R
    <3> QED BY <3>1 DEF R, Good, Sound
  <2> HIDE DEF Fine
  <2>3. ASSUME NEW f, f[0] \in Fine,
               \A n \in 1 .. MaxCalls : f[n - 1] \in Fine => f[n] \in Fine
        PROVE  \A n \in 0 .. MaxCalls : f[n] \in Fine
    <3>1. f[0] \in sets[0] /\ \A n \in 1 .. MaxCalls : f[n - 1] \in sets[n - 1] => f[n] \in sets[n]
      BY <1>2, <2>3
    <3>2. \A n \in 0 .. MaxCalls : sets[n] = Fine
      OBVIOUS
    <3> HIDE DEF sets
    <3>3. \A n \in 0 .. MaxCalls : f[n] \in sets[n]
      BY <1>2, <3>1, Stays
    <3> QED BY <3>2, <3>3
  <2> HIDE DEF sets
  <2>4. PICK f : Begun(MaxCalls, f, S, step)
    BY <1>2, StepByStep
  <2>5. f = [n \in 0 .. MaxCalls |-> IF n = 0 THEN S ELSE step[n][f[n - 1]]]
    BY <2>4 DEF Begun
  <2>6. \A n \in 0 .. MaxCalls : f[n] \in Fine
    <3>1. ASSUME NEW n \in 1 .. MaxCalls, f[n - 1] \in Fine PROVE f[n] \in Fine
      <4>1. f[n - 1] \in Phones /\ ReleaseLeg(f[n - 1], n, elapsed) \in Fine
        BY <2>2, <3>1
      <4>2. f[n] = step[n][f[n - 1]]
        <5> HIDE DEF step
        <5> QED BY <1>2, <2>5
      <4> QED BY <4>1, <4>2
    <3>2. f[0] \in Fine
      BY <1>2, <2>1, <2>5
    <3> HIDE DEF step
    <3> QED BY <2>3, <3>1, <3>2
  <2>7. ASSUME NEW n \in 0 .. MaxCalls
        PROVE  f[n] = IF n = 0 THEN S ELSE After(f[n - 1], LAMBDA T : ReleaseLeg(T, n, elapsed))
    <3>1. CASE n = 0
      BY <2>5, <3>1
    <3>2. CASE n # 0
      <4>1. n \in 1 .. MaxCalls /\ n - 1 \in 0 .. MaxCalls
        BY <1>2, <3>2
      <4>2. f[n - 1] \in Phones
        BY <2>2, <2>6, <4>1
      <4>3. f[n] = step[n][f[n - 1]]
        BY <2>5, <3>2
      <4>4. f[n] = ReleaseLeg(f[n - 1], n, elapsed)
        BY <4>1, <4>2, <4>3
      <4>5. After(f[n - 1], LAMBDA T : ReleaseLeg(T, n, elapsed)) = ReleaseLeg(f[n - 1], n, elapsed)
        BY DEF After
      <4> HIDE DEF step
      <4> QED BY <3>2, <4>4, <4>5
    <3> QED BY <3>1, <3>2
  <2>8. f = [n \in 0 .. MaxCalls |->
               IF n = 0 THEN S ELSE After(f[n - 1], LAMBDA T : ReleaseLeg(T, n, elapsed))]
    <3>1. f = [n \in 0 .. MaxCalls |-> f[n]]
      BY <2>5
    <3> HIDE DEF step
    <3> QED BY <2>7, <3>1
  <2>9. upto = [n \in 0 .. MaxCalls |->
                  IF n = 0 THEN S ELSE After(upto[n - 1], LAMBDA T : ReleaseLeg(T, n, elapsed))]
    BY <2>8
  <2> HIDE DEF upto
  <2>10. \A n \in 0 .. MaxCalls : upto[n] \in Fine
    <3>1. ASSUME NEW n \in 1 .. MaxCalls, upto[n - 1] \in Fine PROVE upto[n] \in Fine
      <4>1. ReleaseLeg(upto[n - 1], n, elapsed) \in Fine
        BY <2>2, <3>1
      <4>2. upto[n] = ReleaseLeg(upto[n - 1], n, elapsed)
        BY <1>2, <2>9 DEF After
      <4> QED BY <4>1, <4>2
    <3>2. upto[0] \in Fine
      BY <1>2, <2>1, <2>9
    <3> QED BY <2>3, <3>1, <3>2
  <2>11. upto[MaxCalls] \in Fine
    BY <1>2, <2>10
  <2> QED BY <1>1, <1>4, <2>11 DEF Fine
<1> QED BY <1>3, <1>4

\* What a pass executes and releases.
LEMMA ExecutedKeeps ==
  ASSUME NEW S, NEW X, NEW Y, NEW b \in BOOLEAN, Good(S, X, Y, b),
         NEW side, NEW i \in Outcomes, b => i = "sent"
  PROVE  Good(Executed(S, side, i), X, Y, b)
<1> DEFINE inbye == DrainRole(S, side, "inbye", i)
           nist == DrainRole(inbye, side, "cancel", i)
           nict == DrainRole(nist, side, "bye", i)
           asked == DrainRole(nict, side, "asked", i)
           all == DrainRole(asked, side, "invite", i)
           upto[n \in 0 .. 5] ==
             IF n = 0 THEN S
             ELSE After(upto[n - 1], LAMBDA T : DrainRole(T, side, ExecutionOrder[n], i))
<1>1. Executed(S, side, i) = eXosip_release_terminated_calls(all, side, FALSE)
  <2> DEFINE turn(n) == IF n = 0 THEN S ELSE IF n = 1 THEN inbye ELSE IF n = 2 THEN nist
                        ELSE IF n = 3 THEN nict ELSE IF n = 4 THEN asked ELSE all
             f == [n \in 0 .. 5 |-> turn(n)]
             next(g, n) == After(g[n - 1], LAMBDA T : DrainRole(T, side, ExecutionOrder[n], i))
  <2>1. Executed(S, side, i) = eXosip_release_terminated_calls(upto[5], side, FALSE)
    BY DEF Executed, After
  <2>2. ASSUME NEW g PROVE \A n \in 1 .. 5 : next(g, n) = DrainRole(g[n - 1], side, ExecutionOrder[n], i)
    BY DEF After
  <2>3. /\ ExecutionOrder[1] = "inbye" /\ ExecutionOrder[2] = "cancel" /\ ExecutionOrder[3] = "bye"
        /\ ExecutionOrder[4] = "asked" /\ ExecutionOrder[5] = "invite"
    BY DEF ExecutionOrder
  <2>4. f = [n \in 0 .. 5 |-> IF n = 0 THEN S ELSE next(f, n)]
    <3>1. /\ f[0] = S /\ f[1] = inbye /\ f[2] = nist /\ f[3] = nict /\ f[4] = asked /\ f[5] = all
          /\ f = [n \in 0 .. 5 |-> f[n]]
      <4> HIDE DEF inbye, nist, nict, asked, all, upto, next
      <4>1. /\ 0 \in 0 .. 5 /\ 1 \in 0 .. 5 /\ 2 \in 0 .. 5
            /\ 3 \in 0 .. 5 /\ 4 \in 0 .. 5 /\ 5 \in 0 .. 5
        OBVIOUS
      <4>2. f[0] = S /\ f[1] = inbye /\ f[2] = nist
        BY <4>1
      <4>3. f[3] = nict /\ f[4] = asked /\ f[5] = all
        BY <4>1
      <4>4. f = [n \in 0 .. 5 |-> f[n]]
        <5> HIDE DEF turn
        <5> QED OBVIOUS
      <4> HIDE DEF f
      <4> QED BY <4>2, <4>3, <4>4
    <3> HIDE DEF f
    <3>2. \A n \in 1 .. 5 : next(f, n) = DrainRole(f[n - 1], side, ExecutionOrder[n], i)
      BY <2>2
    <3> HIDE DEF next
    <3>3. next(f, 1) = f[1]
      BY <2>3, <3>1, <3>2
    <3>4. next(f, 2) = f[2]
      BY <2>3, <3>1, <3>2
    <3>5. next(f, 3) = f[3]
      BY <2>3, <3>1, <3>2
    <3>6. next(f, 4) = f[4]
      BY <2>3, <3>1, <3>2
    <3>7. next(f, 5) = f[5]
      BY <2>3, <3>1, <3>2
    <3>8. \A n \in 0 .. 5 : n = 0 \/ n = 1 \/ n = 2 \/ n = 3 \/ n = 4 \/ n = 5
      OBVIOUS
    <3>9. \A n \in 0 .. 5 : f[n] = IF n = 0 THEN S ELSE next(f, n)
      BY <3>1, <3>3, <3>4, <3>5, <3>6, <3>7, <3>8
    <3> QED BY <3>1, <3>9
  <2> HIDE DEF f
  <2>5. f = [n \in 0 .. 5 |->
               IF n = 0 THEN S
               ELSE After(f[n - 1], LAMBDA T : DrainRole(T, side, ExecutionOrder[n], i))]
    BY <2>4
  <2>6. upto = [n \in 0 .. 5 |->
                  IF n = 0 THEN S
                  ELSE After(upto[n - 1], LAMBDA T : DrainRole(T, side, ExecutionOrder[n], i))]
    BY <2>5
  <2> HIDE DEF upto
  <2>7. upto[0] = S /\ \A n \in 1 .. 5 : upto[n] = next(upto, n)
    BY <2>6
  <2> HIDE DEF next
  <2>8. upto[1] = inbye
    BY <2>2, <2>3, <2>7
  <2>9. upto[2] = nist
    BY <2>2, <2>3, <2>7, <2>8
  <2>10. upto[3] = nict
    BY <2>2, <2>3, <2>7, <2>9
  <2>11. upto[4] = asked
    BY <2>2, <2>3, <2>7, <2>10
  <2>12. upto[5] = all
    BY <2>2, <2>3, <2>7, <2>11
  <2> QED BY <2>1, <2>12
<1>2. \A role \in {"inbye", "cancel", "bye", "asked", "invite"} : role \in Roles
  BY DEF Roles
<1>3. Good(inbye, X, Y, b)
  BY <1>2, DrainRoleKeeps
<1> HIDE DEF inbye
<1>4. Good(nist, X, Y, b)
  BY <1>2, <1>3, DrainRoleKeeps
<1> HIDE DEF nist
<1>5. Good(nict, X, Y, b)
  BY <1>2, <1>4, DrainRoleKeeps
<1> HIDE DEF nict
<1>6. Good(asked, X, Y, b)
  BY <1>2, <1>5, DrainRoleKeeps
<1> HIDE DEF asked
<1>7. Good(all, X, Y, b)
  BY <1>2, <1>6, DrainRoleKeeps
<1> HIDE DEF all
<1> QED BY <1>1, <1>7, ReleaseKeeps

-----------------------------------------------------------------------------
(* What a message or a command changes                                     *)

LEMMA FirstIn ==
  ASSUME NEW legs, legs \subseteq Legs, legs # {}
  PROVE  First(legs) \in legs
<1>1. legs \subseteq Nat
  BY Numbers
<1>2. PICK l \in legs : \A j \in legs : <<j, l>> \notin OpToRel(<, Nat)
  <2> DEFINE U == Nat \cap legs
  <2>1. U # {} /\ U = legs
    BY <1>1
  <2>2. \E l \in U : \A j \in U : <<j, l>> \notin OpToRel(<, Nat)
    BY <2>1, NatLessThanWellFounded, WFMin
  <2> HIDE DEF U
  <2> QED BY <2>1, <2>2, Zenon
<1>3. ASSUME NEW j \in legs PROVE l <= j
  <2>1. l \in Nat /\ j \in Nat
    BY <1>1
  <2>2. ~(j < l)
    BY <1>2, <2>1 DEF OpToRel
  <2> QED BY <2>1, <2>2
<1> QED BY <1>3 DEF First

LEMMA GoodPut ==
  ASSUME NEW S, NEW X, NEW Y, NEW b, Good(S, X, Y, b), NEW m \in Messages
  PROVE  Good(Put(S, m), X, Y, b)
<1> DEFINE R == Put(S, m)
<1>1. R \in Phones /\ R.tr = S.tr /\ R.fifo = S.fifo /\ R.leg = S.leg /\ R.told = S.told
  BY PutKeeps DEF Good, Sound
<1> HIDE DEF R
<1>2. Sound(R)
  BY <1>1 DEF Good, Sound
<1>3. \A k \in Callee : Fate(S, k, X, Y) => Fate(R, k, X, Y)
  BY <1>1 DEF Fate, Closed, Made
<1> QED BY <1>2, <1>3 DEF Good, R

\* Whatever is good stays so when more is pending.
LEMMA Weaker ==
  ASSUME NEW S, NEW X, NEW Y, NEW b, Good(S, X, Y, b), NEW X1, X \subseteq X1, NEW Y1, Y \subseteq Y1
  PROVE  Good(S, X1, Y1, b)
<1>1. \A k : Fate(S, k, X, Y) => Fate(S, k, X1, Y1)
  BY DEF Fate, Closed
<1> QED BY <1>1 DEF Good

\* A leg that changes.
LEMMA GoodLeg ==
  ASSUME NEW S, NEW X, NEW Y, NEW b, Good(S, X, Y, b), NEW l \in Legs, NEW x \in Leg,
         b /\ l \in Callee => Fate(WithLeg(S, l, x), l, X, Y)
  PROVE  LET R == WithLeg(S, l, x) IN
         /\ Good(R, X, Y, b) /\ R.tr = S.tr /\ R.fifo = S.fifo /\ R.told = S.told
         /\ R.leg = [S.leg EXCEPT ![l] = x] /\ R.leg[l] = x
<1> DEFINE R == WithLeg(S, l, x)
<1>1. /\ R \in Phones /\ R.tr = S.tr /\ R.fifo = S.fifo /\ R.told = S.told
      /\ R.leg = [S.leg EXCEPT ![l] = x]
  BY WithLegKeeps DEF Good, Sound
<1>2. b /\ l \in Callee => Fate(R, l, X, Y)
  OBVIOUS
<1> HIDE DEF R
<1>3. S.leg \in [Legs -> Leg]
  BY Fields DEF Good, Sound
<1>4. R.leg[l] = x /\ \A k \in Callee \ {l} : R.leg[k] = S.leg[k]
  BY <1>1, <1>3, Numbers
<1>5. Sound(R)
  BY <1>1 DEF Good, Sound
<1>6. ASSUME b, NEW k \in Callee PROVE Fate(R, k, X, Y)
  <2>1. Fate(S, k, X, Y)
    BY <1>6 DEF Good
  <2>2. CASE k = l
    BY <1>2, <1>6, <2>2
  <2>3. CASE k # l
    BY <1>1, <1>4, <2>1, <2>3 DEF Fate, Closed, Made
  <2> QED BY <2>2, <2>3
<1> QED BY <1>1, <1>4, <1>5, <1>6 DEF Good, R

\* What may be queued for a transaction.
Queueable(S, id, e, X, b) ==
  /\ id[2] = "asked" => S.tr[id].state # "pre"
  /\ id[2] = "bye" /\ ~Made(S, id) => e = "snd_request"
  /\ b /\ id[2] = "inbye" /\ id[1] \in Callee => Closed(S, id[1], X)

LEMMA AddEventKeeps ==
  ASSUME NEW S, NEW X, NEW Y, NEW b, Good(S, X, Y, b), NEW id \in Ids,
         NEW e \in Events, NEW l \in Legs, Queueable(S, id, e, X, b)
  PROVE  LET R == AddEvent(S, id, e, l) IN
         /\ Good(R, X, Y, b) /\ R.tr = S.tr /\ R.leg = S.leg /\ R.told = S.told /\ R.net = S.net
         /\ Made(R, id) /\ \A j \in Ids \ {id} : R.fifo[j] = S.fifo[j]
<1> DEFINE R == AddEvent(S, id, e, l)
           queue == Append(S.fifo[id], Event(e, l))
<1>1. /\ S \in Phones /\ S.fifo \in [Ids -> Seq(Entry)] /\ \A j \in Ids : Fits(j, S.tr[j], S.fifo[j])
  BY Fields DEF Good, Sound
<1>2. Event(e, l) \in Entry /\ Event(e, l).e = e
  BY DEF Event, Entry
<1>3. queue \in Seq(Entry) /\ queue # <<>> /\ queue[1] = IF S.fifo[id] = <<>> THEN Event(e, l) ELSE S.fifo[id][1]
  <2>1. S.fifo[id] \in Seq(Entry)
    BY <1>1
  <2> HIDE DEF Entry
  <2> DEFINE q == S.fifo[id]
             ev == Event(e, l)
  <2>2. q \in Seq(Entry) /\ ev \in Entry
    BY <1>2, <2>1
  <2>3. queue = Append(q, ev)
    OBVIOUS
  <2> HIDE DEF q, ev, queue
  <2>4. queue \in Seq(Entry) /\ Len(queue) = Len(q) + 1 /\ queue # <<>>
        /\ queue[Len(q) + 1] = ev /\ \A n \in 1 .. Len(q) : queue[n] = q[n]
    BY <2>2, <2>3, AppendProperties
  <2>5. CASE q = <<>>
    <3>1. Len(q) = 0
      BY <2>5
    <3>2. queue[1] = ev
      BY <2>4, <3>1
    <3> QED BY <2>4, <2>5, <3>2 DEF q, ev
  <2>6. CASE q # <<>>
    <3>1. Len(q) \in Nat \ {0}
      BY <2>2, <2>6, EmptySeq
    <3>2. queue[1] = q[1]
      BY <2>4, <3>1
    <3> QED BY <2>4, <2>6, <3>2 DEF q, ev
  <2> QED BY <2>5, <2>6
<1>4. R = [S EXCEPT !.fifo = [S.fifo EXCEPT ![id] = queue]]
  BY DEF AddEvent
<1> HIDE DEF R, queue
<1>5. /\ R \in Phones /\ R.tr = S.tr /\ R.leg = S.leg /\ R.told = S.told /\ R.net = S.net
      /\ R.fifo = [S.fifo EXCEPT ![id] = queue]
  BY <1>1, <1>3, <1>4 DEF Phones
<1>6. R.fifo[id] = queue /\ \A j \in Ids \ {id} : R.fifo[j] = S.fifo[j]
  BY <1>1, <1>5
<1>7. Made(R, id)
  BY <1>3, <1>6 DEF Made
<1>8. ASSUME NEW j \in Ids PROVE Fits(j, R.tr[j], R.fifo[j])
  <2>1. Fits(j, S.tr[j], S.fifo[j])
    BY <1>1
  <2>2. CASE j = id
    <3>1. j[2] = "bye" /\ R.tr[j].state = "pre" => R.fifo[j][1].e = "snd_request"
      BY <1>2, <1>3, <1>5, <1>6, <2>1, <2>2 DEF Fits, Queueable, Made
    <3>2. j[2] = "asked" => R.tr[j].state \in {"completed", "terminated"}
      BY <1>5, <2>1, <2>2 DEF Fits, Queueable
    <3> QED BY <1>5, <2>1, <3>1, <3>2 DEF Fits
  <2>3. CASE j # id
    BY <1>5, <1>6, <2>1, <2>3
  <2> QED BY <2>2, <2>3
<1>9. ASSUME b, NEW k \in Callee PROVE Fate(R, k, X, Y)
  <2>1. Fate(S, k, X, Y)
    BY <1>9 DEF Good
  <2>2. <<k, "bye">> \in Ids /\ <<k, "inbye">> \in Ids
    BY Numbers, Pairs DEF Roles
  <2>3. Made(S, <<k, "bye">>) => Made(R, <<k, "bye">>)
    BY <1>5, <1>6, <1>7, <2>2 DEF Made
  <2>4. Made(R, <<k, "inbye">>) => Made(S, <<k, "inbye">>) \/ Closed(S, k, X)
    <3>1. CASE id = <<k, "inbye">>
      BY <1>9, <3>1 DEF Queueable
    <3>2. CASE id # <<k, "inbye">>
      BY <1>5, <1>6, <2>2, <3>2 DEF Made
    <3> QED BY <3>1, <3>2
  <2> QED BY <1>5, <2>1, <2>3, <2>4, FateKept
<1> QED BY <1>5, <1>6, <1>7, <1>8, <1>9 DEF Good, Sound, R

\* A request of the other side that gets a transaction of its own.
WithServer(S, id, queue) == [S EXCEPT !.tr[id] = New("NIST"), !.fifo[id] = queue]

LEMMA NewServer ==
  ASSUME NEW S, NEW X, NEW Y, NEW b, Good(S, X, Y, b), NEW id \in Ids,
         id[2] \in {"cancel", "inbye"}, KindOf(id) = "NIST", NEW queue \in Seq(Entry),
         b /\ id[2] = "inbye" /\ id[1] \in Callee => Closed(S, id[1], X)
  PROVE  LET R == WithServer(S, id, queue) IN
         /\ Good(R, X, Y, b) /\ R.leg = S.leg /\ R.told = S.told
         /\ \A j \in Ids \ {id} : R.tr[j] = S.tr[j] /\ R.fifo[j] = S.fifo[j]
<1> DEFINE t == New("NIST")
           R == WithServer(S, id, queue)
<1>1. t \in Transaction /\ t.kind = "NIST"
  BY DEF New, Transaction, Kinds, States
<1>2. /\ S \in Phones /\ S.tr \in [Ids -> Transaction] /\ S.fifo \in [Ids -> Seq(Entry)]
      /\ \A j \in Ids : Fits(j, S.tr[j], S.fifo[j])
  BY Fields DEF Good, Sound
<1>3. R = [S EXCEPT !.tr = [S.tr EXCEPT ![id] = t], !.fifo = [S.fifo EXCEPT ![id] = queue]]
  BY <1>2 DEF WithServer, Phones
<1> HIDE DEF t, R
<1> DEFINE tr1 == [S.tr EXCEPT ![id] = t]
           fifo1 == [S.fifo EXCEPT ![id] = queue]
<1>4. /\ R \in Phones /\ R.leg = S.leg /\ R.told = S.told
      /\ R.tr = [S.tr EXCEPT ![id] = t] /\ R.fifo = [S.fifo EXCEPT ![id] = queue]
  <2>1. tr1 \in [Ids -> Transaction] /\ fifo1 \in [Ids -> Seq(Entry)]
    BY <1>1, <1>2
  <2>2. R = [S EXCEPT !.tr = tr1, !.fifo = fifo1]
    BY <1>3
  <2> HIDE DEF tr1, fifo1
  <2>3. R \in Phones /\ R.leg = S.leg /\ R.told = S.told /\ R.tr = tr1 /\ R.fifo = fifo1
    BY <1>2, <2>1, <2>2 DEF Phones
  <2> QED BY <2>3 DEF tr1, fifo1
<1>5. /\ R.tr[id] = t /\ R.fifo[id] = queue
      /\ \A j \in Ids \ {id} : R.tr[j] = S.tr[j] /\ R.fifo[j] = S.fifo[j]
  BY <1>2, <1>4
<1>6. ASSUME NEW j \in Ids PROVE Fits(j, R.tr[j], R.fifo[j])
  <2>1. Fits(j, S.tr[j], S.fifo[j])
    BY <1>2
  <2>2. CASE j = id
    BY <1>1, <1>5, <2>2 DEF Fits
  <2>3. CASE j # id
    BY <1>5, <2>1, <2>3
  <2> QED BY <2>2, <2>3
<1>7. ASSUME b, NEW k \in Callee PROVE Fate(R, k, X, Y)
  <2>1. Fate(S, k, X, Y)
    BY <1>7 DEF Good
  <2>2. <<k, "bye">> \in Ids /\ <<k, "inbye">> \in Ids /\ <<k, "invite">> \in Ids
    BY Numbers, Pairs DEF Roles
  <2>3. Made(S, <<k, "bye">>) => Made(R, <<k, "bye">>)
    BY <1>5, <2>2 DEF Made
  <2>4. Made(R, <<k, "inbye">>) => Made(S, <<k, "inbye">>) \/ Closed(S, k, X)
    <3>1. CASE id = <<k, "inbye">>
      BY <1>7, <3>1
    <3>2. CASE id # <<k, "inbye">>
      BY <1>5, <2>2, <3>2 DEF Made
    <3> QED BY <3>1, <3>2
  <2>5. R.tr[<<k, "invite">>] = S.tr[<<k, "invite">>]
    BY <1>5, <2>2
  <2> QED BY <1>4, <2>1, <2>3, <2>4, <2>5, FateKept
<1>8. Sound(R)
  BY <1>4, <1>6 DEF Sound
<1> QED BY <1>4, <1>5, <1>7, <1>8 DEF Good, R

LEMMA Entries ==
  ASSUME NEW e \in Events, NEW l \in Legs
  PROVE  Event(e, l) \in Entry /\ Event(e, l).e = e
BY DEF Event, Entry

\* CLOSED is what a leg in X waits for.
LEMMA CloseKeeps ==
  ASSUME NEW S, NEW X, NEW Y, NEW b, NEW l \in Legs, Good(S, X \cup {l}, Y, b)
  PROVE  Good(Report(S, l, "CLOSED"), X, Y, b)
<1> DEFINE R == Report(S, l, "CLOSED")
<1>1. "CLOSED" \in News \ {"INVITE"}
  BY DEF News
<1>2. /\ Good(R, X \cup {l}, Y, b) /\ R.told = [S.told EXCEPT ![l] = @ \cup {"CLOSED"}]
  BY <1>1, GoodReport
<1> HIDE DEF R
<1>3. "CLOSED" \in R.told[l]
  BY <1>2, Fields DEF Good, Sound
<1>4. ASSUME b, NEW k \in Callee PROVE Fate(R, k, X, Y)
  <2>1. Fate(R, k, X \cup {l}, Y)
    BY <1>2, <1>4 DEF Good
  <2>2. Closed(R, k, X \cup {l}) => Closed(R, k, X)
    BY <1>3 DEF Closed
  <2> QED BY <2>1, <2>2 DEF Fate
<1> QED BY <1>2, <1>4 DEF Good, R

LEMMA ByeKeeps ==
  ASSUME NEW S, NEW X, NEW Y, NEW b \in BOOLEAN, Good(S, X, Y, b), NEW l \in Legs,
         NEW m \in Messages, m.m \in {"BYE", "BYE4"}, NEW i \in Outcomes, b => i = "sent"
  PROVE  Good(eXosip_process_bye(S, l, m, i), X, Y, b)
<1> DEFINE id == <<l, "inbye">>
           queue == <<Event("rcv_request", 0), Event("snd_2xx", 0)>>
           x == [S.leg[l] EXCEPT !.bye = m.m, !.byeleg = m.leg, !.dlg = "null"]
           P == WithServer(S, id, queue)
           T == WithLeg(P, l, x)
           Xl == X \cup {l}
           U == DrainRole(T, Side(l), "inbye", i)
           V == IF l = 0 THEN U ELSE DrainRole(U, "callee", "cancel", i)
<1>1. id \in Ids /\ KindOf(id) = "NIST" /\ id[1] = l /\ id[2] = "inbye" /\ 0 \in Legs
      /\ "cancel" \in Roles /\ "inbye" \in Roles
  BY Pairs, KindsOf, Numbers DEF Roles
<1>2. queue \in Seq(Entry)
  <2>1. Event("rcv_request", 0) \in Entry /\ Event("snd_2xx", 0) \in Entry
    BY <1>1, Entries DEF Events
  <2> QED BY <2>1
<1>3. eXosip_process_bye(S, l, m, i) = Report(V, l, "CLOSED")
  <2>1. T = [S EXCEPT !.tr[<<l, "inbye">>] = New("NIST"),
                      !.fifo[<<l, "inbye">>] = <<Event("rcv_request", 0), Event("snd_2xx", 0)>>,
                      !.leg[l] = [@ EXCEPT !.bye = m.m, !.byeleg = m.leg, !.dlg = "null"]]
    BY DEF WithLeg, WithServer
  <2> QED BY <2>1 DEF eXosip_process_bye
<1>4. Good(S, Xl, Y, b)
  BY Weaker
<1> HIDE DEF queue
<1>5. Good(P, Xl, Y, b) /\ P.leg = S.leg /\ P.told = S.told
  <2>1. id[2] \in {"cancel", "inbye"} /\ (b /\ id[2] = "inbye" /\ id[1] \in Callee => Closed(S, id[1], Xl))
    BY DEF Closed
  <2> HIDE DEF Xl, id
  <2> QED BY <1>1, <1>2, <1>4, <2>1, NewServer
<1>6. S.leg[l] \in Leg /\ m.m \in {"BYE", "BYE4"} /\ m.leg \in Legs
  BY Fields DEF Good, Sound, Messages
<1>7. x \in Leg /\ x.dlg = "null" /\ x.call = S.leg[l].call
  BY <1>6 DEF Leg, Dialog
<1> HIDE DEF x, P
<1>8. Good(T, Xl, Y, b)
  <2>1. ASSUME b, l \in Callee PROVE Fate(T, l, Xl, Y)
    <3>1. Fate(P, l, Xl, Y) /\ l \in Xl
      BY <1>5, <2>1 DEF Good
    <3>2. T.leg[l] = x /\ T.tr = P.tr /\ T.fifo = P.fifo /\ T.told = P.told
      <4>1. P \in Phones /\ P.leg \in [Legs -> Leg]
        BY <1>5, Fields DEF Good, Sound
      <4>2. T.leg = [P.leg EXCEPT ![l] = x] /\ T.tr = P.tr /\ T.fifo = P.fifo /\ T.told = P.told
        BY <1>7, <4>1, WithLegKeeps
      <4> HIDE DEF T
      <4> QED BY <4>1, <4>2
    <3> HIDE DEF T, Xl
    <3> QED BY <1>5, <1>7, <3>1, <3>2 DEF Fate, HasDialog, Closed, Made
  <2> HIDE DEF Xl
  <2> QED BY <1>5, <1>7, <2>1, GoodLeg
<1> HIDE DEF T, Xl
<1>9. Good(U, Xl, Y, b)
  BY <1>1, <1>8, DrainRoleKeeps
<1> HIDE DEF U
<1>10. Good(V, Xl, Y, b)
  BY <1>1, <1>9, DrainRoleKeeps
<1> HIDE DEF V
<1>11. Good(Report(V, l, "CLOSED"), X, Y, b)
  BY <1>10, CloseKeeps DEF Xl
<1> QED BY <1>3, <1>11

LEMMA ReceiveByeKeeps ==
  ASSUME NEW S, NEW X, NEW Y, NEW b \in BOOLEAN, Good(S, X, Y, b),
         NEW m \in Messages, m.m \in {"BYE", "BYE4"}, NEW i \in Outcomes, b => i = "sent"
  PROVE  Good(ReceiveBye(S, m.to, m, i), X, Y, b)
<1> DEFINE side == m.to
           same == {l \in LegsOf(side) : Listed(S, <<l, "inbye">>) /\ S.leg[l].bye = m.m
                                                                   /\ S.leg[l].byeleg = m.leg}
           match == MatchingLegs(S, side, m)
           R == ReceiveBye(S, side, m, i)
           no == Msg(IF side = "caller" THEN "callee" ELSE "caller", "no_bye", m.leg)
<1>1. \/ same # {} /\ R = AddEvent(S, <<First(same), "inbye">>, "rcv_request", 0)
      \/ match # {} /\ R = eXosip_process_bye(S, First(match), m, i)
      \/ R = S
      \/ R = Put(S, no)
  <2>1. R = CASE same # {} -> AddEvent(S, <<First(same), "inbye">>, "rcv_request", 0)
              [] same = {} /\ match # {} -> eXosip_process_bye(S, First(match), m, i)
              [] OTHER -> IF m.m = "BYE4" THEN S ELSE Put(S, no)
    BY DEF ReceiveBye
  <2> HIDE DEF R, same, match, no
  <2>2. CASE same # {}
    BY <2>1, <2>2
  <2>3. CASE same = {} /\ match # {}
    BY <2>1, <2>3
  <2>4. CASE same = {} /\ match = {}
    BY <2>1, <2>4
  <2> QED BY <2>2, <2>3, <2>4
<1>2. /\ same \subseteq Legs /\ \A l \in same : Listed(S, <<l, "inbye">>)
      /\ match \subseteq Legs
  BY DEF LegsOf, MatchingLegs
<1>3. no \in Messages
  <2>1. m.leg \in Legs
    BY DEF Messages
  <2> QED BY <2>1, ToTheCallee, ToTheCaller DEF ToCallee, ToCaller
<1>4. ReceiveBye(S, m.to, m, i) = R
  OBVIOUS
<1> HIDE DEF R, same, match, no
<1>5. CASE same # {} /\ R = AddEvent(S, <<First(same), "inbye">>, "rcv_request", 0)
  <2> DEFINE l == First(same)
             id == <<l, "inbye">>
  <2>1. l \in same
    BY <1>2, <1>5, FirstIn
  <2> HIDE DEF l
  <2>2. /\ l \in Legs /\ Listed(S, id) /\ id \in Ids /\ id[1] = l /\ id[2] = "inbye" /\ 0 \in Legs
        /\ "rcv_request" \in Events
    BY <1>2, <2>1, Pairs, Numbers DEF Roles, Events
  <2>3. b /\ l \in Callee => Closed(S, l, X)
    BY <2>2 DEF Good, Fate, Listed, Made
  <2>4. Queueable(S, id, "rcv_request", X, b)
    BY <2>2, <2>3 DEF Queueable
  <2>5. R = AddEvent(S, id, "rcv_request", 0)
    BY <1>5 DEF l
  <2> HIDE DEF id
  <2>6. Good(AddEvent(S, id, "rcv_request", 0), X, Y, b)
    BY <2>2, <2>4, AddEventKeeps
  <2> QED BY <1>4, <2>5, <2>6
<1>6. CASE match # {} /\ R = eXosip_process_bye(S, First(match), m, i)
  <2>1. First(match) \in Legs
    BY <1>2, <1>6, FirstIn
  <2>2. Good(R, X, Y, b)
    BY <1>6, <2>1, ByeKeeps
  <2> QED BY <1>4, <2>2
<1>7. CASE R = S
  BY <1>4, <1>7
<1>8. CASE R = Put(S, no)
  BY <1>3, <1>4, <1>8, GoodPut
<1> QED BY <1>1, <1>5, <1>6, <1>7, <1>8

\* The ACK is reported as the resending of the 200 ends.
LEMMA AckKeeps ==
  ASSUME NEW S, NEW X, NEW Y, NEW b, Good(S, X, Y, b), NEW l \in Legs
  PROVE  Good(eXosip_process_ack(S, l), X, Y, b)
<1> DEFINE x == [S.leg[l] EXCEPT !.ok200 = FALSE, !.count = 0]
           T == WithLeg(S, l, x)
           R == Report(T, l, "ACK")
<1>1. eXosip_process_ack(S, l) = R
  BY DEF eXosip_process_ack, WithLeg
<1>2. S \in Phones /\ S.leg \in [Legs -> Leg] /\ S.told \in [Legs -> SUBSET News] /\ S.leg[l] \in Leg
  BY Fields DEF Good, Sound
<1>3. x \in Leg /\ x.dlg = S.leg[l].dlg /\ x.call = S.leg[l].call
  <2>1. 0 \in 0 .. MaxOk
    BY Numbers
  <2> QED BY <1>2, <2>1 DEF Leg
<1> HIDE DEF x
<1>4. /\ T \in Phones /\ T.tr = S.tr /\ T.fifo = S.fifo /\ T.told = S.told
      /\ T.leg = [S.leg EXCEPT ![l] = x]
  BY <1>2, <1>3, WithLegKeeps
<1> HIDE DEF T
<1>5. /\ R \in Phones /\ R.tr = S.tr /\ R.fifo = S.fifo /\ R.leg = [S.leg EXCEPT ![l] = x]
      /\ R.told = [S.told EXCEPT ![l] = @ \cup {"ACK"}]
  <2>1. "ACK" \in News
    BY DEF News
  <2>2. R \in Phones /\ R.tr = T.tr /\ R.fifo = T.fifo /\ R.leg = T.leg
        /\ R.told = [T.told EXCEPT ![l] = @ \cup {"ACK"}]
    BY <1>4, <2>1, ReportKeeps
  <2> QED BY <1>4, <2>2
<1> HIDE DEF R
<1>6. Sound(R)
  BY <1>5 DEF Good, Sound
<1>7. ASSUME b, NEW k \in Callee PROVE Fate(R, k, X, Y)
  <2>1. Fate(S, k, X, Y) /\ k \in Legs
    BY <1>7, Numbers DEF Good
  <2>2. CASE k = l
    <3>1. R.leg[k] = x /\ R.told[k] = S.told[k] \cup {"ACK"}
      BY <1>2, <1>5, <2>2
    <3> QED BY <1>3, <1>5, <2>1, <2>2, <3>1 DEF Fate, HasDialog, Closed, Made
  <2>3. CASE k # l
    <3>1. R.leg[k] = S.leg[k] /\ R.told[k] = S.told[k]
      BY <1>2, <1>5, <2>1, <2>3
    <3> QED BY <1>5, <2>1, <3>1 DEF Fate, Closed, Made
  <2> QED BY <2>2, <2>3
<1> QED BY <1>1, <1>6, <1>7 DEF Good

\* An event for the INVITE of a leg, or for its CANCEL.
LEMMA QueueKeeps ==
  ASSUME NEW S, NEW X, NEW Y, NEW b, Good(S, X, Y, b), NEW k \in Legs,
         NEW role \in {"invite", "cancel"}, NEW e \in Events, NEW l \in Legs
  PROVE  Good(AddEvent(S, <<k, role>>, e, l), X, Y, b)
<1> DEFINE id == <<k, role>>
<1>1. id \in Ids /\ id[2] \notin {"asked", "bye", "inbye"}
  BY Pairs DEF Roles
<1>2. Queueable(S, id, e, X, b)
  BY <1>1 DEF Queueable
<1> HIDE DEF id
<1>3. Good(AddEvent(S, id, e, l), X, Y, b)
  BY <1>1, <1>2, AddEventKeeps
<1> QED BY <1>3 DEF id

LEMMA ReceiveAckKeeps ==
  ASSUME NEW S, NEW X, NEW Y, NEW b, Good(S, X, Y, b), NEW m \in Messages
  PROVE  Good(ReceiveAck(S, m), X, Y, b)
<1> DEFINE open == {k \in Callee : Listed(S, <<k, "invite">>)}
           match == MatchingLegs(S, "callee", m)
           R == ReceiveAck(S, m)
<1>1. \/ open # {} /\ R = AddEvent(S, <<First(open), "invite">>, "rcv_ack", m.leg)
      \/ match # {} /\ R = eXosip_process_ack(S, First(match))
      \/ R = S
  <2>1. R = CASE m.m = "NACK" /\ open # {} -> AddEvent(S, <<First(open), "invite">>, "rcv_ack", m.leg)
              [] (m.m = "ACK" \/ open = {}) /\ match # {} -> eXosip_process_ack(S, First(match))
              [] OTHER -> S
    BY DEF ReceiveAck
  <2> HIDE DEF R, open, match
  <2>2. CASE m.m = "NACK" /\ open # {}
    <3>1. ~((m.m = "ACK" \/ open = {}) /\ match # {})
      BY <2>2
    <3> QED BY <2>1, <2>2, <3>1
  <2>3. CASE (m.m = "ACK" \/ open = {}) /\ match # {}
    <3>1. ~(m.m = "NACK" /\ open # {})
      BY <2>3
    <3> QED BY <2>1, <2>3, <3>1
  <2>4. CASE ~(m.m = "NACK" /\ open # {}) /\ ~((m.m = "ACK" \/ open = {}) /\ match # {})
    BY <2>1, <2>4
  <2> QED BY <2>2, <2>3, <2>4
<1>2. open \subseteq Legs /\ match \subseteq Legs /\ m.leg \in Legs
  BY Numbers DEF LegsOf, MatchingLegs, Messages
<1>3. ReceiveAck(S, m) = R
  OBVIOUS
<1> HIDE DEF R, open, match
<1>4. CASE open # {} /\ R = AddEvent(S, <<First(open), "invite">>, "rcv_ack", m.leg)
  <2>1. First(open) \in Legs /\ "rcv_ack" \in Events
    BY <1>2, <1>4, FirstIn DEF Events
  <2> QED BY <1>2, <1>3, <1>4, <2>1, QueueKeeps
<1>5. CASE match # {} /\ R = eXosip_process_ack(S, First(match))
  <2>1. First(match) \in Legs
    BY <1>2, <1>5, FirstIn
  <2> QED BY <1>3, <1>5, <2>1, AckKeeps
<1> QED BY <1>1, <1>3, <1>4, <1>5

\* A new call is reported when its provisional answers are out.
LEMMA NewInviteKeeps ==
  ASSUME NEW S, NEW X, NEW Y, NEW b \in BOOLEAN, Good(S, X, Y, b),
         NEW k \in Callee, S.leg[k].call = "none", NEW i \in Outcomes, b => i = "sent"
  PROVE  Good(eXosip_process_new_invite(S, k, i), X, Y, b)
<1> DEFINE id == <<k, "invite">>
           queue == <<Event("rcv_request", 0), Event("snd_1xx", 0), Event("snd_1xx", k)>>
           x == [S.leg[k] EXCEPT !.call = "up", !.dlg = "early"]
           P == [S EXCEPT !.fifo = [S.fifo EXCEPT ![id] = queue]]
           T == WithLeg(P, k, x)
           U == DrainRole(T, "callee", "invite", i)
           R == Report(U, k, "INVITE")
<1>1. /\ k \in Legs /\ 0 \in Legs /\ id \in Ids /\ id[2] = "invite" /\ "invite" \in Roles
      /\ id # <<k, "bye">> /\ id # <<k, "inbye">>
  BY Numbers, Pairs DEF Roles
<1>2. queue \in Seq(Entry)
  <2>1. /\ Event("rcv_request", 0) \in Entry /\ Event("snd_1xx", 0) \in Entry
        /\ Event("snd_1xx", k) \in Entry
    BY <1>1, Entries DEF Events
  <2> QED BY <2>1
<1>3. eXosip_process_new_invite(S, k, i) = R
  <2>1. T = [S EXCEPT !.fifo[<<k, "invite">>] =
                        <<Event("rcv_request", 0), Event("snd_1xx", 0), Event("snd_1xx", k)>>,
                      !.leg[k] = [@ EXCEPT !.call = "up", !.dlg = "early"]]
    BY DEF WithLeg
  <2> QED BY <2>1 DEF eXosip_process_new_invite
<1>4. /\ S \in Phones /\ S.leg \in [Legs -> Leg] /\ S.leg[k] \in Leg
      /\ S.fifo \in [Ids -> Seq(Entry)] /\ S.told \in [Legs -> SUBSET News]
  BY <1>1, Fields DEF Good, Sound
<1>5. x \in Leg /\ x.call = "up" /\ x.dlg = "early"
  BY <1>4 DEF Leg, Dialog
<1> HIDE DEF x, queue
<1>6. /\ P \in Phones /\ P.tr = S.tr /\ P.leg = S.leg /\ P.told = S.told
      /\ P.fifo = [S.fifo EXCEPT ![id] = queue]
  <2> DEFINE fifo1 == [S.fifo EXCEPT ![id] = queue]
  <2>1. fifo1 \in [Ids -> Seq(Entry)]
    BY <1>2, <1>4
  <2>2. P = [S EXCEPT !.fifo = fifo1]
    OBVIOUS
  <2> HIDE DEF fifo1, P
  <2>3. P \in Phones /\ P.tr = S.tr /\ P.leg = S.leg /\ P.told = S.told /\ P.fifo = fifo1
    BY <1>4, <2>1, <2>2 DEF Phones
  <2> QED BY <2>3 DEF fifo1
<1> HIDE DEF P, id
<1>7. \A j \in Ids \ {id} : P.fifo[j] = S.fifo[j]
  BY <1>4, <1>6
<1>8. /\ T \in Phones /\ T.tr = S.tr /\ T.fifo = P.fifo /\ T.told = S.told
      /\ T.leg = [S.leg EXCEPT ![k] = x]
  BY <1>1, <1>5, <1>6, WithLegKeeps
<1> HIDE DEF T
<1>9. T.leg[k] = x /\ \A l \in Callee \ {k} : T.leg[l] = S.leg[l]
  BY <1>1, <1>4, <1>8, Numbers
<1>10. Sound(T)
  <2>1. ASSUME NEW j \in Ids PROVE Fits(j, T.tr[j], T.fifo[j])
    <3>1. Fits(j, S.tr[j], S.fifo[j])
      BY DEF Good, Sound
    <3>2. CASE j = id
      BY <1>1, <1>8, <3>1, <3>2 DEF Fits
    <3>3. CASE j # id
      BY <1>7, <1>8, <3>1, <3>3
    <3> QED BY <3>2, <3>3
  <2> QED BY <1>8, <2>1 DEF Sound
<1>11. ASSUME b, NEW l \in Callee PROVE Fate(T, l, X, Y)
  <2>1. Fate(S, l, X, Y) /\ l \in Legs
    BY <1>11, Numbers DEF Good
  <2>2. <<l, "bye">> \in Ids /\ <<l, "inbye">> \in Ids
    BY <2>1, Pairs DEF Roles
  <2>3. <<l, "bye">> # id /\ <<l, "inbye">> # id
    BY DEF id
  <2>4. (Made(T, <<l, "bye">>) <=> Made(S, <<l, "bye">>)) /\ (Made(T, <<l, "inbye">>) <=> Made(S, <<l, "inbye">>))
    BY <1>7, <1>8, <2>2, <2>3 DEF Made
  <2>5. CASE l = k
    BY <1>5, <1>8, <1>9, <2>1, <2>4, <2>5 DEF Fate, HasDialog, Closed
  <2>6. CASE l # k
    BY <1>8, <1>9, <2>1, <2>4, <2>6 DEF Fate, Closed
  <2> QED BY <2>5, <2>6
<1>12. Good(T, X, Y, b)
  BY <1>10, <1>11 DEF Good
<1>13. Good(U, X, Y, b) /\ U.leg[k].call = "up"
  <2>1. Good(U, X, Y, b) /\ Keeps(T, U)
    BY <1>1, <1>12, DrainRoleKeeps
  <2> HIDE DEF U
  <2> QED BY <1>1, <1>5, <1>9, <2>1 DEF Keeps
<1> HIDE DEF U
<1>14. U \in Phones /\ U.told \in [Legs -> SUBSET News]
  BY <1>13, Fields DEF Good, Sound
<1>15. /\ R \in Phones /\ R.tr = U.tr /\ R.fifo = U.fifo /\ R.leg = U.leg
       /\ R.told = [U.told EXCEPT ![k] = @ \cup {"INVITE"}]
  <2>1. "INVITE" \in News
    BY DEF News
  <2> QED BY <1>1, <1>14, <2>1, ReportKeeps
<1> HIDE DEF R
<1>16. Sound(R)
  BY <1>13, <1>15 DEF Good, Sound
<1>17. ASSUME b, NEW l \in Callee PROVE Fate(R, l, X, Y)
  <2>1. Fate(U, l, X, Y) /\ l \in Legs
    BY <1>13, <1>17, Numbers DEF Good
  <2>2. CASE l = k
    <3>1. R.told[l] = U.told[l] \cup {"INVITE"}
      BY <1>14, <1>15, <2>1, <2>2
    <3> QED BY <1>13, <1>15, <2>1, <2>2, <3>1 DEF Fate, Closed, Made
  <2>3. CASE l # k
    <3>1. R.told[l] = U.told[l]
      BY <1>14, <1>15, <2>1, <2>3
    <3> QED BY <1>15, <2>1, <3>1 DEF Fate, Closed, Made
  <2> QED BY <2>2, <2>3
<1> QED BY <1>3, <1>16, <1>17 DEF Good

LEMMA ReceiveInviteKeeps ==
  ASSUME NEW S, NEW X, NEW Y, NEW b \in BOOLEAN, Good(S, X, Y, b), NEW m \in Messages,
         NEW i \in Outcomes, b => i = "sent"
  PROVE  Good(ReceiveInvite(S, m, i), X, Y, b)
<1> DEFINE open == {k \in Callee : Listed(S, <<k, "invite">>)}
           free == {k \in Callee : S.leg[k].call = "none"}
           clear == MatchingLegs(S, "callee", m) = {}
           R == ReceiveInvite(S, m, i)
<1>1. \/ open # {} /\ R = AddEvent(S, <<First(open), "invite">>, "rcv_request", 0)
      \/ free # {} /\ R = eXosip_process_new_invite(S, First(free), i)
      \/ R = S
  <2>1. R = CASE open # {} -> AddEvent(S, <<First(open), "invite">>, "rcv_request", 0)
              [] open = {} /\ clear /\ free # {} -> eXosip_process_new_invite(S, First(free), i)
              [] OTHER -> S
    BY DEF ReceiveInvite
  <2> HIDE DEF R, open, free, clear
  <2>2. CASE open # {}
    BY <2>1, <2>2
  <2>3. CASE open = {} /\ clear /\ free # {}
    BY <2>1, <2>3
  <2>4. CASE open = {} /\ ~(clear /\ free # {})
    BY <2>1, <2>4
  <2> QED BY <2>2, <2>3, <2>4
<1>2. /\ open \subseteq Legs /\ free \subseteq Legs /\ 0 \in Legs
      /\ \A k \in free : k \in Callee /\ S.leg[k].call = "none"
  BY Numbers
<1>3. ReceiveInvite(S, m, i) = R
  OBVIOUS
<1> HIDE DEF R, open, free
<1>4. CASE open # {} /\ R = AddEvent(S, <<First(open), "invite">>, "rcv_request", 0)
  <2>1. First(open) \in Legs /\ "rcv_request" \in Events
    BY <1>2, <1>4, FirstIn DEF Events
  <2> QED BY <1>2, <1>3, <1>4, <2>1, QueueKeeps
<1>5. CASE free # {} /\ R = eXosip_process_new_invite(S, First(free), i)
  <2>1. First(free) \in free
    BY <1>2, <1>5, FirstIn
  <2>2. First(free) \in Callee /\ S.leg[First(free)].call = "none"
    BY <1>2, <2>1
  <2> QED BY <1>3, <1>5, <2>2, NewInviteKeeps
<1> QED BY <1>1, <1>3, <1>4, <1>5

LEMMA CancelKeeps ==
  ASSUME NEW S, NEW X, NEW Y, NEW b, Good(S, X, Y, b)
  PROVE  Good(eXosip_process_cancel(S), X, Y, b)
<1> DEFINE up == {k \in Callee : S.leg[k].call = "up"}
           k == First(up)
           id == <<k, "cancel">>
           answered == S.tr[<<k, "invite">>].state \in {"terminated", "confirmed", "completed"}
           queue == <<Event("rcv_request", 0), Event(IF answered THEN "snd_3456xx" ELSE "snd_2xx", 0)>>
           T == WithServer(S, id, queue)
           R == eXosip_process_cancel(S)
<1>1. CASE up = {}
  <2>1. R = Put(S, Msg("caller", "no_cancel", 0))
    BY <1>1 DEF eXosip_process_cancel
  <2>2. Msg("caller", "no_cancel", 0) \in Messages
    BY Numbers, ToTheCaller DEF ToCaller
  <2> QED BY <2>1, <2>2, GoodPut
<1>2. CASE up # {}
  <2>1. R = IF answered THEN T ELSE AddEvent(T, <<k, "invite">>, "snd_3456xx", 0)
    BY <1>2 DEF eXosip_process_cancel, WithServer
  <2>2. k \in Callee
    <3>1. up \subseteq Legs
      BY Numbers
    <3> HIDE DEF up
    <3>2. k \in up
      BY <1>2, <3>1, FirstIn
    <3> QED BY <3>2 DEF up
  <2>3. R = eXosip_process_cancel(S)
    OBVIOUS
  <2> HIDE DEF k, R
  <2>4. /\ k \in Legs /\ k # 0 /\ 0 \in Legs /\ id \in Ids /\ id[2] = "cancel" /\ KindOf(id) = "NIST"
        /\ "snd_3456xx" \in Events
    BY <2>2, Numbers, Pairs, KindsOf DEF Roles, Events
  <2>5. queue \in Seq(Entry)
    <3>1. /\ Event("rcv_request", 0) \in Entry /\ Event("snd_3456xx", 0) \in Entry
          /\ Event("snd_2xx", 0) \in Entry
      BY <2>4, Entries DEF Events
    <3>2. Event(IF answered THEN "snd_3456xx" ELSE "snd_2xx", 0) \in Entry
      BY <3>1
    <3> QED BY <3>1, <3>2
  <2> HIDE DEF queue, id, answered
  <2>6. id[2] \in {"cancel", "inbye"} /\ (b /\ id[2] = "inbye" /\ id[1] \in Callee => Closed(S, id[1], X))
    BY <2>4
  <2>7. Good(T, X, Y, b)
    BY <2>4, <2>5, <2>6, NewServer
  <2> HIDE DEF T
  <2>8. Good(AddEvent(T, <<k, "invite">>, "snd_3456xx", 0), X, Y, b)
    BY <2>4, <2>7, QueueKeeps
  <2> QED BY <2>1, <2>3, <2>7, <2>8
<1> QED BY <1>1, <1>2

LEMMA ReceiveCancelKeeps ==
  ASSUME NEW S, NEW X, NEW Y, NEW b, Good(S, X, Y, b)
  PROVE  Good(ReceiveCancel(S), X, Y, b)
<1> DEFINE same == {k \in Callee : Listed(S, <<k, "cancel">>)}
<1>1. ReceiveCancel(S) = IF same # {} THEN AddEvent(S, <<First(same), "cancel">>, "rcv_request", 0)
                         ELSE eXosip_process_cancel(S)
  BY DEF ReceiveCancel
<1>2. same \subseteq Legs /\ 0 \in Legs /\ "rcv_request" \in Events
  BY Numbers DEF Events
<1> HIDE DEF same
<1>3. CASE same # {}
  <2>1. First(same) \in Legs
    BY <1>2, <1>3, FirstIn
  <2>2. Good(AddEvent(S, <<First(same), "cancel">>, "rcv_request", 0), X, Y, b)
    BY <1>2, <2>1, QueueKeeps
  <2> QED BY <1>1, <1>3, <2>2
<1>4. CASE same = {}
  BY <1>1, <1>4, CancelKeeps
<1> QED BY <1>3, <1>4

\* An answer for a transaction that osip knows is queued.
LEMMA ToClientKeeps ==
  ASSUME NEW S, NEW X, NEW Y, NEW b, Good(S, X, Y, b), NEW id \in Ids, id[2] # "inbye",
         NEW e \in Events, NEW l \in Legs
  PROVE  Good(ToClient(S, id, e, l), X, Y, b)
<1>1. CASE Listed(S, id)
  <2>1. Fits(id, S.tr[id], S.fifo[id])
    BY DEF Good, Sound
  <2>2. Queueable(S, id, e, X, b)
    BY <1>1, <2>1 DEF Queueable, Fits, Listed, Made
  <2>3. Good(AddEvent(S, id, e, l), X, Y, b)
    BY <2>2, AddEventKeeps
  <2> QED BY <1>1, <2>3 DEF ToClient
<1>2. CASE ~Listed(S, id)
  BY <1>2 DEF ToClient
<1> QED BY <1>1, <1>2

LEMMA OutOfTransactionKeeps ==
  ASSUME NEW S, NEW X, NEW Y, NEW b, Good(S, X, Y, b), NEW m \in Messages
  PROVE  Good(ResponseOutOfTransaction(S, m), X, Y, b)
<1> DEFINE ack == Msg("callee", "ACK", m.leg)
           bye == Msg("callee", "BYE4", m.leg)
           R == ResponseOutOfTransaction(S, m)
           none == S.leg[0].call # "up" \/ S.leg[0].dlg = "none"
           same == S.leg[0].call = "up" /\ HasDialog(S.leg[0]) /\ m.leg # 0 /\ S.leg[0].rem = m.leg
<1>1. R \in {S, Put(S, ack), Put(Put(S, ack), bye)}
  <2>1. R = CASE none -> S
              [] same -> IF S.leg[0].acked THEN Put(S, ack) ELSE S
              [] OTHER -> IF m.m \in {"101", "2xx"} THEN Put(Put(S, ack), bye) ELSE S
    BY DEF ResponseOutOfTransaction
  <2>2. ~(none /\ same)
    BY DEF HasDialog
  <2> HIDE DEF none, same, R, ack, bye
  <2>3. CASE none
    BY <2>1, <2>2, <2>3
  <2>4. CASE same
    BY <2>1, <2>2, <2>4
  <2>5. CASE ~none /\ ~same
    BY <2>1, <2>5
  <2> QED BY <2>3, <2>4, <2>5
<1>2. ack \in Messages /\ bye \in Messages
  <2>1. m.leg \in Legs
    BY DEF Messages
  <2> QED BY <2>1, ToTheCallee DEF ToCallee
<1> HIDE DEF ack, bye
<1>3. Good(Put(S, ack), X, Y, b)
  BY <1>2, GoodPut
<1>4. Good(Put(Put(S, ack), bye), X, Y, b)
  BY <1>2, <1>3, GoodPut
<1> QED BY <1>1, <1>3, <1>4

LEMMA ResponseKeeps ==
  ASSUME NEW S, NEW X, NEW Y, NEW b, Good(S, X, Y, b), NEW m \in Messages,
         m.m \in {"100", "101", "2xx", "3456xx", "407", "ok_cancel", "no_cancel", "ok_bye", "no_bye"}
  PROVE  Good(ReceiveResponse(S, m), X, Y, b)
<1> DEFINE R == ReceiveResponse(S, m)
<1>0. ReceiveResponse(S, m) = R
  OBVIOUS
<1>1. m.leg \in Legs /\ 0 \in Legs
  BY Numbers DEF Messages
<1>2. CASE m.m = "407"
  <2> DEFINE id == <<0, IF m.leg = S.leg[0].retry THEN "invite" ELSE "asked">>
  <2>1. R = ToClient(S, id, "rcv_3456xx", 0)
    BY <1>2 DEF ReceiveResponse
  <2>2. id \in Ids /\ id[2] # "inbye" /\ "rcv_3456xx" \in Events
    BY <1>1, Pairs DEF Roles, Events
  <2> HIDE DEF R, id
  <2> QED BY <1>0, <1>1, <2>1, <2>2, ToClientKeeps
<1>3. CASE m.m \in {"100", "101", "2xx", "3456xx"}
  <2> DEFINE e == CASE m.m = "2xx" -> "rcv_2xx" [] m.m = "3456xx" -> "rcv_3456xx" [] OTHER -> "rcv_1xx"
             id == <<0, "invite">>
  <2>1. R = IF Listed(S, id) THEN AddEvent(S, id, e, m.leg) ELSE ResponseOutOfTransaction(S, m)
    BY <1>3 DEF ReceiveResponse
  <2>2. e \in Events
    BY <1>3 DEF Events
  <2>3. Good(AddEvent(S, <<0, "invite">>, e, m.leg), X, Y, b)
    BY <1>1, <2>2, QueueKeeps
  <2>4. Good(ResponseOutOfTransaction(S, m), X, Y, b)
    BY OutOfTransactionKeeps
  <2> HIDE DEF R, e
  <2> QED BY <1>0, <2>1, <2>3, <2>4
<1>4. CASE m.m = "ok_cancel" \/ m.m = "no_cancel"
  <2> DEFINE id == <<0, "cancel">>
             e == IF m.m = "ok_cancel" THEN "rcv_2xx" ELSE "rcv_3456xx"
  <2>1. R = ToClient(S, id, e, 0)
    BY <1>4 DEF ReceiveResponse
  <2>2. id \in Ids /\ id[2] # "inbye" /\ e \in Events
    BY <1>1, Pairs DEF Roles, Events
  <2> HIDE DEF R, id, e
  <2> QED BY <1>0, <1>1, <2>1, <2>2, ToClientKeeps
<1>5. CASE m.m \in {"ok_bye", "no_bye"}
  <2> DEFINE id == IF m.to = "callee" THEN <<m.leg, "bye">> ELSE <<0, "bye">>
             e == IF m.m = "ok_bye" THEN "rcv_2xx" ELSE "rcv_3456xx"
  <2>1. R = S \/ R = ToClient(S, id, e, 0)
    BY <1>5 DEF ReceiveResponse
  <2>2. id \in Ids /\ id[2] # "inbye" /\ e \in Events
    BY <1>1, Pairs DEF Roles, Events
  <2> HIDE DEF R, id, e
  <2> QED BY <1>0, <1>1, <2>1, <2>2, ToClientKeeps
<1> QED BY <1>2, <1>3, <1>4, <1>5

\* Whatever message arrives, in whatever state.
LEMMA HandleKeeps ==
  ASSUME NEW S, NEW X, NEW Y, NEW b \in BOOLEAN, Good(S, X, Y, b), NEW m \in Messages,
         NEW i \in Outcomes, b => i = "sent"
  PROVE  Good(Handle(S, m, i), X, Y, b)
<1>1. m.m \in ToCallee \cup ToCaller
  BY DEF Messages
<1>2. CASE m.m \in {"BYE", "BYE4"}
  <2>1. Handle(S, m, i) = ReceiveBye(S, m.to, m, i)
    BY <1>2 DEF Handle
  <2> QED BY <1>2, <2>1, ReceiveByeKeeps
<1>3. CASE m.m = "INVITE"
  <2>1. Handle(S, m, i) = ReceiveInvite(S, m, i)
    BY <1>3 DEF Handle
  <2> QED BY <2>1, ReceiveInviteKeeps
<1>4. CASE m.m = "CANCEL"
  <2>1. Handle(S, m, i) = ReceiveCancel(S)
    BY <1>4 DEF Handle
  <2> QED BY <2>1, ReceiveCancelKeeps
<1>5. CASE m.m \in {"ACK", "NACK"}
  <2>1. Handle(S, m, i) = ReceiveAck(S, m)
    BY <1>5 DEF Handle
  <2> QED BY <2>1, ReceiveAckKeeps
<1>6. CASE m.m \notin {"BYE", "BYE4", "INVITE", "CANCEL", "ACK", "NACK"}
  <2>1. Handle(S, m, i) = ReceiveResponse(S, m)
    BY <1>6 DEF Handle
  <2>2. m.m \in {"100", "101", "2xx", "3456xx", "407", "ok_cancel", "no_cancel", "ok_bye", "no_bye"}
    BY <1>1, <1>6 DEF ToCallee, ToCaller
  <2> QED BY <2>1, <2>2, ResponseKeeps
<1> QED BY <1>2, <1>3, <1>4, <1>5, <1>6

-----------------------------------------------------------------------------
(* The steps                                                               *)

\* A handler's state becomes the state.
LEMMA Becomes ==
  ASSUME NEW S, NEW b, Good(S, {}, {}, b), Become(S)
  PROVE  Good(Now', {}, {}, b)
<1>1. S \in Phones
  BY DEF Good, Sound
<1>2. Now' = S
  BY <1>1 DEF Become, Now, Phones
<1> QED BY <1>2

LEMMA StepTaken ==
  ASSUME IInv, NEW S, Become(S), world' = world,
         spent' \in [{"lose", "dup", "fail"} -> Nat], Good(S, {}, {}, spent'["fail"] = 0),
         tries' \in [Ids -> 0 .. MaxResend], read' \in [Sides -> BOOLEAN]
  PROVE  IInv'
<1>1. Good(Now', {}, {}, spent'["fail"] = 0)
  BY Becomes
<1>2. world' \in Trials
  BY DEF IInv
<1> QED BY <1>1, <1>2 DEF IInv

\* A command of the application.
LEMMA CommandTaken ==
  ASSUME IInv, NEW S, Become(S), AppKeeps, Good(S, {}, {}, spent["fail"] = 0)
  PROVE  IInv'
<1>1. /\ spent \in [{"lose", "dup", "fail"} -> Nat] /\ tries \in [Ids -> 0 .. MaxResend]
      /\ read \in [Sides -> BOOLEAN]
  BY DEF IInv
<1>2. world' = world /\ spent' = spent /\ tries' = tries /\ read' = read
  BY DEF AppKeeps
<1> QED BY <1>1, <1>2, StepTaken

LEMMA Spends ==
  ASSUME IInv
  PROVE  /\ spent["fail"] \in Nat
         /\ \A x \in {"lose", "dup"} : LET after == [spent EXCEPT ![x] = @ + 1] IN
              after \in [{"lose", "dup", "fail"} -> Nat] /\ after["fail"] = spent["fail"]
         /\ LET after == [spent EXCEPT !["fail"] = @ + 1] IN
              after \in [{"lose", "dup", "fail"} -> Nat] /\ after["fail"] # 0
BY DEF IInv

\* A message leaves the wire.
LEMMA TakenKeeps ==
  ASSUME IInv, NEW m
  PROVE  Good([Now EXCEPT !.net = @ \ {m}], {}, {}, spent["fail"] = 0)
<1> DEFINE R == [Now EXCEPT !.net = @ \ {m}]
           b == spent["fail"] = 0
<1>1. Good(Now, {}, {}, b)
  BY DEF IInv
<1>2. Now \in Phones
  BY <1>1 DEF Good, Sound
<1> DEFINE S == Now
<1>3. S \in Phones /\ Good(S, {}, {}, b) /\ R = [S EXCEPT !.net = @ \ {m}]
  BY <1>1, <1>2
<1> HIDE DEF R, S, b
<1>4. R \in Phones /\ R.tr = S.tr /\ R.fifo = S.fifo /\ R.leg = S.leg /\ R.told = S.told
  BY <1>3 DEF Phones
<1>5. Sound(R)
  BY <1>3, <1>4 DEF Good, Sound
<1>6. \A k \in Callee : Fate(S, k, {}, {}) => Fate(R, k, {}, {})
  BY <1>4 DEF Fate, Closed, Made
<1>7. Good(R, {}, {}, b)
  BY <1>3, <1>5, <1>6 DEF Good
<1> QED BY <1>7 DEF R, b

LEMMA OutcomesAre == "sent" \in Outcomes /\ "pending" \in Outcomes /\ "failed" \in Outcomes
BY DEF Outcomes

LEMMA ReceiveStep ==
  ASSUME IInv, NEW m, Receive(m)
  PROVE  IInv'
<1> DEFINE b == spent["fail"] = 0
           T == [Now EXCEPT !.net = @ \ {m}]
<1>1. Good(Now, {}, {}, b) /\ Good(T, {}, {}, b) /\ b \in BOOLEAN
  BY TakenKeeps DEF IInv
<1>2. m \in Messages
  <2>1. Now \in Phones /\ m \in Now.net
    BY <1>1 DEF Good, Sound, Receive, Now
  <2> QED BY <2>1, Fields
<1>3. /\ world' = world /\ tries' = tries /\ read' = [read EXCEPT ![m.to] = TRUE]
      /\ read' \in [Sides -> BOOLEAN] /\ tries' \in [Ids -> 0 .. MaxResend]
      /\ spent \in [{"lose", "dup", "fail"} -> Nat]
  BY DEF Receive, IInv
<1>4. \/ /\ \E S \in {Handle(T, m, "sent")} : Become(S)
         /\ spent' = spent
      \/ /\ \E S \in {Handle(T, m, "pending"), Handle(T, m, "failed")} : Become(S)
         /\ spent' = [spent EXCEPT !["fail"] = @ + 1]
      \/ /\ spent' = [spent EXCEPT !["dup"] = @ + 1]
         /\ \E S \in {Handle(Now, m, "sent")} : Become(S)
  BY DEF Receive, Sends
<1> HIDE DEF T
<1>5. CASE /\ \E S \in {Handle(T, m, "sent")} : Become(S)
           /\ spent' = spent
  <2>1. PICK S : S = Handle(T, m, "sent") /\ Become(S)
    BY <1>5
  <2>2. Good(S, {}, {}, b)
    BY <1>1, <1>2, <2>1, OutcomesAre, HandleKeeps
  <2>3. Good(S, {}, {}, spent'["fail"] = 0) /\ spent' \in [{"lose", "dup", "fail"} -> Nat]
    BY <1>3, <1>5, <2>2
  <2> QED BY <1>3, <2>1, <2>3, StepTaken
<1>6. CASE /\ \E S \in {Handle(T, m, "pending"), Handle(T, m, "failed")} : Become(S)
           /\ spent' = [spent EXCEPT !["fail"] = @ + 1]
  <2>1. PICK i \in {"pending", "failed"} : Become(Handle(T, m, i))
    BY <1>6
  <2>2. i \in Outcomes /\ FALSE \in BOOLEAN
    BY OutcomesAre
  <2>3. Good(T, {}, {}, FALSE)
    BY <1>1 DEF Good
  <2>4. PICK S : S = Handle(T, m, i) /\ Become(S)
    BY <2>1
  <2>5. Good(S, {}, {}, FALSE)
    BY <1>2, <2>2, <2>3, <2>4, HandleKeeps
  <2>6. spent' \in [{"lose", "dup", "fail"} -> Nat] /\ (spent'["fail"] = 0) = FALSE
    BY <1>6, Spends
  <2> QED BY <1>3, <2>4, <2>5, <2>6, StepTaken
<1>7. CASE /\ spent' = [spent EXCEPT !["dup"] = @ + 1]
           /\ \E S \in {Handle(Now, m, "sent")} : Become(S)
  <2>1. PICK S : S = Handle(Now, m, "sent") /\ Become(S)
    BY <1>7
  <2>2. Good(S, {}, {}, b)
    BY <1>1, <1>2, <2>1, OutcomesAre, HandleKeeps
  <2>3. spent' \in [{"lose", "dup", "fail"} -> Nat] /\ spent'["fail"] = spent["fail"]
    BY <1>7, Spends
  <2>4. Good(S, {}, {}, spent'["fail"] = 0)
    BY <2>2, <2>3
  <2> QED BY <1>3, <2>1, <2>3, <2>4, StepTaken
<1> QED BY <1>4, <1>5, <1>6, <1>7

LEMMA LoseStep ==
  ASSUME IInv, NEW m, Lose(m)
  PROVE  IInv'
<1> DEFINE T == [Now EXCEPT !.net = @ \ {m}]
<1>1. Good(T, {}, {}, spent["fail"] = 0)
  BY TakenKeeps
<1>2. Become(T)
  BY DEF Lose, Become, Now, history
<1>3. /\ spent' \in [{"lose", "dup", "fail"} -> Nat] /\ spent'["fail"] = spent["fail"]
      /\ world' = world /\ tries' = tries /\ read' = read
  BY Spends DEF Lose
<1>4. tries \in [Ids -> 0 .. MaxResend] /\ read \in [Sides -> BOOLEAN]
  BY DEF IInv
<1> HIDE DEF T
<1> QED BY <1>1, <1>2, <1>3, <1>4, StepTaken

\* A timer that runs out is one of a transaction that was made.
LEMMA Fired ==
  ASSUME IInv, NEW id \in Ids, NEW x \in Expiring(id)
  PROVE  /\ x \in Events /\ tr[id].state # "pre"
         /\ x \in Resending => tries[id] < MaxResend
<1>1. tr \in [Ids -> Transaction]
  BY Fields DEF IInv, Good, Sound, Now
<1>2. x \in Fires(id) /\ (x \in Resending => tries[id] < MaxResend)
  BY DEF Expiring
<1>3. x \in tr[id].armed /\ tr[id].state \in While(x)
  BY <1>2 DEF Fires, MayFire
<1>4. x \in {"A", "B", "D", "E", "F", "G", "H", "I", "J", "K"}
  BY <1>1, <1>3 DEF Transaction
<1>5. "pre" \notin While(x)
  BY <1>4 DEF While
<1> QED BY <1>2, <1>3, <1>4, <1>5 DEF Events

LEMMA TimerKeeps ==
  ASSUME IInv, NEW id \in Ids, NEW x \in Expiring(id)
  PROVE  Good(Queued(Now, id, x), {}, {}, spent["fail"] = 0)
<1> DEFINE b == spent["fail"] = 0
           l == IF id[1] = 0 THEN leg[0].rem ELSE id[1]
           S == Now
<1>1. Good(S, {}, {}, b)
  BY DEF IInv
<1>2. x \in Events /\ S.tr[id].state # "pre"
  BY Fired DEF Now
<1>3. l \in Legs
  <2>1. S \in Phones /\ S.leg = leg
    BY <1>1 DEF Good, Sound, Now
  <2>2. leg[0] \in Leg
    BY <2>1, Fields, Numbers
  <2> QED BY <2>2, IdParts DEF Leg
<1>4. Queued(Now, id, x) = AddEvent(S, id, x, l)
  BY DEF Queued
<1> HIDE DEF S, l
<1>5. Queueable(S, id, x, {}, b)
  <2>1. Made(S, id)
    BY <1>2 DEF Made
  <2>2. ASSUME b, id[2] = "inbye", id[1] \in Callee PROVE Closed(S, id[1], {})
    <3>1. id = <<id[1], "inbye">>
      BY <2>2, IdParts
    <3>2. Fate(S, id[1], {}, {})
      BY <1>1, <2>2 DEF Good
    <3> QED BY <2>1, <3>1, <3>2 DEF Fate
  <2> QED BY <1>2, <2>1, <2>2 DEF Queueable
<1>6. Good(AddEvent(S, id, x, l), {}, {}, b)
  BY <1>1, <1>2, <1>3, <1>5, AddEventKeeps
<1> QED BY <1>4, <1>6

\* A pass from the state S, which is the state with or without a timer's event.
LEMMA PassTaken ==
  ASSUME IInv, NEW S, Good(S, {}, {}, spent["fail"] = 0), NEW side,
         \/ /\ \E R \in {Executed(S, side, "sent")} : Become(R)
            /\ spent' = spent
         \/ /\ \E R \in {Executed(S, side, "pending"), Executed(S, side, "failed")} : Become(R)
            /\ spent' = [spent EXCEPT !["fail"] = @ + 1],
         world' = world, tries' \in [Ids -> 0 .. MaxResend], read' \in [Sides -> BOOLEAN]
  PROVE  IInv'
<1> DEFINE b == spent["fail"] = 0
<1>1. CASE /\ \E R \in {Executed(S, side, "sent")} : Become(R)
           /\ spent' = spent
  <2>1. PICK R : R = Executed(S, side, "sent") /\ Become(R)
    BY <1>1
  <2>2. b \in BOOLEAN
    OBVIOUS
  <2>3. Good(R, {}, {}, b)
    BY <2>1, <2>2, OutcomesAre, ExecutedKeeps
  <2>4. Good(R, {}, {}, spent'["fail"] = 0) /\ spent' \in [{"lose", "dup", "fail"} -> Nat]
    BY <1>1, <2>3 DEF IInv
  <2> QED BY <2>1, <2>4, StepTaken
<1>2. CASE /\ \E R \in {Executed(S, side, "pending"), Executed(S, side, "failed")} : Become(R)
           /\ spent' = [spent EXCEPT !["fail"] = @ + 1]
  <2>1. PICK i \in {"pending", "failed"} : Become(Executed(S, side, i))
    BY <1>2
  <2>2. i \in Outcomes /\ FALSE \in BOOLEAN
    BY OutcomesAre
  <2>3. Good(S, {}, {}, FALSE)
    BY DEF Good
  <2>4. PICK R : R = Executed(S, side, i) /\ Become(R)
    BY <2>1
  <2>5. Good(R, {}, {}, FALSE)
    BY <2>2, <2>3, <2>4, ExecutedKeeps
  <2>6. spent' \in [{"lose", "dup", "fail"} -> Nat] /\ (spent'["fail"] = 0) = FALSE
    BY <1>2, Spends
  <2> QED BY <2>4, <2>5, <2>6, StepTaken
<1> QED BY <1>1, <1>2

LEMMA PassStep ==
  ASSUME IInv, NEW side \in Sides, Pass(side)
  PROVE  IInv'
<1>1. /\ world' = world /\ read' \in [Sides -> BOOLEAN] /\ tries \in [Ids -> 0 .. MaxResend]
      /\ Good(Now, {}, {}, spent["fail"] = 0)
  BY DEF Pass, IInv
<1>2. CASE Sends(LAMBDA i : Executed(Now, side, i)) /\ UNCHANGED tries
  <2> DEFINE S == Now
  <2>1. \/ /\ \E R \in {Executed(S, side, "sent")} : Become(R)
           /\ spent' = spent
        \/ /\ \E R \in {Executed(S, side, "pending"), Executed(S, side, "failed")} : Become(R)
           /\ spent' = [spent EXCEPT !["fail"] = @ + 1]
    BY <1>2 DEF Sends
  <2>2. tries' \in [Ids -> 0 .. MaxResend]
    BY <1>1, <1>2
  <2>3. Good(S, {}, {}, spent["fail"] = 0)
    BY <1>1
  <2> HIDE DEF S
  <2> QED BY <1>1, <2>1, <2>2, <2>3, PassTaken
<1>3. ASSUME NEW id \in LegsOf(side) \X Roles, NEW x \in Expiring(id),
             Sends(LAMBDA i : Executed(Queued(Now, id, x), side, i)),
             tries' = [tries EXCEPT ![id] = IF x \in Resending THEN @ + 1 ELSE @]
      PROVE  IInv'
  <2> DEFINE S == Queued(Now, id, x)
  <2>1. \/ /\ \E R \in {Executed(S, side, "sent")} : Become(R)
           /\ spent' = spent
        \/ /\ \E R \in {Executed(S, side, "pending"), Executed(S, side, "failed")} : Become(R)
           /\ spent' = [spent EXCEPT !["fail"] = @ + 1]
    BY <1>3 DEF Sends
  <2>2. id \in Ids
    BY DEF LegsOf, Ids
  <2>3. tries' \in [Ids -> 0 .. MaxResend]
    <3>1. x \in Resending => tries[id] < MaxResend
      BY <2>2, Fired
    <3>2. tries[id] \in 0 .. MaxResend /\ MaxResend \in Nat
      BY <1>1, <2>2, Numbers
    <3>3. (IF x \in Resending THEN tries[id] + 1 ELSE tries[id]) \in 0 .. MaxResend
      BY <3>1, <3>2
    <3> QED BY <1>1, <1>3, <2>2, <3>3
  <2>4. Good(S, {}, {}, spent["fail"] = 0)
    BY <2>2, TimerKeeps
  <2> HIDE DEF S
  <2> QED BY <1>1, <2>1, <2>3, <2>4, PassTaken
<1> QED BY <1>2, <1>3 DEF Pass

LEMMA ElapseStep ==
  ASSUME IInv, Elapse
  PROVE  IInv'
<1> DEFINE S == Now
<1>1. Good(S, {}, {}, spent["fail"] = 0)
  BY DEF IInv
<1>2. PICK R : R = eXosip_release_terminated_calls(S, "caller", TRUE) /\ Become(R)
  BY DEF Elapse
<1>3. AppKeeps
  BY DEF Elapse, AppKeeps
<1> HIDE DEF S
<1>4. Good(R, {}, {}, spent["fail"] = 0)
  BY <1>1, <1>2, ReleaseKeeps
<1> QED BY <1>2, <1>3, <1>4, CommandTaken

\* main, command i.
LEMMA CallStep ==
  ASSUME IInv, Call
  PROVE  IInv'
<1> DEFINE b == spent["fail"] = 0
           S == Now
           x == [S.leg[0] EXCEPT !.call = "up"]
           T == WithLeg(S, 0, x)
           R == AddEvent(T, <<0, "invite">>, "snd_request", 0)
<1>1. Good(S, {}, {}, b)
  BY DEF IInv
<1>2. Become(R) /\ AppKeeps
  <2>1. [S EXCEPT !.leg[0].call = "up"] = T
    BY Zenon DEF WithLeg
  <2> QED BY <2>1 DEF Call
<1> HIDE DEF S
<1>3. 0 \in Legs /\ 0 \notin Callee /\ S.leg[0] \in Leg
  BY <1>1, Fields, Numbers DEF Good, Sound
<1>4. x \in Leg
  BY <1>3 DEF Leg
<1> HIDE DEF x
<1>5. Good(T, {}, {}, b)
  BY <1>1, <1>3, <1>4, GoodLeg
<1> HIDE DEF T
<1>6. "snd_request" \in Events
  BY DEF Events
<1>7. Good(R, {}, {}, b)
  BY <1>3, <1>5, <1>6, QueueKeeps
<1> HIDE DEF R
<1> QED BY <1>2, <1>7, CommandTaken

LEMMA RetryStep ==
  ASSUME IInv, AutomaticAction
  PROVE  IInv'
<1> DEFINE b == spent["fail"] = 0
           S == Now
           inv == <<0, "invite">>
           asked == <<0, "asked">>
           tr1 == [S.tr EXCEPT ![asked] = S.tr[inv], ![inv] = New("ICT")]
           fifo1 == [S.fifo EXCEPT ![asked] = S.fifo[inv], ![inv] = <<>>]
           P == [S EXCEPT !.tr = tr1, !.fifo = fifo1]
           x == [S.leg[0] EXCEPT !.retry = @ + 1]
           T == WithLeg(P, 0, x)
           R == AddEvent(T, inv, "snd_request", 0)
<1>1. Good(S, {}, {}, b)
  BY DEF IInv
<1>2. /\ Become(R) /\ world' = world /\ spent' = spent /\ read' = read
      /\ tries' = [tries EXCEPT ![asked] = tries[inv], ![inv] = 0]
  <2>1. T = [Now EXCEPT !.tr = [@ EXCEPT ![asked] = tr[inv], ![inv] = New("ICT")],
                        !.fifo = [@ EXCEPT ![asked] = fifo[inv], ![inv] = <<>>],
                        !.leg[0].retry = @ + 1]
    BY DEF WithLeg, Now
  <2> QED BY <2>1 DEF AutomaticAction
<1>3. /\ S.tr[inv].state \in {"completed", "terminated"} /\ S.leg[0].retry < MaxRetry
      /\ S.tr = tr /\ S.fifo = fifo /\ S.leg = leg
  BY DEF AutomaticAction, MayRetry, Now
<1>4. /\ 0 \in Legs /\ 0 \notin Callee /\ inv \in Ids /\ asked \in Ids /\ inv # asked
      /\ asked[2] = "asked" /\ inv[2] = "invite" /\ KindOf(inv) = "ICT" /\ KindOf(asked) = "ICT"
  BY Numbers, Pairs, KindsOf DEF Roles
<1>5. /\ S \in Phones /\ S.tr \in [Ids -> Transaction] /\ S.fifo \in [Ids -> Seq(Entry)]
      /\ S.leg[0] \in Leg /\ \A j \in Ids : Fits(j, S.tr[j], S.fifo[j])
  BY <1>1, <1>4, Fields DEF Good, Sound
<1>6. New("ICT") \in Transaction /\ New("ICT").kind = "ICT"
  BY DEF New, Transaction, Kinds, States
<1> HIDE DEF S
<1>7. x \in Leg
  <2>1. S.leg[0].retry \in 0 .. MaxRetry /\ MaxRetry \in Nat
    BY <1>5, Numbers DEF Leg
  <2>2. S.leg[0].retry + 1 \in 0 .. MaxRetry
    BY <1>3, <2>1
  <2> QED BY <1>5, <2>2 DEF Leg
<1> HIDE DEF x
<1>8. /\ tr1 \in [Ids -> Transaction] /\ tr1[inv] = New("ICT") /\ tr1[asked] = S.tr[inv]
      /\ \A j \in Ids \ {inv, asked} : tr1[j] = S.tr[j]
  BY <1>4, <1>5, <1>6
<1>9. /\ fifo1 \in [Ids -> Seq(Entry)] /\ fifo1[inv] = <<>> /\ fifo1[asked] = S.fifo[inv]
      /\ \A j \in Ids \ {inv, asked} : fifo1[j] = S.fifo[j]
  <2>1. <<>> \in Seq(Entry)
    OBVIOUS
  <2> QED BY <1>4, <1>5, <2>1
<1> HIDE DEF inv, asked, tr1, fifo1
<1>10. P \in Phones /\ P.tr = tr1 /\ P.fifo = fifo1 /\ P.leg = S.leg /\ P.told = S.told
  BY <1>5, <1>8, <1>9 DEF Phones
<1> HIDE DEF P
<1>11. ASSUME NEW j \in Ids PROVE Fits(j, P.tr[j], P.fifo[j])
  <2>1. Fits(j, S.tr[j], S.fifo[j]) /\ Fits(inv, S.tr[inv], S.fifo[inv])
    BY <1>4, <1>5
  <2>2. CASE j = inv
    BY <1>4, <1>6, <1>8, <1>10, <2>2 DEF Fits
  <2>3. CASE j = asked
    BY <1>3, <1>4, <1>8, <1>10, <2>1, <2>3 DEF Fits
  <2>4. CASE j # inv /\ j # asked
    BY <1>8, <1>9, <1>10, <2>1, <2>4
  <2> QED BY <2>2, <2>3, <2>4
<1>12. ASSUME b, NEW k \in Callee PROVE Fate(P, k, {}, {})
  <2>1. Fate(S, k, {}, {}) /\ k \in Legs /\ k # 0
    BY <1>1, <1>12, Numbers DEF Good
  <2>2. \A role \in Roles : <<k, role>> \in Ids \ {inv, asked}
    BY <2>1, Pairs DEF inv, asked
  <2>3. "bye" \in Roles /\ "inbye" \in Roles /\ "invite" \in Roles
    BY DEF Roles
  <2>4. \A role \in {"bye", "inbye", "invite"} :
          P.tr[<<k, role>>] = S.tr[<<k, role>>] /\ P.fifo[<<k, role>>] = S.fifo[<<k, role>>]
    BY <1>8, <1>9, <1>10, <2>2, <2>3
  <2>5. P.leg[k] = S.leg[k] /\ P.told[k] = S.told[k]
    BY <1>10
  <2>6. /\ Made(S, <<k, "bye">>) => Made(P, <<k, "bye">>)
        /\ Made(P, <<k, "inbye">>) => Made(S, <<k, "inbye">>)
        /\ P.tr[<<k, "invite">>].last = S.tr[<<k, "invite">>].last
    BY <2>4 DEF Made
  <2> QED BY <2>1, <2>5, <2>6, FateKept
<1>13. Good(P, {}, {}, b)
  BY <1>10, <1>11, <1>12 DEF Good, Sound
<1>14. Good(T, {}, {}, b)
  BY <1>4, <1>7, <1>13, GoodLeg
<1> HIDE DEF T
<1>15. Good(R, {}, {}, b)
  <2>1. "snd_request" \in Events
    BY DEF Events
  <2> QED BY <1>4, <1>14, <2>1, QueueKeeps DEF inv
<1> HIDE DEF R
<1>16. tries' \in [Ids -> 0 .. MaxResend]
  <2>1. tries \in [Ids -> 0 .. MaxResend] /\ 0 \in 0 .. MaxResend
    BY Numbers DEF IInv
  <2> QED BY <1>2, <1>4, <2>1
<1>17. /\ spent' \in [{"lose", "dup", "fail"} -> Nat] /\ read' \in [Sides -> BOOLEAN]
       /\ Good(R, {}, {}, spent'["fail"] = 0)
  BY <1>2, <1>15 DEF IInv
<1> QED BY <1>2, <1>16, <1>17, StepTaken

\* An event that an application has handled.
LEMMA TodoKeeps ==
  ASSUME IInv, NEW e
  PROVE  LET R == [Now EXCEPT !.todo = @ \ {e}] IN
         /\ Good(R, {}, {}, spent["fail"] = 0)
         /\ R.leg = leg /\ R.tr = tr /\ R.told = told
<1> DEFINE b == spent["fail"] = 0
           S == Now
           R == [S EXCEPT !.todo = @ \ {e}]
<1>1. Good(S, {}, {}, b) /\ S \in Phones /\ S.leg = leg /\ S.tr = tr /\ S.told = told
  BY DEF IInv, Good, Sound, Now
<1> HIDE DEF S
<1>2. R \in Phones /\ R.tr = S.tr /\ R.fifo = S.fifo /\ R.leg = S.leg /\ R.told = S.told
  BY <1>1 DEF Phones
<1> HIDE DEF R
<1>3. Sound(R)
  BY <1>1, <1>2 DEF Good, Sound
<1>4. \A k \in Callee : Fate(S, k, {}, {}) => Fate(R, k, {}, {})
  BY <1>2 DEF Fate, Closed, Made
<1>5. Good(R, {}, {}, b)
  BY <1>1, <1>3, <1>4 DEF Good
<1> QED BY <1>1, <1>2, <1>5 DEF R, S

\* sipEventThread on ANSWERED.
LEMMA SendAckStep ==
  ASSUME IInv, SendAck
  PROVE  IInv'
<1> DEFINE b == spent["fail"] = 0
           S == [Now EXCEPT !.todo = @ \ {<<"ANSWERED", 0>>}]
           x == [S.leg[0] EXCEPT !.acked = TRUE]
           T == WithLeg(S, 0, x)
           m == Msg("callee", "ACK", leg[0].rem)
           up == leg[0].call = "up" /\ HasDialog(leg[0])
<1>1. Good(S, {}, {}, b) /\ S.leg = leg
  BY TodoKeeps
<1>2. Become(IF up THEN Put(T, m) ELSE S) /\ AppKeeps
  <2>1. [S EXCEPT !.leg[0].acked = TRUE] = T
    BY Zenon DEF WithLeg
  <2> HIDE DEF T, S
  <2>2. Become(IF up THEN Put([S EXCEPT !.leg[0].acked = TRUE], m) ELSE S) /\ AppKeeps
    BY DEF SendAck, S
  <2> QED BY <2>1, <2>2
<1> HIDE DEF S, up
<1>3. 0 \in Legs /\ 0 \notin Callee /\ S.leg[0] \in Leg
  BY <1>1, Fields, Numbers DEF Good, Sound
<1>4. x \in Leg /\ leg[0].rem \in Legs
  BY <1>1, <1>3 DEF Leg
<1> HIDE DEF x
<1>5. Good(T, {}, {}, b)
  BY <1>1, <1>3, <1>4, GoodLeg
<1> HIDE DEF T
<1>6. m \in Messages
  BY <1>4, ToTheCallee DEF ToCallee
<1> HIDE DEF m
<1>7. CASE up
  <2>1. Good(Put(T, m), {}, {}, b)
    BY <1>5, <1>6, GoodPut
  <2> QED BY <1>2, <1>7, <2>1, CommandTaken
<1>8. CASE ~up
  BY <1>1, <1>2, <1>8, CommandTaken
<1> QED BY <1>7, <1>8

\* sipEventThread on INVITE.
LEMMA SendAnswerStep ==
  ASSUME IInv, NEW k \in Callee, SendAnswer(k)
  PROVE  IInv'
<1> DEFINE b == spent["fail"] = 0
           S == [Now EXCEPT !.todo = @ \ {<<"INVITE", k>>}]
           inv == <<k, "invite">>
           R == AddEvent(S, inv, "snd_1xx", k)
           x == [R.leg[k] EXCEPT !.dlg = "confirmed", !.ok200 = TRUE, !.count = 0]
           T == WithLeg(R, k, x)
           late == leg[k].call # "up" \/ tr[inv].state \in {"completed", "confirmed", "terminated"}
           takes == HasDialog(leg[k]) /\ "refuse" \notin Users
<1>1. Good(S, {}, {}, b) /\ S.leg = leg
  BY TodoKeeps
<1>2. /\ Become(IF late THEN S ELSE IF takes THEN AddEvent(T, inv, "snd_2xx", k)
                ELSE AddEvent(R, inv, "snd_3456xx", k))
      /\ AppKeeps
  <2>1. [R EXCEPT !.leg[k] = [@ EXCEPT !.dlg = "confirmed", !.ok200 = TRUE, !.count = 0]] = T
    BY Zenon DEF WithLeg
  <2> HIDE DEF T
  <2>2. /\ Become(CASE late -> S
                    [] OTHER -> IF takes
                         THEN AddEvent([R EXCEPT !.leg[k] = [@ EXCEPT !.dlg = "confirmed",
                                                                     !.ok200 = TRUE, !.count = 0]],
                                       inv, "snd_2xx", k)
                         ELSE AddEvent(R, inv, "snd_3456xx", k))
        /\ AppKeeps
    BY DEF SendAnswer
  <2> HIDE DEF R, S, late, takes, inv
  <2> QED BY <2>1, <2>2
<1> HIDE DEF S
<1>3. /\ k \in Legs /\ inv \in Ids /\ inv[2] = "invite" /\ 0 \in 0 .. MaxOk
      /\ "snd_1xx" \in Events /\ "snd_2xx" \in Events /\ "snd_3456xx" \in Events
  <2>1. k \in Legs /\ 0 \in 0 .. MaxOk
    BY Numbers
  <2>2. inv \in Ids
    BY <2>1, Pairs DEF Roles
  <2> QED BY <2>1, <2>2 DEF Events
<1>4. Queueable(S, inv, "snd_1xx", {}, b)
  BY <1>3 DEF Queueable
<1> HIDE DEF inv
<1>5. Good(R, {}, {}, b) /\ R.leg = leg /\ R.tr = S.tr /\ R.told = S.told
  BY <1>1, <1>3, <1>4, AddEventKeeps
<1> HIDE DEF R
<1>6. CASE late
  BY <1>1, <1>2, <1>6, CommandTaken
<1>7. CASE ~late /\ takes
  <2>1. R.leg[k] \in Leg /\ R.leg[k].call = "up"
    BY <1>3, <1>5, <1>7, Fields DEF Good, Sound
  <2>2. x \in Leg /\ x.call = "up" /\ x.dlg = "confirmed" /\ x.ok200
    BY <1>3, <2>1 DEF Leg, Dialog
  <2> HIDE DEF x
  <2>3. b => Fate(T, k, {}, {})
    <3>1. SUFFICES ASSUME b PROVE Fate(T, k, {}, {})
      OBVIOUS
    <3>2. Fate(R, k, {}, {})
      BY <1>5, <3>1 DEF Good
    <3>3. /\ T.leg[k] = x /\ T.told = R.told /\ T.tr = R.tr /\ T.fifo = R.fifo
      <4>1. R \in Phones /\ R.leg \in [Legs -> Leg]
        BY <1>5, Fields DEF Good, Sound
      <4>2. /\ T.leg = [R.leg EXCEPT ![k] = x] /\ T.told = R.told /\ T.tr = R.tr
            /\ T.fifo = R.fifo
        BY <1>3, <2>2, <4>1, WithLegKeeps
      <4> HIDE DEF T
      <4> QED BY <1>3, <4>1, <4>2
    <3> HIDE DEF T
    <3> QED BY <2>2, <3>2, <3>3 DEF Fate, Closed, HasDialog, Made
  <2>4. Good(T, {}, {}, b)
    BY <1>3, <1>5, <2>2, <2>3, GoodLeg
  <2> HIDE DEF T
  <2>5. Good(AddEvent(T, inv, "snd_2xx", k), {}, {}, b)
    BY <1>3, <2>4, QueueKeeps DEF inv
  <2> QED BY <1>2, <1>7, <2>5, CommandTaken
<1>8. CASE ~late /\ ~takes
  <2>1. Good(AddEvent(R, inv, "snd_3456xx", k), {}, {}, b)
    BY <1>3, <1>5, QueueKeeps DEF inv
  <2> HIDE DEF late, takes
  <2> QED BY <1>2, <1>8, <2>1, CommandTaken
<1> QED BY <1>6, <1>7, <1>8

\* The BYE of a leg whose dialog goes.
LEMMA WithByeKeeps ==
  ASSUME NEW S, NEW X, NEW Y, NEW b, Good(S, X, Y, b), NEW l \in Legs, NEW x \in Leg,
         x.dlg = "null", x.call = S.leg[l].call
  PROVE  Good(AddEvent(WithLeg(S, l, x), <<l, "bye">>, "snd_request", 0), X, Y, b)
<1> DEFINE T == WithLeg(S, l, x)
           id == <<l, "bye">>
           R == AddEvent(T, id, "snd_request", 0)
           Y1 == Y \cup {l}
<1>1. /\ id \in Ids /\ id[2] = "bye" /\ id[1] = l /\ 0 \in Legs
      /\ "snd_request" \in Events
  BY Numbers, Pairs DEF Roles, Events
<1>2. Good(S, X, Y1, b)
  BY Weaker
<1>3. /\ T.leg[l] = x /\ T.told = S.told /\ T.tr = S.tr /\ T.fifo = S.fifo
  <2>1. S \in Phones /\ S.leg \in [Legs -> Leg]
    BY Fields DEF Good, Sound
  <2>2. T.leg = [S.leg EXCEPT ![l] = x] /\ T.told = S.told /\ T.tr = S.tr /\ T.fifo = S.fifo
    BY <2>1, WithLegKeeps
  <2> HIDE DEF T
  <2> QED BY <2>1, <2>2
<1>4. b /\ l \in Callee => Fate(T, l, X, Y1)
  <2>1. SUFFICES ASSUME b, l \in Callee PROVE Fate(T, l, X, Y1)
    OBVIOUS
  <2>2. Fate(S, l, X, Y1) /\ l \in Y1
    BY <1>2, <2>1 DEF Good
  <2> HIDE DEF T, Y1
  <2> QED BY <1>3, <2>2 DEF Fate, Closed, HasDialog, Made
<1> HIDE DEF Y1
<1>5. Good(T, X, Y1, b)
  BY <1>2, <1>4, GoodLeg
<1> HIDE DEF T, id
<1>6. Queueable(T, id, "snd_request", X, b)
  BY <1>1 DEF Queueable
<1>7. Good(R, X, Y1, b) /\ Made(R, id)
  BY <1>1, <1>5, <1>6, AddEventKeeps
<1> HIDE DEF R
<1>8. Good(R, X, Y, b)
  BY <1>7, Sent DEF id, Y1
<1> QED BY <1>8 DEF R, T, id

\* eXosip_call_terminate for a confirmed dialog.
LEMMA TerminatedKeeps ==
  ASSUME NEW S, NEW X, NEW Y, NEW b, Good(S, X, Y, b), NEW l \in Legs
  PROVE  Good(WithBye(S, l), X, Y, b)
<1> DEFINE x == [S.leg[l] EXCEPT !.dlg = "null"]
<1>1. S.leg[l] \in Leg
  BY Fields DEF Good, Sound
<1>2. x \in Leg /\ x.dlg = "null" /\ x.call = S.leg[l].call
  BY <1>1 DEF Leg, Dialog
<1>3. WithBye(S, l) = AddEvent(WithLeg(S, l, x), <<l, "bye">>, "snd_request", 0)
  <2>1. [S EXCEPT !.leg[l].dlg = "null"] = WithLeg(S, l, x)
    BY Zenon DEF WithLeg
  <2> HIDE DEF x
  <2> QED BY <2>1 DEF WithBye
<1> HIDE DEF x
<1> QED BY <1>2, <1>3, WithByeKeeps

LEMMA TerminateStep ==
  ASSUME IInv, Terminate
  PROVE  IInv'
<1> DEFINE b == spent["fail"] = 0
           S == Now
           early == leg[0].dlg # "confirmed"
<1>1. Good(S, {}, {}, b)
  BY DEF IInv
<1>2. /\ Become(IF early THEN AddEvent(S, <<0, "cancel">>, "snd_request", 0) ELSE WithBye(S, 0))
      /\ AppKeeps
  BY DEF Terminate
<1>3. 0 \in Legs /\ "snd_request" \in Events
  BY Numbers DEF Events
<1> HIDE DEF S, early
<1>4. CASE early
  <2>1. Good(AddEvent(S, <<0, "cancel">>, "snd_request", 0), {}, {}, b)
    BY <1>1, <1>3, QueueKeeps
  <2> QED BY <1>2, <1>4, <2>1, CommandTaken
<1>5. CASE ~early
  <2>1. Good(WithBye(S, 0), {}, {}, b)
    BY <1>1, <1>3, TerminatedKeeps
  <2> QED BY <1>2, <1>5, <2>1, CommandTaken
<1> QED BY <1>4, <1>5

\* main at the callee, command h.
LEMMA HangUpStep ==
  ASSUME IInv, NEW k \in Callee, HangUp(k)
  PROVE  IInv'
<1> DEFINE S == Now
<1>1. Good(S, {}, {}, spent["fail"] = 0)
  BY DEF IInv
<1>2. Become(WithBye(S, k)) /\ AppKeeps
  BY DEF HangUp
<1>3. k \in Legs
  BY Numbers
<1> HIDE DEF S
<1>4. Good(WithBye(S, k), {}, {}, spent["fail"] = 0)
  BY <1>1, <1>3, TerminatedKeeps
<1> QED BY <1>2, <1>4, CommandTaken

\* A 200 that is sent again.
WithFinals(S, f) == [S EXCEPT !.finals = f]

LEMMA FinalsKeeps ==
  ASSUME NEW S, NEW X, NEW Y, NEW b, Good(S, X, Y, b), NEW f \in [Legs -> SUBSET Finals]
  PROVE  Good(WithFinals(S, f), X, Y, b)
<1> DEFINE R == WithFinals(S, f)
<1>1. S \in Phones
  BY DEF Good, Sound
<1>2. R \in Phones /\ R.tr = S.tr /\ R.fifo = S.fifo /\ R.leg = S.leg /\ R.told = S.told
  BY <1>1 DEF WithFinals, Phones
<1> HIDE DEF R
<1>3. Sound(R)
  BY <1>2 DEF Good, Sound
<1>4. \A k \in Callee : Fate(S, k, X, Y) => Fate(R, k, X, Y)
  BY <1>2 DEF Fate, Closed, Made
<1> QED BY <1>3, <1>4 DEF Good, R

LEMMA ResendOkStep ==
  ASSUME IInv, NEW k \in Callee, ResendOk(k)
  PROVE  IInv'
<1> DEFINE b == spent["fail"] = 0
           S == Now
           x == [S.leg[k] EXCEPT !.count = @ + 1]
           T == WithLeg(S, k, x)
           f == [S.finals EXCEPT ![k] = @ \cup {"2xx"}]
           R == WithFinals(T, f)
           m == Msg("caller", "2xx", k)
<1>1. Good(S, {}, {}, b) /\ S.leg = leg
  BY DEF IInv, Now
<1>2. Become(Put(R, m)) /\ AppKeeps /\ leg[k].count < MaxOk
  <2>1. [Now EXCEPT !.leg[k].count = @ + 1, !.finals[k] = @ \cup {"2xx"}] = R
    BY DEF WithLeg, WithFinals, Now
  <2> QED BY <2>1 DEF ResendOk
<1> HIDE DEF S
<1>3. k \in Legs /\ S.leg[k] \in Leg /\ S.finals \in [Legs -> SUBSET Finals]
  BY <1>1, Fields, Numbers DEF Good, Sound
<1>4. x \in Leg /\ x.call = S.leg[k].call /\ x.dlg = S.leg[k].dlg /\ x.ok200 = S.leg[k].ok200
  <2>1. S.leg[k].count \in 0 .. MaxOk /\ MaxOk \in Nat
    BY <1>3, Numbers DEF Leg
  <2>2. S.leg[k].count + 1 \in 0 .. MaxOk
    BY <1>1, <1>2, <2>1
  <2> QED BY <1>3, <2>2 DEF Leg
<1> HIDE DEF x
<1>5. b => Fate(T, k, {}, {})
  <2>1. SUFFICES ASSUME b PROVE Fate(T, k, {}, {})
    OBVIOUS
  <2>2. Fate(S, k, {}, {})
    BY <1>1, <2>1 DEF Good
  <2>3. T.leg = [S.leg EXCEPT ![k] = x] /\ T.told = S.told /\ T.tr = S.tr /\ T.fifo = S.fifo
    BY <1>1, <1>3, <1>4, WithLegKeeps DEF Good, Sound
  <2> HIDE DEF T
  <2>4. T.leg[k] = x
    BY <1>1, <1>3, <2>3, Fields DEF Good, Sound
  <2> QED BY <1>4, <2>2, <2>3, <2>4 DEF Fate, Closed, HasDialog, Made
<1>6. Good(T, {}, {}, b)
  BY <1>1, <1>3, <1>4, <1>5, GoodLeg
<1> HIDE DEF T
<1>7. f \in [Legs -> SUBSET Finals]
  BY <1>3 DEF Finals
<1> HIDE DEF f
<1>8. Good(R, {}, {}, b)
  BY <1>6, <1>7, FinalsKeeps
<1> HIDE DEF R
<1>9. m \in Messages
  BY <1>3, ToTheCaller DEF ToCaller
<1> HIDE DEF m
<1>10. Good(Put(R, m), {}, {}, b)
  BY <1>8, <1>9, GoodPut
<1> QED BY <1>2, <1>10, CommandTaken

\* The 200 was sent for the last time.
LEMMA GiveUpStep ==
  ASSUME IInv, NEW k \in Callee, GiveUp(k)
  PROVE  IInv'
<1> DEFINE b == spent["fail"] = 0
           S == Now
           x == [S.leg[k] EXCEPT !.ok200 = FALSE, !.count = 0]
           P == WithLeg(S, k, x)
           y == [x EXCEPT !.dlg = "null"]
           T == WithLeg(S, k, y)
           R == AddEvent(T, <<k, "bye">>, "snd_request", 0)
<1>1. Good(S, {}, {}, b)
  BY DEF IInv
<1>2. Become(Report(WithBye(P, k), k, "CLOSED")) /\ AppKeeps
  <2>1. [Now EXCEPT !.leg[k] = [@ EXCEPT !.ok200 = FALSE, !.count = 0]] = P
    BY Zenon DEF WithLeg
  <2> HIDE DEF P
  <2> QED BY <2>1 DEF GiveUp
<1> HIDE DEF S
<1>3. k \in Legs /\ S.leg \in [Legs -> Leg] /\ S.leg[k] \in Leg /\ S \in Phones
  BY <1>1, Fields, Numbers DEF Good, Sound
<1>4. x \in Leg /\ x.call = S.leg[k].call
  <2>1. 0 \in 0 .. MaxOk
    BY Numbers
  <2> QED BY <1>3, <2>1 DEF Leg
<1> HIDE DEF x
<1>5. y \in Leg /\ y.dlg = "null" /\ y.call = S.leg[k].call
  BY <1>4 DEF Leg, Dialog
<1>6. WithBye(P, k) = R
  <2>1. P \in Phones /\ P.leg = [S.leg EXCEPT ![k] = x]
    BY <1>3, <1>4, WithLegKeeps
  <2>2. P.leg[k] = x
    BY <1>3, <2>1
  <2>3. [P EXCEPT !.leg[k].dlg = "null"] = WithLeg(P, k, [P.leg[k] EXCEPT !.dlg = "null"])
    BY Zenon DEF WithLeg
  <2>4. WithLeg(P, k, y) = T
    <3>1. [P.leg EXCEPT ![k] = y] = [S.leg EXCEPT ![k] = y]
      BY <1>3, <2>1
    <3> HIDE DEF y
    <3> QED BY <1>3, <3>1 DEF WithLeg, Phones
  <2>5. [P EXCEPT !.leg[k].dlg = "null"] = T
    BY <2>2, <2>3, <2>4
  <2> HIDE DEF P, T
  <2> QED BY <2>5 DEF WithBye
<1> HIDE DEF y
<1>7. Good(R, {}, {}, b)
  BY <1>1, <1>3, <1>5, WithByeKeeps
<1> HIDE DEF P, R
<1>8. Good(Report(R, k, "CLOSED"), {}, {}, b)
  <2>1. "CLOSED" \in News \ {"INVITE"}
    BY DEF News
  <2> QED BY <1>3, <1>7, <2>1, GoodReport
<1> QED BY <1>2, <1>6, <1>8, CommandTaken

-----------------------------------------------------------------------------
(* What holds of every behaviour                                           *)

LEMMA NextKeeps ==
  ASSUME IInv, [Next]_vars
  PROVE  IInv'
<1>1. CASE \E m \in net : Receive(m)
  BY <1>1, ReceiveStep
<1>2. CASE \E side \in Sides : Pass(side)
  BY <1>2, PassStep
<1>3. CASE Elapse
  BY <1>3, ElapseStep
<1>4. CASE AutomaticAction
  BY <1>4, RetryStep
<1>5. CASE SendAck
  BY <1>5, SendAckStep
<1>6. CASE \E k \in Callee : SendAnswer(k)
  BY <1>6, SendAnswerStep
<1>7. CASE \E k \in Callee : ResendOk(k)
  BY <1>7, ResendOkStep
<1>8. CASE \E k \in Callee : GiveUp(k)
  BY <1>8, GiveUpStep
<1>9. CASE \E m \in net : Lose(m)
  BY <1>9, LoseStep
<1>10. CASE Call
  BY <1>10, CallStep
<1>11. CASE Terminate
  BY <1>11, TerminateStep
<1>12. CASE \E k \in Callee : HangUp(k)
  BY <1>12, HangUpStep
<1>13. CASE UNCHANGED vars
  <2>1. /\ world' = world /\ spent' = spent /\ tries' = tries /\ read' = read /\ Now' = Now
    BY <1>13 DEF vars, history, Now
  <2> QED BY <2>1 DEF IInv
<1> QED BY <1>1, <1>2, <1>3, <1>4, <1>5, <1>6, <1>7, <1>8, <1>9, <1>10, <1>11, <1>12, <1>13
        DEF Next, Progress

LEMMA InitKeeps ==
  ASSUME Init
  PROVE  IInv
<1> DEFINE S == Now
<1>1. /\ world \in Trials /\ spent \in [{"lose", "dup", "fail"} -> Nat]
      /\ read \in [Sides -> BOOLEAN]
  BY DEF Init
<1>2. tries \in [Ids -> 0 .. MaxResend]
  <2>1. 0 \in 0 .. MaxResend
    BY Numbers
  <2> QED BY <2>1 DEF Init
<1>3. /\ \A id \in Ids : New(KindOf(id)) \in Transaction /\ New(KindOf(id)).kind = KindOf(id)
                         /\ New(KindOf(id)).state = "pre" /\ New(KindOf(id)).last = "none"
  <2>1. SUFFICES ASSUME NEW id \in Ids
                 PROVE  /\ New(KindOf(id)) \in Transaction /\ New(KindOf(id)).kind = KindOf(id)
                        /\ New(KindOf(id)).state = "pre" /\ New(KindOf(id)).last = "none"
    OBVIOUS
  <2>2. KindOf(id) \in Kinds
    BY IdParts, KindsOf DEF Kinds, Roles
  <2> QED BY <2>2 DEF New, Transaction, States
<1>4. tr \in [Ids -> Transaction] /\ \A id \in Ids : tr[id] = New(KindOf(id))
  BY <1>3 DEF Init
<1>5. fifo \in [Ids -> Seq(Entry)] /\ \A id \in Ids : fifo[id] = <<>>
  <2>1. <<>> \in Seq(Entry)
    OBVIOUS
  <2> HIDE DEF Entry
  <2> QED BY <2>1 DEF Init
<1>6. NoLeg \in Leg
  BY Numbers DEF NoLeg, Leg, Dialog
<1>7. leg \in [Legs -> Leg] /\ \A l \in Legs : leg[l] = NoLeg
  BY <1>6 DEF Init
<1>8. /\ net \subseteq Messages /\ todo \subseteq {"ANSWERED", "INVITE"} \X Legs
      /\ told \in [Legs -> SUBSET News] /\ again \in [Legs -> SUBSET News]
      /\ finals \in [Legs -> SUBSET Finals] /\ \A l \in Legs : told[l] = {}
  BY DEF Init
<1>9. S \in Phones /\ S.tr = tr /\ S.fifo = fifo /\ S.leg = leg /\ S.told = told
  BY <1>4, <1>5, <1>7, <1>8 DEF Now, Phones
<1> HIDE DEF S
<1>10. \A id \in Ids : Fits(id, S.tr[id], S.fifo[id])
  BY <1>3, <1>4, <1>5, <1>9 DEF Fits
<1>11. ASSUME NEW k \in Callee PROVE Fate(S, k, {}, {})
  <2>1. k \in Legs /\ \A role \in {"bye", "inbye", "invite"} : <<k, role>> \in Ids
    BY Numbers, Pairs DEF Roles
  <2>2. /\ ~Made(S, <<k, "inbye">>) /\ S.tr[<<k, "invite">>].last = "none"
        /\ S.leg[k] = NoLeg /\ S.told[k] = {}
    BY <1>3, <1>4, <1>5, <1>7, <1>8, <1>9, <2>1 DEF Made
  <2> QED BY <2>2 DEF Fate, NoLeg, HasDialog
<1>12. Good(S, {}, {}, spent["fail"] = 0)
  BY <1>9, <1>10, <1>11 DEF Good, Sound
<1> QED BY <1>1, <1>2, <1>12 DEF IInv, S

\* What no step breaks: transactions, queues and dialogs are what the handlers take
\* them for, and while nothing has failed to be sent, a leg of the callee without a
\* dialog is one its application was told of or hung up itself.
THEOREM Invariant == Spec => []IInv
<1>1. Init => IInv
  BY InitKeeps
<1>2. IInv /\ [Next]_vars => IInv'
  BY NextKeeps
<1> QED BY <1>1, <1>2, PTL DEF Spec

\* Every transaction, queue, dialog and counter of the two phones stays in its range,
\* whatever arrives, is lost or comes late: a transaction keeps its machine, the tags
\* are those of legs, and the resends and retries never pass their limits.
THEOREM CallTypeCorrect == Spec => []TypeOK
<1>1. IInv => TypeOK
  <2>1. SUFFICES ASSUME IInv PROVE TypeOK
    OBVIOUS
  <2> DEFINE S == Now
  <2>2. S \in Phones /\ \A id \in Ids : Fits(id, S.tr[id], S.fifo[id])
    BY <2>1 DEF IInv, Good, Sound
  <2>3. /\ S.tr = tr /\ S.fifo = fifo /\ S.net = net /\ S.leg = leg /\ S.todo = todo
        /\ S.told = told /\ S.again = again /\ S.finals = finals
    BY DEF Now
  <2> HIDE DEF S
  <2>4. /\ tr \in [Ids -> Transaction] /\ fifo \in [Ids -> Seq(Entry)]
        /\ net \subseteq Messages /\ leg \in [Legs -> Leg]
        /\ todo \subseteq {"ANSWERED", "INVITE"} \X Legs
        /\ told \in [Legs -> SUBSET News] /\ again \in [Legs -> SUBSET News]
        /\ finals \in [Legs -> SUBSET Finals]
    BY <2>2, <2>3, Fields
  <2>5. \A id \in Ids : tr[id].kind = KindOf(id) /\ fifo[id] \in Seq([e : Events, leg : Legs])
    BY <2>2, <2>3, <2>4 DEF Fits, Entry
  <2> QED BY <2>1, <2>4, <2>5 DEF IInv, TypeOK
<1> QED BY <1>1, Invariant, PTL

\* In the end the application of the callee knows what became of each call, for any
\* number of legs, resends and copies: a confirmed dialog was acknowledged, because
\* the 200 is sent again until it is or the callee gives up; and a call it was told
\* of and that has no dialog any more was closed for it, or it sent a BYE itself.
THEOREM CalleeKnows == Spec => []NewsComplete
<1>1. IInv => NewsComplete
  <2>1. SUFFICES ASSUME IInv, Still, spent["fail"] = 0, NEW k \in Callee
                 PROVE  /\ leg[k].dlg = "confirmed" => "ACK" \in told[k]
                        /\ "INVITE" \in told[k] /\ ~HasDialog(leg[k]) =>
                             "CLOSED" \in told[k] \/ Made(Now, <<k, "bye">>)
    BY DEF NewsComplete
  <2> DEFINE S == Now
  <2>2. Fate(S, k, {}, {}) /\ S.leg = leg /\ S.told = told
    BY <2>1 DEF IInv, Good, Now
  <2>3. ~(leg[k].call = "up" /\ HasDialog(leg[k]) /\ leg[k].ok200)
    BY <2>1 DEF Still, NoOk
  <2> HIDE DEF S
  <2>4. leg[k].dlg = "confirmed" => "ACK" \in told[k]
    BY <2>2, <2>3 DEF Fate, HasDialog
  <2>5. "INVITE" \in told[k] /\ ~HasDialog(leg[k]) => "CLOSED" \in told[k] \/ Made(S, <<k, "bye">>)
    BY <2>2 DEF Fate, Closed
  <2> QED BY <2>4, <2>5 DEF S
<1> QED BY <1>1, Invariant, PTL
=============================================================================
