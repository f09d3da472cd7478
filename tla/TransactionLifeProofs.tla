------------------------ MODULE TransactionLifeProofs ------------------------
(* What is proved of TransactionLife, for every MaxQueue.                  *)
EXTENDS TransactionLife, TLAPS

Open == {"pre", "calling", "trying", "proceeding"}
Done == {"completed", "confirmed"}

-----------------------------------------------------------------------------
(* What one event does to a transaction s: one of six things.              *)

Nothing(s, r) == r.tr = s /\ r.out = "none" /\ r.tell = "none"

GoesOn(s, r) ==
  /\ s.state \in Open /\ r.tr.state \in Open
  /\ r.tr.last \notin Finals
  /\ r.out \in {"none", "request", "response"}
  /\ r.tell \notin Finals \cup {"timeout", "error"}

Concludes(s, r) ==
  /\ s.state \in Open /\ r.tr.state \in Done \cup {"terminated"}
  /\ r.tell \in Finals /\ r.tr.last = r.tell
  /\ \/ s.kind = "ICT" /\ r.tr.state \in Done /\ r.out = "ack"
     \/ s.kind = "ICT" /\ r.tr.state = "terminated" /\ r.out = "none"
     \/ s.kind = "NICT" /\ r.out = "none"
     \/ s.kind \in {"IST", "NIST"} /\ r.out = "response"

Fails(s, r) ==
  /\ s.state \in Open \cup Done /\ r.tr.state = "terminated"
  /\ r.out = "none"
  /\ r.tell = "error" \/ (r.tell = "timeout" /\ s.state \in Open)

Finishes(s, r) ==
  s.state \in Done /\ r.tr.state = "terminated" /\ r.out = "none" /\ r.tell = "none"

Repeats(s, r) ==
  /\ s.state \in Done /\ r.tr.state \in Done /\ r.tr.last = s.last
  /\ r.tell \notin Finals \cup {"timeout", "error"}
  /\ \/ r.out = "none"
     \/ s.kind = "ICT" /\ r.out = "ack"
     \/ s.kind \in {"IST", "NIST"} /\ r.out = "response"

Effect(s, r) ==
  /\ r.tr \in Transaction /\ r.tr.kind = s.kind
  /\ \/ Nothing(s, r) \/ GoesOn(s, r) \/ Concludes(s, r)
     \/ Fails(s, r) \/ Finishes(s, r) \/ Repeats(s, r)

\* A transaction as it is found: no final answer before it is known.
Sound(s) == s \in Transaction /\ (s.state \in Open => s.last \notin Finals)

\* The machine of an INVITE that was sent.
LEMMA InviteClient ==
  ASSUME NEW s, Sound(s), s.kind = "ICT", NEW e, NEW i \in Outcomes
  PROVE  Effect(s, ict_transition(s, e, i))
<1>1. CASE s.state = "pre" /\ e = "snd_request"
  <2>1. Effect(s, ict_snd_invite(s, i))
    BY <1>1 DEF Result, To, TransportError, Wire, ict_snd_invite,
       Effect, Sound, GoesOn, Fails,
       Open, Done, Transaction, States, Outcomes, Finals, Responses
  <2>2. ict_transition(s, e, i) = ict_snd_invite(s, i)
    BY <1>1 DEF ict_transition
  <2> QED
    BY <2>1, <2>2
<1>2. CASE s.state = "calling" /\ e = "A"
  <2>1. Effect(s, osip_ict_timeout_a_event(s, i))
    BY <1>2 DEF Result, To, TransportError, Wire, osip_ict_timeout_a_event,
       Effect, Sound, GoesOn, Fails,
       Open, Done, Transaction, States, Outcomes, Finals, Responses
  <2>2. ict_transition(s, e, i) = osip_ict_timeout_a_event(s, i)
    BY <1>2 DEF ict_transition
  <2> QED
    BY <2>1, <2>2
<1>3. CASE s.state = "calling" /\ e = "B"
  <2>1. Effect(s, osip_ict_timeout_b_event(s))
    BY <1>3 DEF Disarm, Gone, Result, To, osip_ict_timeout_b_event,
       Effect, Sound, Fails,
       Open, Done, Transaction, States, Outcomes, Finals, Responses
  <2>2. ict_transition(s, e, i) = osip_ict_timeout_b_event(s)
    BY <1>3 DEF ict_transition
  <2> QED
    BY <2>1, <2>2
<1>4. CASE s.state \in {"calling", "proceeding"} /\ e = "rcv_1xx"
  <2>1. Effect(s, ict_rcv_1xx(s))
    BY <1>4 DEF Result, ict_rcv_1xx,
       Effect, Sound, GoesOn,
       Open, Done, Transaction, States, Outcomes, Finals, Responses
  <2>2. ict_transition(s, e, i) = ict_rcv_1xx(s)
    BY <1>4 DEF ict_transition
  <2> QED
    BY <2>1, <2>2
<1>5. CASE s.state \in {"calling", "proceeding"} /\ e = "rcv_2xx"
  <2>1. Effect(s, ict_rcv_2xx(s))
    BY <1>5 DEF Result, ict_rcv_2xx,
       Effect, Sound, Concludes,
       Open, Done, Transaction, States, Outcomes, Finals, Responses
  <2>2. ict_transition(s, e, i) = ict_rcv_2xx(s)
    BY <1>5 DEF ict_transition
  <2> QED
    BY <2>1, <2>2
<1>6. CASE s.state \in {"calling", "proceeding"} /\ e = "rcv_3456xx"
  <2>1. Effect(s, ict_rcv_3456xx(s, i))
    BY <1>6 DEF Arm, Result, To, TransportError, ict_rcv_3456xx,
       Effect, Sound, Concludes, Fails,
       Open, Done, Transaction, States, Outcomes, Finals, Responses
  <2>2. ict_transition(s, e, i) = ict_rcv_3456xx(s, i)
    BY <1>6 DEF ict_transition
  <2> QED
    BY <2>1, <2>2
<1>7. CASE s.state = "completed" /\ e = "rcv_3456xx"
  <2>1. Effect(s, ict_retransmit_ack(s, i))
    BY <1>7 DEF Result, To, TransportError, ict_retransmit_ack,
       Effect, Sound, Repeats, Fails,
       Open, Done, Transaction, States, Outcomes, Finals, Responses
  <2>2. ict_transition(s, e, i) = ict_retransmit_ack(s, i)
    BY <1>7 DEF ict_transition
  <2> QED
    BY <2>1, <2>2
<1>8. CASE s.state = "completed" /\ e = "D"
  <2>1. Effect(s, osip_ict_timeout_d_event(s))
    BY <1>8 DEF Disarm, Gone, Result, To, osip_ict_timeout_d_event,
       Effect, Sound, Finishes,
       Open, Done, Transaction, States, Outcomes, Finals, Responses
  <2>2. ict_transition(s, e, i) = osip_ict_timeout_d_event(s)
    BY <1>8 DEF ict_transition
  <2> QED
    BY <2>1, <2>2
<1>9. CASE ~((s.state = "pre" /\ e = "snd_request")
            \/ (s.state = "calling" /\ e = "A")
            \/ (s.state = "calling" /\ e = "B")
            \/ (s.state \in {"calling", "proceeding"} /\ e = "rcv_1xx")
            \/ (s.state \in {"calling", "proceeding"} /\ e = "rcv_2xx")
            \/ (s.state \in {"calling", "proceeding"} /\ e = "rcv_3456xx")
            \/ (s.state = "completed" /\ e = "rcv_3456xx")
            \/ (s.state = "completed" /\ e = "D"))
  <2>1. ict_transition(s, e, i) = Useless(s)
    BY <1>9 DEF ict_transition
  <2> QED
    BY <2>1 DEF Useless, Result, Effect, Sound, Nothing
<1> QED
  BY <1>1, <1>2, <1>3, <1>4, <1>5, <1>6, <1>7, <1>8, <1>9

\* The machine of an INVITE that came in.
LEMMA InviteServer ==
  ASSUME NEW s, Sound(s), s.kind = "IST", NEW e, NEW i \in Outcomes
  PROVE  Effect(s, ist_transition(s, e, i))
<1>1. CASE s.state \in {"pre", "proceeding", "completed"} /\ e = "rcv_request"
  <2>1. Effect(s, ist_rcv_invite(s, i))
    BY <1>1 DEF AnswerAgain, Result, To, TransportError, ist_rcv_invite,
       Effect, Sound, GoesOn, Repeats, Fails,
       Open, Done, Transaction, States, Outcomes, Finals, Responses
  <2>2. ist_transition(s, e, i) = ist_rcv_invite(s, i)
    BY <1>1 DEF ist_transition
  <2> QED
    BY <2>1, <2>2
<1>2. CASE s.state = "proceeding" /\ e = "snd_1xx"
  <2>1. Effect(s, ist_snd_1xx(s, i))
    BY <1>2 DEF Answer, Arm, Result, To, TransportError, ist_snd_1xx,
       Effect, Sound, GoesOn, Fails,
       Open, Done, Transaction, States, Outcomes, Finals, Responses
  <2>2. ist_transition(s, e, i) = ist_snd_1xx(s, i)
    BY <1>2 DEF ist_transition
  <2> QED
    BY <2>1, <2>2
<1>3. CASE s.state = "proceeding" /\ e = "snd_2xx"
  <2>1. Effect(s, ist_snd_2xx(s, i))
    BY <1>3 DEF Answer, Arm, Result, To, TransportError, ist_snd_2xx,
       Effect, Sound, Concludes, Fails,
       Open, Done, Transaction, States, Outcomes, Finals, Responses
  <2>2. ist_transition(s, e, i) = ist_snd_2xx(s, i)
    BY <1>3 DEF ist_transition
  <2> QED
    BY <2>1, <2>2
<1>4. CASE s.state = "proceeding" /\ e = "snd_3456xx"
  <2>1. Effect(s, ist_snd_3456xx(s, i))
    BY <1>4 DEF Answer, Arm, Result, To, TransportError, ist_snd_3456xx,
       Effect, Sound, Concludes, Fails,
       Open, Done, Transaction, States, Outcomes, Finals, Responses
  <2>2. ist_transition(s, e, i) = ist_snd_3456xx(s, i)
    BY <1>4 DEF ist_transition
  <2> QED
    BY <2>1, <2>2
<1>5. CASE s.state = "completed" /\ e = "G"
  <2>1. Effect(s, osip_ist_timeout_g_event(s, i))
    BY <1>5 DEF Result, To, TransportError, osip_ist_timeout_g_event,
       Effect, Sound, Repeats, Fails,
       Open, Done, Transaction, States, Outcomes, Finals, Responses
  <2>2. ist_transition(s, e, i) = osip_ist_timeout_g_event(s, i)
    BY <1>5 DEF ist_transition
  <2> QED
    BY <2>1, <2>2
<1>6. CASE s.state = "completed" /\ e = "H"
  <2>1. Effect(s, osip_ist_timeout_h_event(s))
    BY <1>6 DEF Disarm, Gone, Result, To, osip_ist_timeout_h_event,
       Effect, Sound, Finishes,
       Open, Done, Transaction, States, Outcomes, Finals, Responses
  <2>2. ist_transition(s, e, i) = osip_ist_timeout_h_event(s)
    BY <1>6 DEF ist_transition
  <2> QED
    BY <2>1, <2>2
<1>7. CASE s.state \in {"completed", "confirmed"} /\ e = "rcv_ack"
  <2>1. Effect(s, ist_rcv_ack(s))
    BY <1>7 DEF Arm, Result, To, ist_rcv_ack,
       Effect, Sound, Repeats,
       Open, Done, Transaction, States, Outcomes, Finals, Responses
  <2>2. ist_transition(s, e, i) = ist_rcv_ack(s)
    BY <1>7 DEF ist_transition
  <2> QED
    BY <2>1, <2>2
<1>8. CASE s.state = "confirmed" /\ e = "I"
  <2>1. Effect(s, osip_ist_timeout_i_event(s))
    BY <1>8 DEF Disarm, Gone, Result, To, osip_ist_timeout_i_event,
       Effect, Sound, Finishes,
       Open, Done, Transaction, States, Outcomes, Finals, Responses
  <2>2. ist_transition(s, e, i) = osip_ist_timeout_i_event(s)
    BY <1>8 DEF ist_transition
  <2> QED
    BY <2>1, <2>2
<1>9. CASE ~((s.state \in {"pre", "proceeding", "completed"} /\ e = "rcv_request")
            \/ (s.state = "proceeding" /\ e = "snd_1xx")
            \/ (s.state = "proceeding" /\ e = "snd_2xx")
            \/ (s.state = "proceeding" /\ e = "snd_3456xx")
            \/ (s.state = "completed" /\ e = "G")
            \/ (s.state = "completed" /\ e = "H")
            \/ (s.state \in {"completed", "confirmed"} /\ e = "rcv_ack")
            \/ (s.state = "confirmed" /\ e = "I"))
  <2>1. ist_transition(s, e, i) = Useless(s)
    BY <1>9 DEF ist_transition
  <2> QED
    BY <2>1 DEF Useless, Result, Effect, Sound, Nothing
<1> QED
  BY <1>1, <1>2, <1>3, <1>4, <1>5, <1>6, <1>7, <1>8, <1>9

\* The machine of another request that was sent.
LEMMA OtherClient ==
  ASSUME NEW s, Sound(s), s.kind = "NICT", NEW e, NEW i \in Outcomes
  PROVE  Effect(s, nict_transition(s, e, i))
<1>1. CASE s.state = "pre" /\ e = "snd_request"
  <2>1. Effect(s, nict_snd_request(s, i))
    BY <1>1 DEF Arm, Result, To, TransportError, Wire, nict_snd_request,
       Effect, Sound, GoesOn, Fails,
       Open, Done, Transaction, States, Outcomes, Finals, Responses
  <2>2. nict_transition(s, e, i) = nict_snd_request(s, i)
    BY <1>1 DEF nict_transition
  <2> QED
    BY <2>1, <2>2
<1>2. CASE s.state \in {"trying", "proceeding"} /\ e = "F"
  <2>1. Effect(s, osip_nict_timeout_f_event(s))
    BY <1>2 DEF Disarm, Gone, Result, To, osip_nict_timeout_f_event,
       Effect, Sound, Fails,
       Open, Done, Transaction, States, Outcomes, Finals, Responses
  <2>2. nict_transition(s, e, i) = osip_nict_timeout_f_event(s)
    BY <1>2 DEF nict_transition
  <2> QED
    BY <2>1, <2>2
<1>3. CASE s.state \in {"trying", "proceeding"} /\ e = "E"
  <2>1. Effect(s, osip_nict_timeout_e_event(s, i))
    BY <1>3 DEF Result, To, TransportError, Wire, osip_nict_timeout_e_event,
       Effect, Sound, GoesOn, Fails,
       Open, Done, Transaction, States, Outcomes, Finals, Responses
  <2>2. nict_transition(s, e, i) = osip_nict_timeout_e_event(s, i)
    BY <1>3 DEF nict_transition
  <2> QED
    BY <2>1, <2>2
<1>4. CASE s.state \in {"trying", "proceeding"} /\ e = "rcv_1xx"
  <2>1. Effect(s, nict_rcv_1xx(s))
    BY <1>4 DEF Result, nict_rcv_1xx,
       Effect, Sound, GoesOn,
       Open, Done, Transaction, States, Outcomes, Finals, Responses
  <2>2. nict_transition(s, e, i) = nict_rcv_1xx(s)
    BY <1>4 DEF nict_transition
  <2> QED
    BY <2>1, <2>2
<1>5. CASE s.state \in {"trying", "proceeding"} /\ e = "rcv_2xx"
  <2>1. Effect(s, nict_rcv_23456xx(s, "2xx"))
    BY <1>5 DEF Arm, Result, nict_rcv_23456xx,
       Effect, Sound, Concludes,
       Open, Done, Transaction, States, Outcomes, Finals, Responses
  <2>2. nict_transition(s, e, i) = nict_rcv_23456xx(s, "2xx")
    BY <1>5 DEF nict_transition
  <2> QED
    BY <2>1, <2>2
<1>6. CASE s.state \in {"trying", "proceeding"} /\ e = "rcv_3456xx"
  <2>1. Effect(s, nict_rcv_23456xx(s, "3456xx"))
    BY <1>6 DEF Arm, Result, nict_rcv_23456xx,
       Effect, Sound, Concludes,
       Open, Done, Transaction, States, Outcomes, Finals, Responses
  <2>2. nict_transition(s, e, i) = nict_rcv_23456xx(s, "3456xx")
    BY <1>6 DEF nict_transition
  <2> QED
    BY <2>1, <2>2
<1>7. CASE s.state = "completed" /\ e = "K"
  <2>1. Effect(s, osip_nict_timeout_k_event(s))
    BY <1>7 DEF Disarm, Gone, Result, To, osip_nict_timeout_k_event,
       Effect, Sound, Finishes,
       Open, Done, Transaction, States, Outcomes, Finals, Responses
  <2>2. nict_transition(s, e, i) = osip_nict_timeout_k_event(s)
    BY <1>7 DEF nict_transition
  <2> QED
    BY <2>1, <2>2
<1>8. CASE ~((s.state = "pre" /\ e = "snd_request")
            \/ (s.state \in {"trying", "proceeding"} /\ e = "F")
            \/ (s.state \in {"trying", "proceeding"} /\ e = "E")
            \/ (s.state \in {"trying", "proceeding"} /\ e = "rcv_1xx")
            \/ (s.state \in {"trying", "proceeding"} /\ e = "rcv_2xx")
            \/ (s.state \in {"trying", "proceeding"} /\ e = "rcv_3456xx")
            \/ (s.state = "completed" /\ e = "K"))
  <2>1. nict_transition(s, e, i) = Useless(s)
    BY <1>8 DEF nict_transition
  <2> QED
    BY <2>1 DEF Useless, Result, Effect, Sound, Nothing
<1> QED
  BY <1>1, <1>2, <1>3, <1>4, <1>5, <1>6, <1>7, <1>8

\* The machine of another request that came in.
LEMMA OtherServer ==
  ASSUME NEW s, Sound(s), s.kind = "NIST", NEW e, NEW i \in Outcomes
  PROVE  Effect(s, nist_transition(s, e, i))
<1>1. CASE s.state \in {"pre", "proceeding", "completed"} /\ e = "rcv_request"
  <2>1. Effect(s, nist_rcv_request(s, i))
    BY <1>1 DEF AnswerAgain, Result, To, TransportError, nist_rcv_request,
       Effect, Sound, GoesOn, Repeats, Fails,
       Open, Done, Transaction, States, Outcomes, Finals, Responses
  <2>2. nist_transition(s, e, i) = nist_rcv_request(s, i)
    BY <1>1 DEF nist_transition
  <2> QED
    BY <2>1, <2>2
<1>2. CASE s.state \in {"trying", "proceeding"} /\ e = "snd_1xx"
  <2>1. Effect(s, nist_snd_1xx(s, i))
    BY <1>2 DEF Answer, Arm, Result, To, TransportError, nist_snd_1xx,
       Effect, Sound, GoesOn, Fails,
       Open, Done, Transaction, States, Outcomes, Finals, Responses
  <2>2. nist_transition(s, e, i) = nist_snd_1xx(s, i)
    BY <1>2 DEF nist_transition
  <2> QED
    BY <2>1, <2>2
<1>3. CASE s.state \in {"trying", "proceeding"} /\ e = "snd_2xx"
  <2>1. Effect(s, nist_snd_23456xx(s, "2xx", i))
    BY <1>3 DEF Answer, Arm, Result, To, TransportError, nist_snd_23456xx,
       Effect, Sound, Concludes, Fails,
       Open, Done, Transaction, States, Outcomes, Finals, Responses
  <2>2. nist_transition(s, e, i) = nist_snd_23456xx(s, "2xx", i)
    BY <1>3 DEF nist_transition
  <2> QED
    BY <2>1, <2>2
<1>4. CASE s.state \in {"trying", "proceeding"} /\ e = "snd_3456xx"
  <2>1. Effect(s, nist_snd_23456xx(s, "3456xx", i))
    BY <1>4 DEF Answer, Arm, Result, To, TransportError, nist_snd_23456xx,
       Effect, Sound, Concludes, Fails,
       Open, Done, Transaction, States, Outcomes, Finals, Responses
  <2>2. nist_transition(s, e, i) = nist_snd_23456xx(s, "3456xx", i)
    BY <1>4 DEF nist_transition
  <2> QED
    BY <2>1, <2>2
<1>5. CASE s.state = "completed" /\ e = "J"
  <2>1. Effect(s, osip_nist_timeout_j_event(s))
    BY <1>5 DEF Disarm, Gone, Result, To, osip_nist_timeout_j_event,
       Effect, Sound, Finishes,
       Open, Done, Transaction, States, Outcomes, Finals, Responses
  <2>2. nist_transition(s, e, i) = osip_nist_timeout_j_event(s)
    BY <1>5 DEF nist_transition
  <2> QED
    BY <2>1, <2>2
<1>6. CASE ~((s.state \in {"pre", "proceeding", "completed"} /\ e = "rcv_request")
            \/ (s.state \in {"trying", "proceeding"} /\ e = "snd_1xx")
            \/ (s.state \in {"trying", "proceeding"} /\ e = "snd_2xx")
            \/ (s.state \in {"trying", "proceeding"} /\ e = "snd_3456xx")
            \/ (s.state = "completed" /\ e = "J"))
  <2>1. nist_transition(s, e, i) = Useless(s)
    BY <1>6 DEF nist_transition
  <2> QED
    BY <2>1 DEF Useless, Result, Effect, Sound, Nothing
<1> QED
  BY <1>1, <1>2, <1>3, <1>4, <1>5, <1>6

\* One event, whatever the kind.
LEMMA ExecuteEffect ==
  ASSUME NEW s, Sound(s), NEW e, NEW i \in Outcomes
  PROVE  Effect(s, Execute(s, e, i))
<1>1. s.kind \in Kinds
  BY DEF Sound, Transaction
<1>2. CASE s.kind = "ICT"
  BY <1>2, InviteClient DEF Execute
<1>3. CASE s.kind = "IST"
  BY <1>3, InviteServer DEF Execute
<1>4. CASE s.kind = "NICT"
  BY <1>4, OtherClient DEF Execute
<1>5. CASE s.kind = "NIST"
  BY <1>5, OtherServer DEF Execute
<1> QED
  BY <1>1, <1>2, <1>3, <1>4, <1>5 DEF Kinds

-----------------------------------------------------------------------------
(* The inductive invariant: the two histories follow from the state of the *)
(* transaction as long as it is not over.                                  *)

Settled ==
  /\ t.state \in Open => news = <<>> /\ wire = "none" /\ t.last \notin Finals
  /\ t.state \in Done =>
       /\ t.last \in Finals /\ news = <<t.last>>
       /\ wire = CASE t.kind = "ICT" -> "ack" [] t.kind = "NICT" -> "none" [] OTHER -> t.last

IInv == TypeOK /\ Settled

LEMMA InitSettled == Init => IInv
<1> SUFFICES ASSUME Init PROVE IInv
  OBVIOUS
<1>1. PICK kind \in Kinds :
        /\ t = New(kind)
        /\ fifo = <<IF kind \in Client THEN "snd_request" ELSE "rcv_request">>
  BY DEF Init
<1>2. t \in Transaction
  BY <1>1 DEF New, Transaction, States, Kinds, Responses
<1>3. t.state = "pre" /\ t.last = "none"
  BY <1>1 DEF New
<1>4. news = <<>> /\ wire = "none"
  BY DEF Init
<1>5. fifo \in Seq(Events)
  BY <1>1 DEF Events
<1> QED
  BY <1>2, <1>3, <1>4, <1>5 DEF IInv, TypeOK, Settled, Open, Done, Finals

\* What a step with effect r does to the histories, and to the promise.
LEMMA EffectKept ==
  ASSUME IInv, NEW r, Effect(t, r),
         t' = r.tr, news' = Told(r.tell), wire' = Written(r)
  PROVE  /\ t' \in Transaction
         /\ news' \in Seq(Finals \cup {"timeout", "error"})
         /\ wire' \in Finals \cup {"none", "ack"}
         /\ Settled'
         /\ [Promise!Next]_(Promise!exchange)
<1> USE DEF IInv
<1>1. t' \in Transaction /\ t'.kind = t.kind /\ t.kind \in Kinds /\ t \in Transaction
  BY DEF Effect, TypeOK, Transaction
<1>2. CASE Nothing(t, r)
  <2>1. t' = t /\ news' = news /\ wire' = wire
    BY <1>2 DEF Nothing, Told, Written, Finals
  <2> QED
    BY <2>1 DEF TypeOK, Settled, Promise!exchange, Over
<1>3. CASE GoesOn(t, r)
  <2>1. news' = news /\ wire' = wire
    BY <1>3 DEF GoesOn, Told, Written
  <2>2. t.state \in Open /\ t'.state \in Open /\ t'.last \notin Finals
    BY <1>3 DEF GoesOn
  <2>3. Over(t)' = Over(t)
    BY <2>2 DEF Over, Open
  <2>4. Settled'
    BY <2>1, <2>2 DEF Settled, Open, Done
  <2> QED
    BY <1>1, <2>1, <2>3, <2>4 DEF TypeOK, Promise!exchange
<1>4. CASE Concludes(t, r)
  <2>1. t.state \in Open /\ news = <<>> /\ wire = "none"
    BY <1>4 DEF Concludes, Settled
  <2>2. r.tell \in Finals /\ t'.last = r.tell /\ news' = <<r.tell>>
    BY <1>4, <2>1 DEF Concludes, Told
  <2>3. wire' \in {"none", "ack", r.tell}
    BY <1>4, <2>1, <2>2 DEF Concludes, Written
  <2>4. ~Over(t) /\ Over(t)' \in BOOLEAN
    BY <2>1 DEF Over, Open
  <2>5. Promise!Conclude(r.tell, wire')
    BY <2>1, <2>2, <2>3, <2>4 DEF Promise!Conclude
  <2>6. t'.state \notin Open
    BY <1>4 DEF Concludes, Open, Done
  <2>7. t'.state \in Done => wire' = CASE t'.kind = "ICT" -> "ack" [] t'.kind = "NICT" -> "none" [] OTHER -> t'.last
    BY <1>1, <1>4, <2>1, <2>2 DEF Concludes, Written, Done
  <2>8. Settled'
    BY <2>2, <2>6, <2>7 DEF Settled
  <2>9. [Promise!Next]_(Promise!exchange)
    BY <2>2, <2>3, <2>5 DEF Promise!Next
  <2> QED
    BY <1>1, <2>2, <2>3, <2>8, <2>9
<1>5. CASE Fails(t, r)
  <2>1. t.state \in Open \cup Done /\ t'.state = "terminated" /\ r.tell \in {"timeout", "error"}
    BY <1>5 DEF Fails
  <2>2. news' = Append(news, r.tell) /\ wire' = wire
    BY <1>5, <2>1 DEF Fails, Told, Written
  <2>3. r.tell = "timeout" => news = <<>>
    BY <1>5 DEF Fails, Settled
  <2>4. ~Over(t) /\ Over(t)' = TRUE
    BY <2>1 DEF Over, Open, Done
  <2>5. Promise!Fail(r.tell)
    BY <2>2, <2>3, <2>4 DEF Promise!Fail
  <2>6. Settled'
    BY <2>1 DEF Settled, Open, Done
  <2>7. news' \in Seq(Finals \cup {"timeout", "error"}) /\ wire' \in Finals \cup {"none", "ack"}
    BY <2>1, <2>2 DEF TypeOK
  <2> QED
    BY <1>1, <2>1, <2>5, <2>6, <2>7 DEF Promise!Next
<1>6. CASE Finishes(t, r)
  <2>1. t.state \in Done /\ t'.state = "terminated" /\ news' = news /\ wire' = wire
    BY <1>6 DEF Finishes, Told, Written, Finals
  <2>2. news # <<>>
    BY <2>1 DEF Settled
  <2>3. ~Over(t) /\ Over(t)' = TRUE
    BY <2>1 DEF Over, Done
  <2>4. Promise!End
    BY <2>1, <2>2, <2>3 DEF Promise!End
  <2>5. Settled'
    BY <2>1 DEF Settled, Open, Done
  <2> QED
    BY <1>1, <2>1, <2>4, <2>5 DEF Promise!Next, TypeOK
<1>7. CASE Repeats(t, r)
  <2>1. t.state \in Done /\ t'.state \in Done /\ t'.last = t.last /\ news' = news
    BY <1>7 DEF Repeats, Told
  <2>2. t.last \in Finals /\ news = <<t.last>>
        /\ wire = CASE t.kind = "ICT" -> "ack" [] t.kind = "NICT" -> "none" [] OTHER -> t.last
    BY <2>1 DEF Settled
  <2>3. wire' = wire
    BY <1>7, <2>1, <2>2 DEF Repeats, Written
  <2>4. Over(t)' = Over(t)
    BY <2>1 DEF Over, Done
  <2>5. Settled'
    BY <1>1, <2>1, <2>2, <2>3 DEF Settled, Open, Done
  <2> QED
    BY <1>1, <2>1, <2>3, <2>4, <2>5 DEF TypeOK, Promise!exchange
<1> QED
  BY <1>2, <1>3, <1>4, <1>5, <1>6, <1>7 DEF Effect

\* Every step keeps the invariant, and is a step of the exchange or none.
LEMMA StepKept ==
  ASSUME IInv, [Next]_vars
  PROVE  IInv' /\ [Promise!Next]_(Promise!exchange)
<1>1. ASSUME NEW e \in Events, Queue(e)
      PROVE  IInv' /\ [Promise!Next]_(Promise!exchange)
  <2>1. t' = t /\ news' = news /\ wire' = wire /\ fifo' = Append(fifo, e)
    BY <1>1 DEF Queue
  <2>2. fifo' \in Seq(Events)
    BY <2>1 DEF IInv, TypeOK
  <2> QED
    BY <2>1, <2>2 DEF IInv, TypeOK, Settled, Promise!exchange, Over
<1>2. CASE Arrive
  <2>1. t.kind \in Kinds
    BY DEF IInv, TypeOK, Transaction
  <2>2. FromPeer(t.kind) \subseteq Events
    BY <2>1 DEF FromPeer, Events, Client, Kinds
  <2> QED
    BY <1>1, <1>2, <2>2 DEF Arrive
<1>3. CASE Answers
  <2>1. FromUser(t.kind) \subseteq Events
    BY DEF FromUser, Events
  <2> QED
    BY <1>1, <1>3, <2>1 DEF Answers
<1>4. CASE \E x \in TimerEvents : Expire(x)
  BY <1>1, <1>4 DEF Expire, Events
<1>5. CASE \E i \in Outcomes : Step(i)
  <2>1. PICK i \in Outcomes : Step(i)
    BY <1>5
  <2> DEFINE x == Execute(t, Head(fifo), i)
  <2>2. /\ t' = x.tr /\ news' = Told(x.tell) /\ wire' = Written(x)
        /\ fifo # <<>> /\ fifo' = Tail(fifo)
    BY <2>1 DEF Step
  <2>3. Sound(t)
    BY DEF IInv, TypeOK, Settled, Sound
  <2>4. Effect(t, x)
    BY <2>3, ExecuteEffect
  <2>5. fifo' \in Seq(Events)
    BY <2>2 DEF IInv, TypeOK
  <2> HIDE DEF x
  <2> QED
    BY <2>2, <2>4, <2>5, EffectKept DEF IInv, TypeOK
<1>6. CASE UNCHANGED vars
  BY <1>6 DEF IInv, TypeOK, Settled, vars, Promise!exchange, Over
<1> QED
  BY <1>2, <1>3, <1>4, <1>5, <1>6 DEF Next

\* Whatever arrives in whatever order, each of the four machines of osip2 stays
\* in its own states, arms its own timers and keeps a last_response of the
\* classes it tells apart.
THEOREM TypeCorrect == Spec => []TypeOK
<1>1. Init => IInv
  BY InitSettled
<1>2. IInv /\ [Next]_vars => IInv'
  BY StepKept
<1>3. IInv => TypeOK
  BY DEF IInv
<1> QED
  BY <1>1, <1>2, <1>3, PTL DEF Spec

\* Whatever comes in, in whatever order, and whichever send fails, a transaction
\* of osip2 tells its user one result and puts at most one final message on the
\* wire, which belongs to that result: the machines implement the exchange.
THEOREM ExchangeKept == Spec => KeepsExchange
<1>1. Init => IInv
  BY InitSettled
<1>2. IInv /\ [Next]_vars => IInv' /\ [Promise!Next]_(Promise!exchange)
  BY StepKept
<1>3. Init => Promise!Init
  <2> SUFFICES ASSUME Init PROVE Promise!Init
    OBVIOUS
  <2>1. PICK kind \in Kinds : t = New(kind)
    BY DEF Init
  <2> QED
    BY <2>1 DEF Init, New, Over, Promise!Init
<1> QED
  BY <1>1, <1>2, <1>3, PTL DEF Spec, KeepsExchange, Promise!Spec
=============================================================================
