--------------------------- MODULE TransactionLife ---------------------------
(***************************************************************************)
(* One transaction of osip2 from osip_transaction_init to the end, with    *)
(* its queue of events (transactionff).  The peer, the network and the     *)
(* user put events in at any time and in any order; the timers put in one  *)
(* for a pass; osip_transaction_execute takes them out one by one, and any *)
(* send may fail.  That the machines keep the promise of Exchange does not *)
(* depend on what the call layer of eXosip does with them.                 *)
(***************************************************************************)
EXTENDS OsipTransaction, Sequences

CONSTANT MaxQueue   \* events in the queue at the same time (unbounded in the code)

ASSUME QueueAssumption == MaxQueue \in Nat \ {0}

VARIABLES t,        \* the transaction
          fifo,     \* its queue
          news,     \* history: what its user was told of the end
          wire      \* history: the last final message it put on the wire

vars == <<t, fifo, news, wire>>

TimerEvents == {"A", "B", "D", "E", "F", "G", "H", "I", "J", "K"}
Client == {"ICT", "NICT"}

FromPeer(kind) ==
  CASE kind \in Client -> {"rcv_1xx", "rcv_2xx", "rcv_3456xx"}
    [] kind = "IST"    -> {"rcv_request", "rcv_ack"}
    [] kind = "NIST"   -> {"rcv_request"}
FromUser(kind) == IF kind \in Client THEN {} ELSE {"snd_1xx", "snd_2xx", "snd_3456xx"}

Events == {"snd_request", "rcv_request", "rcv_ack", "rcv_1xx", "rcv_2xx", "rcv_3456xx",
           "snd_1xx", "snd_2xx", "snd_3456xx"} \cup TimerEvents

TypeOK ==
  /\ t \in Transaction
  /\ fifo \in Seq(Events)
  /\ news \in Seq(Finals \cup {"timeout", "error"})
  /\ wire \in Finals \cup {"none", "ack"}

\* The transaction is made for a request, which is its first event.
Init ==
  /\ \E kind \in Kinds :
       /\ t = New(kind)
       /\ fifo = <<IF kind \in Client THEN "snd_request" ELSE "rcv_request">>
  /\ news = <<>> /\ wire = "none"

Room == Len(fifo) < MaxQueue

Queue(e) ==
  /\ Room
  /\ fifo' = Append(fifo, e)
  /\ UNCHANGED <<t, news, wire>>

Holds(events) == \E n \in DOMAIN fifo : fifo[n] \in events

\* osip_find_transaction_and_add_event: not for a transaction that is over.  A
\* pass reads one message and then executes everything.
Arrive ==
  /\ ~Over(t) /\ t.state # "pre" /\ ~Holds(FromPeer(t.kind))
  /\ \E e \in FromPeer(t.kind) : Queue(e)

\* The user may have queued an answer already: only the state is looked at.
Answers ==
  /\ t.state \notin {"completed", "confirmed", "terminated"}
  /\ \E e \in FromUser(t.kind) : Queue(e)

\* All queued events are executed before the timers are looked at again.
Expire(x) ==
  /\ x \in MayFire(t, Len(fifo))
  /\ ~Holds(TimerEvents)
  /\ Queue(x)

Told(tell) == IF tell \in Finals \cup {"timeout", "error"} THEN Append(news, tell) ELSE news

Written(r) ==
  CASE r.out = "ack" -> "ack"
    [] r.out = "response" /\ r.tr.last \in Finals -> r.tr.last
    [] OTHER -> wire

\* osip_transaction_execute, with a send that ends with i.
Step(i) ==
  /\ fifo # <<>>
  /\ LET r == Execute(t, Head(fifo), i) IN
       /\ t' = r.tr
       /\ news' = Told(r.tell)
       /\ wire' = Written(r)
  /\ fifo' = Tail(fifo)

Next ==
  \/ Arrive
  \/ Answers
  \/ \E x \in TimerEvents : Expire(x)
  \/ \E i \in Outcomes : Step(i)

\* The eXosip thread executes what is queued, and a timer that is not disarmed
\* runs out at some time, however often others did.
Spec == Init /\ [][Next]_vars
FairSpec ==
  /\ Spec
  /\ WF_vars(\E i \in Outcomes : Step(i))
  /\ \A x \in TimerEvents \ Resending : SF_vars(Expire(x))

-----------------------------------------------------------------------------
(* Properties                                                              *)

Promise == INSTANCE Exchange WITH
  Results <- Finals,
  over <- Over(t)

\* The user is told one result, the peer gets at most one final message, which
\* belongs to it, and nothing follows the end: however often the request comes
\* again, whatever answers are queued at the same time, whichever send fails.
KeepsExchange == Promise!Spec

\* In the end a transaction is over, or it waits for what no timer of it limits:
\* an INVITE for its final answer after a provisional one, a server for its user.
Waits ==
  \/ t.kind = "ICT" /\ t.state = "proceeding"
  \/ t.kind \notin Client /\ t.state \in {"trying", "proceeding"}

Ends == <>[](Over(t) \/ Waits)
=============================================================================
