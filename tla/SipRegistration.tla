-------------------------- MODULE SipRegistration --------------------------
(***************************************************************************)
(* A registration of eXosip (eXregister_api.c, jreg.c, jauth.c and what    *)
(* eXosip.c, jcallback.c and udp.c do with it): the REGISTER the command r *)
(* of sip.c sends, the refreshes and retries of eXosip_automatic_action,   *)
(* which sipEventThread calls ten times a second, and the end that         *)
(* eXosip_register_build_register with 0 asks for, an operation sip.c does *)
(* not use today.                                                          *)
(*                                                                         *)
(* Time is in seconds, as time(NULL) is.  None passes while something is   *)
(* due, and it passes to the next second in which something can be due: in *)
(* between only the clocks change.  The registrar is not part of the       *)
(* repository; what it grants and asks for is chosen at the start (world): *)
(*   asked    the period the phone asks for (sip.c: 3600)                  *)
(*   grant    the longest period granted                                   *)
(*   contact  it says so in the Contact, else in the header Expires        *)
(*   min      the shortest period accepted, else 423                       *)
(*   named    ... with a Min-Expires                                       *)
(*   life     how long a nonce is good for, 0: nobody has to authenticate  *)
(***************************************************************************)
EXTENDS Integers

CONSTANTS
  Worlds,      \* the registrars
  MaxRtt,      \* seconds until the answer of a registrar that answers
  MaxTrouble   \* bound on the requests it does not answer as it should

ASSUME WorldsAssumption ==
  Worlds \subseteq [asked : Nat \ {0}, grant : Nat \ {0}, contact : BOOLEAN,
                    min : Nat, named : BOOLEAN, life : Nat]
ASSUME BoundsAssumption == MaxRtt \in 0 .. 10 /\ MaxTrouble \in Nat

\* unsent: the request cannot be sent; lost: it does not arrive; deaf: the answer
\* does not; stalls: a 100 comes and nothing else; busy: 503.
Troubles == {"unsent", "lost", "deaf", "stalls", "busy"}
None == -1

VARIABLES
  world,
  jr,      \* the registration: there or not, r_reg_period, r_retry
  tr,      \* r_last_tr: its state, its last_response, the seconds since its
           \* birth_time, the Expires and whether credentials are in its request
  nonce,   \* the age of the last challenge, which http_auths keeps, or None
  wire,    \* what becomes of the request that is on its way
  bound,   \* seconds the registrar still keeps the binding, None before the first
  told,    \* the last event the application got
  leave,   \* history: what became of the wish to unregister
  trouble  \* history: how many requests were not answered as they should be

vars == <<world, jr, tr, nonce, wire, bound, told, leave, trouble>>

Horizon == 901   \* no age above it is told apart

TypeOK ==
  /\ world \in Worlds
  /\ jr \in [state : {"none", "up", "freed"}, period : Nat, retry : 0 .. 3]
  /\ tr \in [state : {"none", "trying", "over"},
             last : {"none", "1xx", "2xx", "401", "423", "503"},
             age : 0 .. Horizon, expires : Nat, auth : BOOLEAN]
  /\ nonce \in Nat \cup {None}
  /\ wire \in {"idle", "prompt"} \cup Troubles
  /\ bound \in Nat \cup {None}
  /\ told \in {"nothing", "SUCCESS", "FAILURE"}
  /\ leave \in {"no", "sent", "refused"}
  /\ trouble \in 0 .. MaxTrouble

Lower(a, b) == IF a < b THEN a ELSE b
Higher(a, b) == IF a > b THEN a ELSE b

NoTransaction == [state |-> "none", last |-> "none", age |-> 0, expires |-> 0, auth |-> FALSE]

Init ==
  /\ world \in Worlds
  /\ jr = [state |-> "none", period |-> 0, retry |-> 0]
  /\ tr = NoTransaction
  /\ nonce = None /\ wire = "idle" /\ bound = None
  /\ told = "nothing" /\ leave = "no" /\ trouble = 0

-----------------------------------------------------------------------------
(* Sending                                                                 *)

\* A new transaction for the request, which goes well or not.
Send(expires, auth) ==
  /\ tr' = [state |-> "trying", last |-> "none", age |-> 0,
            expires |-> expires, auth |-> auth]
  /\ \/ wire' = "prompt" /\ UNCHANGED trouble
     \/ /\ trouble < MaxTrouble
        /\ wire' \in Troubles
        /\ trouble' = trouble + 1

\* eXosip_register_build_initial_register, eXosip_register_send_register
Register ==
  LET period == Higher(world.asked, 30) IN
  /\ jr.state = "none"
  /\ jr' = [jr EXCEPT !.state = "up", !.period = period]
  /\ Send(period, FALSE)
  /\ UNCHANGED <<world, nonce, bound, told, leave>>

\* A 423 that names no Min-Expires: the old transaction is given away before
\* this is found out.
Stuck == tr.last = "423" /\ ~world.named

\* The credentials: for the challenge that was the last answer, after another
\* answer for the one kept in http_auths, after none at all none.
Credentials == tr.last = "401" \/ (tr.last # "none" /\ nonce # None)

\* Mutant of Again: the Min-Expires is not heeded.
MutSamePeriod(j) ==
  IF Stuck THEN /\ jr' = j /\ tr' = NoTransaction /\ UNCHANGED <<wire, trouble>>
  ELSE /\ jr' = j
       /\ Send(j.period, Credentials)

\* _eXosip_register_build_register for r_last_tr, which is over, and sending
\* what it built; j is the registration as the caller left it.
Again(j) ==
  LET period == IF tr.last = "423" THEN world.min ELSE j.period IN
  IF Stuck THEN /\ jr' = j /\ tr' = NoTransaction /\ UNCHANGED <<wire, trouble>>
  ELSE /\ jr' = [j EXCEPT !.period = period]
       /\ Send(period, Credentials)

\* eXosip_register_build_register with 0 and eXosip_register_send_register.
\* The period is 0 even if the request is then refused, as one is under way.
Unregister ==
  LET j == [jr EXCEPT !.period = 0] IN
  /\ jr.state = "up" /\ leave # "sent"
  /\ CASE tr.state = "trying" -> jr' = j /\ leave' = "refused" /\ UNCHANGED <<tr, wire, trouble>>
       [] tr.state = "over"   -> Again(j) /\ leave' = (IF Stuck THEN "refused" ELSE "sent")
       [] tr.state = "none"   -> jr' = j /\ leave' = "sent" /\ Send(0, FALSE)
  /\ UNCHANGED <<world, nonce, bound, told>>

-----------------------------------------------------------------------------
(* eXosip_automatic_action and eXosip_release_terminated_registrations     *)

\* Mutant of DueToRefresh: the tenth is forgotten.
MutNoMargin ==
  /\ jr.period # 0
  /\ \/ tr.age > 900
     \/ tr.age > jr.period
     \/ tr.age > 120 /\ tr.last # "2xx"

\* After 900 seconds, when a tenth of the period is left, or two minutes after
\* an attempt that did not succeed.
DueToRefresh ==
  /\ jr.period # 0
  /\ \/ tr.age > 900
     \/ tr.age > jr.period - (jr.period \div 10)
     \/ tr.age > 120 /\ tr.last # "2xx"

\* At once after a challenge or a 423, three times between two successes.
DueToRetry == tr.age < 120 /\ tr.last \in {"401", "423"} /\ jr.retry < 3

Due == jr.state = "up" /\ tr.state = "over" /\ (DueToRefresh \/ DueToRetry)

eXosip_automatic_action ==
  /\ Due
  /\ Again(IF DueToRefresh THEN jr ELSE [jr EXCEPT !.retry = @ + 1])
  /\ UNCHANGED <<world, nonce, bound, told, leave>>

\* Mutant of Over: any answer to the last request is enough.
MutAnyAnswer ==
  /\ jr.state = "up" /\ jr.period = 0 /\ tr.state # "none"
  /\ tr.age > 75 \/ tr.last # "none"

Over ==
  /\ jr.state = "up" /\ jr.period = 0 /\ tr.state # "none"
  /\ tr.age > 75 \/ tr.last = "2xx"

eXosip_release_terminated_registrations ==
  /\ Over
  /\ jr' = [jr EXCEPT !.state = "freed"]
  /\ tr' = NoTransaction /\ nonce' = None
  /\ UNCHANGED <<world, wire, bound, told, leave, trouble>>

-----------------------------------------------------------------------------
(* The registrar and its answers                                           *)

\* What the registrar says to the request.
Verdict ==
  CASE world.life > 0 /\ ~(tr.auth /\ nonce \in 0 .. world.life) -> "401"
    [] tr.expires > 0 /\ tr.expires < world.min -> "423"
    [] OTHER -> "2xx"

Granted == Lower(tr.expires, world.grant)

Binding == IF Verdict = "2xx" THEN Granted ELSE bound

\* cb_rcv2xx: a period that is less than 15 seconds shorter is not taken over; a
\* longer one only from the Contact.
NewPeriod ==
  IF \/ Granted > 0 /\ Granted < jr.period - 15
     \/ world.contact /\ Granted > jr.period
    THEN Granted ELSE jr.period

\* The final answer, reported by cb_rcv2xx or rcvregister_failure.
Final(code) ==
  /\ tr' = [tr EXCEPT !.state = "over", !.last = code]
  /\ jr' = IF code = "2xx" THEN [jr EXCEPT !.period = NewPeriod, !.retry = 0] ELSE jr
  /\ told' = IF code = "2xx" THEN "SUCCESS" ELSE "FAILURE"
  /\ nonce' = IF code = "401" THEN 0 ELSE nonce
  /\ wire' = "idle"

Answer ==
  /\ \/ wire = "prompt" /\ Final(Verdict) /\ bound' = Binding
     \/ wire = "busy" /\ Final("503") /\ UNCHANGED bound
     \/ wire = "deaf" /\ wire' = "lost" /\ bound' = Binding /\ UNCHANGED <<tr, jr, told, nonce>>
     \/ /\ wire = "stalls" /\ wire' = "lost" /\ tr' = [tr EXCEPT !.last = "1xx"]
        /\ UNCHANGED <<jr, told, nonce, bound>>
  /\ UNCHANGED <<world, leave, trouble>>

\* Mutant of Timeout: it is never reported.
MutSilentTimeout ==
  /\ wire = "unsent" \/ (wire = "lost" /\ tr.age = 32)
  /\ tr' = [tr EXCEPT !.state = "over"]
  /\ wire' = "idle"
  /\ UNCHANGED <<world, jr, nonce, bound, told, leave, trouble>>

\* The transaction ends at the failed send or with its timer F:
\* cb_xixt_kill_transaction reports it only when there was no answer at all.
Timeout ==
  /\ wire = "unsent" \/ (wire = "lost" /\ tr.age = 32)
  /\ tr' = [tr EXCEPT !.state = "over"]
  /\ told' = IF tr.last = "none" THEN "FAILURE" ELSE told
  /\ wire' = "idle"
  /\ UNCHANGED <<world, jr, nonce, bound, leave, trouble>>

-----------------------------------------------------------------------------

\* The ages of a transaction at which something may become due.
Moments == {32, 76, 121, 901, jr.period - (jr.period \div 10) + 1}

\* The seconds to the moments at which something changes but the clocks.
Gaps ==
  LET nonceLasts == {world.life + 1 - n : n \in {nonce} \ {None}} IN
  {g \in {m - tr.age : m \in Moments} \cup {bound, Horizon} \cup nonceLasts : g > 0}

\* Time passes, in which the two threads do whatever is due: a second while an
\* answer is on its way, else the shortest of the gaps.
Passes(d) ==
  IF wire = "idle" \/ wire = "lost" THEN d \in Gaps /\ \A g \in Gaps : d <= g
  ELSE d = 1 /\ tr.age < MaxRtt

Tick ==
  /\ jr.state = "up" /\ ~Due /\ ~Over
  /\ wire = "lost" => tr.age < 32
  /\ \E d \in Gaps \cup {1} :
       /\ Passes(d)
       /\ tr' = IF tr.state = "none" THEN tr ELSE [tr EXCEPT !.age = Lower(@ + d, Horizon)]
       /\ nonce' = IF nonce = None THEN None ELSE Lower(nonce + d, world.life + 1)
       /\ bound' = IF bound = None THEN None ELSE Higher(bound - d, 0)
  /\ UNCHANGED <<world, jr, wire, told, leave, trouble>>

Progress ==
  \/ Answer \/ Timeout \/ Tick
  \/ eXosip_automatic_action \/ eXosip_release_terminated_registrations

Next == Register \/ Unregister \/ Progress

Spec == Init /\ [][Next]_vars /\ WF_vars(Progress)

-----------------------------------------------------------------------------
(* Properties                                                              *)

\* What the phone asks for in the end, and what it then has.
Asks == Higher(Higher(world.asked, 30), world.min)
Lasts == Lower(Asks, world.grant)

\* A nonce lives to be used: it is still good when the credentials arrive.
NonceLives == world.life = 0 \/ world.life >= MaxRtt

\* A registrar that means what it says: a tenth of the period is more than two
\* round trips and the second the rounding costs; it grants what it accepts, and
\* either all that is asked or shorter by more than the 15 seconds the phone
\* overlooks; and a nonce lives to be used.
Sound ==
  /\ Lasts \div 10 > 2 * MaxRtt + 1
  /\ world.grant >= world.min
  /\ world.grant >= Asks \/ world.grant < Asks - 15
  /\ NonceLives

Kept == jr.state = "up" /\ leave = "no"

\* As long as such a registrar answers, a binding that was made is refreshed
\* before it lapses, whatever the period, the challenges and the life of the
\* nonces (eXosip_automatic_action, cb_rcv2xx).
BindingKept ==
  Kept /\ trouble = 0 /\ Sound => bound # 0

\* When the application was last told SUCCESS the binding is there, or an attempt
\* to renew it is under way.  An attempt that ends with a 100 and nothing else is
\* excepted: nobody is told of it.
NewsHonest ==
  Kept /\ told = "SUCCESS" /\ bound = 0 /\ Sound => tr.state = "trying" \/ tr.last = "1xx"

\* A registration that is released after its end was sent has no binding left
\* behind, unless the registrar did not answer; or its nonces are gone before they
\* come back: the three retries are used up, and the registration is released 75
\* seconds after the last of them.
Released ==
  jr.state = "freed" /\ leave = "sent" /\ trouble = 0 /\ NonceLives => bound <= 0

\* The three retries are used up, and in the two minutes to the next attempt the
\* nonce runs out.
Exhausted == jr.retry = 3 /\ world.life \in 1 .. 122

\* Whatever requests and answers are lost, the phone is registered again in the
\* end; except after a 423 without Min-Expires and when the retries are used up.
Recovers ==
  Kept ~> bound > 0 \/ leave # "no" \/ Exhausted \/ tr.state = "none"
=============================================================================
