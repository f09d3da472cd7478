----------------------- MODULE SipRegistrationProofs -----------------------
(* What holds of a registration with every registrar, whatever the round   *)
(* trip and however many requests fail.                                    *)
EXTENDS SipRegistration, TLAPS

First == Higher(world.asked, 30)
Tenth == Lasts \div 10

\* The age at which a registration that lasts is refreshed.
Refreshed == Lasts - Tenth + 1

\* Every request that is under way is about to be answered.
Answering ==
  /\ wire \in {"idle", "prompt"}
  /\ tr.state = "trying" <=> wire = "prompt"
  /\ tr.state = "trying" => tr.age <= MaxRtt /\ tr.expires = jr.period /\ tr.last = "none"

\* Before the first success: the period is the one first asked for, until a 423
\* asks for more.
NotYet ==
  /\ jr.period = First \/ (jr.period = world.min /\ First < world.min)
  /\ tr.last = "423" => First < world.min
  /\ tr.last # "2xx"

\* After a success, until it is time to refresh.
Resting ==
  /\ tr.state = "over" /\ tr.last = "2xx" /\ jr.retry = 0
  /\ tr.age <= Refreshed /\ tr.age <= 901
  /\ bound + tr.age >= Lasts

\* The refresh is under way.
Refreshing ==
  /\ tr.state = "trying" /\ jr.retry = 0
  /\ bound + tr.age >= Lasts - Refreshed

\* The refresh was challenged.
Challenged ==
  /\ tr.state = "over" /\ tr.last = "401" /\ jr.retry = 0
  /\ tr.age <= MaxRtt /\ nonce = 0
  /\ bound >= Lasts - Refreshed - MaxRtt

\* It is under way again with credentials, for a nonce that is not older.
Retrying ==
  /\ tr.state = "trying" /\ jr.retry = 1 /\ tr.auth
  /\ nonce \in 0 .. tr.age
  /\ bound + tr.age >= Lasts - Refreshed - MaxRtt

Once ==
  /\ jr.period = Lasts
  /\ Resting \/ Refreshing \/ Challenged \/ Retrying

\* Nothing is on its way before the first request.
Fresh == jr.state = "none" => wire = "idle" /\ bound = None /\ jr.retry = 0

RegistrationInv ==
  Kept /\ trouble = 0 /\ Sound =>
    /\ Answering
    /\ bound = None => NotYet
    /\ bound # None => Once

IInv == TypeOK /\ Fresh /\ RegistrationInv

\* A request is on its way, its answer too or neither, as long as its transaction
\* is trying, for 32 seconds at most; and it asks for the period that the
\* registration has, unless that was set to 0 behind its back.
WireInv ==
  /\ wire = "idle" <=> tr.state # "trying"
  /\ tr.state = "trying" => /\ tr.last \in {"none", "1xx"} /\ tr.age <= 32
                            /\ jr.period \in {0, tr.expires}
  /\ wire = "prompt" => tr.last = "none" /\ tr.age <= MaxRtt

\* With a sound registrar, answering or not: the period is the one first asked for,
\* the one asked for in the end or the one then granted; whoever was last told
\* SUCCESS has a transaction under way, or one that a 100 ended, or one that was
\* answered with the whole period and is not older than the binding.
NewsInv ==
  Kept /\ Sound =>
    /\ jr.period \in {First, Asks, Lasts}
    /\ tr.state = "trying" => tr.expires = jr.period
    /\ tr.last = "423" => First < world.min
    /\ tr.state = "none" => told = "FAILURE"
    /\ tr.state = "over" /\ tr.last \notin {"1xx", "2xx"} => told = "FAILURE"
    /\ tr.state = "over" /\ tr.last = "2xx" =>
         /\ jr.period = Lasts /\ tr.age <= Refreshed /\ tr.age <= 901
         /\ bound # None /\ bound + tr.age >= Lasts

\* A period that the registrar does not refuse, and credentials for a nonce that
\* came before the request left.
Enough(e) == e = 0 \/ e >= world.min
WithNonce == tr.auth /\ nonce \in 0 .. tr.age

\* How many of the three retries are used up at most: between two successes one
\* for each challenge and one for a 423.
Retries ==
  /\ tr.state = "trying" /\ Enough(tr.expires) => WithNonce \/ jr.retry <= 2
  /\ tr.state = "trying" /\ ~Enough(tr.expires) =>
       jr.retry <= 1 /\ (WithNonce \/ jr.retry = 0)
  /\ tr.state = "over" =>
       /\ tr.last = "401" => jr.retry <= 2 /\ (Enough(jr.period) \/ jr.retry = 0)
       /\ tr.last = "423" => jr.retry <= 1
       /\ tr.last = "2xx" => jr.retry = 0
  /\ tr.state = "none" => jr.retry <= 2

\* Without trouble every request has its answer, and what can be tried again is
\* tried again at once.
Prompt ==
  /\ wire \in {"idle", "prompt"}
  /\ jr.state = "freed" => wire = "idle"
  /\ jr.state = "up" /\ tr.state = "over" =>
       /\ tr.last \in {"401", "423", "2xx"}
       /\ tr.last = "401" => tr.age <= MaxRtt /\ nonce = 0
       /\ tr.last = "423" => tr.age <= MaxRtt /\ world.min > 0

\* The end that was sent: the request is under way until its success, which leaves
\* no binding, or the registrar has asked for credentials.
Leaving ==
  leave = "sent" =>
    /\ jr.state = "up" /\ jr.period = 0 =>
         /\ tr.state # "none" /\ tr.expires = 0 /\ tr.last # "423"
         /\ tr.last = "2xx" => bound = 0
    /\ jr.state = "freed" => bound <= 0

LeaveInv ==
  trouble = 0 /\ NonceLives => Prompt /\ Leaving /\ (jr.state = "up" => Retries)

-----------------------------------------------------------------------------
(* Types                                                                   *)

\* What is known of the numbers of a registrar, and of a sound one: a tenth of
\* the period has room for two round trips.
LEMMA Numbers ==
  ASSUME TypeOK
  PROVE  /\ world.asked \in Nat /\ world.grant \in Nat \ {0} /\ world.contact \in BOOLEAN
         /\ world.min \in Nat /\ world.named \in BOOLEAN /\ world.life \in Nat
         /\ First \in Nat /\ First >= 30
         /\ Asks \in Nat /\ Asks >= First /\ Asks >= world.min
         /\ Asks = First \/ Asks = world.min
         /\ Lasts \in Nat /\ Lasts <= Asks /\ Lasts <= world.grant
         /\ Lasts = Asks \/ Lasts = world.grant
         /\ MaxRtt \in Nat /\ MaxRtt <= 10
         /\ Sound => /\ Tenth \in Nat /\ Tenth > 2 * MaxRtt + 1 /\ 10 * Tenth <= Lasts
                     /\ Refreshed \in Nat /\ Lasts - Refreshed > 2 * MaxRtt
                     /\ Lasts >= world.min /\ Lasts > 0
<1>1. world \in [asked : Nat \ {0}, grant : Nat \ {0}, contact : BOOLEAN,
                 min : Nat, named : BOOLEAN, life : Nat]
  BY WorldsAssumption DEF TypeOK
<1>2. First \in Nat /\ First >= 30
  BY <1>1 DEF First, Higher
<1>3. Asks \in Nat /\ Asks >= First /\ Asks >= world.min /\ (Asks = First \/ Asks = world.min)
  BY <1>1, <1>2 DEF Asks, First, Higher
<1>4. /\ Lasts \in Nat /\ Lasts <= Asks /\ Lasts <= world.grant
      /\ Lasts = Asks \/ Lasts = world.grant
  BY <1>1, <1>3 DEF Lasts, Lower
<1>5. MaxRtt \in Nat /\ MaxRtt <= 10
  BY BoundsAssumption
<1>6. ASSUME Sound
      PROVE  /\ Tenth \in Nat /\ Tenth > 2 * MaxRtt + 1 /\ 10 * Tenth <= Lasts
             /\ Refreshed \in Nat /\ Lasts - Refreshed > 2 * MaxRtt
             /\ Lasts >= world.min /\ Lasts > 0
  <2>1. Tenth \in Nat /\ Tenth > 2 * MaxRtt + 1 /\ 10 * Tenth <= Lasts
    BY <1>4, <1>5, <1>6 DEF Tenth, Sound
  <2> QED BY <1>1, <1>3, <1>4, <1>5, <1>6, <2>1 DEF Refreshed, Sound
<1> QED BY <1>1, <1>2, <1>3, <1>4, <1>5, <1>6

\* Sending leaves a transaction that is trying, and without trouble it will be
\* answered.
LEMMA Sent ==
  ASSUME TypeOK, NEW expires \in Nat, NEW auth \in BOOLEAN, Send(expires, auth)
  PROVE  /\ tr' \in [state : {"none", "trying", "over"},
                     last : {"none", "1xx", "2xx", "401", "423", "503"},
                     age : 0 .. Horizon, expires : Nat, auth : BOOLEAN]
         /\ wire' \in {"idle", "prompt"} \cup Troubles
         /\ trouble' \in 0 .. MaxTrouble
         /\ tr' = [state |-> "trying", last |-> "none", age |-> 0,
                   expires |-> expires, auth |-> auth]
         /\ trouble = 0 /\ trouble' = 0 => wire' = "prompt"
<1>1. tr' = [state |-> "trying", last |-> "none", age |-> 0,
             expires |-> expires, auth |-> auth]
  BY DEF Send
<1>2. tr' \in [state : {"none", "trying", "over"},
               last : {"none", "1xx", "2xx", "401", "423", "503"},
               age : 0 .. Horizon, expires : Nat, auth : BOOLEAN]
  BY <1>1 DEF Horizon
<1>3. /\ wire' \in {"idle", "prompt"} \cup Troubles
      /\ trouble = 0 /\ trouble' = 0 => wire' = "prompt"
  BY DEF Send
<1>4. trouble' \in 0 .. MaxTrouble
  BY BoundsAssumption DEF Send, TypeOK
<1> QED BY <1>1, <1>2, <1>3, <1>4

\* What a step did that sent a request.
Requested(expires, auth) ==
  /\ tr' = [state |-> "trying", last |-> "none", age |-> 0, expires |-> expires, auth |-> auth]
  /\ wire' # "idle" /\ trouble' \in Nat
  /\ trouble' = 0 => trouble = 0 /\ wire' = "prompt"

LEMMA SendEffect ==
  ASSUME TypeOK, NEW expires \in Nat, NEW auth \in BOOLEAN, Send(expires, auth)
  PROVE  Requested(expires, auth)
<1>1. trouble \in Nat /\ trouble' \in Nat
  BY BoundsAssumption DEF Send, TypeOK
<1>2. wire' # "idle"
  BY DEF Send, Troubles
<1> QED BY <1>1, <1>2 DEF Send, Requested

\* So does asking again, unless the old transaction is lost.
LEMMA AgainTypes ==
  ASSUME TypeOK, NEW j \in [state : {"none", "up", "freed"}, period : Nat, retry : 0 .. 3],
         Again(j)
  PROVE  /\ jr' \in [state : {"none", "up", "freed"}, period : Nat, retry : 0 .. 3]
         /\ tr' \in [state : {"none", "trying", "over"},
                     last : {"none", "1xx", "2xx", "401", "423", "503"},
                     age : 0 .. Horizon, expires : Nat, auth : BOOLEAN]
         /\ wire' \in {"idle", "prompt"} \cup Troubles
         /\ trouble' \in 0 .. MaxTrouble
         /\ jr'.state = j.state
<1> DEFINE period == IF tr.last = "423" THEN world.min ELSE j.period
<1>1. period \in Nat /\ Credentials \in BOOLEAN
  BY Numbers DEF Credentials
<1>2. CASE Stuck
  <2>1. jr' = j /\ tr' = NoTransaction /\ wire' = wire /\ trouble' = trouble
    BY <1>2 DEF Again
  <2>2. NoTransaction \in [state : {"none", "trying", "over"},
                          last : {"none", "1xx", "2xx", "401", "423", "503"},
                          age : 0 .. Horizon, expires : Nat, auth : BOOLEAN]
    BY DEF NoTransaction, Horizon
  <2> QED BY <2>1, <2>2 DEF TypeOK
<1>3. CASE ~Stuck
  <2>1. jr' = [j EXCEPT !.period = period] /\ Send(period, Credentials)
    BY <1>3 DEF Again
  <2>2. jr' \in [state : {"none", "up", "freed"}, period : Nat, retry : 0 .. 3] /\ jr'.state = j.state
    BY <1>1, <2>1
  <2> HIDE DEF period
  <2> QED BY <1>1, <2>1, <2>2, Sent
<1> QED BY <1>2, <1>3

\* An answer comes with a period that is a number, the time that passes is one;
\* and from a sound registrar an answer to a request of all that is asked for, or
\* of what was granted before, settles the period.
LEMMA Numbered ==
  ASSUME TypeOK
  PROVE  /\ Verdict \in {"401", "423", "2xx"}
         /\ Granted \in Nat /\ NewPeriod \in Nat /\ Binding \in Nat \cup {None}
         /\ Gaps \cup {1} \subseteq Nat \ {0}
         /\ Sound /\ tr.expires = jr.period /\ jr.period \in {Asks, Lasts} =>
              Granted = Lasts /\ NewPeriod = Lasts
<1>1. tr.expires \in Nat /\ jr.period \in Nat /\ bound \in Nat \cup {None}
  BY DEF TypeOK
<1>2. Verdict \in {"401", "423", "2xx"}
  BY DEF Verdict
<1>3. Granted \in Nat
  BY <1>1, Numbers DEF Granted, Lower
<1>4. NewPeriod \in Nat /\ Binding \in Nat \cup {None}
  BY <1>1, <1>3 DEF NewPeriod, Binding
<1>5. ASSUME NEW d \in Gaps \cup {1}
      PROVE  d \in Nat \ {0}
  <2>1. \A m \in Moments : m \in Int
    BY <1>1 DEF Moments
  <2>2. tr.age \in Int /\ bound \in Int /\ nonce \in Int
    BY DEF TypeOK, None, Horizon
  <2>3. d \in Int /\ (d > 0 \/ d = 1)
    BY <2>1, <2>2, Numbers DEF Gaps, Horizon
  <2> QED BY <2>3
<1>6. ASSUME Sound, tr.expires = jr.period, jr.period \in {Asks, Lasts}
      PROVE  Granted = Lasts /\ NewPeriod = Lasts
  <2>1. Asks \in Nat /\ Lasts \in Nat /\ world.grant \in Nat \ {0}
    BY Numbers
  <2>2. world.grant >= Asks \/ world.grant < Asks - 15
    BY <1>6 DEF Sound
  <2>3. Granted = Lasts
    BY <1>1, <1>6, <2>1 DEF Granted, Lower, Lasts
  <2> QED BY <1>1, <1>6, <2>1, <2>2, <2>3 DEF NewPeriod, Lasts, Lower
<1> QED BY <1>2, <1>3, <1>4, <1>5, <1>6

\* What a tick of d seconds did.
Passed(d) ==
  /\ Passes(d)
  /\ tr'.state = tr.state /\ tr'.last = tr.last /\ tr'.expires = tr.expires /\ tr'.auth = tr.auth
  /\ tr.state # "none" => tr'.age = Lower(tr.age + d, Horizon)
  /\ nonce' = IF nonce = None THEN None ELSE Lower(nonce + d, world.life + 1)
  /\ bound' = IF bound = None THEN None ELSE Higher(bound - d, 0)

LEMMA TickEffect ==
  ASSUME TypeOK, Tick
  PROVE  \E d \in Gaps \cup {1} : Passed(d)
<1>1. PICK d \in Gaps \cup {1} :
        /\ Passes(d)
        /\ tr' = IF tr.state = "none" THEN tr ELSE [tr EXCEPT !.age = Lower(@ + d, Horizon)]
        /\ nonce' = IF nonce = None THEN None ELSE Lower(nonce + d, world.life + 1)
        /\ bound' = IF bound = None THEN None ELSE Higher(bound - d, 0)
  BY DEF Tick
<1>2. /\ tr'.state = tr.state /\ tr'.last = tr.last /\ tr'.expires = tr.expires
      /\ tr'.auth = tr.auth
      /\ tr.state # "none" => tr'.age = Lower(tr.age + d, Horizon)
  BY <1>1 DEF TypeOK
<1> QED BY <1>1, <1>2 DEF Passed

\* Every step keeps the types.
LEMMA TypeStep == TypeOK /\ [Next]_vars => TypeOK'
<1> SUFFICES ASSUME TypeOK, [Next]_vars PROVE TypeOK'
  OBVIOUS
<1> USE DEF TypeOK
<1>1. CASE Register
  <2>1. First \in Nat /\ jr' = [jr EXCEPT !.state = "up", !.period = First] /\ Send(First, FALSE)
    BY <1>1, Numbers DEF Register, First
  <2> QED BY <1>1, <2>1, Sent DEF Register
<1>2. CASE Unregister
  <2> DEFINE j == [jr EXCEPT !.period = 0]
  <2>1. j \in [state : {"none", "up", "freed"}, period : Nat, retry : 0 .. 3]
    OBVIOUS
  <2>2. UNCHANGED <<world, nonce, bound, told>> /\ leave' \in {"no", "sent", "refused"}
    BY <1>2 DEF Unregister
  <2>3. CASE tr.state = "trying"
    BY <1>2, <2>1, <2>2, <2>3 DEF Unregister
  <2>4. CASE tr.state = "over"
    <3>1. Again(j)
      BY <1>2, <2>4 DEF Unregister
    <3> HIDE DEF j
    <3> QED BY <2>1, <2>2, <3>1, AgainTypes
  <2>5. CASE tr.state = "none"
    <3>1. jr' = j /\ Send(0, FALSE)
      BY <1>2, <2>5 DEF Unregister
    <3> HIDE DEF j
    <3> QED BY <2>1, <2>2, <3>1, Sent
  <2> QED BY <2>3, <2>4, <2>5
<1>3. CASE eXosip_automatic_action
  <2> DEFINE j == IF DueToRefresh THEN jr ELSE [jr EXCEPT !.retry = @ + 1]
  <2>1. j \in [state : {"none", "up", "freed"}, period : Nat, retry : 0 .. 3]
    BY <1>3 DEF eXosip_automatic_action, Due, DueToRetry
  <2>2. Again(j) /\ UNCHANGED <<world, nonce, bound, told, leave>>
    BY <1>3 DEF eXosip_automatic_action
  <2> HIDE DEF j
  <2> QED BY <2>1, <2>2, AgainTypes
<1>4. CASE eXosip_release_terminated_registrations
  BY <1>4 DEF eXosip_release_terminated_registrations, NoTransaction, Horizon
<1>5. CASE Answer
  <2>1. ASSUME NEW code \in {"401", "423", "2xx", "503"}, Final(code), bound' \in Nat \cup {None},
               UNCHANGED <<world, leave, trouble>>
        PROVE  TypeOK'
    <3>1. tr' \in [state : {"none", "trying", "over"},
                   last : {"none", "1xx", "2xx", "401", "423", "503"},
                   age : 0 .. Horizon, expires : Nat, auth : BOOLEAN]
      BY <2>1 DEF Final
    <3>2. jr' \in [state : {"none", "up", "freed"}, period : Nat, retry : 0 .. 3]
      <4>1. jr' = jr \/ jr' = [jr EXCEPT !.period = NewPeriod, !.retry = 0]
        BY <2>1 DEF Final
      <4>2. NewPeriod \in Nat
        BY Numbered
      <4>3. jr \in [state : {"none", "up", "freed"}, period : Nat, retry : 0 .. 3]
        OBVIOUS
      <4> DEFINE p == NewPeriod
      <4>4. jr' = jr \/ jr' = [jr EXCEPT !.period = p, !.retry = 0]
        BY <4>1
      <4>5. p \in Nat
        BY <4>2
      <4> HIDE DEF TypeOK, p
      <4>6. [jr EXCEPT !.period = p, !.retry = 0]
              \in [state : {"none", "up", "freed"}, period : Nat, retry : 0 .. 3]
        <5> DEFINE q == [jr EXCEPT !.period = p]
        <5>1. q \in [state : {"none", "up", "freed"}, period : Nat, retry : 0 .. 3]
          BY <4>3, <4>5
        <5>2. [jr EXCEPT !.period = p, !.retry = 0] = [q EXCEPT !.retry = 0]
          OBVIOUS
        <5> HIDE DEF q
        <5>3. [q EXCEPT !.retry = 0] \in [state : {"none", "up", "freed"}, period : Nat, retry : 0 .. 3]
          BY <5>1
        <5> QED BY <5>2, <5>3
      <4> QED BY <4>3, <4>4, <4>6
    <3>3. /\ told' \in {"nothing", "SUCCESS", "FAILURE"} /\ nonce' \in Nat \cup {None}
          /\ wire' \in {"idle", "prompt"} \cup Troubles
      BY <2>1 DEF Final
    <3> QED BY <2>1, <3>1, <3>2, <3>3
  <2>2. CASE wire = "prompt"
    BY <1>5, <2>1, <2>2, Numbered DEF Answer
  <2>3. CASE wire = "busy"
    BY <1>5, <2>1, <2>3 DEF Answer
  <2>4. CASE wire = "deaf"
    BY <1>5, <2>4, Numbered DEF Answer, Troubles
  <2>5. CASE wire = "stalls"
    BY <1>5, <2>5 DEF Answer, Troubles
  <2> QED BY <1>5, <2>2, <2>3, <2>4, <2>5 DEF Answer
<1>6. CASE Timeout
  BY <1>6 DEF Timeout
<1>7. CASE Tick
  <2>1. PICK d \in Gaps \cup {1} :
          /\ tr' = IF tr.state = "none" THEN tr ELSE [tr EXCEPT !.age = Lower(@ + d, Horizon)]
          /\ nonce' = IF nonce = None THEN None ELSE Lower(nonce + d, world.life + 1)
          /\ bound' = IF bound = None THEN None ELSE Higher(bound - d, 0)
    BY <1>7 DEF Tick
  <2>2. d \in Nat
    BY Numbered
  <2>3. nonce' \in Nat \cup {None} /\ bound' \in Nat \cup {None}
    BY <2>1, <2>2, Numbers DEF Lower, Higher, None
  <2>4. Lower(tr.age + d, Horizon) \in 0 .. Horizon
    <3>1. tr.age \in Nat
      BY DEF Horizon
    <3>2. \A n \in Nat : Lower(n, Horizon) \in 0 .. Horizon
      BY DEF Lower, Horizon
    <3>3. tr.age + d \in Nat
      BY <2>2, <3>1
    <3> QED BY <3>2, <3>3
  <2> QED BY <1>7, <2>1, <2>3, <2>4 DEF Tick
<1>8. CASE UNCHANGED vars
  BY <1>8 DEF vars
<1> QED BY <1>1, <1>2, <1>3, <1>4, <1>5, <1>6, <1>7, <1>8 DEF Next, Progress

-----------------------------------------------------------------------------
(* The steps of a registration that is kept                                *)

\* A refresh is sent in time, and the retry of a challenged one at once.
LEMMA RefreshKept ==
  ASSUME TypeOK, Kept, Sound, trouble = 0, trouble' = 0, Answering,
         bound = None => NotYet, bound # None => Once, eXosip_automatic_action
  PROVE  Answering' /\ (bound' = None => NotYet') /\ (bound' # None => Once')
<1> DEFINE j == IF DueToRefresh THEN jr ELSE [jr EXCEPT !.retry = @ + 1]
           period == IF tr.last = "423" THEN world.min ELSE j.period
<1>1. /\ Again(j) /\ world' = world /\ nonce' = nonce /\ bound' = bound
      /\ tr.state = "over" /\ (DueToRefresh \/ DueToRetry)
  BY DEF eXosip_automatic_action, Due
<1>2. First' = First /\ Lasts' = Lasts /\ Refreshed' = Refreshed
  BY <1>1 DEF First, Lasts, Asks, Refreshed, Tenth
<1>3. j.period = jr.period /\ wire = "idle"
  BY <1>1 DEF Answering, TypeOK
<1>4. CASE Stuck
  <2>1. jr' = j /\ tr' = NoTransaction /\ wire' = wire /\ tr.last = "423"
    BY <1>1, <1>4 DEF Again, Stuck
  <2>2. bound = None
    BY <1>1, <2>1 DEF Once, Resting, Refreshing, Challenged, Retrying
  <2> HIDE DEF j
  <2> QED BY <1>1, <1>2, <1>3, <2>1, <2>2 DEF Answering, NotYet, NoTransaction
<1>5. CASE ~Stuck
  <2>1. jr' = [j EXCEPT !.period = period] /\ Send(period, Credentials)
    BY <1>1, <1>5 DEF Again
  <2>2. /\ wire' = "prompt"
        /\ tr' = [state |-> "trying", last |-> "none", age |-> 0,
                  expires |-> period, auth |-> Credentials]
    <3>1. period \in Nat /\ Credentials \in BOOLEAN
      BY <1>3, Numbers DEF Credentials, TypeOK
    <3> HIDE DEF period
    <3> QED BY <2>1, <3>1, Sent
  <2>3. jr'.period = period /\ jr'.retry = j.retry
    BY <2>1 DEF TypeOK
  <2>4. Answering'
    <3> HIDE DEF period
    <3> QED BY <2>2, <2>3, BoundsAssumption DEF Answering
  <2>5. CASE bound = None
    <3>1. period = First \/ (period = world.min /\ First < world.min)
      BY <1>3, <2>5 DEF NotYet
    <3> HIDE DEF period
    <3> QED BY <1>1, <1>2, <2>2, <2>3, <2>4, <2>5, <3>1 DEF NotYet
  <2>6. CASE bound # None /\ Resting
    <3>1. jr.period = Lasts /\ tr.last = "2xx"
      BY <2>6 DEF Once, Resting
    <3>2. j = jr /\ period = Lasts
      BY <1>1, <3>1 DEF DueToRetry
    <3>3. bound >= Lasts - Refreshed
      BY <2>6, Numbers DEF Resting, TypeOK, Horizon
    <3>4. jr'.retry = 0
      BY ZenonT(40), <2>3, <2>6, <3>2 DEF Resting
    <3> HIDE DEF j, period
    <3> QED BY <1>1, <1>2, <2>2, <2>3, <2>4, <2>6, <3>2, <3>3, <3>4 DEF Once, Refreshing, TypeOK, None
  <2>7. CASE bound # None /\ Challenged
    <3>1. jr.period = Lasts /\ tr.last = "401" /\ jr.retry = 0 /\ tr.age \in 0 .. 10
      BY <2>7, Numbers DEF Once, Challenged, TypeOK, Horizon
    <3>2. ~DueToRefresh
      BY <3>1, Numbers DEF DueToRefresh, Tenth
    <3>3. j.retry = 1 /\ period = Lasts /\ Credentials
      BY <1>3, <3>1, <3>2 DEF Credentials, TypeOK
    <3> HIDE DEF j, period
    <3> QED BY <1>1, <1>2, <2>2, <2>3, <2>4, <2>7, <3>3, Numbers DEF Once, Challenged, Retrying, TypeOK, None
  <2> QED BY <1>1, <2>5, <2>6, <2>7 DEF Once, Refreshing, Retrying
<1> QED BY <1>4, <1>5

\* After a success all begins again, after a challenge there is time for another
\* attempt, and that one is not challenged again.
LEMMA AnswerKept ==
  ASSUME TypeOK, Kept, Sound, trouble = 0, Answering,
         bound = None => NotYet, bound # None => Once, Answer
  PROVE  Answering' /\ (bound' = None => NotYet') /\ (bound' # None => Once')
<1>1. /\ wire = "prompt" /\ tr.state = "trying" /\ Final(Verdict) /\ bound' = Binding
      /\ world' = world /\ tr.age <= MaxRtt /\ tr.expires = jr.period
  BY DEF Answer, Answering, Troubles
<1>2. First' = First /\ Lasts' = Lasts /\ Refreshed' = Refreshed
  BY <1>1 DEF First, Lasts, Asks, Refreshed, Tenth
<1>3. /\ tr'.state = "over" /\ tr'.last = Verdict /\ tr'.age = tr.age /\ wire' = "idle"
      /\ nonce' = IF Verdict = "401" THEN 0 ELSE nonce
      /\ Verdict # "2xx" => jr' = jr
  BY <1>1 DEF Final, TypeOK
<1>4. Answering'
  BY <1>3 DEF Answering
<1>5. CASE Verdict = "2xx"
  <2>1. jr.period = Asks \/ jr.period = Lasts
    <3>1. CASE bound = None
      <4>1. ~(tr.expires > 0 /\ tr.expires < world.min)
        BY <1>5 DEF Verdict
      <4> QED BY <1>1, <3>1, <4>1, Numbers DEF NotYet, Asks, First, Higher
    <3>2. CASE bound # None
      BY <3>2 DEF Once
    <3> QED BY <3>1, <3>2
  <2>2. bound' = Lasts /\ jr' = [jr EXCEPT !.period = NewPeriod, !.retry = 0] /\ NewPeriod = Lasts
    BY <1>1, <1>5, <2>1, Numbered DEF Final, Binding
  <2>3. jr'.period = Lasts /\ jr'.retry = 0
    BY <2>2 DEF TypeOK
  <2>4. tr.age \in Nat /\ tr.age <= Refreshed /\ tr.age <= 901
    BY SMTT(20), <1>1, Numbers DEF TypeOK, Horizon, Refreshed
  <2> QED BY <1>2, <1>3, <1>4, <1>5, <2>2, <2>3, <2>4, Numbers DEF Once, Resting, None
<1>6. CASE Verdict # "2xx" /\ bound = None
  <2>1. Verdict = "423" => tr.expires > 0 /\ tr.expires < world.min
    BY DEF Verdict
  <2>2. Verdict = "423" => First < world.min
    BY <1>1, <1>6, <2>1, Numbers DEF NotYet
  <2>3. bound' = None
    BY <1>1, <1>6 DEF Binding
  <2> QED BY <1>1, <1>2, <1>3, <1>4, <1>6, <2>2, <2>3 DEF NotYet
<1>7. CASE Verdict # "2xx" /\ bound # None
  <2>1. bound' = bound
    BY <1>1, <1>7 DEF Binding
  <2>2. jr.period = Lasts /\ (Refreshing \/ Retrying)
    BY <1>1, <1>7 DEF Once, Resting, Challenged
  <2>3. Verdict = "401"
    BY <1>1, <1>7, <2>2, Numbers DEF Verdict
  <2>4. ~Retrying
    <3>1. world.life > 0 /\ ~(tr.auth /\ nonce \in 0 .. world.life)
      BY <2>3 DEF Verdict
    <3> QED BY <1>1, <3>1, Numbers DEF Retrying, Sound, NonceLives, TypeOK, Horizon
  <2>5. bound >= Lasts - Refreshed - MaxRtt
    BY <1>1, <2>2, <2>4, Numbers DEF Refreshing, TypeOK, Horizon, None
  <2> QED BY <1>1, <1>2, <1>3, <1>4, <1>7, <2>1, <2>2, <2>3, <2>4, <2>5 DEF Once, Refreshing, Challenged
<1> QED BY <1>5, <1>6, <1>7

\* Time does not pass beyond the age at which the refresh is due, nor over a
\* challenge, and a second at a time while a request is under way.
LEMMA TickKept ==
  ASSUME TypeOK, Kept, Sound, trouble = 0, Answering,
         bound = None => NotYet, bound # None => Once, Tick
  PROVE  Answering' /\ (bound' = None => NotYet') /\ (bound' # None => Once')
<1>1. PICK d \in Gaps \cup {1} :
        /\ Passes(d)
        /\ tr' = IF tr.state = "none" THEN tr ELSE [tr EXCEPT !.age = Lower(@ + d, Horizon)]
        /\ nonce' = IF nonce = None THEN None ELSE Lower(nonce + d, world.life + 1)
        /\ bound' = IF bound = None THEN None ELSE Higher(bound - d, 0)
  BY DEF Tick
<1>2. /\ world' = world /\ jr' = jr /\ wire' = wire /\ ~Due
      /\ First' = First /\ Lasts' = Lasts /\ Refreshed' = Refreshed
  BY DEF Tick, First, Lasts, Asks, Refreshed, Tenth
<1>3. d \in Nat \ {0} /\ tr.age \in 0 .. Horizon /\ jr.state = "up"
  BY Numbered DEF TypeOK, Kept
<1>4. /\ tr'.state = tr.state /\ tr'.last = tr.last /\ tr'.expires = tr.expires
      /\ tr'.auth = tr.auth
      /\ tr.state # "none" => tr'.age = Lower(tr.age + d, Horizon)
  BY <1>1 DEF TypeOK
<1>5. wire = "prompt" => d = 1 /\ tr.age + 1 <= MaxRtt /\ tr'.age = tr.age + 1
  <2> SUFFICES ASSUME wire = "prompt" PROVE d = 1 /\ tr.age + 1 <= MaxRtt /\ tr'.age = tr.age + 1
    OBVIOUS
  <2>1. d = 1 /\ tr.age < MaxRtt /\ MaxRtt \in 0 .. 10
    BY <1>1, Numbers, BoundsAssumption DEF Passes
  <2>2. tr'.age = Lower(tr.age + 1, Horizon)
    BY <1>4, <2>1 DEF Answering
  <2>3. tr.age \in Nat
    BY <1>3 DEF Horizon
  <2>4. tr.age + 1 <= MaxRtt /\ tr.age + 1 < 901
    BY <2>1, <2>3
  <2> QED BY <2>1, <2>2, <2>3, <2>4 DEF Lower, Horizon
<1>6. Answering'
  BY <1>2, <1>4, <1>5 DEF Answering
<1>7. CASE bound = None
  BY <1>1, <1>2, <1>4, <1>6, <1>7 DEF NotYet
<1>8. CASE bound # None
  <2>1. bound \in Nat /\ bound' = Higher(bound - d, 0) /\ bound' >= bound - d /\ bound' # None
    BY <1>1, <1>3, <1>8 DEF TypeOK, Higher, None
  <2>2. jr'.period = Lasts' /\ bound' \in Nat
    BY <1>2, <1>3, <1>8, <2>1 DEF Once, Higher
  <2>3. CASE Resting
    <3>1. tr.age <= 900 /\ tr.age < Refreshed
      <4>1. ~DueToRefresh /\ jr.period = Lasts /\ jr.period # 0
        BY <1>2, <1>3, <1>8, <2>3, Numbers DEF Due, Once, Resting
      <4>2. ~(tr.age > 900) /\ ~(tr.age > Lasts - Tenth)
        BY <4>1 DEF DueToRefresh, Tenth
      <4>3. tr.age \in Nat /\ Lasts \in Nat /\ Tenth \in Nat
        BY SMTT(20), <1>3, Numbers DEF Horizon
      <4> QED BY <4>2, <4>3 DEF Refreshed
    <3>2. Refreshed - tr.age \in Gaps /\ 901 - tr.age \in Gaps
      <4>1. Refreshed \in Moments /\ 901 \in Moments
        BY <1>8 DEF Once, Moments, Refreshed, Tenth
      <4>2. tr.age \in Nat /\ Refreshed \in Nat
        BY SMTT(20), <1>3, Numbers DEF Horizon
      <4>3. Refreshed - tr.age > 0 /\ 901 - tr.age > 0
        BY <3>1, <4>2
      <4>4. {Refreshed - tr.age, 901 - tr.age} \subseteq {m - tr.age : m \in Moments}
        BY <4>1
      <4> QED BY <4>3, <4>4 DEF Gaps
    <3>3. d <= Refreshed - tr.age /\ d <= 901 - tr.age
      BY <1>1, <2>3, <3>2 DEF Passes, Answering, Resting
    <3>4. tr'.age = tr.age + d
      BY SMTT(20), <1>3, <1>4, <2>3, <3>3 DEF Lower, Horizon, Resting
    <3>5. tr'.age <= Refreshed /\ tr'.age <= 901 /\ bound' + tr'.age >= Lasts
      <4>1. tr.age \in Nat /\ Refreshed \in Nat /\ Lasts \in Nat
        BY SMTT(20), <1>3, Numbers DEF Horizon
      <4>2. bound + tr.age >= Lasts
        BY <2>3 DEF Resting
      <4> QED BY <1>3, <2>1, <2>2, <3>3, <3>4, <4>1, <4>2
    <3> QED BY <1>2, <1>4, <1>6, <2>1, <2>2, <2>3, <3>5 DEF Once, Resting
  <2>4. CASE Refreshing
    <3>1. wire = "prompt"
      BY <2>4 DEF Refreshing, Answering
    <3>2. bound' + tr'.age >= Lasts - Refreshed
      BY SMTT(20), <1>3, <1>5, <2>1, <2>2, <2>4, <3>1, Numbers DEF Refreshing, Horizon
    <3> QED BY <1>2, <1>4, <1>6, <2>1, <2>2, <2>4, <3>2 DEF Once, Refreshing
  <2>5. CASE Challenged
    <3>1. tr.age < 120
      BY SMTT(20), <1>3, <2>5, Numbers DEF Challenged, Horizon
    <3> QED BY <1>2, <1>3, <2>5, <3>1 DEF Challenged, Due, DueToRetry
  <2>6. CASE Retrying
    <3>1. wire = "prompt"
      BY <2>6 DEF Retrying, Answering
    <3>2. bound' + tr'.age >= Lasts - Refreshed - MaxRtt
      BY SMTT(20), <1>3, <1>5, <2>1, <2>2, <2>6, <3>1, Numbers DEF Retrying, Horizon
    <3>3. nonce' \in 0 .. tr'.age
      <4>1. nonce \in 0 .. tr.age /\ nonce # None /\ world.life \in Nat /\ tr.age \in Nat
        BY SMTT(20), <1>3, <2>6, Numbers DEF Retrying, None, Horizon
      <4>2. nonce' = Lower(nonce + 1, world.life + 1) /\ tr'.age = tr.age + 1
        BY <1>1, <1>5, <3>1, <4>1
      <4> QED BY <4>1, <4>2 DEF Lower
    <3> QED BY <1>2, <1>4, <1>6, <2>1, <2>2, <2>6, <3>2, <3>3 DEF Once, Retrying
  <2> QED BY <1>8, <2>3, <2>4, <2>5, <2>6 DEF Once
<1> QED BY <1>7, <1>8

-----------------------------------------------------------------------------

\* Every step keeps the invariant.
LEMMA NextIInv == IInv /\ [Next]_vars => IInv'
<1> SUFFICES ASSUME IInv, [Next]_vars PROVE IInv'
  OBVIOUS
<1>1. TypeOK /\ TypeOK' /\ Fresh /\ RegistrationInv
  BY TypeStep DEF IInv
<1>2. Fresh'
  <2> SUFFICES ASSUME jr'.state = "none" PROVE wire' = "idle" /\ bound' = None /\ jr'.retry = 0
    BY DEF Fresh
  <2> USE DEF TypeOK
  <2>1. CASE Register
    BY <1>1, <2>1 DEF Register
  <2>2. CASE Unregister \/ eXosip_automatic_action
    <3> DEFINE R == [state : {"none", "up", "freed"}, period : Nat, retry : 0 .. 3]
    <3>1. jr.state = "up" /\ jr \in R
      BY <1>1, <2>2 DEF Unregister, eXosip_automatic_action, Due
    <3>2. CASE Unregister
      <4> DEFINE j == [jr EXCEPT !.period = 0]
      <4>1. j \in R /\ j.state = "up" /\ (jr' = j \/ Again(j))
        BY <1>1, <3>1, <3>2 DEF Unregister
      <4> HIDE DEF j
      <4> QED BY <1>1, <4>1, AgainTypes
    <3>3. CASE eXosip_automatic_action
      <4> DEFINE j == IF DueToRefresh THEN jr ELSE [jr EXCEPT !.retry = @ + 1]
      <4>1. j \in R /\ j.state = "up" /\ Again(j)
        BY <1>1, <3>1, <3>3 DEF eXosip_automatic_action, Due, DueToRetry
      <4> HIDE DEF j
      <4> QED BY <1>1, <4>1, AgainTypes
    <3> QED BY <2>2, <3>2, <3>3
  <2>3. CASE eXosip_release_terminated_registrations
    BY <1>1, <2>3 DEF eXosip_release_terminated_registrations
  <2>4. CASE Answer
    <3>1. jr.state = "none"
      BY <1>1, <2>4 DEF Answer, Final
    <3> QED BY <1>1, <2>4, <3>1 DEF Answer, Fresh
  <2>5. CASE Timeout
    BY <1>1, <2>5 DEF Timeout, Fresh
  <2>6. CASE Tick
    BY <1>1, <2>6 DEF Tick
  <2>7. CASE UNCHANGED vars
    BY <1>1, <2>7 DEF vars, Fresh
  <2> QED BY <2>1, <2>2, <2>3, <2>4, <2>5, <2>6, <2>7 DEF Next, Progress
<1>3. ASSUME Kept', trouble' = 0, Sound'
      PROVE  Answering' /\ (bound' = None => NotYet') /\ (bound' # None => Once')
  <2> USE <1>3
  <2>1. world' = world
    BY DEF Next, Progress, Register, Unregister, Tick, eXosip_automatic_action, Answer, Timeout,
           eXosip_release_terminated_registrations, vars
  <2>2. Sound /\ First' = First
    BY <2>1 DEF Sound, NonceLives, First, Lasts, Asks
  <2>3. CASE Register
    <3>0. trouble \in Nat
      BY <1>1, BoundsAssumption DEF TypeOK
    <3>1. /\ jr.state = "none" /\ jr' = [jr EXCEPT !.state = "up", !.period = First]
          /\ Send(First, FALSE) /\ bound' = bound
      BY <2>3 DEF Register, First
    <3>2. trouble = 0 /\ bound' = None
      BY <1>1, <3>0, <3>1 DEF Send, Fresh
    <3>3. jr'.period = First
      BY <1>1, <3>1 DEF TypeOK
    <3>4. /\ wire' = "prompt"
          /\ tr' = [state |-> "trying", last |-> "none", age |-> 0, expires |-> First, auth |-> FALSE]
      BY <1>1, <3>1, <3>2, Numbers, Sent
    <3> QED BY <2>2, <3>2, <3>3, <3>4, BoundsAssumption DEF Answering, NotYet
  <2>4. CASE ~Register
    <3>0. ~Unregister
      BY <1>1, <1>3 DEF Unregister, Kept, TypeOK
    <3>1. Kept /\ trouble = 0
      <4>1. jr'.state = "up" /\ leave' = "no" /\ trouble \in Nat
        BY <1>1, BoundsAssumption DEF Kept, TypeOK
      <4>2. CASE eXosip_automatic_action
        <5>1. jr.state = "up" /\ leave = "no"
          BY <4>1, <4>2 DEF eXosip_automatic_action, Due
        <5>2. trouble' = 0 => trouble = 0
          BY <4>1, <4>2 DEF eXosip_automatic_action, Again, Send
        <5> QED BY <5>1, <5>2 DEF Kept
      <4>3. CASE Answer
        BY <1>1, <4>1, <4>3 DEF Answer, Final, Kept, TypeOK
      <4>4. CASE UNCHANGED vars \/ Timeout \/ Tick
        BY <4>1, <4>4 DEF vars, Timeout, Tick, Kept
      <4>5. ~eXosip_release_terminated_registrations
        BY <1>1, <4>1 DEF eXosip_release_terminated_registrations, TypeOK
      <4> QED BY <2>4, <3>0, <4>2, <4>3, <4>4, <4>5 DEF Next, Progress
    <3>2. Answering /\ (bound = None => NotYet) /\ (bound # None => Once)
      BY <1>1, <2>2, <3>1 DEF RegistrationInv
    <3>4. CASE eXosip_automatic_action
      BY <1>1, <2>2, <3>1, <3>2, <3>4, RefreshKept
    <3>5. ~eXosip_release_terminated_registrations
      BY <1>1, <2>2, <3>1, <3>2, Numbers
         DEF eXosip_release_terminated_registrations, Over, NotYet, Once, TypeOK
    <3>6. CASE Answer
      BY <1>1, <2>2, <3>1, <3>2, <3>6, AnswerKept
    <3>7. ~Timeout
      BY <3>2 DEF Timeout, Answering
    <3>8. CASE Tick
      BY <1>1, <2>2, <3>1, <3>2, <3>8, TickKept
    <3>9. CASE UNCHANGED vars
      <4>1. /\ world' = world /\ jr' = jr /\ tr' = tr /\ nonce' = nonce /\ wire' = wire
            /\ bound' = bound
        BY <3>9 DEF vars
      <4>2. First' = First /\ Lasts' = Lasts /\ Refreshed' = Refreshed
        BY <4>1 DEF First, Lasts, Asks, Refreshed, Tenth
      <4> QED BY <3>2, <4>1, <4>2
              DEF Answering, NotYet, Once, Resting, Refreshing, Challenged, Retrying
    <3> QED BY <2>4, <3>0, <3>4, <3>5, <3>6, <3>7, <3>8, <3>9 DEF Next, Progress
  <2> QED BY <2>3, <2>4
<1> QED BY <1>1, <1>2, <1>3 DEF IInv, RegistrationInv

-----------------------------------------------------------------------------
(* What is on the wire                                                     *)

\* What asking again comes to.
LEMMA AgainEffect ==
  ASSUME TypeOK, NEW j \in [state : {"none", "up", "freed"}, period : Nat, retry : 0 .. 3],
         Again(j)
  PROVE  LET p == IF tr.last = "423" THEN world.min ELSE j.period IN
         \/ /\ Stuck /\ jr' = j /\ tr' = NoTransaction /\ wire' = wire /\ trouble' = trouble
         \/ /\ ~Stuck /\ Requested(p, Credentials)
            /\ jr'.state = j.state /\ jr'.retry = j.retry /\ jr'.period = p
<1> DEFINE p == IF tr.last = "423" THEN world.min ELSE j.period
<1>1. p \in Nat /\ Credentials \in BOOLEAN
  BY Numbers DEF Credentials
<1>2. CASE Stuck
  BY <1>2 DEF Again
<1>3. CASE ~Stuck
  <2>1. jr' = [j EXCEPT !.period = p] /\ Send(p, Credentials)
    BY <1>3 DEF Again
  <2>2. jr'.state = j.state /\ jr'.retry = j.retry /\ jr'.period = p
    BY <2>1
  <2> HIDE DEF p
  <2>3. Requested(p, Credentials)
    BY <1>1, <2>1, SendEffect
  <2> QED BY <1>3, <2>2, <2>3 DEF p
<1> QED BY <1>2, <1>3

\* A step keeps the wire in line with the transaction, and its ages bounded.
LEMMA WireStep == IInv /\ WireInv /\ [Next]_vars => WireInv'
<1> SUFFICES ASSUME IInv, WireInv, [Next]_vars PROVE WireInv'
  OBVIOUS
<1>1. TypeOK /\ Fresh
  BY DEF IInv
<1>2. MaxRtt \in Nat /\ MaxRtt <= 10
  BY BoundsAssumption
<1>3. ASSUME NEW e \in Nat, NEW a \in BOOLEAN, Requested(e, a), jr'.period \in {0, e}
      PROVE  WireInv'
  <2>1. tr'.state = "trying" /\ tr'.last = "none" /\ tr'.age = 0 /\ tr'.expires = e /\ wire' # "idle"
    BY <1>3 DEF Requested
  <2> QED BY <1>2, <1>3, <2>1 DEF WireInv
<1>4. ASSUME wire = "idle", wire' = wire, tr' = NoTransaction
      PROVE  WireInv'
  BY <1>4 DEF WireInv, NoTransaction
<1>5. ASSUME NEW j \in [state : {"none", "up", "freed"}, period : Nat, retry : 0 .. 3],
             Again(j), tr.state = "over"
      PROVE  WireInv'
  <2> DEFINE p == IF tr.last = "423" THEN world.min ELSE j.period
  <2>1. p \in Nat /\ Credentials \in BOOLEAN
    BY <1>1, Numbers DEF Credentials
  <2>2. \/ tr' = NoTransaction /\ wire' = wire
        \/ Requested(p, Credentials) /\ jr'.period = p
    BY <1>1, <1>5, AgainEffect
  <2> HIDE DEF p
  <2>3. wire = "idle"
    BY <1>5 DEF WireInv
  <2> QED BY <1>3, <1>4, <2>1, <2>2, <2>3
<1>6. CASE Register
  <2>1. First \in Nat /\ jr' = [jr EXCEPT !.state = "up", !.period = First] /\ Send(First, FALSE)
    BY <1>1, <1>6, Numbers DEF Register, First
  <2>2. jr'.period = First
    BY <1>1, <2>1 DEF TypeOK
  <2>3. Requested(First, FALSE)
    BY <1>1, <2>1, SendEffect
  <2> QED BY <1>3, <2>1, <2>2, <2>3
<1>7. CASE Unregister
  <2> DEFINE j == [jr EXCEPT !.period = 0]
  <2>1. j \in [state : {"none", "up", "freed"}, period : Nat, retry : 0 .. 3] /\ j.period = 0
    BY <1>1 DEF TypeOK
  <2>2. CASE tr.state = "trying"
    <3>1. jr' = j /\ tr' = tr /\ wire' = wire
      BY <1>7, <2>2 DEF Unregister
    <3> HIDE DEF j
    <3> QED BY <2>1, <3>1 DEF WireInv
  <2>3. CASE tr.state = "over"
    <3>1. Again(j)
      BY <1>7, <2>3 DEF Unregister
    <3> HIDE DEF j
    <3> QED BY <1>5, <2>1, <2>3, <3>1
  <2>4. CASE tr.state = "none"
    <3>1. jr' = j /\ Send(0, FALSE)
      BY <1>7, <2>4 DEF Unregister
    <3> HIDE DEF j
    <3>2. Requested(0, FALSE)
      BY <1>1, <3>1, SendEffect
    <3> QED BY <1>3, <2>1, <3>1, <3>2
  <2> QED BY <1>1, <2>2, <2>3, <2>4 DEF TypeOK
<1>8. CASE eXosip_automatic_action
  <2> DEFINE j == IF DueToRefresh THEN jr ELSE [jr EXCEPT !.retry = @ + 1]
  <2>1. j \in [state : {"none", "up", "freed"}, period : Nat, retry : 0 .. 3]
    BY <1>1, <1>8 DEF eXosip_automatic_action, Due, DueToRetry, TypeOK
  <2>2. Again(j) /\ tr.state = "over"
    BY <1>8 DEF eXosip_automatic_action, Due
  <2> HIDE DEF j
  <2> QED BY <1>5, <2>1, <2>2
<1>9. CASE eXosip_release_terminated_registrations
  <2>1. tr.state # "none" /\ (tr.age > 75 \/ tr.last = "2xx") /\ tr' = NoTransaction /\ wire' = wire
    BY <1>9 DEF eXosip_release_terminated_registrations, Over
  <2>2. tr.age \in Nat
    BY <1>1 DEF TypeOK, Horizon
  <2>3. tr.state # "trying"
    BY <2>1, <2>2 DEF WireInv
  <2> QED BY <1>4, <2>1, <2>3 DEF WireInv
<1>10. CASE Answer
  <2>1. tr.state = "trying"
    BY <1>10 DEF Answer, WireInv
  <2>2. CASE \E code \in {"401", "423", "2xx", "503"} : Final(code)
    <3>1. tr'.state = "over" /\ wire' = "idle"
      BY <1>1, <2>2 DEF Final, TypeOK
    <3> QED BY <3>1 DEF WireInv
  <2>3. CASE wire = "deaf"
    <3>1. wire' = "lost" /\ tr' = tr /\ jr' = jr
      BY <1>10, <2>3 DEF Answer
    <3> QED BY <2>1, <3>1 DEF WireInv
  <2>4. CASE wire = "stalls"
    <3>1. wire' = "lost" /\ tr' = [tr EXCEPT !.last = "1xx"] /\ jr' = jr
      BY <1>10, <2>4 DEF Answer
    <3>2. tr'.state = tr.state /\ tr'.last = "1xx" /\ tr'.age = tr.age /\ tr'.expires = tr.expires
      BY <1>1, <3>1 DEF TypeOK
    <3> QED BY <2>1, <3>1, <3>2 DEF WireInv
  <2>5. wire \in {"prompt", "busy"} => \E code \in {"401", "423", "2xx", "503"} : Final(code)
    BY <1>1, <1>10, Numbered DEF Answer
  <2> QED BY <1>10, <2>2, <2>3, <2>4, <2>5 DEF Answer
<1>11. CASE Timeout
  <2>1. tr'.state = "over" /\ wire' = "idle"
    BY <1>1, <1>11 DEF Timeout, TypeOK
  <2> QED BY <2>1 DEF WireInv
<1>12. CASE Tick
  <2>1. PICK d \in Gaps \cup {1} : Passed(d)
    BY <1>12, TickEffect, <1>1
  <2>2. /\ tr'.state = tr.state /\ tr'.last = tr.last /\ tr'.expires = tr.expires
        /\ wire' = wire /\ jr' = jr
    BY <1>12, <2>1 DEF Passed, Tick
  <2>3. tr.age \in Nat /\ d \in Nat \ {0}
    BY <1>1, Numbered DEF TypeOK, Horizon
  <2>4. tr.state = "trying" => tr'.age <= 32
    <3> SUFFICES ASSUME tr.state = "trying" PROVE tr'.age <= 32
      OBVIOUS
    <3>1. tr'.age = Lower(tr.age + d, Horizon)
      BY <2>1 DEF Passed
    <3>2. tr.age + d <= 32
      <4>1. CASE wire = "lost"
        <5>1. tr.age < 32
          BY <1>12, <4>1 DEF Tick
        <5>2. 32 - tr.age \in Gaps
          BY <2>3, <5>1 DEF Gaps, Moments
        <5>3. d <= 32 - tr.age
          BY <2>1, <4>1, <5>2 DEF Passed, Passes
        <5> QED BY <2>3, <5>3
      <4>2. CASE wire # "lost"
        <5>1. d = 1 /\ tr.age < MaxRtt
          BY <2>1, <4>2 DEF Passed, Passes, WireInv
        <5> QED BY <1>2, <2>3, <5>1
      <4> QED BY <4>1, <4>2
    <3> QED BY <2>3, <3>1, <3>2 DEF Lower, Horizon
  <2>5. wire = "prompt" => tr'.age <= MaxRtt
    <3> SUFFICES ASSUME wire = "prompt" PROVE tr'.age <= MaxRtt
      OBVIOUS
    <3>1. d = 1 /\ tr.age < MaxRtt
      BY <2>1 DEF Passed, Passes
    <3>2. tr'.age = Lower(tr.age + d, Horizon)
      BY <2>1 DEF Passed, WireInv
    <3> QED BY <1>2, <2>3, <3>1, <3>2 DEF Lower, Horizon
  <2> QED BY <2>2, <2>4, <2>5 DEF WireInv
<1>13. CASE UNCHANGED vars
  BY <1>13 DEF vars, WireInv
<1> QED BY <1>6, <1>7, <1>8, <1>9, <1>10, <1>11, <1>12, <1>13 DEF Next, Progress

-----------------------------------------------------------------------------
(* What the application was told                                           *)

\* With a sound registrar the period of an accepted request is the final one.
LEMMA Accepted ==
  ASSUME TypeOK, Sound, jr.period \in {First, Asks, Lasts}, tr.expires = jr.period
  PROVE  /\ Verdict = "423" => First < world.min
         /\ Verdict = "2xx" => NewPeriod = Lasts /\ Binding = Lasts
<1>1. Verdict = "423" => tr.expires > 0 /\ tr.expires < world.min
  BY DEF Verdict
<1>2. Verdict = "2xx" => ~(tr.expires > 0 /\ tr.expires < world.min)
  BY DEF Verdict
<1>3. Verdict = "423" => First < world.min
  BY <1>1, Numbers
<1>4. Verdict = "2xx" => jr.period \in {Asks, Lasts}
  BY <1>2, Numbers
<1> QED BY <1>3, <1>4, Numbered DEF Binding

\* A step keeps the news in line with the binding.
LEMMA NewsStep == IInv /\ WireInv /\ NewsInv /\ [Next]_vars => NewsInv'
<1> SUFFICES ASSUME IInv, WireInv, NewsInv, [Next]_vars, Kept', Sound'
             PROVE  /\ jr'.period \in {First', Asks', Lasts'}
                    /\ tr'.state = "trying" => tr'.expires = jr'.period
                    /\ tr'.last = "423" => First' < world'.min
                    /\ tr'.state = "none" => told' = "FAILURE"
                    /\ tr'.state = "over" /\ tr'.last \notin {"1xx", "2xx"} => told' = "FAILURE"
                    /\ tr'.state = "over" /\ tr'.last = "2xx" =>
                         /\ jr'.period = Lasts' /\ tr'.age <= Refreshed' /\ tr'.age <= 901
                         /\ bound' # None /\ bound' + tr'.age >= Lasts'
  BY DEF NewsInv
<1>1. TypeOK /\ Fresh /\ jr'.state = "up" /\ leave' = "no"
  BY DEF IInv, Kept
<1>2. world' = world
  BY DEF Next, Progress, Register, Unregister, Tick, eXosip_automatic_action, Answer, Timeout,
         eXosip_release_terminated_registrations, vars
<1>3. Sound /\ First' = First /\ Asks' = Asks /\ Lasts' = Lasts /\ Refreshed' = Refreshed
  BY <1>2 DEF Sound, NonceLives, First, Asks, Lasts, Refreshed, Tenth
<1>4. First \in Nat /\ Asks \in Nat /\ Lasts \in Nat /\ Refreshed \in Nat
      /\ Refreshed < Lasts /\ MaxRtt < Refreshed /\ MaxRtt \in Nat /\ MaxRtt <= 10
  BY <1>1, <1>3, Numbers DEF Refreshed
<1>5. CASE Register
  <2>1. jr' = [jr EXCEPT !.state = "up", !.period = First] /\ Send(First, FALSE)
    BY <1>5 DEF Register, First
  <2>2. jr'.period = First /\ Requested(First, FALSE)
    BY <1>1, <1>4, <2>1, SendEffect DEF TypeOK
  <2>3. tr'.state = "trying" /\ tr'.last = "none" /\ tr'.expires = First
    BY <2>2 DEF Requested
  <2> QED BY <1>3, <2>2, <2>3
<1>6. ~Unregister
  BY <1>1 DEF Unregister, TypeOK
<1>7. ~eXosip_release_terminated_registrations
  BY <1>1 DEF eXosip_release_terminated_registrations, TypeOK
<1>8. ~Register => Kept
  <2> SUFFICES ASSUME ~Register PROVE jr.state = "up" /\ leave = "no"
    BY DEF Kept
  <2>1. CASE eXosip_automatic_action
    BY <1>1, <2>1 DEF eXosip_automatic_action, Due
  <2>2. CASE Answer
    BY <1>1, <2>2 DEF Answer, Final, TypeOK
  <2>3. CASE UNCHANGED vars \/ Timeout \/ Tick
    BY <1>1, <2>3 DEF vars, Timeout, Tick
  <2> QED BY <1>6, <1>7, <2>1, <2>2, <2>3 DEF Next, Progress
<1>9. ~Register =>
        /\ jr.period \in {First, Asks, Lasts}
        /\ tr.state = "trying" => tr.expires = jr.period
        /\ tr.last = "423" => First < world.min
        /\ tr.state = "none" => told = "FAILURE"
        /\ tr.state = "over" /\ tr.last \notin {"1xx", "2xx"} => told = "FAILURE"
        /\ tr.state = "over" /\ tr.last = "2xx" =>
             /\ jr.period = Lasts /\ tr.age <= Refreshed /\ tr.age <= 901
             /\ bound # None /\ bound + tr.age >= Lasts
  BY <1>3, <1>8 DEF NewsInv
<1>10. CASE eXosip_automatic_action /\ ~Register
  <2> DEFINE j == IF DueToRefresh THEN jr ELSE [jr EXCEPT !.retry = @ + 1]
             p == IF tr.last = "423" THEN world.min ELSE j.period
  <2>1. j \in [state : {"none", "up", "freed"}, period : Nat, retry : 0 .. 3] /\ j.period = jr.period
    BY <1>1, <1>10 DEF eXosip_automatic_action, Due, DueToRetry, TypeOK
  <2>2. Again(j) /\ tr.state = "over" /\ told' = told
    BY <1>10 DEF eXosip_automatic_action, Due
  <2>3. p \in {First, Asks, Lasts}
    <3>1. tr.last = "423" => world.min = Asks
      BY <1>1, <1>9, <1>10, Numbers
    <3> QED BY <1>9, <1>10, <2>1, <3>1
  <2>4. \/ Stuck /\ jr' = j /\ tr' = NoTransaction
        \/ Requested(p, Credentials) /\ jr'.period = p
    <3> HIDE DEF j
    <3> QED BY <1>1, <2>1, <2>2, AgainEffect
  <2> HIDE DEF j, p
  <2>5. CASE Stuck /\ jr' = j /\ tr' = NoTransaction
    <3>1. told = "FAILURE"
      BY <1>9, <1>10, <2>2, <2>5 DEF Stuck
    <3> QED BY <1>3, <1>9, <1>10, <2>1, <2>2, <2>5, <3>1 DEF NoTransaction
  <2>6. CASE Requested(p, Credentials) /\ jr'.period = p
    <3>1. tr'.state = "trying" /\ tr'.last = "none" /\ tr'.expires = p
      BY <2>6 DEF Requested
    <3> QED BY <1>3, <2>3, <2>6, <3>1
  <2> QED BY <2>4, <2>5, <2>6
<1>11. CASE Answer /\ ~Register
  <2>1. tr.state = "trying" /\ tr.last \in {"none", "1xx"} /\ tr.expires = jr.period
    BY <1>9, <1>11 DEF Answer, WireInv
  <2>2. CASE wire = "prompt"
    <3>1. Final(Verdict) /\ bound' = Binding
      BY <1>11, <2>2 DEF Answer
    <3>2. /\ tr'.state = "over" /\ tr'.last = Verdict /\ tr'.age = tr.age /\ tr.age \in Nat
          /\ tr.age <= MaxRtt
      BY <1>1, <2>2, <3>1 DEF Final, TypeOK, Horizon, WireInv
    <3>3. CASE Verdict = "2xx"
      <4>1. jr'.period = Lasts /\ bound' = Lasts
        <5>1. NewPeriod = Lasts /\ Binding = Lasts
          BY <1>1, <1>3, <1>9, <1>11, <2>1, <3>3, Accepted
        <5>2. jr' = [jr EXCEPT !.period = Lasts, !.retry = 0]
          BY <3>1, <3>3, <5>1 DEF Final
        <5> QED BY <1>1, <3>1, <5>1, <5>2 DEF TypeOK
      <4> QED BY <1>3, <1>4, <3>2, <3>3, <4>1 DEF None
    <3>4. CASE Verdict # "2xx"
      <4>1. jr' = jr /\ told' = "FAILURE"
        BY <3>1, <3>4 DEF Final
      <4>2. Verdict = "423" => First < world.min
        BY <1>1, <1>3, <1>9, <1>11, <2>1, Accepted
      <4> QED BY <1>2, <1>3, <1>9, <1>11, <3>2, <3>4, <4>1, <4>2
    <3> QED BY <3>3, <3>4
  <2>3. CASE wire = "busy"
    <3>1. Final("503")
      BY <1>11, <2>3 DEF Answer
    <3>2. tr'.state = "over" /\ tr'.last = "503" /\ jr' = jr /\ told' = "FAILURE"
      BY <1>1, <3>1 DEF Final, TypeOK
    <3> QED BY <1>3, <1>9, <1>11, <3>2
  <2>4. CASE wire = "deaf"
    <3>1. tr' = tr /\ jr' = jr
      BY <1>11, <2>4 DEF Answer
    <3> QED BY <1>3, <1>9, <1>11, <2>1, <3>1
  <2>5. CASE wire = "stalls"
    <3>1. tr' = [tr EXCEPT !.last = "1xx"] /\ jr' = jr
      BY <1>11, <2>5 DEF Answer
    <3>2. tr'.state = "trying" /\ tr'.last = "1xx" /\ tr'.expires = tr.expires
      BY <1>1, <2>1, <3>1 DEF TypeOK
    <3> QED BY <1>3, <1>9, <1>11, <2>1, <3>1, <3>2
  <2> QED BY <1>11, <2>2, <2>3, <2>4, <2>5 DEF Answer
<1>12. CASE Timeout /\ ~Register
  <2>1. tr.state = "trying" /\ tr.last \in {"none", "1xx"}
    BY <1>12 DEF Timeout, WireInv
  <2>2. /\ tr'.state = "over" /\ tr'.last = tr.last /\ jr' = jr
        /\ tr.last = "none" => told' = "FAILURE"
    BY <1>1, <1>12 DEF Timeout, TypeOK
  <2> QED BY <1>3, <1>9, <1>12, <2>1, <2>2
<1>13. CASE Tick /\ ~Register
  <2>1. PICK d \in Gaps \cup {1} : Passed(d)
    BY <1>1, <1>13, TickEffect
  <2>2. /\ tr'.state = tr.state /\ tr'.last = tr.last /\ tr'.expires = tr.expires
        /\ jr' = jr /\ told' = told
    BY <1>13, <2>1 DEF Passed, Tick
  <2>3. CASE tr.state = "over" /\ tr.last = "2xx"
    <3>1. tr.age \in Nat /\ d \in Nat \ {0} /\ bound \in Nat /\ jr.period = Lasts
      BY <1>1, <1>9, <1>13, <2>3, Numbered DEF TypeOK, Horizon
    <3>2. ~DueToRefresh /\ jr.period # 0
      BY <1>1, <1>3, <1>13, <2>3, <3>1, Numbers DEF Tick, Due
    <3>3. tr.age <= 900 /\ tr.age < Refreshed
      <4>1. ~(tr.age > 900) /\ ~(tr.age > Lasts - Tenth)
        BY <3>1, <3>2 DEF DueToRefresh, Tenth
      <4>2. Tenth \in Nat
        BY <1>1, <1>3, Numbers
      <4> QED BY <1>4, <3>1, <4>1, <4>2 DEF Refreshed
    <3>4. Refreshed - tr.age \in Gaps /\ 901 - tr.age \in Gaps
      <4>1. Refreshed \in Moments /\ 901 \in Moments
        BY <3>1 DEF Moments, Refreshed, Tenth
      <4>2. Refreshed - tr.age > 0 /\ 901 - tr.age > 0
        BY <1>4, <3>1, <3>3
      <4>3. {Refreshed - tr.age, 901 - tr.age} \subseteq {m - tr.age : m \in Moments}
        BY <4>1
      <4> QED BY <4>2, <4>3 DEF Gaps
    <3>5. wire = "idle"
      BY <2>3 DEF WireInv
    <3>6. d <= Refreshed - tr.age /\ d <= 901 - tr.age
      BY <2>1, <3>4, <3>5 DEF Passed, Passes
    <3>7. tr'.age = tr.age + d /\ bound' >= bound - d /\ bound' \in Nat
      <4>1. tr'.age = Lower(tr.age + d, Horizon) /\ bound' = Higher(bound - d, 0)
        BY <2>1, <2>3, <3>1 DEF Passed, None
      <4>2. tr'.age = tr.age + d
        BY <3>1, <3>6, <4>1 DEF Lower, Horizon
      <4> QED BY <3>1, <4>1, <4>2 DEF Higher
    <3>8. tr'.age <= Refreshed /\ tr'.age <= 901 /\ bound' # None /\ bound' + tr'.age >= Lasts
      <4>1. bound + tr.age >= Lasts
        BY <1>9, <1>13, <2>3
      <4> QED BY <1>4, <3>1, <3>6, <3>7, <4>1 DEF None
    <3> QED BY <1>2, <1>3, <1>9, <1>13, <2>2, <2>3, <3>1, <3>8
  <2>4. CASE ~(tr.state = "over" /\ tr.last = "2xx")
    BY <1>2, <1>3, <1>9, <1>13, <2>2, <2>4
  <2> QED BY <2>3, <2>4
<1>14. CASE UNCHANGED vars /\ ~Register
  <2>1. world' = world /\ jr' = jr /\ tr' = tr /\ told' = told /\ bound' = bound
    BY <1>14 DEF vars
  <2> QED BY <1>3, <1>9, <1>14, <2>1
<1> QED BY <1>5, <1>6, <1>7, <1>10, <1>11, <1>12, <1>13, <1>14 DEF Next, Progress

-----------------------------------------------------------------------------
(* The end                                                                 *)

\* A request that is sent without trouble.
LEMMA LeaveSent ==
  ASSUME IInv, NEW e \in Nat, NEW a \in BOOLEAN, Requested(e, a), trouble' = 0,
         jr'.state = "up", world' = world, nonce' = nonce,
         jr'.retry <= 2 \/ (a /\ nonce = 0 /\ jr'.retry <= 3), jr'.retry \in Nat,
         Enough(e) \/ jr'.retry = 0 \/ (a /\ nonce = 0 /\ jr'.retry = 1),
         leave' = "sent" /\ jr'.period = 0 => e = 0
  PROVE  Prompt' /\ Leaving' /\ Retries'
<1>1. /\ tr'.state = "trying" /\ tr'.last = "none" /\ tr'.age = 0 /\ tr'.expires = e
      /\ tr'.auth = a /\ wire' = "prompt"
  BY DEF Requested
<1>2. Prompt' /\ Leaving'
  BY <1>1 DEF Prompt, Leaving
<1>3. WithNonce' <=> a /\ nonce = 0
  <2>1. nonce \in Int
    BY DEF IInv, TypeOK, None
  <2> QED BY <1>1, <2>1 DEF WithNonce
<1>4. Retries'
  BY <1>1, <1>3 DEF Retries, Enough
<1> QED BY <1>2, <1>4

\* A step of a registrar that answers keeps the end in sight.
LEMMA LeaveStep == IInv /\ WireInv /\ LeaveInv /\ [Next]_vars => LeaveInv'
<1> SUFFICES ASSUME IInv, WireInv, LeaveInv, [Next]_vars, trouble' = 0, NonceLives'
             PROVE  Prompt' /\ Leaving' /\ (jr'.state = "up" => Retries')
  BY DEF LeaveInv
<1>1. TypeOK /\ Fresh /\ MaxRtt \in Nat /\ MaxRtt <= 10 /\ tr.age \in Nat /\ jr.retry \in 0 .. 3
      /\ jr.period \in Nat /\ trouble \in Nat
  BY BoundsAssumption DEF IInv, TypeOK, Horizon
<1>2. world' = world
  BY DEF Next, Progress, Register, Unregister, Tick, eXosip_automatic_action, Answer, Timeout,
         eXosip_release_terminated_registrations, vars
<1>3. NonceLives
  BY <1>2 DEF NonceLives
<1>4. trouble = 0
  <2>1. \A e, a : Send(e, a) => trouble' = trouble \/ trouble' = trouble + 1
    BY DEF Send
  <2>2. \A j : Again(j) => trouble' = trouble \/ trouble' = trouble + 1
    BY <2>1 DEF Again
  <2>3. Register \/ Unregister \/ eXosip_automatic_action => trouble' = trouble \/ trouble' = trouble + 1
    BY <1>1, <2>1, <2>2 DEF Register, Unregister, eXosip_automatic_action, TypeOK
  <2>4. trouble' = trouble \/ trouble' = trouble + 1
    BY <2>3 DEF Next, Progress, Tick, Answer, Timeout, eXosip_release_terminated_registrations, vars
  <2> QED BY <1>1, <2>4
<1>5. Prompt /\ Leaving /\ (jr.state = "up" => Retries)
  BY <1>3, <1>4 DEF LeaveInv
<1>6. ASSUME NEW j \in [state : {"none", "up", "freed"}, period : Nat, retry : 0 .. 3],
             j.state = "up", tr.state = "over", jr.state = "up", Again(j), nonce' = nonce,
             j.retry = jr.retry \/ (tr.last \in {"401", "423"} /\ j.retry = jr.retry + 1),
             j.period \in {0, jr.period},
             leave' = "sent" /\ j.period = 0 => tr.last # "423" \/ ~Stuck
      PROVE  Prompt' /\ Leaving' /\ Retries'
  <2> DEFINE p == IF tr.last = "423" THEN world.min ELSE j.period
  <2>1. p \in Nat /\ Credentials \in BOOLEAN /\ world.min \in Nat
    BY <1>1, <1>6, Numbers DEF Credentials
  <2>2. \/ Stuck /\ jr' = j /\ tr' = NoTransaction /\ wire' = wire
        \/ /\ Requested(p, Credentials)
           /\ jr'.state = "up" /\ jr'.retry = j.retry /\ jr'.period = p
    BY <1>1, <1>6, AgainEffect
  <2>3. /\ tr.last \in {"401", "423", "2xx"}
        /\ tr.last = "401" => nonce = 0 /\ jr.retry <= 2 /\ (Enough(jr.period) \/ jr.retry = 0)
        /\ tr.last = "423" => jr.retry <= 1 /\ world.min > 0
        /\ tr.last = "2xx" => jr.retry = 0
    BY <1>5, <1>6 DEF Prompt, Retries
  <2>4. j.retry \in Nat
    BY <1>1, <1>6
  <2> HIDE DEF p
  <2>5. CASE Stuck /\ jr' = j /\ tr' = NoTransaction /\ wire' = wire
    <3>1. tr.last = "423" /\ j.retry <= 2
      BY <1>1, <1>6, <2>3, <2>5 DEF Stuck
    <3>2. tr'.state = "none" /\ tr'.last = "none" /\ jr'.state = "up" /\ wire' = "idle"
      BY <1>6, <2>5 DEF NoTransaction, WireInv
    <3>3. ~(leave' = "sent" /\ jr'.period = 0)
      BY <1>6, <2>5, <3>1
    <3> QED BY <2>5, <3>1, <3>2, <3>3 DEF Prompt, Leaving, Retries
  <2>6. CASE /\ Requested(p, Credentials)
             /\ jr'.state = "up" /\ jr'.retry = j.retry /\ jr'.period = p
    <3>1. tr.last = "401" => Credentials
      BY DEF Credentials
    <3>2. jr'.retry <= 2 \/ (Credentials /\ nonce = 0 /\ jr'.retry <= 3)
      BY <1>1, <1>6, <2>3, <2>6, <3>1
    <3>3. Enough(p) \/ jr'.retry = 0 \/ (Credentials /\ nonce = 0 /\ jr'.retry = 1)
      <4>1. CASE tr.last = "423"
        BY <2>1, <4>1 DEF p, Enough
      <4>2. CASE tr.last = "2xx"
        BY <1>6, <2>3, <2>6, <4>2
      <4>3. CASE tr.last = "401"
        <5>1. p = j.period
          BY <4>3 DEF p
        <5>2. Enough(j.period) \/ jr.retry = 0
          BY <1>6, <2>3, <4>3 DEF Enough
        <5> QED BY <1>1, <1>6, <2>3, <2>6, <3>1, <4>3, <5>1, <5>2
      <4> QED BY <2>3, <4>1, <4>2, <4>3
    <3> QED BY <1>2, <1>6, <2>1, <2>4, <2>6, <3>2, <3>3, LeaveSent
  <2> QED BY <2>2, <2>5, <2>6
<1>7. CASE Register
  <2>1. /\ jr.state = "none" /\ jr' = [jr EXCEPT !.state = "up", !.period = First]
        /\ Send(First, FALSE) /\ nonce' = nonce
    BY <1>7 DEF Register, First
  <2>2. First \in Nat /\ First > 0
    BY <1>1, Numbers
  <2>3. jr'.state = "up" /\ jr'.period = First /\ jr'.retry = 0
    BY <1>1, <2>1 DEF TypeOK, Fresh
  <2>4. Requested(First, FALSE)
    BY <1>1, <2>1, <2>2, SendEffect
  <2>5. ~(leave' = "sent" /\ jr'.period = 0) /\ jr'.retry <= 2 /\ jr'.retry \in Nat
    BY <2>2, <2>3
  <2> QED BY <1>2, <2>1, <2>2, <2>3, <2>4, <2>5, LeaveSent
<1>8. CASE Unregister
  <2> DEFINE j == [jr EXCEPT !.period = 0]
  <2>1. /\ j \in [state : {"none", "up", "freed"}, period : Nat, retry : 0 .. 3]
        /\ j.state = "up" /\ jr.state = "up" /\ j.retry = jr.retry /\ j.period = 0
    BY <1>1, <1>8 DEF Unregister, TypeOK
  <2>2. nonce' = nonce /\ bound' = bound
    BY <1>8 DEF Unregister
  <2>3. CASE tr.state = "trying"
    <3>1. jr' = j /\ leave' = "refused" /\ tr' = tr /\ wire' = wire
      BY <1>8, <2>3 DEF Unregister
    <3> HIDE DEF j
    <3>2. Prompt' /\ Leaving'
      BY <1>5, <2>1, <2>3, <3>1 DEF Prompt, Leaving
    <3> QED BY <1>2, <1>5, <2>1, <2>2, <2>3, <3>1, <3>2 DEF Retries, Enough, WithNonce
  <2>4. CASE tr.state = "over"
    <3>1. Again(j) /\ leave' = (IF Stuck THEN "refused" ELSE "sent")
      BY <1>8, <2>4 DEF Unregister
    <3>2. leave' = "sent" => ~Stuck
      BY <3>1
    <3> HIDE DEF j
    <3> QED BY <1>6, <2>1, <2>2, <2>4, <3>1, <3>2
  <2>5. CASE tr.state = "none"
    <3>1. jr' = j /\ Send(0, FALSE)
      BY <1>8, <2>5 DEF Unregister
    <3> HIDE DEF j
    <3>2. Requested(0, FALSE) /\ Enough(0)
      BY <1>1, <3>1, SendEffect DEF Enough
    <3>3. jr'.retry <= 2 /\ jr'.retry \in Nat /\ jr'.state = "up"
      BY <1>1, <1>5, <2>1, <2>5, <3>1 DEF Retries
    <3> QED BY <1>2, <2>2, <3>2, <3>3, LeaveSent
  <2> QED BY <1>1, <2>3, <2>4, <2>5 DEF TypeOK
<1>9. CASE eXosip_automatic_action
  <2> DEFINE j == IF DueToRefresh THEN jr ELSE [jr EXCEPT !.retry = @ + 1]
  <2>1. /\ jr.state = "up" /\ tr.state = "over" /\ (DueToRefresh \/ DueToRetry) /\ Again(j)
        /\ nonce' = nonce /\ leave' = leave
    BY <1>9 DEF eXosip_automatic_action, Due
  <2>2. /\ j \in [state : {"none", "up", "freed"}, period : Nat, retry : 0 .. 3]
        /\ j.state = "up" /\ j.period = jr.period
        /\ j.retry = jr.retry \/ (tr.last \in {"401", "423"} /\ j.retry = jr.retry + 1)
    BY <1>1, <2>1 DEF DueToRetry, TypeOK
  <2>3. leave = "sent" /\ jr.period = 0 => tr.last # "423"
    BY <1>5, <2>1 DEF Leaving
  <2> HIDE DEF j
  <2>4. Prompt' /\ Leaving' /\ Retries'
    BY <1>6, <2>1, <2>2, <2>3
  <2> QED BY <2>4
<1>10. CASE eXosip_release_terminated_registrations
  <2>1. /\ jr.state = "up" /\ jr.period = 0 /\ tr.state # "none" /\ (tr.age > 75 \/ tr.last = "2xx")
        /\ jr' = [jr EXCEPT !.state = "freed"] /\ wire' = wire /\ bound' = bound /\ leave' = leave
    BY <1>10 DEF eXosip_release_terminated_registrations, Over
  <2>2. jr'.state = "freed"
    BY <1>1, <2>1 DEF TypeOK
  <2>3. tr.state = "over"
    BY <1>1, <2>1 DEF TypeOK, WireInv
  <2>4. wire' = "idle"
    BY <2>1, <2>3 DEF WireInv
  <2>5. tr.last = "2xx"
    BY <1>1, <1>5, <2>1, <2>3 DEF Prompt
  <2>6. leave = "sent" => bound' <= 0
    BY <1>5, <2>1, <2>5 DEF Leaving
  <2> QED BY <2>1, <2>2, <2>4, <2>6 DEF Prompt, Leaving
<1>11. CASE Answer
  <2>1. wire = "prompt"
    BY <1>5, <1>11 DEF Answer, Prompt, Troubles
  <2>2. Final(Verdict) /\ bound' = Binding /\ leave' = leave
    BY <1>11, <2>1 DEF Answer
  <2>3. tr.state = "trying" /\ tr.age <= MaxRtt /\ jr.period \in {0, tr.expires} /\ jr.state = "up"
    BY <1>1, <1>5, <2>1 DEF WireInv, Fresh, Prompt, TypeOK
  <2>4. tr'.state = "over" /\ tr'.last = Verdict /\ tr'.age = tr.age /\ tr'.expires = tr.expires /\ wire' = "idle"
    BY <1>1, <2>2 DEF Final, TypeOK
  <2>5. world.min \in Nat /\ world.grant \in Nat \ {0} /\ world.life \in Nat /\ tr.expires \in Nat
    BY <1>1, Numbers DEF TypeOK
  <2>6. Retries
    BY <1>5, <2>3
  <2>7. CASE Verdict = "2xx"
    <3>1. jr' = [jr EXCEPT !.period = NewPeriod, !.retry = 0] /\ bound' = Granted
      BY <2>2, <2>7 DEF Final, Binding
    <3>2. NewPeriod \in Nat
      BY <1>1, Numbered
    <3>3. jr'.state = "up" /\ jr'.period = NewPeriod /\ jr'.retry = 0
      <4> DEFINE q == NewPeriod
      <4>1. jr' = [jr EXCEPT !.period = q, !.retry = 0]
        BY <3>1
      <4> HIDE DEF q
      <4>2. jr'.state = "up" /\ jr'.period = q /\ jr'.retry = 0
        BY <1>1, <2>3, <4>1 DEF TypeOK
      <4> QED BY <4>2 DEF q
    <3>4. NewPeriod = 0 => jr.period = 0
      BY <1>1, <2>5 DEF NewPeriod, Granted, Lower
    <3>5. tr.expires = 0 => Granted = 0
      BY <2>5 DEF Granted, Lower
    <3>6. Leaving'
      BY <1>5, <2>2, <2>3, <2>4, <2>7, <3>1, <3>3, <3>4, <3>5 DEF Leaving
    <3> QED BY <2>4, <2>7, <3>3, <3>6 DEF Prompt, Retries
  <2>8. CASE Verdict = "401"
    <3>1. jr' = jr /\ nonce' = 0
      BY <2>2, <2>8 DEF Final
    <3>2. world.life > 0 /\ ~(tr.auth /\ nonce \in 0 .. world.life)
      BY <2>8 DEF Verdict
    <3>3. ~WithNonce
      BY <1>1, <1>3, <2>3, <2>5, <3>2 DEF WithNonce, NonceLives
    <3>4. jr.retry <= 2 /\ (Enough(tr.expires) \/ jr.retry = 0)
      BY <1>1, <2>3, <2>6, <3>3 DEF Retries
    <3>5. Enough(jr.period) \/ jr.retry = 0
      BY <2>3, <3>4 DEF Enough
    <3>6. Prompt' /\ Leaving'
      BY <1>2, <1>5, <2>2, <2>3, <2>4, <2>8, <3>1 DEF Prompt, Leaving
    <3> QED BY <1>2, <2>4, <2>8, <3>1, <3>4, <3>5, <3>6 DEF Retries, Enough
  <2>9. CASE Verdict = "423"
    <3>1. jr' = jr
      BY <2>2, <2>9 DEF Final
    <3>2. tr.expires > 0 /\ tr.expires < world.min
      BY <2>9 DEF Verdict
    <3>3. ~Enough(tr.expires) /\ world.min > 0
      BY <2>5, <3>2 DEF Enough
    <3>4. jr.retry <= 1
      BY <2>3, <2>6, <3>3 DEF Retries
    <3>5. ~(leave = "sent" /\ jr.period = 0)
      BY <1>5, <2>3, <2>5, <3>2 DEF Leaving
    <3> QED BY <1>2, <2>2, <2>3, <2>4, <2>9, <3>1, <3>3, <3>4, <3>5 DEF Prompt, Leaving, Retries
  <2> QED BY <1>1, <2>7, <2>8, <2>9, Numbered
<1>12. ~Timeout
  BY <1>5 DEF Timeout, Prompt
<1>13. CASE Tick
  <2>1. PICK d \in Gaps \cup {1} : Passed(d)
    BY <1>1, <1>13, TickEffect
  <2>2. jr.state = "up" /\ ~Due /\ jr' = jr /\ wire' = wire /\ leave' = leave
    BY <1>13 DEF Tick
  <2>3. /\ tr'.state = tr.state /\ tr'.last = tr.last /\ tr'.expires = tr.expires /\ tr'.auth = tr.auth
        /\ nonce' = (IF nonce = None THEN None ELSE Lower(nonce + d, world.life + 1))
        /\ bound' = (IF bound = None THEN None ELSE Higher(bound - d, 0))
    BY <2>1 DEF Passed
  <2>4. d \in Nat \ {0} /\ Retries
    BY <1>1, <1>5, <2>2, Numbered
  <2>5. tr.state = "over" => tr.last = "2xx"
    <3> SUFFICES ASSUME tr.state = "over", tr.last \in {"401", "423"} PROVE FALSE
      BY <1>5, <2>2 DEF Prompt
    <3>1. tr.age < 120 /\ jr.retry < 3
      BY <1>1, <1>5, <2>2, <2>4 DEF Prompt, Retries
    <3> QED BY <2>2, <3>1 DEF Due, DueToRetry
  <2>6. tr.state = "trying" /\ WithNonce => WithNonce'
    <3> SUFFICES ASSUME tr.state = "trying", tr.auth, nonce \in 0 .. tr.age
                 PROVE  nonce' \in 0 .. tr'.age
      BY <2>3 DEF WithNonce
    <3>1. wire = "prompt"
      BY <1>5 DEF WireInv, Prompt
    <3>2. d = 1 /\ tr.age < MaxRtt
      BY <2>1, <3>1 DEF Passed, Passes
    <3>3. tr'.age = tr.age + 1
      BY <1>1, <2>1, <3>2 DEF Passed, Lower, Horizon
    <3>4. nonce' = Lower(nonce + 1, world.life + 1) /\ world.life \in Nat
      BY <1>1, <2>3, <3>2, Numbers DEF None
    <3> QED BY <1>1, <3>3, <3>4 DEF Lower
  <2>7. bound = 0 => bound' = 0
    BY <2>3, <2>4 DEF Higher, None
  <2>8. Prompt' /\ Leaving'
    BY <1>2, <1>5, <2>2, <2>3, <2>5, <2>7 DEF Prompt, Leaving
  <2> QED BY <1>1, <1>2, <2>2, <2>3, <2>4, <2>5, <2>6, <2>8 DEF Retries, Enough
<1>14. CASE UNCHANGED vars
  BY <1>5, <1>14 DEF vars, Prompt, Leaving, Retries, Enough, WithNonce
<1> QED BY <1>7, <1>8, <1>9, <1>10, <1>11, <1>12, <1>13, <1>14 DEF Next, Progress

-----------------------------------------------------------------------------

\* The inductive invariants hold from the start on.
LEMMA Invariance == Spec => [](IInv /\ WireInv /\ NewsInv /\ LeaveInv)
<1>1. Init => IInv /\ WireInv /\ NewsInv /\ LeaveInv
  <2> SUFFICES ASSUME Init PROVE IInv /\ WireInv /\ NewsInv /\ LeaveInv
    OBVIOUS
  <2>1. TypeOK
    BY BoundsAssumption DEF Init, TypeOK, NoTransaction, Horizon
  <2>2. Fresh /\ RegistrationInv
    BY DEF Init, Fresh, RegistrationInv, Kept
  <2>3. WireInv
    BY DEF Init, WireInv, NoTransaction
  <2>4. NewsInv
    BY DEF Init, NewsInv, Kept
  <2>5. LeaveInv
    BY DEF Init, LeaveInv, Prompt, Leaving
  <2> QED BY <2>1, <2>2, <2>3, <2>4, <2>5 DEF IInv
<1> QED BY <1>1, NextIInv, WireStep, NewsStep, LeaveStep, PTL DEF Spec

\* Every variable keeps its type, however often the registration is refreshed.
THEOREM TypeCorrect == Spec => []TypeOK
<1>1. IInv => TypeOK
  BY DEF IInv
<1> QED BY <1>1, Invariance, PTL

\* eXosip_automatic_action refreshes a binding before it lapses: with every sound
\* registrar that answers, whatever the period, the challenges and the nonces.
THEOREM BindingIsKept == Spec => []BindingKept
<1>1. IInv => BindingKept
  <2> SUFFICES ASSUME IInv, Kept, trouble = 0, Sound, bound # None PROVE bound # 0
    BY DEF BindingKept, None
  <2>1. TypeOK /\ Answering /\ Once
    BY DEF IInv, RegistrationInv
  <2> QED BY <2>1, Numbers
          DEF Answering, Once, Resting, Refreshing, Challenged, Retrying, TypeOK, Horizon
<1> QED BY <1>1, Invariance, PTL

\* When the application was last told SUCCESS and a sound registrar has dropped the
\* binding, a new attempt is under way, or a 100 was all that came to the last one:
\* whichever requests and answers are lost, a failure is told (cb_rcv2xx,
\* rcvregister_failure, cb_xixt_kill_transaction).
THEOREM NewsIsHonest == Spec => []NewsHonest
<1>1. IInv /\ WireInv /\ NewsInv => NewsHonest
  <2> SUFFICES ASSUME IInv, NewsInv, Kept, told = "SUCCESS", bound = 0, Sound,
                      tr.state # "trying", tr.last # "1xx"
               PROVE  FALSE
    BY DEF NewsHonest
  <2>1. tr.state = "over" /\ tr.last = "2xx"
    BY DEF NewsInv, IInv, TypeOK
  <2>2. tr.age <= Refreshed /\ bound + tr.age >= Lasts
    BY <2>1 DEF NewsInv
  <2>3. Refreshed < Lasts /\ Refreshed \in Nat /\ Lasts \in Nat /\ tr.age \in Nat
    BY Numbers DEF Refreshed, IInv, TypeOK, Horizon
  <2> QED BY <2>2, <2>3
<1> QED BY <1>1, Invariance, PTL

\* A registration is not released with its binding left at the registrar: without
\* trouble the end that was sent succeeds before the 75 seconds are over, for the
\* three retries are enough for every registrar whose nonces live to be used.
THEOREM EndIsReached == Spec => []Released
<1>1. IInv /\ LeaveInv => Released
  BY DEF Released, LeaveInv, Leaving
<1> QED BY <1>1, Invariance, PTL
=============================================================================
