------------------------- MODULE MCSipRegistration -------------------------
(* The registrars the registration of SipRegistration is checked with.     *)
EXTENDS SipRegistration

\* As sip.c asks: for an hour, of a registrar that wants a password or not.
Hour == [asked |-> 3600, grant |-> 3600, contact |-> TRUE, min |-> 0, named |-> TRUE, life |-> 300]
Open == [Hour EXCEPT !.life = 0, !.contact = FALSE]

\* It grants less, has nonces that do not live until the next refresh or the
\* next attempt, grants 15 seconds less, or wants to be asked for more.
Short   == [Hour EXCEPT !.grant = 60, !.life = 30]
Shorter == [Hour EXCEPT !.asked = 60, !.grant = 40, !.contact = FALSE, !.life = 1]
Nearly  == [Hour EXCEPT !.asked = 60, !.grant = 46, !.life = 0]
More    == [Hour EXCEPT !.asked = 60, !.grant = 200, !.min = 120]
Unnamed == [More EXCEPT !.named = FALSE]
Little  == [Hour EXCEPT !.asked = 10, !.grant = 400, !.min = 60, !.life = 0]

Registrars == {Hour, Open, Short, Shorter, Nearly, More, Unnamed, Little}
=============================================================================
