---------------------------- MODULE MCSipDialog ----------------------------
(* Small instances of SipDialog for TLC.                                   *)
EXTENDS SipDialog

\* A network that is faster than the timers and loses nothing.
Fine == [slow |-> {}, never |-> {"100"}, risky |-> {}, lose |-> 0, dup |-> 0, fail |-> 0,
         asks |-> 0, users |-> {}]

AllKinds == ToCallee \cup ToCaller

\* One message lost; ACKs lost until the callee gives up.
LossTrials ==
  {[Fine EXCEPT !.risky = AllKinds, !.lose = 1, !.users = U] : U \in {{"cancel"}, {"refuse"}}}
  \cup {[Fine EXCEPT !.risky = {"2xx", "ACK", "BYE", "ok_bye"}, !.lose = 1,
                     !.users = {"hangup_caller", "hangup_callee"}],
        [Fine EXCEPT !.risky = {"ACK"}, !.lose = 2, !.users = {"hangup_caller"}]}

\* One message repeated; a copy of the INVITE may make a second call.
CopyTrials ==
  {[Fine EXCEPT !.risky = {"INVITE"}, !.dup = 1, !.users = U] :
      U \in {{"cancel"}, {"refuse"}, {"hangup_callee"}}}
  \cup {[Fine EXCEPT !.risky = {"2xx", "ACK", "BYE"}, !.dup = 1, !.users = {"hangup_caller"}]}

\* Each timer in turn runs out too early.
SlowTrials ==
  {[Fine EXCEPT !.slow = {x}, !.users = {"cancel"}] : x \in {"A", "B", "D", "F", "G", "H", "I"}}
  \cup {[Fine EXCEPT !.slow = {x}, !.users = {"hangup_caller"}] : x \in {"E", "F", "J", "K", "ok"}}

\* One pass fails to send, a resend included; only 100 arrives, or only 101;
\* no answer to a BYE arrives; both may hang up.
OtherTrials ==
  {[Fine EXCEPT !.fail = 1, !.users = {"cancel", "hangup_callee"}],
   [Fine EXCEPT !.risky = {"INVITE"}, !.lose = 1, !.fail = 1, !.users = {"cancel"}],
   [Fine EXCEPT !.never = {"100", "ok_bye"}, !.users = {"hangup_caller"}],
   [Fine EXCEPT !.never = {"101"}, !.users = {"cancel", "hangup_caller"}],
   [Fine EXCEPT !.users = {"hangup_caller", "hangup_callee"}]}

\* The proxy asks for credentials, once or for ever; its answer is lost, repeated,
\* late or cannot be acknowledged.
AskTrials ==
  {[Fine EXCEPT !.asks = 2, !.users = {"cancel"}],
   [Fine EXCEPT !.asks = 1, !.users = {"cancel", "hangup_caller"}],
   [Fine EXCEPT !.asks = 1, !.risky = {"INVITE", "407"}, !.lose = 1, !.users = {"hangup_caller"}],
   [Fine EXCEPT !.asks = 1, !.risky = {"407"}, !.dup = 1, !.users = {"cancel"}],
   [Fine EXCEPT !.asks = 1, !.slow = {"A"}, !.users = {"cancel"}],
   [Fine EXCEPT !.asks = 1, !.slow = {"D"}, !.risky = {"407"}, !.dup = 1],
   [Fine EXCEPT !.asks = 1, !.fail = 1, !.users = {"cancel"}]}

DialogTrials == LossTrials \cup CopyTrials \cup SlowTrials \cup OtherTrials \cup AskTrials
=============================================================================
