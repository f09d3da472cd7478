------------------------------ MODULE Exchange ------------------------------
(***************************************************************************)
(* What a transaction promises its user and its peer, whatever is lost,    *)
(* repeated or sent too late: the user is told one result, at most one     *)
(* final message goes on the wire and belongs to that result, and nothing  *)
(* happens once the exchange is over.                                      *)
(***************************************************************************)
EXTENDS Sequences

CONSTANT Results    \* final answers; "timeout" and "error" are none of them

VARIABLES news,     \* what the user was told of the end
          wire,     \* the final message on the wire
          over

exchange == <<news, wire, over>>

Init == news = <<>> /\ wire = "none" /\ over = FALSE

\* A client acknowledges an answer, or only takes note of it; a server sends it.
Conclude(r, w) ==
  /\ ~over /\ news = <<>>
  /\ w \in {"none", "ack", r}
  /\ news' = <<r>> /\ wire' = w
  /\ over' \in BOOLEAN

\* No answer in time, or a message that cannot be sent: the exchange is over.  A
\* result that was told before stands.
Fail(e) ==
  /\ ~over
  /\ e = "timeout" => news = <<>>
  /\ news' = Append(news, e) /\ over' = TRUE
  /\ UNCHANGED wire

End ==
  /\ ~over /\ news # <<>>
  /\ over' = TRUE
  /\ UNCHANGED <<news, wire>>

Next ==
  \/ \E r \in Results, w \in Results \cup {"none", "ack"} : Conclude(r, w)
  \/ \E e \in {"timeout", "error"} : Fail(e)
  \/ End

Spec == Init /\ [][Next]_exchange
=============================================================================
