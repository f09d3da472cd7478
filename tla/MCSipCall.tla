----------------------------- MODULE MCSipCall -----------------------------
(* Small instances of SipCall for TLC.                                     *)
EXTENDS SipCall

CONSTANTS c1, c2

OneCall == {c1}
TwoCalls == {c1, c2}

Trial(kinds, roles) == [faults |-> kinds, refused |-> roles]

\* Two calls: what fails in the devices, how a call can end, what becomes of
\* the descriptors; calls that overlap, with half of the media threads, to keep
\* two generations of them small.
Devices == {"senderr", "initfail", "camfail", "stopvideo"}
Endings == {"cancel", "noack", "outgoing", "openfail", "nosdp"}
Sockets == {"cancel", "noack", "outgoing", "senderr", "quit"}
Half == {"audio_send", "video_recv"}
CallTrials == {Trial(F, {}) : F \in {Devices, Endings, Sockets}}
              \cup {Trial({"overlap", "hangup"}, Half)}

\* One call: everything but a second ACK, and a second ACK.
Repeats == {"dupack", "hangup", "senderr", "camfail"}
LiveTrials == {Trial(FaultKinds \ {"dupack"}, {}), Trial(Repeats, Half)}

HangupTrial == {Trial({"hangup"}, {})}
=============================================================================
