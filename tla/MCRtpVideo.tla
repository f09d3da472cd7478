---------------------------- MODULE MCRtpVideo ----------------------------
(* Small instances of RtpVideo for TLC: fragments of two bytes.            *)
EXTENDS RtpVideo

\* NALs: a parameter set, slices in one packet, two fragments, three fragments,
\* and one just too long for a packet.
SPS == <<7, 9, 0, 9>>
Small == <<1, 3>>
Two == <<5, 3, 0, 4, 4>>
Three == <<5, 3, 3, 4, 0, 4>>
Lone == <<5, 3, 4>>

Trial(nals, kinds) == [stream |-> nals, faults |-> kinds]

Network == {"loss", "reorder", "dup"}
AllTrials ==
  { Trial(<<Two, SPS, Two, Small>>, {}),
    Trial(<<SPS, Small, Three, Small, Small>>, {}),
    Trial(<<Small, Three, Two, Small>>, Network),
    Trial(<<Lone, Two, Small>>, {"cut", "senderr"}) }
=============================================================================
