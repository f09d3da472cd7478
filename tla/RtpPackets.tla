---------------------------- MODULE RtpPackets ----------------------------
(***************************************************************************)
(* How the H.264 byte stream of the encoder is cut into NALs and these     *)
(* into RTP packets (rtpavcsend.c), and how a packet is turned into what   *)
(* the decoder is fed (UnpackRTPH264 in video_rtp_recv.c).                 *)
(*                                                                         *)
(* A NAL is a sequence of bytes, its header the first.  In a fragment the  *)
(* header is kept as one value: indicator and header of the fragment carry *)
(* all of it but the forbidden bit, which is 0.                            *)
(***************************************************************************)
EXTENDS Integers, Sequences, SequencesExt

CONSTANT MaxLen   \* the most bytes in a fragment: 1300

ASSUME MaxLenAssumption == MaxLen \in Nat \ {0}

Byte == 0 .. 255

StartCode == <<0, 0, 1>>

CodeAt(data, i) == SubSeq(data, i, i + 2) = StartCode

-----------------------------------------------------------------------------
(* The sender                                                              *)

\* Where a start code is found in data, from position begin on: one that ends
\* at the last byte is not (i < datalen - 3).
Codes(data, begin) == {i \in begin .. Len(data) - 3 : CodeAt(data, i)}

\* What AvcAnalyzeAndSend goes on with: the bytes behind the first code.
Behind(data, begin) == SubSeq(data, Min(Codes(data, begin)) + 3, Len(data))

\* The NAL before a start code, without the zeros between them.
WithoutZeros(nal) == SubSeq(nal, 1, Max({0} \cup {n \in DOMAIN nal : nal[n] # 0}))
NalBefore(data, begin) == WithoutZeros(SubSeq(data, 1, Min(Codes(data, begin)) - 1))

\* What rtpsend_nal still has to send: whether in fragments, whether the next is
\* the first, the header of the NAL, and the bytes.
Sending(fu, first, head, data) == [fu |-> fu, first |-> first, head |-> head, data |-> data]
Nothing == Sending(FALSE, FALSE, 0, <<>>)

\* SEI, SPS, PPS and AUD go into one packet whatever their length.
Whole(nal) == nal[1] % 32 \in {6, 7, 8, 9} \/ Len(nal) <= MaxLen

\* A packet of its own, or fragments of the body.
Started(nal) ==
  IF Whole(nal) THEN Sending(FALSE, FALSE, nal[1], nal)
                ELSE Sending(TRUE, TRUE, nal[1], Tail(nal))

\* How many bytes go into the next packet.
Portion(s) == IF s.fu /\ Len(s.data) > MaxLen THEN MaxLen ELSE Len(s.data)

Packet(s) ==
  [fu |-> s.fu, head |-> s.head, first |-> s.first, last |-> Portion(s) = Len(s.data),
   data |-> SubSeq(s.data, 1, Portion(s))]

\* Mutant of AfterPacket: the byte at the joint of two fragments is left out.
MutAfterPacket(s) ==
  Sending(s.fu, FALSE, s.head, SubSeq(s.data, Portion(s) + 2, Len(s.data)))

AfterPacket(s) ==
  IF Portion(s) = Len(s.data) THEN Nothing
  ELSE Sending(s.fu, FALSE, s.head, SubSeq(s.data, Portion(s) + 1, Len(s.data)))

-----------------------------------------------------------------------------
(* The receiver                                                            *)

\* UnpackRTPH264: a start code goes before a whole NAL, and with the header
\* before a fragment whose header has the start bit and no other.
Unpack(p) ==
  CASE ~p.fu -> <<0>> \o StartCode \o p.data
    [] p.fu /\ p.first /\ ~p.last -> <<0>> \o StartCode \o <<p.head>> \o p.data
    [] OTHER -> p.data
=============================================================================
