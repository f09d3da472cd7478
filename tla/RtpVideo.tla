----------------------------- MODULE RtpVideo -----------------------------
(***************************************************************************)
(* The picture on its way: video_send hands the buffers of the encoder to  *)
(* AvcAnalyzeAndSend, the packets cross a network that may lose, reorder   *)
(* and repeat them, and video_recv feeds the decoder with what arrives, in *)
(* the order it arrives.                                                   *)
(***************************************************************************)
EXTENDS RtpPackets

CONSTANTS
  SeqNos,     \* how many sequence numbers there are: 2^16
  MaxTrouble, \* bound on what the network does to a stream
  Trials      \* the streams to send, each with what may happen to it

\* loss, reorder, dup: in the network; senderr: a sendto fails; cut: a buffer
\* of the encoder ends where a start code does.
FaultKinds == {"loss", "reorder", "dup", "senderr", "cut"}

ASSUME SeqNosAssumption == SeqNos \in Nat /\ SeqNos > MaxTrouble + 1
ASSUME MaxTroubleAssumption == MaxTrouble \in Nat
\* A NAL ends with a byte that is not 0, and holds no start code.
ASSUME TrialsAssumption ==
  \A t \in Trials :
    /\ t.faults \subseteq FaultKinds
    /\ t.stream \in Seq(Seq(Byte))
    /\ \A n \in 1 .. Len(t.stream) :
         LET nal == t.stream[n] IN
           /\ nal # <<>> /\ nal[Len(nal)] # 0
           /\ \A i \in 1 .. Len(nal) - 2 : ~CodeAt(nal, i)

VARIABLES
  world,    \* the trial; it never changes
  todo,     \* the bytes the encoder will still hand over
  pending,  \* pending_buff, from the NAL on that is looked at
  search,   \* AvcAnalyzeAndSend is looking for start codes in pending, from here
            \* on; 0 between two calls
  sending,  \* what rtpsend_nal still has to send of a NAL
  seqno,    \* of the next packet
  net,      \* the packets on their way
  last_seq_no, \* of the packet received last
  fed,      \* what omx_decode was given
  alarm,    \* "rtp seq error" was printed
  trouble,  \* how much the network did
  happened  \* history: what went wrong, see FaultKinds; lone: a NAL was sent in
            \* one fragment; blind: a packet 0 came out of turn

sender == <<todo, pending, search, sending, seqno>>
receiver == <<last_seq_no, fed, alarm>>
vars == <<world, sender, net, receiver, trouble, happened>>

\* Four bytes go before the first NAL and every parameter set, three before others.
Coded(nal) == (IF nal[1] % 32 \in {7, 8} THEN <<0>> ELSE <<>>) \o StartCode \o nal
ByteStream(nals) == FlattenSeq([n \in DOMAIN nals |-> Coded(nals[n])])

\* What the decoder should be fed.
Feed(nals) == FlattenSeq([n \in DOMAIN nals |-> <<0>> \o StartCode \o nals[n]])

TypeOK ==
  /\ world \in Trials
  /\ todo \in Seq(Byte) /\ pending \in Seq(Byte) /\ fed \in Seq(Byte)
  /\ search \in 0 .. Len(pending)
  /\ sending \in [fu : BOOLEAN, first : BOOLEAN, head : Byte, data : Seq(Byte)]
  /\ net \in Seq([packet : [fu : BOOLEAN, head : Byte, first : BOOLEAN, last : BOOLEAN,
                            data : Seq(Byte)],
                  seq : 0 .. SeqNos - 1])
  /\ seqno \in 0 .. SeqNos - 1 /\ last_seq_no \in 0 .. SeqNos - 1
  /\ alarm \in BOOLEAN
  /\ trouble \in 0 .. MaxTrouble
  /\ happened \subseteq FaultKinds \cup {"lone", "blind"}

Init ==
  /\ world \in Trials
  /\ todo = ByteStream(world.stream)
  /\ pending = <<>> /\ search = 0 /\ sending = Nothing /\ seqno = 1
  /\ net = <<>>
  /\ last_seq_no = 0 /\ fed = <<>> /\ alarm = FALSE
  /\ trouble = 0 /\ happened = {}

-----------------------------------------------------------------------------
(* video_send                                                              *)

\* Mutant of Begin: the search goes on behind what was kept.
MutBegin(kept) == IF kept = <<>> THEN 1 ELSE Len(kept) + 1

\* Where the search for start codes goes on after the bytes kept: a code may
\* have begun in the last two.
Begin(kept) == IF Len(kept) < 2 THEN 1 ELSE Len(kept) - 1

\* Without bytes kept from before, those up to the first start code are dropped.
Joined(data) ==
  IF pending # <<>> THEN pending \o data
  ELSE IF Codes(data, 1) = {} THEN <<>>
  ELSE Behind(data, 1)

EndsInCode(data) == Len(data) > 2 /\ CodeAt(data, Len(data) - 2)

\* AvcAnalyzeAndSend is called with the next buffer of the encoder.  The searches
\* compare with a length less 3 as an unsigned number: the bytes searched must be
\* 3 at least.
Analyze ==
  /\ search = 0 /\ sending.data = <<>>
  /\ \E n \in 1 .. Len(todo) :
       LET data == SubSeq(todo, 1, n)
           joined == Joined(data)
           cut == EndsInCode(pending \o data) \/ joined = <<>>
       IN  /\ cut => "cut" \in world.faults
           /\ pending = <<>> => n >= 3
           /\ Len(joined) >= 3 \/ joined = <<>>
           /\ todo' = SubSeq(todo, n + 1, Len(todo))
           /\ pending' = joined
           /\ search' = IF joined = <<>> THEN 0 ELSE Begin(pending)
           /\ happened' = happened \cup (IF cut THEN {"cut"} ELSE {})
  /\ UNCHANGED <<world, sending, seqno, net, receiver, trouble>>

\* A start code is found: the NAL before it, if there is one, is sent.
NextNal ==
  /\ search # 0 /\ sending.data = <<>>
  /\ Codes(pending, search) # {}
  /\ LET nal == NalBefore(pending, search)
     IN  sending' = IF nal = <<>> THEN Nothing ELSE Started(nal)
  /\ pending' = Behind(pending, search)
  /\ search' = 1
  /\ UNCHANGED <<world, todo, seqno, net, receiver, trouble, happened>>

\* No more is found: the rest is kept for the next call.
KeepRest ==
  /\ search # 0 /\ sending.data = <<>>
  /\ Codes(pending, search) = {}
  /\ search' = 0
  /\ UNCHANGED <<world, todo, pending, sending, seqno, net, receiver, trouble, happened>>

\* sendto in rtpsend_nal
SendPacket ==
  /\ sending.data # <<>>
  /\ LET p == Packet(sending) IN
       /\ net' = Append(net, [packet |-> p, seq |-> seqno])
       /\ happened' = happened \cup (IF p.first /\ p.last THEN {"lone"} ELSE {})
  /\ seqno' = (seqno + 1) % SeqNos
  /\ sending' = AfterPacket(sending)
  /\ UNCHANGED <<world, todo, pending, search, receiver, trouble>>

\* ... fails: the rest of the NAL is given up, the number is used again.
SendFails ==
  /\ "senderr" \in world.faults
  /\ sending.data # <<>>
  /\ sending' = Nothing
  /\ happened' = happened \cup {"senderr"}
  /\ UNCHANGED <<world, todo, pending, search, seqno, net, receiver, trouble>>

-----------------------------------------------------------------------------
(* video_recv                                                              *)

\* Mutant of OutOfTurn: the number 0 is no exception.
MutNoZero(seq) == seq # last_seq_no + 1

\* Mutant of OutOfTurn: only smaller numbers are noticed.
MutOnlyOlder(seq) == seq # 0 /\ seq < last_seq_no

\* The test of video_recv; after 65535 it compares with 65536.
OutOfTurn(seq) == seq # 0 /\ seq # last_seq_no + 1

Receive(p) ==
  /\ fed' = fed \o Unpack(p.packet)
  /\ alarm' = (alarm \/ OutOfTurn(p.seq))
  /\ last_seq_no' = p.seq
  /\ happened' = happened \cup (IF p.seq = 0 /\ last_seq_no + 1 # SeqNos THEN {"blind"} ELSE {})
  /\ UNCHANGED <<world, sender>>

Deliver ==
  /\ net # <<>>
  /\ Receive(Head(net))
  /\ net' = Tail(net)
  /\ UNCHANGED trouble

-----------------------------------------------------------------------------
(* The network                                                             *)

Trouble(kind) ==
  /\ kind \in world.faults
  /\ trouble < MaxTrouble
  /\ trouble' = trouble + 1

Lose ==
  /\ Trouble("loss")
  /\ net # <<>> /\ net' = Tail(net)
  /\ happened' = happened \cup {"loss"}
  /\ UNCHANGED <<world, sender, receiver>>

\* The packet behind comes first.
Overtake ==
  /\ Trouble("reorder")
  /\ Len(net) > 1
  /\ net' = <<net[2], net[1]>> \o SubSeq(net, 3, Len(net))
  /\ happened' = happened \cup {"reorder"}
  /\ UNCHANGED <<world, sender, receiver>>

Repeat ==
  /\ Trouble("dup")
  /\ net # <<>> /\ net' = <<Head(net)>> \o net
  /\ happened' = happened \cup {"dup"}
  /\ UNCHANGED <<world, sender, receiver>>

Next ==
  \/ Analyze \/ NextNal \/ KeepRest
  \/ SendPacket \/ SendFails
  \/ Deliver
  \/ Lose \/ Overtake \/ Repeat

Spec == Init /\ [][Next]_vars

-----------------------------------------------------------------------------
(* Properties                                                              *)

\* When nothing goes wrong the decoder is fed the NALs of the stream, each after
\* a start code, in order and whole, however the stream was cut into buffers
\* and packets; unless a NAL just too long for a packet went as one fragment.
Faithful == happened = {} => IsPrefix(fed, Feed(world.stream))

\* ... and when everything is through, all but the last NAL: that one waits in
\* pending_buff for the next start code.
LastHeldBack ==
  happened = {} /\ todo = <<>> /\ search = 0 /\ sending.data = <<>> /\ net = <<>>
    => fed = Feed(Front(world.stream))

\* A decoder that was fed something else because of the network is never fed so
\* in silence; but for a packet 0, which is always taken for the next one.
Noticed ==
  happened \subseteq {"loss", "reorder", "dup"} /\ ~IsPrefix(fed, Feed(world.stream))
    => alarm

\* No alarm without trouble in the network: not where the numbers start again,
\* and not for what could not be sent, which uses no number.
NoFalseAlarm == happened \cap {"loss", "reorder", "dup"} = {} => ~alarm
=============================================================================
