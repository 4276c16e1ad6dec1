---------------------------- MODULE StopAndWait -----------------------------
(***************************************************************************)
(* proj2: Alice.py sends the lines of her input to Bob.py through          *)
(* UnreliNET.java, segment by segment, under a one-bit sequence number, a  *)
(* CRC and a 50 ms timer.                                                  *)
(*                                                                         *)
(* UnreliNET forwards in order in each direction.  It drops a packet that  *)
(* is too long, and any packet at random, or overwrites some bytes of it:  *)
(* always the first one, with a byte that is no digit, so that a corrupted *)
(* packet never carries the checksum of its content.                       *)
(***************************************************************************)
EXTENDS Integers, Sequences, SequencesExt

CONSTANTS
  Char,            \* the characters of the input
  Bar,             \* '|', the separator of the header fields
  Lines,           \* Alice's standard input, a sequence of lines
  SEGMENT_SIZE,
  HeaderSize,      \* length of checksum|seq|
  max_packet_size, \* of UnreliNET
  MaxInFlight      \* bound on the packets queued in one direction: beyond it
                   \* Alice's are lost, and Bob waits until she has read his

ASSUME LinesAssumption == Lines \in Seq(Seq(Char) \ {<<>>})
ASSUME SizesAssumption ==
  /\ SEGMENT_SIZE \in Nat \ {0}
  /\ {HeaderSize, max_packet_size, MaxInFlight} \subseteq Nat

VARIABLES
  seq_num, lines, message, send_till, segment, alice,   \* Alice
  expectedseq, output,                                  \* Bob
  data, acks,     \* the two directions of UnreliNET
  taken           \* history: the segments Alice has cut

aliceVars == <<seq_num, lines, message, send_till, segment, alice, taken>>
bobVars == <<expectedseq, output>>
vars == <<aliceVars, bobVars, data, acks>>

Bit == {0, 1}
\* Names of the form Definition_Defect are mutants of Definition: the defects a
\* change of the programs could introduce.

Flip(b) == (b + 1) % 2
Segment == Seq(Char)

\* A packet as Bob sees it: the fields of an intact one, or damage.
Corrupt == [intact |-> FALSE]
Packet == [intact : {TRUE}, seq : Bit, content : Segment] \cup {Corrupt}

\* An acknowledgement as Alice sees it: damage that spares the digit changes
\* nothing for her, damage to the digit makes it different from both numbers.
NoDigit == 2
Ack == Bit \cup {NoDigit}

Init ==
  /\ seq_num = 0
  /\ lines = Lines
  /\ message = <<>>
  /\ send_till = 0
  /\ segment = <<>>
  /\ alice = "cut"
  /\ expectedseq = 0
  /\ output = <<>>
  /\ data = <<>>
  /\ acks = <<>>
  /\ taken = <<>>

Fates == {"drop", "corrupt", "deliver"}

\* Forwarder.run on a packet of length len: what becomes of the queue ch.
\* A full queue loses the packet, whatever UnreliNET wanted.
Forward(ch, len, fate, packet, damaged) ==
  CASE fate = "drop" -> ch
    [] len > max_packet_size \/ Len(ch) >= MaxInFlight -> ch
    [] fate = "corrupt" -> Append(ch, damaged)
    [] OTHER -> Append(ch, packet)

-----------------------------------------------------------------------------
\* Alice

\* stdin.readline() when the previous message is sent completely.
ReadLine ==
  /\ alice = "cut"
  /\ send_till >= Len(message)
  /\ lines # <<>>
  /\ message' = Head(lines)
  /\ lines' = Tail(lines)
  /\ send_till' = 0
  /\ UNCHANGED <<seq_num, segment, alice, bobVars, data, acks, taken>>

EndOfInput ==
  /\ alice = "cut"
  /\ send_till >= Len(message)
  /\ lines = <<>>
  /\ alice' = "done"
  /\ UNCHANGED <<seq_num, lines, message, send_till, segment, taken,
                 bobVars, data, acks>>

\* The next slice of the message.
SegmentEnd ==
  IF send_till + SEGMENT_SIZE > Len(message)
  THEN Len(message)
  ELSE send_till + SEGMENT_SIZE

CutSegment ==
  /\ alice = "cut"
  /\ send_till < Len(message)
  /\ segment' = SubSeq(message, send_till + 1, SegmentEnd)
  /\ taken' = Append(taken, segment')
  /\ send_till' = send_till + SEGMENT_SIZE
  /\ alice' = "send"
  /\ UNCHANGED <<seq_num, lines, message, bobVars, data, acks>>

Send(fate) ==
  /\ alice = "send"
  /\ data' = Forward(data, HeaderSize + Len(segment), fate,
                     [intact |-> TRUE, seq |-> seq_num, content |-> segment],
                     Corrupt)
  /\ alice' = "recv"
  /\ UNCHANGED <<seq_num, lines, message, send_till, segment, taken,
                 bobVars, acks>>

Timeout_KeepsWaiting ==
  /\ alice = "recv"
  /\ UNCHANGED vars

\* No acknowledgement reached the socket in time: send again.
Timeout ==
  /\ alice = "recv"
  /\ alice' = "send"
  /\ UNCHANGED <<seq_num, lines, message, send_till, segment, taken,
                 bobVars, data, acks>>

\* The acknowledgement of this segment.
Acknowledged ==
  /\ alice = "recv"
  /\ acks # <<>>
  /\ Head(acks) = seq_num
  /\ acks' = Tail(acks)
  /\ seq_num' = Flip(seq_num)
  /\ alice' = "cut"
  /\ UNCHANGED <<lines, message, send_till, segment, taken, bobVars, data>>

\* Any other reply makes Alice send again at once.
OtherAck ==
  /\ alice = "recv"
  /\ acks # <<>>
  /\ Head(acks) # seq_num
  /\ acks' = Tail(acks)
  /\ alice' = "send"
  /\ UNCHANGED <<seq_num, lines, message, send_till, segment, taken,
                 bobVars, data>>

Receive == Acknowledged \/ OtherAck

-----------------------------------------------------------------------------
\* Bob

\* msg.split('|') has three parts only when the content has no bar in it; a
\* corrupted packet fails this test or the checksum's, with the same reply.
WellFormed(p) == p.intact /\ Bar \notin ToSet(p.content)

BobAccepts_Duplicates(fate) ==
  /\ data # <<>>
  /\ Len(acks) < MaxInFlight
  /\ WellFormed(Head(data))
  /\ LET p == Head(data)
     IN  /\ acks' = Forward(acks, 4, fate, p.seq, NoDigit)
         /\ output' = Append(output, p.content)
         /\ expectedseq' = Flip(p.seq)
  /\ data' = Tail(data)
  /\ UNCHANGED aliceVars

\* A well-formed packet is acknowledged under its own number, and printed when
\* that is the expected one.
BobAccepts(fate) ==
  /\ data # <<>>
  /\ Len(acks) < MaxInFlight
  /\ WellFormed(Head(data))
  /\ LET p == Head(data)
     IN  /\ acks' = Forward(acks, 4, fate, p.seq, NoDigit)
         /\ IF p.seq = expectedseq
            THEN /\ output' = Append(output, p.content)
                 /\ expectedseq' = Flip(expectedseq)
            ELSE UNCHANGED bobVars
  /\ data' = Tail(data)
  /\ UNCHANGED aliceVars

\* The other packets are answered with the number Bob does not expect.
BobRejects(fate) ==
  /\ data # <<>>
  /\ Len(acks) < MaxInFlight
  /\ ~WellFormed(Head(data))
  /\ acks' = Forward(acks, 4, fate, Flip(expectedseq), NoDigit)
  /\ data' = Tail(data)
  /\ UNCHANGED <<aliceVars, bobVars>>

-----------------------------------------------------------------------------
Alice ==
  \/ ReadLine \/ EndOfInput \/ CutSegment \/ Timeout \/ Receive
  \/ \E fate \in Fates : Send(fate)

Bob == \E fate \in Fates : BobAccepts(fate) \/ BobRejects(fate)

Next == Alice \/ Bob

Spec == Init /\ [][Next]_vars

\* Both programs run; UnreliNET's losses are independent draws with a rate
\* below one, so what is sent for ever gets through in the end; and recvfrom
\* returns a reply that is there instead of timing out on it.
Fairness ==
  /\ WF_vars(Alice)
  /\ WF_vars(Bob)
  /\ SF_vars(Receive)
  /\ SF_vars(Send("deliver") /\ Len(data') > Len(data))
  /\ SF_vars(BobAccepts("deliver"))

FairSpec == Spec /\ Fairness

-----------------------------------------------------------------------------
\* Types of the variables of Alice.py and Bob.py and of the packets between.
TypeOK ==
  /\ seq_num \in Bit
  /\ lines \in Seq(Seq(Char))
  /\ message \in Seq(Char)
  /\ send_till \in Nat
  /\ segment \in Segment
  /\ alice \in {"cut", "send", "recv", "done"}
  /\ expectedseq \in Bit
  /\ output \in Seq(Segment)
  /\ data \in Seq(Packet)
  /\ acks \in Seq(Ack)
  /\ taken \in Seq(Segment)

\* Segment by segment: Bob has printed all that Alice has taken on, except
\* possibly the one she is still sending; and when she is between two segments
\* or at the end, nothing is missing.
DeliveredInOrder ==
  \/ output = taken
  \/ alice \in {"send", "recv"} /\ taken = Append(output, segment)

\* Old duplicates cannot fool either side: with every segment settled the next
\* reply that matches seq_num is about the segment in hand.
StaleRepliesIgnored ==
  \A k \in DOMAIN acks : acks[k] = seq_num /\ alice # "cut" => output = taken

\* Alice and Bob together implement a transfer of one segment at a time.
Transfer == INSTANCE SegmentTransfer WITH
  Segment <- BoundedSeq(Char, SEGMENT_SIZE)
ImplementsTransfer == Transfer!Spec

\* Alice gets through her input, whatever UnreliNET loses or damages, and Bob
\* has then printed what RunTest.sh compares with it: all of it, nothing
\* repeated or out of order.
Termination ==
  <>(alice = "done" /\ FlattenSeq(output) = FlattenSeq(Lines))
=============================================================================
