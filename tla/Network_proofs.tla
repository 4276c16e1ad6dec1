--------------------------- MODULE Network_proofs ----------------------------
(***************************************************************************)
(* Theorems about the programs that talk over a network that loses packets: *)
(* StopAndWait (proj2) in the first part, ChatDecentral (the decentralised  *)
(* variant of DistributedChat) in the second, ChatElection (the heartbeats  *)
(* of the regular variant) in the third.                                    *)
(***************************************************************************)
EXTENDS StopAndWait, ChatDecentral, ChatElection, SequenceTheorems,
        FiniteSetTheorems, WellFoundedInduction, TLAPS


\* Alice has a segment in hand, and Bob still waits for it.
InHand == alice \in {"send", "recv"}
Pending == expectedseq = seq_num

HandInv ==
  IF InHand /\ Pending
  THEN taken = Append(output, segment)
  ELSE output = taken /\ (~InHand => Pending)

\* While Bob waits, the packets with the current number carry the segment in
\* hand and come after the older ones; afterwards only they are left.
DataInv ==
  \A k \in 1..Len(data) :
    data[k].intact =>
      IF Pending
      THEN data[k].seq = seq_num =>
             /\ InHand
             /\ data[k].content = segment
             /\ \A j \in k..Len(data) : data[j].intact => data[j].seq = seq_num
      ELSE data[k].seq = seq_num

\* No reply matches before Bob has the segment; once one does, no older reply
\* follows it.
AckInv ==
  \A k \in 1..Len(acks) :
    IF Pending
    THEN acks[k] # seq_num
    ELSE acks[k] = seq_num =>
           \A j \in k..Len(acks) : acks[j] # Flip(seq_num)

IInv == TypeOK /\ HandInv /\ DataInv /\ AckInv

LEMMA FlipBit ==
  ASSUME NEW b \in Bit
  PROVE  /\ Flip(b) \in Bit /\ Flip(b) # b /\ Flip(Flip(b)) = b
         /\ \A c \in Bit : c # b => c = Flip(b)
BY DEF Bit, Flip

\* Forward leaves the queue alone or adds one of two packets at its end.
LEMMA ForwardExtends ==
  ASSUME NEW S, NEW ch \in Seq(S), NEW len, NEW fate, NEW p \in S, NEW d \in S
  PROVE  LET f == Forward(ch, len, fate, p, d)
         IN  /\ f \in Seq(S)
             /\ \A k \in 1..Len(f) :
                  \/ k \in 1..Len(ch) /\ f[k] = ch[k]
                  \/ k > Len(ch) /\ f[k] \in {p, d}
<1> DEFINE f == Forward(ch, len, fate, p, d)
<1>1. f = ch \/ f = Append(ch, p) \/ f = Append(ch, d)
  BY DEF Forward
<1> HIDE DEF f
<1>2. CASE f = ch
  BY <1>2 DEF f
<1>3. ASSUME NEW e \in {p, d}, f = Append(ch, e)
      PROVE  /\ f \in Seq(S)
             /\ \A k \in 1..Len(f) :
                  \/ k \in 1..Len(ch) /\ f[k] = ch[k]
                  \/ k > Len(ch) /\ f[k] \in {p, d}
  <2>1. e \in S /\ Len(ch) \in Nat
    OBVIOUS
  <2>2. f \in Seq(S) /\ Len(f) = Len(ch) + 1
        /\ (\A k \in 1..Len(ch) : f[k] = ch[k]) /\ f[Len(ch) + 1] = e
    BY <1>3, <2>1, AppendProperties
  <2> QED BY <2>1, <2>2
<1> QED BY <1>1, <1>2, <1>3 DEF f

LEMMA IntactPacket ==
  ASSUME NEW p \in Packet, p.intact
  PROVE  p.seq \in Bit /\ p.content \in Segment
<1>1. CASE p \in [intact : {TRUE}, seq : Bit, content : Segment]
  BY <1>1
<1>2. CASE p = [intact |-> FALSE]
  BY <1>2
<1> QED BY <1>1, <1>2 DEF Packet, Corrupt

LEMMA CorruptPacket == Corrupt \in Packet /\ ~Corrupt.intact
BY DEF Packet, Corrupt

\* Taking the first packet off the queue keeps DataInv.
LEMMA TailDataInv ==
  ASSUME TypeOK, DataInv, data # <<>>, data' = Tail(data),
         Pending' <=> Pending, InHand' <=> InHand,
         seq_num' = seq_num, segment' = segment
  PROVE  DataInv'
<1>1. /\ Len(data') = Len(data) - 1 /\ Len(data) \in Nat
      /\ \A k \in 1..Len(data') : data'[k] = data[k + 1]
  BY DEF TypeOK
<1>2. ASSUME NEW k \in 1..Len(data'), data'[k].intact
      PROVE  IF Pending
             THEN data'[k].seq = seq_num =>
                    /\ InHand
                    /\ data'[k].content = segment
                    /\ \A j \in k..Len(data') : data'[j].intact => data'[j].seq = seq_num
             ELSE data'[k].seq = seq_num
  <2>1. k + 1 \in 1..Len(data) /\ data'[k] = data[k + 1]
    BY <1>1
  <2>2. CASE ~Pending
    BY <1>2, <2>1, <2>2 DEF DataInv
  <2>3. CASE Pending /\ data'[k].seq = seq_num
    <3>1. /\ InHand /\ data[k + 1].content = segment
          /\ \A j \in k + 1..Len(data) : data[j].intact => data[j].seq = seq_num
      BY <1>2, <2>1, <2>3 DEF DataInv
    <3>2. ASSUME NEW j \in k..Len(data'), data'[j].intact
          PROVE  data'[j].seq = seq_num
      <4>1. j + 1 \in k + 1..Len(data) /\ data'[j] = data[j + 1]
        BY <1>1
      <4> QED BY <3>1, <3>2, <4>1
    <3> QED BY <2>1, <2>3, <3>1, <3>2
  <2> QED BY <2>2, <2>3
<1> QED BY <1>2 DEF DataInv

\* A reply r that agrees with Bob's state keeps AckInv at the end of the queue.
LEMMA AckExtends ==
  ASSUME TypeOK, AckInv, NEW r, acks' \in Seq(Ack), seq_num' = seq_num,
         \A k \in 1..Len(acks') :
             \/ k \in 1..Len(acks) /\ acks'[k] = acks[k]
             \/ k > Len(acks) /\ acks'[k] \in {r, NoDigit},
         IF Pending' THEN Pending /\ r # seq_num ELSE r = seq_num
  PROVE  AckInv'
<1>0. Len(acks) \in Nat /\ Len(acks') \in Nat /\ seq_num \in Bit
  BY DEF TypeOK
<1>1. NoDigit # seq_num /\ NoDigit # Flip(seq_num) /\ seq_num # Flip(seq_num)
  BY <1>0 DEF NoDigit, Bit, Flip
<1>2. CASE Pending'
  BY <1>0, <1>1, <1>2 DEF AckInv
<1>3. CASE ~Pending'
  <2>1. ASSUME NEW k \in 1..Len(acks'), acks'[k] = seq_num, NEW j \in k..Len(acks')
        PROVE  acks'[j] # Flip(seq_num)
    <3>1. j \in 1..Len(acks')
      BY <1>0
    <3>2. CASE j > Len(acks)
      BY <1>0, <1>1, <1>3, <3>1, <3>2
    <3>3. CASE j \in k..Len(acks)
      <4>1. k \in 1..Len(acks) /\ j \in 1..Len(acks)
        BY <1>0, <3>3
      <4>2. acks'[k] = acks[k] /\ acks'[j] = acks[j]
        BY <1>0, <3>1, <4>1
      <4> QED BY <1>0, <1>1, <2>1, <3>3, <4>1, <4>2 DEF AckInv
    <3> QED BY <1>0, <3>2, <3>3
  <2> QED BY <1>3, <2>1 DEF AckInv
<1> QED BY <1>2, <1>3

LEMMA SegmentCut ==
  ASSUME TypeOK, send_till < Len(message)
  PROVE  /\ SubSeq(message, send_till + 1, SegmentEnd) \in Seq(Char)
         /\ Len(SubSeq(message, send_till + 1, SegmentEnd)) \in 0..SEGMENT_SIZE
<1>1. SegmentEnd \in Nat /\ SegmentEnd <= Len(message)
      /\ SegmentEnd <= send_till + SEGMENT_SIZE /\ send_till \in Nat
  BY SizesAssumption DEF TypeOK, SegmentEnd
<1>2. \A k \in send_till + 1 .. SegmentEnd : message[k] \in Char
  BY <1>1 DEF TypeOK
<1> QED BY <1>1, <1>2, SubSeqProperties, SizesAssumption

LEMMA InitIInv == Init => IInv
BY LinesAssumption DEF Init, IInv, TypeOK, HandInv, DataInv, AckInv, InHand,
   Pending, Bit, Segment

LEMMA StepIInv == IInv /\ [Next]_vars => IInv'
<1> SUFFICES ASSUME IInv, [Next]_vars PROVE IInv'
  OBVIOUS
<1> USE DEF IInv
<1>1. CASE ReadLine
  <2>1. TypeOK'
    BY <1>1 DEF TypeOK, ReadLine, bobVars
  <2> QED BY <1>1, <2>1 DEF ReadLine, bobVars, HandInv, DataInv, AckInv, InHand, Pending
<1>2. CASE EndOfInput
  <2>1. TypeOK'
    BY <1>2 DEF TypeOK, EndOfInput, bobVars
  <2> QED BY <1>2, <2>1 DEF EndOfInput, bobVars, HandInv, DataInv, AckInv, InHand, Pending
<1>3. CASE CutSegment
  <2>0. segment' \in Segment /\ taken' \in Seq(Segment) /\ send_till' \in Nat
    <3>1. segment' \in Segment
      BY <1>3, SegmentCut DEF CutSegment, Segment
    <3>2. taken \in Seq(Segment) /\ taken' = Append(taken, segment')
      BY <1>3 DEF TypeOK, CutSegment
    <3>3. send_till' \in Nat
      BY <1>3, SizesAssumption DEF TypeOK, CutSegment
    <3> QED BY <3>1, <3>2, <3>3
  <2>1. TypeOK'
    BY <1>3, <2>0 DEF TypeOK, CutSegment, bobVars
  <2>2. ~InHand /\ InHand' /\ Pending /\ Pending' /\ output = taken
    BY <1>3 DEF CutSegment, bobVars, HandInv, InHand, Pending
  <2>3. HandInv'
    BY <1>3, <2>2 DEF CutSegment, bobVars, HandInv
  <2>4. DataInv' /\ AckInv'
    BY <1>3, <2>2 DEF CutSegment, bobVars, DataInv, AckInv
  <2> QED BY <2>1, <2>3, <2>4
<1>4. ASSUME NEW fate \in Fates, Send(fate)
      PROVE  IInv'
  <2> DEFINE p == [intact |-> TRUE, seq |-> seq_num, content |-> segment]
  <2>1. p \in Packet /\ p.intact /\ p.seq = seq_num /\ p.content = segment
    BY DEF TypeOK, Packet
  <2>2. data' = Forward(data, HeaderSize + Len(segment), fate, p, Corrupt)
    BY <1>4 DEF Send
  <2> HIDE DEF p
  <2>3. data \in Seq(Packet)
    BY DEF TypeOK
  <2>4. /\ data' \in Seq(Packet)
        /\ \A k \in 1..Len(data') :
             \/ k \in 1..Len(data) /\ data'[k] = data[k]
             \/ k > Len(data) /\ data'[k] \in {p, Corrupt}
    BY <2>1, <2>2, <2>3, ForwardExtends, CorruptPacket
  <2>5. TypeOK'
    BY <1>4, <2>4 DEF TypeOK, Send, bobVars
  <2>6. /\ InHand /\ InHand' /\ (Pending <=> Pending') /\ HandInv' /\ AckInv'
        /\ seq_num' = seq_num /\ segment' = segment
    BY <1>4 DEF Send, bobVars, HandInv, InHand, Pending, AckInv
  <2>7. ASSUME NEW k \in 1..Len(data'), data'[k].intact
        PROVE  IF Pending
               THEN data'[k].seq = seq_num =>
                      /\ data'[k].content = segment
                      /\ \A j \in k..Len(data') : data'[j].intact => data'[j].seq = seq_num
               ELSE data'[k].seq = seq_num
    <3>0. Len(data) \in Nat /\ Len(data') \in Nat
      BY <2>3, <2>4
    <3>1. \A j \in 1..Len(data') : j > Len(data) /\ data'[j].intact
             => data'[j].seq = seq_num /\ data'[j].content = segment
      BY <2>1, <2>4, <3>0, CorruptPacket
    <3>2. \A j \in k..Len(data') : j \in 1..Len(data') /\ (j \in k..Len(data) \/ j > Len(data))
      BY <3>0
    <3>3. CASE k > Len(data)
      BY <2>7, <3>0, <3>1, <3>2, <3>3
    <3>4. CASE k \in 1..Len(data)
      <4>1. data'[k] = data[k]
        BY <2>4, <3>0, <3>4
      <4>2. CASE ~Pending
        BY <2>7, <3>4, <4>1, <4>2 DEF DataInv
      <4>3. CASE Pending /\ data[k].seq = seq_num
        <5>1. data[k].content = segment
              /\ \A j \in k..Len(data) : data[j].intact => data[j].seq = seq_num
          BY <2>7, <3>4, <4>1, <4>3 DEF DataInv
        <5>2. \A j \in k..Len(data') : j \in k..Len(data) => data'[j] = data[j]
          BY <2>4, <3>0, <3>2, <3>4
        <5> QED BY <3>1, <3>2, <4>1, <4>3, <5>1, <5>2
      <4> QED BY <4>1, <4>2, <4>3
    <3> QED BY <3>0, <3>3, <3>4
  <2>8. DataInv'
    BY <2>6, <2>7 DEF DataInv
  <2> QED BY <2>5, <2>6, <2>8
<1>5. CASE Timeout
  <2>1. TypeOK'
    BY <1>5 DEF TypeOK, Timeout, bobVars
  <2> QED BY <1>5, <2>1 DEF Timeout, bobVars, HandInv, DataInv, AckInv, InHand, Pending
<1>6. CASE OtherAck
  <2>1. acks' \in Seq(Ack) /\ Len(acks') = Len(acks) - 1
        /\ \A k \in 1..Len(acks') : acks'[k] = acks[k + 1]
    BY <1>6 DEF TypeOK, OtherAck
  <2>2. TypeOK'
    BY <1>6, <2>1 DEF TypeOK, OtherAck, bobVars
  <2>3. HandInv' /\ DataInv' /\ (Pending <=> Pending')
    BY <1>6 DEF OtherAck, bobVars, HandInv, DataInv, InHand, Pending
  <2>4. AckInv'
    BY <1>6, <2>1, <2>3 DEF TypeOK, OtherAck, bobVars, AckInv
  <2> QED BY <2>2, <2>3, <2>4
<1>7. CASE Acknowledged
  <2>1. acks' \in Seq(Ack) /\ Len(acks') = Len(acks) - 1
        /\ \A k \in 1..Len(acks') : acks'[k] = acks[k + 1]
    BY <1>7 DEF TypeOK, Acknowledged
  <2>2. TypeOK'
    BY <1>7, <2>1, FlipBit DEF TypeOK, Acknowledged, bobVars
  <2>3. acks # <<>> /\ acks[1] = seq_num /\ 1 \in 1..Len(acks)
    BY <1>7 DEF TypeOK, Acknowledged
  <2>4. InHand /\ ~Pending /\ output = taken
    BY <1>7, <2>3 DEF AckInv, HandInv, InHand, Acknowledged
  <2>5. Pending' /\ ~InHand'
    BY <1>7, <2>4, FlipBit DEF TypeOK, Acknowledged, bobVars, Pending, InHand
  <2>6. HandInv'
    BY <1>7, <2>4, <2>5 DEF HandInv, Acknowledged, bobVars
  <2>7. DataInv'
    BY <1>7, <2>4, <2>5, FlipBit DEF TypeOK, DataInv, Acknowledged, bobVars
  <2>8. AckInv'
    BY <1>7, <2>1, <2>3, <2>4, <2>5 DEF TypeOK, AckInv, Acknowledged
  <2> QED BY <2>2, <2>6, <2>7, <2>8
<1>8. ASSUME NEW fate \in Fates, BobAccepts(fate)
      PROVE  IInv'
  <2> DEFINE p == Head(data)
  <2>1. /\ data' \in Seq(Packet) /\ Len(data') = Len(data) - 1
        /\ \A k \in 1..Len(data') : data'[k] = data[k + 1]
        /\ p = data[1] /\ 1 \in 1..Len(data) /\ p \in Packet
    BY <1>8 DEF TypeOK, BobAccepts
  <2>2. p.intact /\ p.seq \in Bit /\ p.content \in Segment
    <3>1. p.intact
      BY <1>8 DEF BobAccepts, WellFormed
    <3> QED BY <2>1, <3>1, IntactPacket
  <2>a. /\ acks' = Forward(acks, 4, fate, p.seq, NoDigit)
        /\ IF p.seq = expectedseq
           THEN /\ output' = Append(output, p.content)
                /\ expectedseq' = Flip(expectedseq)
           ELSE UNCHANGED bobVars
        /\ UNCHANGED aliceVars /\ data' = Tail(data) /\ data # <<>>
    BY <1>8 DEF BobAccepts
  <2> HIDE DEF p
  <2>b. p.seq \in Ack /\ NoDigit \in Ack /\ acks \in Seq(Ack)
    BY <2>2 DEF Ack, TypeOK
  <2>4. /\ acks' \in Seq(Ack)
        /\ \A k \in 1..Len(acks') :
             \/ k \in 1..Len(acks) /\ acks'[k] = acks[k]
             \/ k > Len(acks) /\ acks'[k] \in {p.seq, NoDigit}
    BY <2>a, <2>b, ForwardExtends
  <2>5. CASE p.seq = expectedseq
    <3>1. output' = Append(output, p.content) /\ expectedseq' = Flip(expectedseq)
          /\ UNCHANGED aliceVars
      BY <2>a, <2>5
    <3>2. TypeOK'
      BY <2>1, <2>2, <2>4, <3>1, FlipBit DEF TypeOK, aliceVars
    <3>3. Pending
      BY <2>1, <2>2, <2>5 DEF DataInv, Pending
    <3>4. InHand /\ p.content = segment /\ p.seq = seq_num
          /\ \A j \in 1..Len(data) : data[j].intact => data[j].seq = seq_num
      BY <2>1, <2>2, <2>5, <3>3 DEF DataInv, Pending
    <3>5. InHand' /\ ~Pending' /\ seq_num' = seq_num /\ seq_num \in Bit
      BY <3>1, <3>3, <3>4, FlipBit DEF TypeOK, Pending, InHand, aliceVars
    <3>6. HandInv'
      BY <3>1, <3>3, <3>4, <3>5 DEF HandInv, aliceVars
    <3>7. DataInv'
      BY <2>1, <3>4, <3>5 DEF DataInv
    <3>8. AckInv'
      BY <2>b, <2>4, <3>3, <3>4, <3>5, AckExtends
    <3> QED BY <3>2, <3>6, <3>7, <3>8
  <2>6. CASE p.seq # expectedseq
    <3>1. UNCHANGED <<aliceVars, bobVars>>
      BY <2>a, <2>6
    <3>2. TypeOK'
      BY <2>1, <2>4, <3>1 DEF TypeOK, aliceVars, bobVars
    <3>3. (Pending' <=> Pending) /\ (InHand' <=> InHand) /\ HandInv' /\ seq_num' = seq_num
      BY <3>1 DEF Pending, InHand, HandInv, aliceVars, bobVars
    <3>4. DataInv'
      BY <2>a, <3>1, <3>3, TailDataInv DEF aliceVars
    <3>5. IF Pending THEN p.seq # seq_num ELSE p.seq = seq_num
      BY <2>1, <2>2, <2>6 DEF DataInv, Pending
    <3>6. AckInv'
      BY <2>b, <2>4, <3>3, <3>5, AckExtends
    <3> QED BY <3>2, <3>3, <3>4, <3>6
  <2> QED BY <2>5, <2>6
<1>9. ASSUME NEW fate \in Fates, BobRejects(fate)
      PROVE  IInv'
  <2>1. /\ data' \in Seq(Packet) /\ Len(data') = Len(data) - 1
        /\ \A k \in 1..Len(data') : data'[k] = data[k + 1]
    BY <1>9 DEF TypeOK, BobRejects
  <2> DEFINE r == Flip(expectedseq)
  <2>2. acks' = Forward(acks, 4, fate, r, NoDigit)
        /\ data' = Tail(data) /\ data # <<>> /\ UNCHANGED <<aliceVars, bobVars>>
    BY <1>9 DEF BobRejects
  <2>3. r \in Bit /\ (IF Pending THEN r # seq_num ELSE r = seq_num)
    BY FlipBit DEF TypeOK, Pending
  <2> HIDE DEF r
  <2>b. r \in Ack /\ NoDigit \in Ack /\ acks \in Seq(Ack)
    BY <2>3 DEF Ack, TypeOK
  <2>4. /\ acks' \in Seq(Ack)
        /\ \A k \in 1..Len(acks') :
             \/ k \in 1..Len(acks) /\ acks'[k] = acks[k]
             \/ k > Len(acks) /\ acks'[k] \in {r, NoDigit}
    BY <2>2, <2>b, ForwardExtends
  <2>5. TypeOK'
    BY <2>1, <2>2, <2>4 DEF TypeOK, aliceVars, bobVars
  <2>6. (Pending' <=> Pending) /\ (InHand' <=> InHand) /\ HandInv' /\ seq_num' = seq_num
        /\ segment' = segment
    BY <2>2 DEF Pending, InHand, HandInv, aliceVars, bobVars
  <2>7. DataInv'
    BY <2>2, <2>6, TailDataInv
  <2>8. AckInv'
    BY <2>3, <2>4, <2>6, AckExtends
  <2> QED BY <2>5, <2>6, <2>7, <2>8
<1>10. CASE UNCHANGED vars
  BY <1>10 DEF vars, aliceVars, bobVars, TypeOK, HandInv, DataInv, AckInv,
     InHand, Pending
<1> QED BY <1>1, <1>2, <1>3, <1>4, <1>5, <1>6, <1>7, <1>8, <1>9, <1>10
        DEF Next, Alice, Bob, Receive

\* The two programs and the packets between them keep their types.
THEOREM TypeCorrect == Spec => []TypeOK
<1>1. IInv => TypeOK
  BY DEF IInv
<1> QED BY <1>1, InitIInv, StepIInv, PTL DEF Spec

\* Whatever UnreliNET.java loses or damages, Bob.py has printed exactly the
\* segments Alice.py has taken on, in order and once each, but for the last.
THEOREM SegmentsInOrder == Spec => []DeliveredInOrder
<1>1. IInv => DeliveredInOrder
  BY DEF IInv, HandInv, InHand, DeliveredInOrder
<1> QED BY <1>1, InitIInv, StepIInv, PTL DEF Spec

\* A reply that matches the number of the segment in hand is about it.
THEOREM NoStaleMatch == Spec => []StaleRepliesIgnored
<1>1. ASSUME IInv PROVE StaleRepliesIgnored
  <2> SUFFICES ASSUME NEW k \in DOMAIN acks, acks[k] = seq_num
               PROVE  output = taken
    BY DEF StaleRepliesIgnored
  <2>1. ~Pending
    BY <1>1 DEF IInv, TypeOK, AckInv
  <2> QED BY <1>1, <2>1 DEF IInv, HandInv
<1> QED BY <1>1, InitIInv, StepIInv, PTL DEF Spec

-----------------------------------------------------------------------------
LEMMA SegmentIsBounded ==
  ASSUME NEW s \in Seq(Char), Len(s) \in 0..SEGMENT_SIZE
  PROVE  s \in BoundedSeq(Char, SEGMENT_SIZE)
<1>1. s \in [1..Len(s) -> Char]
  BY LenProperties
<1> QED BY <1>1 DEF BoundedSeq, SeqOf

LEMMA TransferStep ==
  IInv /\ IInv' /\ [Next]_vars => [Transfer!Next]_<<taken, output>>
<1> SUFFICES ASSUME IInv, IInv', [Next]_vars
             PROVE  [Transfer!Next]_<<taken, output>>
  OBVIOUS
<1> USE DEF IInv
<1>1. CASE CutSegment
  <2>1. output = taken /\ output' = output
    BY <1>1 DEF CutSegment, HandInv, InHand, bobVars
  <2>2. segment' \in BoundedSeq(Char, SEGMENT_SIZE) /\ taken' = Append(taken, segment')
    BY <1>1, SegmentCut, SegmentIsBounded DEF CutSegment
  <2> QED BY <2>1, <2>2 DEF Transfer!Next, Transfer!Take
<1>2. ASSUME NEW fate \in Fates, BobAccepts(fate), output' # output
      PROVE  Transfer!Next
  <2>1. expectedseq' = Flip(expectedseq) /\ UNCHANGED aliceVars
        /\ output' = Append(output, Head(data).content)
    BY <1>2 DEF BobAccepts, bobVars
  <2>2. (Pending /\ ~Pending') \/ (~Pending /\ Pending')
    BY <2>1, FlipBit DEF TypeOK, Pending, aliceVars
  <2>3. InHand' <=> InHand
    BY <2>1 DEF InHand, aliceVars
  <2>4. CASE Pending /\ ~Pending'
    <3>1. output' = taken' /\ taken' = taken
      BY <2>1, <2>4 DEF HandInv, aliceVars
    <3> QED BY <1>2, <3>1 DEF Transfer!Next, Transfer!Deliver
  <2>5. CASE ~Pending /\ Pending'
    <3>1. output = taken /\ InHand /\ taken' = taken
      BY <2>1, <2>5 DEF HandInv, aliceVars
    <3>2. taken' = Append(output', segment')
      BY <2>3, <2>5, <3>1 DEF HandInv
    <3>3. Len(output) \in Nat /\ Len(output') = Len(output) + 1
          /\ Len(taken') = Len(output') + 1
      <4>1. Len(output) \in Nat /\ Len(output') \in Nat
        BY DEF TypeOK
      <4>2. Len(taken') = Len(output') + 1
        BY <3>2 DEF TypeOK
      <4>3. output \in Seq(Segment) /\ output' \in Seq(Segment)
        BY DEF TypeOK
      <4>4. Len(output') = Len(output) + 1
        BY <2>1, <4>3
      <4> QED BY <4>1, <4>2, <4>4
    <3> QED BY <3>1, <3>3
  <2> QED BY <2>2, <2>4, <2>5
<1>3. ASSUME NEW fate \in Fates, BobAccepts(fate), output' = output
      PROVE  UNCHANGED <<taken, output>>
  BY <1>3 DEF BobAccepts, aliceVars
<1>4. CASE \/ ReadLine \/ EndOfInput \/ Timeout \/ Receive \/ UNCHANGED vars
           \/ \E fate \in Fates : Send(fate) \/ BobRejects(fate)
  BY <1>4 DEF ReadLine, EndOfInput, Timeout, Receive, Acknowledged, OtherAck,
     Send, BobRejects, vars, aliceVars, bobVars
<1> QED BY <1>1, <1>2, <1>3, <1>4 DEF Next, Alice, Bob

LEMMA TransferInit == Init => Transfer!Init
BY DEF Init, Transfer!Init

\* Alice.py and Bob.py over a lossy, corrupting UnreliNET implement the
\* transfer of one segment at a time that module SegmentTransfer specifies.
THEOREM StopAndWaitImplementsTransfer == Spec => ImplementsTransfer
BY InitIInv, StepIInv, TransferInit, TransferStep, PTL
   DEF Spec, ImplementsTransfer, Transfer!Spec
\* Maps, least numbers and recursion

\* The maps with finitely many entries: keys in K, values in V.
Map(K, V) == UNION {[S -> V] : S \in {T \in SUBSET K : IsFiniteSet(T)}}

LEMMA MapDef ==
  \A K, V, f : f \in Map(K, V) <=> /\ f \in [DOMAIN f -> V] /\ DOMAIN f \subseteq K
                                   /\ IsFiniteSet(DOMAIN f)
<1> SUFFICES ASSUME NEW K, NEW V, NEW f
             PROVE  f \in Map(K, V) <=> /\ f \in [DOMAIN f -> V] /\ DOMAIN f \subseteq K
                                        /\ IsFiniteSet(DOMAIN f)
  OBVIOUS
<1>1. ASSUME f \in Map(K, V)
      PROVE  /\ f \in [DOMAIN f -> V] /\ DOMAIN f \subseteq K /\ IsFiniteSet(DOMAIN f)
  <2>1. PICK S \in {T \in SUBSET K : IsFiniteSet(T)} : f \in [S -> V]
    BY <1>1 DEF Map
  <2>2. DOMAIN f = S
    BY <2>1
  <2> QED BY <2>1, <2>2
<1>2. ASSUME f \in [DOMAIN f -> V], DOMAIN f \subseteq K, IsFiniteSet(DOMAIN f)
      PROVE  f \in Map(K, V)
  BY <1>2 DEF Map
<1> QED BY <1>1, <1>2

LEMMA EmptyMap == \A K, V : Empty \in Map(K, V) /\ DOMAIN Empty = {}
<1>1. DOMAIN Empty = {}
  BY DEF Empty
<1>2. IsFiniteSet({})
  BY FS_EmptySet
<1>3. \A V : Empty \in [{} -> V]
  BY DEF Empty
<1> QED BY <1>1, <1>2, <1>3, MapDef

LEMMA InsertDef ==
  \A f, k, v : /\ DOMAIN Insert(f, k, v) = DOMAIN f \cup {k}
               /\ \A x \in DOMAIN f : Insert(f, k, v)[x] = f[x]
               /\ k \notin DOMAIN f => Insert(f, k, v)[k] = v
BY DEF Insert

LEMMA InsertMap ==
  ASSUME NEW K, NEW V, NEW f \in Map(K, V), NEW k \in K, NEW v \in V
  PROVE  Insert(f, k, v) \in Map(K, V)
<1>1. f \in [DOMAIN f -> V] /\ DOMAIN f \subseteq K /\ IsFiniteSet(DOMAIN f)
  BY MapDef
<1>2. DOMAIN Insert(f, k, v) = DOMAIN f \cup {k}
  BY DEF Insert
<1>3. IsFiniteSet(DOMAIN f \cup {k})
  BY <1>1, FS_AddElement
<1>4. Insert(f, k, v) \in [DOMAIN f \cup {k} -> V]
  BY <1>1 DEF Insert
<1>5. Insert(f, k, v) \in Map(K, V)
  BY <1>1, <1>2, <1>3, <1>4, MapDef
<1> QED BY <1>5

LEMMA RestrictMap ==
  ASSUME NEW K, NEW V, NEW f \in Map(K, V), NEW S, S \subseteq DOMAIN f
  PROVE  /\ Restrict(f, S) \in Map(K, V) /\ DOMAIN Restrict(f, S) = S
         /\ \A x \in S : Restrict(f, S)[x] = f[x]
<1>1. f \in [DOMAIN f -> V] /\ DOMAIN f \subseteq K /\ IsFiniteSet(DOMAIN f)
  BY MapDef
<1>2. IsFiniteSet(S)
  BY <1>1, FS_Subset
<1>3. DOMAIN Restrict(f, S) = S /\ Restrict(f, S) \in [S -> V]
  BY <1>1 DEF Restrict
<1>4. Restrict(f, S) \in Map(K, V)
  BY <1>1, <1>2, <1>3, MapDef
<1> QED BY <1>3, <1>4 DEF Restrict

LEMMA EraseMap ==
  ASSUME NEW K, NEW V, NEW f \in Map(K, V), NEW k
  PROVE  Erase(f, k) \in Map(K, V)
BY RestrictMap DEF Erase

LEMMA EraseDef ==
  \A f, k : /\ DOMAIN Erase(f, k) = DOMAIN f \ {k}
            /\ \A x \in DOMAIN f \ {k} : Erase(f, k)[x] = f[x]
BY DEF Erase, Restrict

LEMMA Least ==
  ASSUME NEW S, S \subseteq Nat, S # {}
  PROVE  \E x \in S : \A y \in S : x <= y
<1>1. PICK x \in S : \A y \in S : ~(<<y, x>> \in OpToRel(<, Nat))
  BY WFMin, NatLessThanWellFounded
<1>2. \A y \in S : ~(y < x)
  BY <1>1 DEF OpToRel
<1> QED BY <1>2

\* Induction over a set of numbers.
LEMMA Climb ==
  ASSUME NEW n \in Nat, NEW S, 0 \in S, \A i \in 1..n : i - 1 \in S => i \in S
  PROVE  n \in S
<1> DEFINE T == {i \in 0..n : i \notin S}
<1> SUFFICES ASSUME T # {} PROVE FALSE
  OBVIOUS
<1>1. PICK j \in T : \A y \in T : j <= y
  <2>1. T \subseteq Nat
    OBVIOUS
  <2> HIDE DEF T
  <2> QED BY <2>1, Least
<1>2. j \in 1..n
  BY <1>1
<1>3. j - 1 \in 0..n /\ ~(j <= j - 1)
  BY <1>2
<1>4. j - 1 \notin T
  BY <1>1, <1>3
<1> QED BY <1>1, <1>2, <1>3, <1>4

\* The largest member of a set of numbers that has a bound, and of a finite one.
LEMMA LargestBelow ==
  ASSUME NEW S, S \subseteq Nat, S # {}, \E n \in Nat : \A y \in S : y <= n
  PROVE  Max(S) \in S /\ \A y \in S : y <= Max(S)
<1>1. PICK n \in Nat : \A y \in S : y <= n
  OBVIOUS
<1> DEFINE T == {b \in Nat : \A y \in S : y <= b}
<1>2. PICK b \in T : \A c \in T : b <= c
  <2>1. T \subseteq Nat /\ n \in T
    BY <1>1
  <2> HIDE DEF T
  <2> QED BY <2>1, Least
<1>3. b \in S
  <2> SUFFICES ASSUME b \notin S PROVE FALSE
    OBVIOUS
  <2>1. PICK x \in S : TRUE
    OBVIOUS
  <2>2. \A y \in S : y < b
    BY <1>2
  <2>3. b - 1 \in T
    BY <2>1, <2>2, <1>2
  <2> QED BY <2>3, <1>2
<1>4. \E x \in S : \A y \in S : x >= y
  BY <1>2, <1>3
<1>5. Max(S) \in S /\ \A y \in S : Max(S) >= y
  BY <1>4 DEF Max
<1> QED BY <1>5

LEMMA LargestOf ==
  ASSUME NEW S, S \subseteq Nat, IsFiniteSet(S), S # {}
  PROVE  Max(S) \in S /\ \A y \in S : y <= Max(S)
<1>1. PICK n \in Nat : \A y \in S : y <= n
  <2>1. PICK n \in Nat : \E f \in Surjection(1..n, S) : TRUE
    BY FS_NatSurjection DEF ExistsSurjection
  <2>0. PICK f \in Surjection(1..n, S) : TRUE
    BY <2>1
  <2>2. f \in [1..n -> S] /\ \A y \in S : \E i \in 1..n : f[i] = y
    BY <2>0 DEF Surjection
  <2> DEFINE T == {i \in 0..n : \E b \in Nat : \A j \in 1..i : f[j] <= b}
  <2>3. 0 \in T
    OBVIOUS
  <2>4. ASSUME NEW i \in 1..n, i - 1 \in T
        PROVE  i \in T
    <3>1. PICK b \in Nat : \A j \in 1..(i - 1) : f[j] <= b
      BY <2>4
    <3>2. f[i] \in Nat
      BY <2>2
    <3>3. PICK c \in Nat : b <= c /\ f[i] <= c
      BY <3>2
    <3>4. \A j \in 1..i : f[j] <= c
      <4> TAKE j \in 1..i
      <4>1. CASE j = i
        BY <4>1, <3>3
      <4>2. CASE j # i
        <5>1. j \in 1..(i - 1) /\ j \in 1..n
          BY <4>2
        <5>2. f[j] \in Nat
          BY <5>1, <2>2
        <5> QED BY <5>1, <5>2, <3>1, <3>3
      <4> QED BY <4>1, <4>2
    <3> QED BY <3>4
  <2>5. n \in T
    <3> HIDE DEF T
    <3> QED BY <2>3, <2>4, Climb
  <2>6. PICK b \in Nat : \A j \in 1..n : f[j] <= b
    BY <2>5
  <2> QED BY <2>2, <2>6
<1> QED BY <1>1, LargestBelow

LEMMA SmallestOf ==
  ASSUME NEW S, S \subseteq Nat, S # {}
  PROVE  Min(S) \in S /\ \A y \in S : Min(S) <= y
<1>1. \E x \in S : \A y \in S : x =< y
  BY Least
<1> QED BY <1>1 DEF Min

LEMMA MapUse ==
  ASSUME NEW K, NEW V, NEW f \in Map(K, V)
  PROVE  /\ DOMAIN f \subseteq K /\ IsFiniteSet(DOMAIN f)
         /\ \A k \in DOMAIN f : k \in K /\ f[k] \in V
<1>1. f \in [DOMAIN f -> V] /\ DOMAIN f \subseteq K /\ IsFiniteSet(DOMAIN f)
  BY MapDef
<1> QED BY <1>1

-----------------------------------------------------------------------------
\* Channels: the next content d of a channel with content c is c without its
\* first off packets, followed by put.

Shift(c, d, off, put) ==
  /\ Len(c) \in Nat /\ Len(d) \in Nat /\ Len(put) \in Nat
  /\ off \in {0, 1} /\ off <= Len(c)
  /\ Len(d) = Len(c) - off + Len(put)
  /\ \A i \in 1..(Len(c) - off) : d[i] = c[i + off]
  /\ \A i \in 1..Len(put) : d[Len(c) - off + i] = put[i]

\* Every packet of d is one of c or of put, and every one of c but the first off
\* and every one of put is in d.
Moved(c, d, off, put) ==
  /\ \A i \in 1..Len(d) :
       \/ (i + off \in 1..Len(c) /\ d[i] = c[i + off])
       \/ (i > Len(c) - off /\ i - (Len(c) - off) \in 1..Len(put)
           /\ d[i] = put[i - (Len(c) - off)])
  /\ \A i \in 1..Len(c) : i > off => (i - off \in 1..Len(d) /\ d[i - off] = c[i])
  /\ \A i \in 1..Len(put) :
       Len(c) - off + i \in 1..Len(d) /\ d[Len(c) - off + i] = put[i]

LEMMA ShiftUse ==
  ASSUME NEW c, NEW d, NEW off, NEW put, Shift(c, d, off, put)
  PROVE  Moved(c, d, off, put)
<1>0. /\ Len(c) \in Nat /\ Len(d) \in Nat /\ Len(put) \in Nat
      /\ off \in {0, 1} /\ off <= Len(c) /\ Len(d) = Len(c) - off + Len(put)
      /\ \A i \in 1..(Len(c) - off) : d[i] = c[i + off]
      /\ \A i \in 1..Len(put) : d[Len(c) - off + i] = put[i]
  BY DEF Shift
<1>1. ASSUME NEW i \in 1..Len(d)
      PROVE  \/ (i + off \in 1..Len(c) /\ d[i] = c[i + off])
             \/ (i > Len(c) - off /\ i - (Len(c) - off) \in 1..Len(put)
                 /\ d[i] = put[i - (Len(c) - off)])
  <2>1. CASE i <= Len(c) - off
    BY <1>0, <2>1
  <2>2. CASE i > Len(c) - off
    <3>1. PICK j : j = i - (Len(c) - off)
      OBVIOUS
    <3>2. j \in 1..Len(put) /\ i = Len(c) - off + j
      BY <1>0, <2>2, <3>1
    <3> QED BY <1>0, <2>2, <3>1, <3>2
  <2> QED BY <1>0, <2>1, <2>2
<1>2. ASSUME NEW i \in 1..Len(c), i > off
      PROVE  i - off \in 1..Len(d) /\ d[i - off] = c[i]
  <2>1. i - off \in 1..(Len(c) - off) /\ (i - off) + off = i
    BY <1>0, <1>2
  <2>2. d[i - off] = c[(i - off) + off]
    BY <1>0, <2>1
  <2> QED BY <1>0, <2>1, <2>2
<1>3. \A i \in 1..Len(put) :
        Len(c) - off + i \in 1..Len(d) /\ d[Len(c) - off + i] = put[i]
  BY <1>0
<1> QED BY <1>1, <1>2, <1>3 DEF Moved

LEMMA ConcatShift ==
  ASSUME NEW E, NEW c \in Seq(E), NEW put \in Seq(E)
  PROVE  c \o put \in Seq(E) /\ Shift(c, c \o put, 0, put)
<1>1. c \o put \in Seq(E) /\ Len(c \o put) = Len(c) + Len(put)
  OBVIOUS
<1>2. Len(c) \in Nat /\ Len(put) \in Nat
  OBVIOUS
<1>3. \A i \in 1..(Len(c) + Len(put)) :
        (c \o put)[i] = IF i <= Len(c) THEN c[i] ELSE put[i - Len(c)]
  OBVIOUS
<1> DEFINE d == c \o put
<1>4. d \in Seq(E) /\ Len(d) = Len(c) + Len(put)
  BY <1>1
<1>5. \A i \in 1..(Len(c) + Len(put)) :
        d[i] = IF i <= Len(c) THEN c[i] ELSE put[i - Len(c)]
  BY <1>3
<1> HIDE DEF d
<1>6. \A i \in 1..Len(c) : d[i] = c[i]
  BY <1>2, <1>5
<1>7. ASSUME NEW i \in 1..Len(put)
      PROVE  d[Len(c) + i] = put[i]
  <2>1. PICK j : j = Len(c) + i
    OBVIOUS
  <2>2. j \in 1..(Len(c) + Len(put)) /\ ~(j <= Len(c)) /\ j - Len(c) = i
    BY <1>2, <1>7, <2>1
  <2>3. d[j] = put[j - Len(c)]
    BY <1>5, <2>2
  <2> QED BY <2>1, <2>2, <2>3
<1>8. Shift(c, d, 0, put)
  BY <1>2, <1>4, <1>6, <1>7 DEF Shift
<1> QED BY <1>4, <1>8 DEF d

LEMMA TailShift ==
  ASSUME NEW E, NEW c \in Seq(E), c # <<>>, NEW put \in Seq(E)
  PROVE  Tail(c) \o put \in Seq(E) /\ Shift(c, Tail(c) \o put, 1, put)
<1>1. /\ Tail(c) \in Seq(E) /\ Len(Tail(c)) = Len(c) - 1 /\ Len(c) \in Nat
      /\ \A i \in 1..(Len(c) - 1) : Tail(c)[i] = c[i + 1]
      /\ 1 <= Len(c)
  OBVIOUS
<1>2. PICK t \in Seq(E) : t = Tail(c)
  BY <1>1
<1>3. PICK d : d = t \o put
  OBVIOUS
<1>4. d \in Seq(E) /\ Shift(t, d, 0, put)
  BY <1>3, ConcatShift
<1>5. Len(t) = Len(c) - 1 /\ \A i \in 1..(Len(c) - 1) : t[i] = c[i + 1]
  BY <1>1, <1>2
<1>6. Shift(c, d, 1, put)
  BY <1>1, <1>4, <1>5 DEF Shift
<1> QED BY <1>2, <1>3, <1>4, <1>6

-----------------------------------------------------------------------------
\* The requests in a channel: b is the last one that needs no number, last the
\* last one the receiver has passed, top the last one made.

Asks(p, l) == p.tag = "S2_" /\ p.l = l

RequestsIn(c, b, last, top) ==
  /\ \A l \in (last + 1)..top : \E i \in 1..Len(c) : Asks(c[i], l)
  /\ \A i \in 1..Len(c) : c[i].tag = "S2_" =>
       /\ c[i].l \in (b + 1)..top
       /\ \A k \in (last + 1)..(c[i].l - 1) : \E j \in 1..(i - 1) : Asks(c[j], k)
  /\ \A i \in 1..Len(c) : c[i].tag # "S4_" /\ c[i].tag # "S4A"

LEMMA RequestsUse ==
  ASSUME NEW c, NEW b, NEW last, NEW top, RequestsIn(c, b, last, top)
  PROVE  /\ \A l \in (last + 1)..top : \E i \in 1..Len(c) : Asks(c[i], l)
         /\ \A i \in 1..Len(c) : c[i].tag = "S2_" => c[i].l \in (b + 1)..top
         /\ \A i \in 1..Len(c) : c[i].tag = "S2_" =>
              \A k \in (last + 1)..(c[i].l - 1) : \E j \in 1..(i - 1) : Asks(c[j], k)
         /\ \A i \in 1..Len(c) : c[i].tag # "S4_" /\ c[i].tag # "S4A"
BY Zenon DEF RequestsIn

\* put has no request and no packet about one.
NoRequest(put) == \A i \in 1..Len(put) : put[i].tag \notin {"S2_", "S4_", "S4A"}

\* The first packet is taken: a request is the next one or one passed already.
LEMMA RequestsTake ==
  ASSUME NEW b \in Nat, NEW last \in Nat, NEW top \in Nat, NEW c, NEW d, NEW off, NEW put,
         RequestsIn(c, b, last, top), Shift(c, d, off, put), NoRequest(put),
         NEW new \in Nat, last <= new,
         \A l \in (last + 1)..new : off = 1 /\ Asks(c[1], l),
         off = 1 /\ c[1].tag = "S2_" => c[1].l <= new
  PROVE  RequestsIn(d, b, new, top)
<1>0. Len(c) \in Nat /\ Len(d) \in Nat /\ off \in {0, 1}
  BY DEF Shift
<1>u. /\ \A l \in (last + 1)..top : \E i \in 1..Len(c) : Asks(c[i], l)
      /\ \A i \in 1..Len(c) : c[i].tag = "S2_" => c[i].l \in (b + 1)..top
      /\ \A i \in 1..Len(c) : c[i].tag = "S2_" =>
           \A k \in (last + 1)..(c[i].l - 1) : \E j \in 1..(i - 1) : Asks(c[j], k)
      /\ \A i \in 1..Len(c) : c[i].tag # "S4_" /\ c[i].tag # "S4A"
  BY RequestsUse
<1>s. /\ \A i \in 1..Len(d) :
           \/ (i + off \in 1..Len(c) /\ d[i] = c[i + off])
           \/ (i > Len(c) - off /\ i - (Len(c) - off) \in 1..Len(put)
               /\ d[i] = put[i - (Len(c) - off)])
      /\ \A i \in 1..Len(c) : i > off => (i - off \in 1..Len(d) /\ d[i - off] = c[i])
  BY ShiftUse DEF Moved
<1>p. \A i \in 1..Len(put) : put[i].tag \notin {"S2_", "S4_", "S4A"}
  BY DEF NoRequest
<1>a. ASSUME NEW i \in 1..Len(c), NEW l \in Int, l > new, Asks(c[i], l)
      PROVE  i > off
  <2>1. i # 1 \/ off = 0
    <3> SUFFICES ASSUME i = 1, off = 1 PROVE FALSE
      BY <1>0
    <3>1. c[1].tag = "S2_" /\ c[1].l = l
      BY <1>a DEF Asks
    <3> QED BY <3>1, <1>a
  <2> QED BY <2>1, <1>0
<1>1. ASSUME NEW l \in (new + 1)..top
      PROVE  \E i \in 1..Len(d) : Asks(d[i], l)
  <2>1. l \in (last + 1)..top /\ l > new /\ l \in Int
    BY <1>1
  <2>2. PICK i \in 1..Len(c) : Asks(c[i], l)
    BY <1>u, <2>1
  <2>3. i > off
    BY <1>a, <2>1, <2>2
  <2>4. i - off \in 1..Len(d) /\ Asks(d[i - off], l)
    BY <1>s, <2>2, <2>3
  <2> QED BY <2>4
<1>2. ASSUME NEW i \in 1..Len(d), d[i].tag = "S2_"
      PROVE  /\ d[i].l \in (b + 1)..top
             /\ \A k \in (new + 1)..(d[i].l - 1) : \E j \in 1..(i - 1) : Asks(d[j], k)
  <2>1. i + off \in 1..Len(c) /\ d[i] = c[i + off]
    BY <1>s, <1>p, <1>2
  <2>2. d[i].l \in (b + 1)..top
    BY <1>u, <1>2, <2>1
  <2>3. ASSUME NEW k \in (new + 1)..(d[i].l - 1)
        PROVE  \E j \in 1..(i - 1) : Asks(d[j], k)
    <3>1. k \in (last + 1)..(c[i + off].l - 1) /\ k > new /\ k \in Int
      BY <2>1, <2>2, <2>3
    <3>0. c[i + off].tag = "S2_"
      BY <1>2, <2>1
    <3>2. PICK j \in 1..((i + off) - 1) : Asks(c[j], k)
      BY <1>u, <2>1, <3>0, <3>1, Zenon
    <3>3. j \in 1..Len(c)
      BY <2>1, <3>2, <1>0
    <3>4. j > off
      BY <1>a, <3>1, <3>2, <3>3
    <3>5. j - off \in 1..Len(d) /\ Asks(d[j - off], k)
      BY <1>s, <3>2, <3>3, <3>4
    <3>6. j - off \in 1..(i - 1)
      BY <1>0, <3>2, <3>4
    <3> QED BY <3>5, <3>6
  <2> QED BY <2>2, <2>3
<1>3. ASSUME NEW i \in 1..Len(d)
      PROVE  d[i].tag # "S4_" /\ d[i].tag # "S4A"
  BY <1>s, <1>p, <1>u
<1> QED BY <1>1, <1>2, <1>3 DEF RequestsIn

\* A request is put behind the others: the next one or the last one once more.
LEMMA RequestsAdd ==
  ASSUME NEW b \in Nat, NEW last \in Nat, NEW top \in Nat, NEW c, NEW d, NEW p, NEW off, NEW put, off = 0,
         RequestsIn(c, b, last, top), Shift(c, d, off, put), Len(put) = 1, put[1] = p,
         p.tag = "S2_", p.l \in {top, top + 1}, b < p.l
  PROVE  RequestsIn(d, b, last, p.l)
<1>0. Len(c) \in Nat /\ Len(d) \in Nat /\ Len(put) = 1 /\ put[1] = p
  BY DEF Shift
<1>f. Moved(c, d, off, put)
  BY ShiftUse, Zenon
<1>s. /\ \A i \in 1..Len(d) :
           \/ (i + off \in 1..Len(c) /\ d[i] = c[i + off])
           \/ (i > Len(c) - off /\ i - (Len(c) - off) \in 1..Len(put)
               /\ d[i] = put[i - (Len(c) - off)])
      /\ \A i \in 1..Len(c) : i > off => (i - off \in 1..Len(d) /\ d[i - off] = c[i])
      /\ \A i \in 1..Len(put) : Len(c) - off + i \in 1..Len(d) /\ d[Len(c) - off + i] = put[i]
  BY <1>f, Zenon DEF Moved
<1>d. /\ \A i \in 1..Len(d) : (i \in 1..Len(c) /\ d[i] = c[i]) \/ (i = Len(c) + 1 /\ d[i] = p)
      /\ \A i \in 1..Len(c) : i \in 1..Len(d) /\ d[i] = c[i]
      /\ Len(c) + 1 \in 1..Len(d) /\ d[Len(c) + 1] = p
  <2>1. Len(put) = 1 /\ put[1] = p /\ off = 0 /\ Len(c) \in Nat
    BY <1>0
  <2>2. ASSUME NEW i \in 1..Len(d)
        PROVE  (i \in 1..Len(c) /\ d[i] = c[i]) \/ (i = Len(c) + 1 /\ d[i] = p)
    <3>1. CASE i + off \in 1..Len(c) /\ d[i] = c[i + off]
      BY <2>1, <3>1
    <3>2. CASE i - (Len(c) - off) \in 1..Len(put) /\ d[i] = put[i - (Len(c) - off)]
      BY <2>1, <3>2
    <3> QED BY <1>s, <3>1, <3>2
  <2>3. \A i \in 1..Len(c) : i \in 1..Len(d) /\ d[i] = c[i]
    BY <1>s, <2>1
  <2>4. Len(c) + 1 \in 1..Len(d) /\ d[Len(c) + 1] = p
    BY <1>s, <2>1
  <2> QED BY <2>2, <2>3, <2>4
<1>u. /\ \A l \in (last + 1)..top : \E i \in 1..Len(c) : Asks(c[i], l)
      /\ \A i \in 1..Len(c) : c[i].tag = "S2_" => c[i].l \in (b + 1)..top
      /\ \A i \in 1..Len(c) : c[i].tag = "S2_" =>
           \A k \in (last + 1)..(c[i].l - 1) : \E j \in 1..(i - 1) : Asks(c[j], k)
      /\ \A i \in 1..Len(c) : c[i].tag # "S4_" /\ c[i].tag # "S4A"
  BY RequestsUse
<1>1. ASSUME NEW l \in (last + 1)..p.l
      PROVE  \E i \in 1..Len(d) : Asks(d[i], l)
  <2>1. CASE l = p.l
    BY <1>d, <2>1 DEF Asks
  <2>2. CASE l # p.l
    <3>1. l \in (last + 1)..top
      BY <2>2
    <3>2. PICK i \in 1..Len(c) : Asks(c[i], l)
      BY <1>u, <3>1
    <3> QED BY <1>d, <3>2
  <2> QED BY <2>1, <2>2
<1>2. ASSUME NEW i \in 1..Len(d), d[i].tag = "S2_"
      PROVE  /\ d[i].l \in (b + 1)..p.l
             /\ \A k \in (last + 1)..(d[i].l - 1) : \E j \in 1..(i - 1) : Asks(d[j], k)
  <2>1. CASE i \in 1..Len(c) /\ d[i] = c[i]
    <3>1. c[i].l \in (b + 1)..top
      BY <1>u, <1>2, <2>1
    <3>2. ASSUME NEW k \in (last + 1)..(d[i].l - 1)
          PROVE  \E j \in 1..(i - 1) : Asks(d[j], k)
      <4>1. PICK j \in 1..(i - 1) : Asks(c[j], k)
        BY <1>u, <1>2, <2>1, <3>2
      <4>2. j \in 1..Len(c)
        BY <2>1, <1>0
      <4> QED BY <1>d, <4>1, <4>2
    <3> QED BY <2>1, <3>1, <3>2
  <2>2. CASE i = Len(c) + 1 /\ d[i] = p
    <3>1. ASSUME NEW k \in (last + 1)..(d[i].l - 1)
          PROVE  \E j \in 1..(i - 1) : Asks(d[j], k)
      <4>1. k \in (last + 1)..top
        BY <2>2, <3>1
      <4>2. PICK j \in 1..Len(c) : Asks(c[j], k)
        BY <1>u, <4>1
      <4>3. j \in 1..(i - 1)
        BY <2>2, <1>0
      <4> QED BY <1>d, <4>2, <4>3
    <3> QED BY <2>2, <3>1
  <2> QED BY <1>d, <2>1, <2>2
<1>3. ASSUME NEW i \in 1..Len(d)
      PROVE  d[i].tag # "S4_" /\ d[i].tag # "S4A"
  BY <1>d, <1>u
<1> QED BY <1>1, <1>2, <1>3 DEF RequestsIn

-----------------------------------------------------------------------------
\* The answers in a channel from n to m, of the proposals in made: one for a line.

Answers(p, l) == p.tag = "S2A" /\ p.l = l
Coming(c, l) == \E i \in 1..Len(c) : Answers(c[i], l)

AnswersIn(c, n, m, made) ==
  /\ \A i \in 1..Len(c) : c[i].tag = "S2A" => <<n, <<m, c[i].l>>, c[i].g>> \in made
  /\ \A i, j \in 1..Len(c) :
       (c[i].tag = "S2A" /\ c[j].tag = "S2A" /\ c[i].l = c[j].l) => i = j

NoAnswer(put) == \A i \in 1..Len(put) : put[i].tag # "S2A"

\* Answers leave the channel at its head only.
LEMMA AnswersTake ==
  ASSUME NEW c, NEW d, NEW off, NEW put, NEW n, NEW m, NEW made, NEW more, made \subseteq more,
         AnswersIn(c, n, m, made), Shift(c, d, off, put), NoAnswer(put)
  PROVE  /\ AnswersIn(d, n, m, more)
         /\ \A l : Coming(d, l) <=> Coming(c, l) /\ ~(off = 1 /\ Answers(c[1], l))
<1>0. Len(c) \in Nat /\ Len(d) \in Nat /\ off \in {0, 1} /\ off <= Len(c)
  BY DEF Shift
<1>s. /\ \A i \in 1..Len(d) :
           \/ (i + off \in 1..Len(c) /\ d[i] = c[i + off])
           \/ (i > Len(c) - off /\ i - (Len(c) - off) \in 1..Len(put)
               /\ d[i] = put[i - (Len(c) - off)])
      /\ \A i \in 1..Len(c) : i > off => (i - off \in 1..Len(d) /\ d[i - off] = c[i])
  BY ShiftUse DEF Moved
<1>p. \A i \in 1..Len(d) : d[i].tag = "S2A" => (i + off \in 1..Len(c) /\ d[i] = c[i + off])
  BY <1>s DEF NoAnswer
<1>u. /\ \A i \in 1..Len(c) : c[i].tag = "S2A" => <<n, <<m, c[i].l>>, c[i].g>> \in made
      /\ \A i, j \in 1..Len(c) :
           (c[i].tag = "S2A" /\ c[j].tag = "S2A" /\ c[i].l = c[j].l) => i = j
  BY DEF AnswersIn
<1>1. \A i \in 1..Len(d) : d[i].tag = "S2A" => <<n, <<m, d[i].l>>, d[i].g>> \in more
  BY <1>p, <1>u
<1>2. ASSUME NEW i \in 1..Len(d), NEW j \in 1..Len(d),
             d[i].tag = "S2A", d[j].tag = "S2A", d[i].l = d[j].l
      PROVE  i = j
  <2>1. i + off = j + off
    BY <1>p, <1>u, <1>2
  <2> QED BY <2>1, <1>0
<1>3. ASSUME NEW l, Coming(d, l)
      PROVE  Coming(c, l) /\ ~(off = 1 /\ Answers(c[1], l))
  <2>1. PICK i \in 1..Len(d) : d[i].tag = "S2A" /\ d[i].l = l
    BY <1>3 DEF Coming, Answers
  <2>2. i + off \in 1..Len(c) /\ c[i + off].tag = "S2A" /\ c[i + off].l = l
    BY <1>p, <2>1
  <2>3. ~(off = 1 /\ Answers(c[1], l))
    <3> SUFFICES ASSUME off = 1, Answers(c[1], l) PROVE FALSE
      OBVIOUS
    <3>1. 1 \in 1..Len(c)
      BY <1>0
    <3>2. i + off = 1
      BY <1>u, <2>2, <3>1 DEF Answers
    <3> QED BY <3>2
  <2> QED BY <2>2, <2>3 DEF Coming, Answers
<1>4. ASSUME NEW l, Coming(c, l), ~(off = 1 /\ Answers(c[1], l))
      PROVE  Coming(d, l)
  <2>1. PICK i \in 1..Len(c) : Answers(c[i], l)
    BY <1>4 DEF Coming
  <2>2. i > off
    BY <1>0, <1>4, <2>1
  <2> QED BY <1>s, <2>1, <2>2 DEF Coming
<1>5. AnswersIn(d, n, m, more)
  BY <1>1, <1>2 DEF AnswersIn
<1> QED BY <1>3, <1>4, <1>5

\* An answer for a line that has none in the channel is put behind the others.
LEMMA AnswersAdd ==
  ASSUME NEW c, NEW d, NEW off, NEW put, NEW p, NEW n, NEW m, NEW made, NEW more,
         made \subseteq more, AnswersIn(c, n, m, made),
         Shift(c, d, off, put), Len(put) = 1, put[1] = p,
         off = 1 => c[1].tag # "S2A", p.tag = "S2A", ~Coming(c, p.l),
         <<n, <<m, p.l>>, p.g>> \in more
  PROVE  /\ AnswersIn(d, n, m, more)
         /\ \A l : Coming(d, l) <=> (Coming(c, l) \/ l = p.l)
<1>0. /\ Len(c) \in Nat /\ Len(d) \in Nat /\ off \in {0, 1} /\ off <= Len(c)
      /\ Len(put) = 1 /\ put[1] = p
  BY DEF Shift
<1>s. /\ \A i \in 1..Len(d) :
           \/ (i + off \in 1..Len(c) /\ d[i] = c[i + off])
           \/ (i > Len(c) - off /\ i - (Len(c) - off) \in 1..Len(put)
               /\ d[i] = put[i - (Len(c) - off)])
      /\ \A i \in 1..Len(c) : i > off => (i - off \in 1..Len(d) /\ d[i - off] = c[i])
      /\ \A i \in 1..Len(put) :
           Len(c) - off + i \in 1..Len(d) /\ d[Len(c) - off + i] = put[i]
  BY ShiftUse DEF Moved
<1>d. /\ \A i \in 1..Len(d) : (i + off \in 1..Len(c) /\ d[i] = c[i + off])
                               \/ (i = Len(c) - off + 1 /\ d[i] = p)
      /\ Len(c) - off + 1 \in 1..Len(d) /\ d[Len(c) - off + 1] = p
  BY <1>0, <1>s
<1>u. /\ \A i \in 1..Len(c) : c[i].tag = "S2A" => <<n, <<m, c[i].l>>, c[i].g>> \in made
      /\ \A i, j \in 1..Len(c) :
           (c[i].tag = "S2A" /\ c[j].tag = "S2A" /\ c[i].l = c[j].l) => i = j
  BY DEF AnswersIn
<1>c. \A i \in 1..Len(c) : c[i].tag = "S2A" => c[i].l # p.l
  BY DEF Coming, Answers
<1>1. \A i \in 1..Len(d) : d[i].tag = "S2A" => <<n, <<m, d[i].l>>, d[i].g>> \in more
  BY <1>d, <1>u
<1>2. ASSUME NEW i \in 1..Len(d), NEW j \in 1..Len(d),
             d[i].tag = "S2A", d[j].tag = "S2A", d[i].l = d[j].l
      PROVE  i = j
  <2>1. CASE i + off \in 1..Len(c) /\ d[i] = c[i + off] /\ j + off \in 1..Len(c) /\ d[j] = c[j + off]
    <3>1. i + off = j + off
      BY <2>1, <1>u, <1>2
    <3> QED BY <3>1, <1>0
  <2> QED BY <2>1, <1>2, <1>d, <1>c
<1>3. ASSUME NEW l, Coming(d, l)
      PROVE  Coming(c, l) \/ l = p.l
  <2>1. PICK i \in 1..Len(d) : Answers(d[i], l)
    BY <1>3 DEF Coming
  <2> QED BY <2>1, <1>d DEF Coming, Answers
<1>4. ASSUME NEW l, Coming(c, l) \/ l = p.l
      PROVE  Coming(d, l)
  <2>1. CASE l = p.l
    BY <2>1, <1>d DEF Coming, Answers
  <2>2. CASE Coming(c, l)
    <3>1. PICK i \in 1..Len(c) : Answers(c[i], l)
      BY <2>2 DEF Coming
    <3>2. i > off
      BY <3>1, <1>0 DEF Answers
    <3> QED BY <1>s, <3>1, <3>2 DEF Coming
  <2> QED BY <1>4, <2>1, <2>2
<1>5. AnswersIn(d, n, m, more)
  BY <1>1, <1>2 DEF AnswersIn
<1> QED BY <1>3, <1>4, <1>5

-----------------------------------------------------------------------------
\* Types

ChatLine == Member \X Nat
Request == [globalSeq : Nat, ackCount : Nat, tries : Nat]
Queue == [last : Nat, msgs : {S \in SUBSET Nat : IsFiniteSet(S)}]
Kept == [l : Nat, num : Nat, tries : Nat]
Shown == Seq(Nat \X ChatLine)

ChatPacket ==
  [tag : {"S2_", "S4_", "S4A"}, l : Nat] \cup [tag : {"S2A"}, g : Nat, l : Nat]
  \cup [tag : {"C0_"}, g : Nat, line : ChatLine] \cup [tag : {"S3_", "S3N"}, g : Nat]
  \cup [tag : {"S3A"}, g : Nat, num : Nat, line : ChatLine]

RequestOK ==
  /\ localSeq \in [Member -> Nat] /\ chatMsg \in [Member -> Nat]
  /\ seqBuffer \in [Member -> Map(Nat, Request)]

ProposalOK ==
  /\ generatedGlobalSeq \in [Member -> Nat]
  /\ hold_back_queue \in [Member -> Map(Member, Queue)]
  /\ proposed \subseteq Member \X ChatLine \X Nat

SendOK ==
  /\ txBuffer \in [Member -> Map(Nat, Kept)]
  /\ sent \subseteq ChatLine \X Nat /\ \E b \in Nat : \A s \in sent : s[2] <= b
  /\ forgotten \subseteq ChatLine

DisplayOK ==
  /\ globalSeq \in [Member -> Nat]
  /\ holdBackQ \in [Member -> Map(Nat, ChatLine)]
  /\ globalSeqLost \in [Member -> Map(Nat, Nat)]
  /\ shown \in [Member -> Shown] /\ givenUp \in [Member -> SUBSET Nat]

ChanOK == chan \in [Member -> [Member -> Seq(ChatPacket)]]

RunOK ==
  /\ budget \in Budgets
  /\ used \in [lines : [Member -> Nat], losses : Nat, requests : Nat,
               retransmissions : Nat]
  /\ used.losses <= budget.losses
  /\ DOMAIN typedAfter \subseteq ChatLine /\ \A x \in DOMAIN typedAfter : typedAfter[x] \in Nat

ChatTypeOK == RequestOK /\ ProposalOK /\ SendOK /\ DisplayOK /\ ChanOK /\ RunOK

LEMMA MemberFacts ==
  /\ Member \subseteq Nat /\ 0 \notin Member /\ Founder \in Member /\ IsFiniteSet(Member)
  /\ Cardinality(Member) \in Nat \ {0} /\ Joins \in Nat
<1>1. Cardinality(Member) \in Nat /\ Cardinality(Member) # 0
  BY DecentralAssumption, FS_CardinalityType, FS_EmptySet
<1>2. Joins \in Nat
  BY <1>1 DEF Joins
<1> QED BY <1>1, <1>2, DecentralAssumption

\* The tag of a packet tells its fields.
Fields(p) ==
  /\ p.tag \in {"S2_", "S4_", "S4A"} => p.l \in Nat
  /\ p.tag = "S2A" => p.g \in Nat /\ p.l \in Nat
  /\ p.tag = "C0_" => p.g \in Nat /\ p.line \in ChatLine
  /\ p.tag \in {"S3_", "S3N"} => p.g \in Nat
  /\ p.tag = "S3A" => p.g \in Nat /\ p.num \in Nat /\ p.line \in ChatLine

LEMMA PacketUse == ASSUME NEW p \in ChatPacket PROVE Fields(p)
BY DEF ChatPacket, Fields

LEMMA PacketMade ==
  /\ \A l \in Nat : S2_(l) \in ChatPacket /\ S4_(l) \in ChatPacket /\ S4A(l) \in ChatPacket
  /\ \A g \in Nat : S3_(g) \in ChatPacket /\ S3N(g) \in ChatPacket
  /\ \A g, l \in Nat : S2A(g, l) \in ChatPacket
  /\ \A g \in Nat : \A line \in ChatLine : C0_(g, line) \in ChatPacket
  /\ \A g, num \in Nat : \A line \in ChatLine : S3A(g, num, line) \in ChatPacket
BY DEF ChatPacket, S2_, S2A, C0_, S3_, S3N, S4_, S4A, S3A

\* What an action does to every channel: off(s, r) is 1 for the one it takes a
\* packet from.
HandledFacts(m, n, out) ==
  /\ ChanOK'
  /\ \A s, r \in Member : Shift(chan[s][r], chan'[s][r], IF s = m /\ r = n THEN 1 ELSE 0,
                                IF s = n THEN out[r] ELSE <<>>)

MulticastFacts(m, p) ==
  /\ ChanOK'
  /\ \A s, r \in Member : Shift(chan[s][r], chan'[s][r], 0, IF s = m THEN <<p>> ELSE <<>>)

LEMMA HandledMoves ==
  ASSUME ChanOK, NEW m \in Member, NEW n \in Member, chan[m][n] # <<>>, NEW out,
         \A r \in Member : out[r] \in Seq(ChatPacket), Handled(m, n, out)
  PROVE  HandledFacts(m, n, out)
<1> DEFINE put(s, r) == IF s = n THEN out[r] ELSE <<>>
<1>1. \A s, r \in Member : put(s, r) \in Seq(ChatPacket) /\ chan[s][r] \in Seq(ChatPacket)
  BY DEF ChanOK
<1>2. /\ DOMAIN chan' = Member /\ \A s \in Member : DOMAIN chan'[s] = Member
      /\ chan' = [s \in Member |-> [r \in Member |-> chan'[s][r]]]
  BY DEF Handled
<1>3. \A s, r \in Member : chan'[s][r] =
        (IF s = m /\ r = n THEN Tail(chan[s][r]) ELSE chan[s][r]) \o put(s, r)
  BY DEF Handled
<1> HIDE DEF put
<1>4. ASSUME NEW s \in Member, NEW r \in Member
      PROVE  /\ chan'[s][r] \in Seq(ChatPacket)
             /\ Shift(chan[s][r], chan'[s][r], IF s = m /\ r = n THEN 1 ELSE 0, put(s, r))
  <2>1. CASE s = m /\ r = n
    <3>1. chan'[s][r] = Tail(chan[s][r]) \o put(s, r)
      BY <1>3, <2>1
    <3> QED BY <1>1, <2>1, <3>1, TailShift
  <2>2. CASE ~(s = m /\ r = n)
    <3>1. chan'[s][r] = chan[s][r] \o put(s, r)
      BY <1>3, <2>2
    <3> QED BY <1>1, <2>2, <3>1, ConcatShift
  <2> QED BY <2>1, <2>2
<1>5. ChanOK'
  BY <1>2, <1>4 DEF ChanOK
<1> QED BY <1>4, <1>5 DEF HandledFacts, put

LEMMA MulticastMoves ==
  ASSUME ChanOK, NEW m \in Member, NEW p \in ChatPacket, Multicast(m, p)
  PROVE  MulticastFacts(m, p)
<1> DEFINE put(s) == IF s = m THEN <<p>> ELSE <<>>
<1>1. \A s, r \in Member : put(s) \in Seq(ChatPacket) /\ chan[s][r] \in Seq(ChatPacket)
  BY DEF ChanOK
<1>2. \A s, r \in Member : chan'[s][r] = chan[s][r] \o put(s)
  <2> TAKE s, r \in Member
  <2>1. chan'[s][r] = IF s = m THEN Append(chan[s][r], p) ELSE chan[s][r]
    BY DEF ChanOK, Multicast
  <2>2. Append(chan[s][r], p) = chan[s][r] \o <<p>> /\ chan[s][r] = chan[s][r] \o <<>>
    BY <1>1
  <2> QED BY <2>1, <2>2
<1>3. chan' = [s \in Member |-> [r \in Member |-> chan'[s][r]]]
  BY DEF ChanOK, Multicast
<1> HIDE DEF put
<1>4. \A s, r \in Member : /\ chan'[s][r] \in Seq(ChatPacket)
                           /\ Shift(chan[s][r], chan'[s][r], 0, put(s))
  <2> TAKE s, r \in Member
  <2>1. put(s) \in Seq(ChatPacket) /\ chan[s][r] \in Seq(ChatPacket)
    BY <1>1
  <2>2. chan'[s][r] = chan[s][r] \o put(s)
    BY <1>2
  <2> QED BY <2>1, <2>2, ConcatShift
<1>5. ChanOK'
  BY <1>3, <1>4 DEF ChanOK
<1> QED BY <1>4, <1>5 DEF MulticastFacts, put

LEMMA StillMoves ==
  ASSUME ChanOK, UNCHANGED chan
  PROVE  ChanOK' /\ \A s, r \in Member : Shift(chan[s][r], chan'[s][r], 0, <<>>)
<1>1. \A s, r \in Member : chan[s][r] \in Seq(ChatPacket)
  BY DEF ChanOK
<1>2. \A s, r \in Member : Len(chan[s][r]) \in Nat
  BY <1>1
<1> QED BY <1>2 DEF ChanOK, Shift

\* The first packet of a channel.
LEMMA GotFirst ==
  ASSUME ChanOK, NEW m \in Member, NEW n \in Member, NEW tag, Got(m, n, tag)
  PROVE  /\ chan[m][n] # <<>> /\ 1 \in 1..Len(chan[m][n])
         /\ Head(chan[m][n]) = chan[m][n][1]
         /\ Head(chan[m][n]).tag = tag /\ Head(chan[m][n]) \in ChatPacket
<1>1. chan[m][n] \in Seq(ChatPacket) /\ chan[m][n] # <<>>
  BY DEF ChanOK, Got
<1> QED BY <1>1 DEF Got

-----------------------------------------------------------------------------
\* The walk along holdBackQ has a value.

Walks(w, m, q, start, last) ==
  w = [k \in 0..last |->
        IF k = 0 THEN start
        ELSE IF k >= globalSeq[m] /\ k \in DOMAIN q
        THEN Entry(q, w[k - 1], k)
        ELSE w[k - 1]]

LEMMA WalksExist ==
  ASSUME NEW m, NEW q, NEW start, NEW n \in Nat
  PROVE  \E w : Walks(w, m, q, start, n)
<1> DEFINE Next1(x, k) == IF k >= globalSeq[m] /\ k \in DOMAIN q
                          THEN Entry(q, x, k) ELSE x
           Has(i) == \E t : t = [j \in 0..i |-> IF j = 0 THEN start ELSE Next1(t[j - 1], j)]
           S == {i \in 0..n : Has(i)}
<1>1. 0 \in S
  <2> DEFINE t == [j \in 0..0 |-> start]
  <2>1. t = [j \in 0..0 |-> IF j = 0 THEN start ELSE Next1(t[j - 1], j)]
    <3> HIDE DEF Next1
    <3> QED OBVIOUS
  <2> HIDE DEF t, Next1
  <2> QED BY <2>1
<1>2. ASSUME NEW i \in 1..n, i - 1 \in S
      PROVE  i \in S
  <2> HIDE DEF Next1
  <2>1. PICK t : t = [j \in 0..(i - 1) |-> IF j = 0 THEN start ELSE Next1(t[j - 1], j)]
    BY <1>2
  <2> DEFINE u == [j \in 0..i |-> IF j = i THEN Next1(t[i - 1], i) ELSE t[j]]
  <2>2. u = [j \in 0..i |-> IF j = 0 THEN start ELSE Next1(u[j - 1], j)]
    <3> SUFFICES ASSUME NEW j \in 0..i
                 PROVE  u[j] = IF j = 0 THEN start ELSE Next1(u[j - 1], j)
      OBVIOUS
    <3>1. CASE j = 0
      BY <3>1, <2>1
    <3>2. CASE j # 0 /\ j # i
      <4>1. j \in 0..(i - 1) /\ j - 1 \in 0..i /\ j - 1 # i
        BY <3>2
      <4> QED BY <3>2, <4>1, <2>1
    <3>3. CASE j # 0 /\ j = i
      <4>1. u[j - 1] = t[i - 1] /\ u[j] = Next1(t[i - 1], i)
        BY <3>3
      <4> QED BY <3>3, <4>1
    <3> QED BY <3>1, <3>2, <3>3
  <2>3. Has(i)
    <3> HIDE DEF u
    <3> QED BY <2>2
  <2> QED BY <2>3
<1>3. Has(n)
  <2>1. n \in S
    <3> HIDE DEF S
    <3> QED BY <1>1, <1>2, Climb
  <2> QED BY <2>1
<1> QED BY <1>3, Zenon DEF Walks

LEMMA DeliverableIs ==
  ASSUME NEW m, NEW q, globalSeq[m] \in DOMAIN q, Max(DOMAIN q) \in Nat
  PROVE  \E w : /\ Walks(w, m, q, [g |-> globalSeq[m], lines |-> <<>>, ask |-> 0], Max(DOMAIN q))
                /\ Deliverable(m, q) = w[Max(DOMAIN q)]
<1> DEFINE start == [g |-> globalSeq[m], lines |-> <<>>, ask |-> 0]
           w == CHOOSE x : Walks(x, m, q, start, Max(DOMAIN q))
<1>1. Walks(w, m, q, start, Max(DOMAIN q))
  <2> HIDE DEF start
  <2>1. \E x : Walks(x, m, q, start, Max(DOMAIN q))
    BY WalksExist
  <2> QED BY <2>1, Zenon
<1>2. Deliverable(m, q) = w[Max(DOMAIN q)]
  BY Zenon DEF Deliverable, Walks
<1> HIDE DEF w
<1> QED BY <1>1, <1>2


\* What has been found to display after some entries: lines of q, the last number
\* reached, and the number to ask for.
Found(q, d) ==
  /\ d = [g |-> d.g, lines |-> d.lines, ask |-> d.ask]
  /\ d.g \in Nat /\ d.lines \in Shown /\ d.ask \in Nat

LEMMA EntryFound ==
  ASSUME NEW q \in Map(Nat, ChatLine), NEW k \in DOMAIN q, NEW d, Found(q, d), NEW e,
         e = Entry(q, d, k)
  PROVE  Found(q, e)
<1>1. k \in Nat /\ q[k] \in ChatLine /\ <<k, q[k]>> \in Nat \X ChatLine
  BY MapUse
<1>2. d = [g |-> d.g, lines |-> d.lines, ask |-> d.ask]
      /\ d.g \in Nat /\ d.lines \in Shown /\ d.ask \in Nat
  BY DEF Found
<1>3. Append(d.lines, <<k, q[k]>>) \in Shown
  <2> DEFINE E == Nat \X ChatLine
  <2>1. d.lines \in Seq(E) /\ <<k, q[k]>> \in E
    BY <1>1, <1>2 DEF Shown
  <2> HIDE DEF E
  <2>2. Append(d.lines, <<k, q[k]>>) \in Seq(E)
    BY <2>1
  <2> QED BY <2>2 DEF E, Shown
<1>4. \/ e = d
      \/ e = [d EXCEPT !.g = k, !.lines = Append(@, <<k, q[k]>>)]
      \/ e = [d EXCEPT !.ask = d.g + 1]
  <2>1. CASE d.ask # 0
    BY <2>1 DEF Entry
  <2>2. CASE d.ask = 0
    BY <2>2 DEF Entry
  <2> QED BY <2>1, <2>2
<1>5. CASE e = d
  BY <1>5
<1>6. CASE e = [d EXCEPT !.g = k, !.lines = Append(@, <<k, q[k]>>)]
  <2>1. e = [g |-> k, lines |-> Append(d.lines, <<k, q[k]>>), ask |-> d.ask]
    BY <1>2, <1>6
  <2> QED BY <1>1, <1>2, <1>3, <2>1 DEF Found
<1>7. CASE e = [d EXCEPT !.ask = d.g + 1]
  <2>1. e = [g |-> d.g, lines |-> d.lines, ask |-> d.g + 1]
    BY <1>2, <1>7
  <2> QED BY <1>2, <2>1 DEF Found
<1> QED BY <1>4, <1>5, <1>6, <1>7

LEMMA DeliverableFound ==
  ASSUME NEW n \in Member, globalSeq[n] \in Nat, NEW q \in Map(Nat, ChatLine)
  PROVE  Found(q, Deliverable(n, q))
<1> DEFINE start == [g |-> globalSeq[n], lines |-> <<>>, ask |-> 0]
<1>1. Found(q, start)
  BY DEF Found, Shown
<1>2. CASE globalSeq[n] \notin DOMAIN q
  BY <1>1, <1>2 DEF Deliverable
<1>3. CASE globalSeq[n] \in DOMAIN q
  <2>1. Max(DOMAIN q) \in Nat
    BY <1>3, MapUse, LargestOf
  <2>2. PICK w : /\ Walks(w, n, q, start, Max(DOMAIN q))
                 /\ Deliverable(n, q) = w[Max(DOMAIN q)]
    BY <1>3, <2>1, DeliverableIs
  <2> HIDE DEF start
  <2> DEFINE S == {k \in 0..Max(DOMAIN q) : Found(q, w[k])}
  <2>3. w[0] = start
    BY <2>1, <2>2 DEF Walks
  <2>4. 0 \in S
    BY <1>1, <2>1, <2>3
  <2>5. ASSUME NEW k \in 1..Max(DOMAIN q), k - 1 \in S
        PROVE  k \in S
    <3>1. k \in 0..Max(DOMAIN q) /\ k # 0 /\ k \in Nat
      BY <2>1
    <3>2. w[k] = IF k >= globalSeq[n] /\ k \in DOMAIN q THEN Entry(q, w[k - 1], k) ELSE w[k - 1]
      BY <2>2, <3>1 DEF Walks
    <3>3. Found(q, w[k - 1])
      BY <2>5
    <3>4. Found(q, w[k])
      <4>1. CASE k >= globalSeq[n] /\ k \in DOMAIN q
        BY <3>2, <3>3, <4>1, EntryFound
      <4>2. CASE ~(k >= globalSeq[n] /\ k \in DOMAIN q)
        BY <3>2, <3>3, <4>2
      <4> QED BY <4>1, <4>2
    <3> QED BY <3>1, <3>4
  <2>6. Max(DOMAIN q) \in S
    <3> HIDE DEF S
    <3> QED BY <2>1, <2>4, <2>5, Climb
  <2> QED BY <2>2, <2>6
<1> QED BY <1>2, <1>3

-----------------------------------------------------------------------------
\* Every action keeps the types.

LEMMA TypeStart == DecentralInit => ChatTypeOK
<1> SUFFICES ASSUME DecentralInit PROVE ChatTypeOK
  OBVIOUS
<1>1. \A K, V : Empty \in Map(K, V)
  BY EmptyMap
<1>2. RequestOK
  BY <1>1 DEF DecentralInit, RequestOK
<1>3. ProposalOK
  BY <1>1, MemberFacts DEF DecentralInit, ProposalOK
<1>4. SendOK
  BY <1>1 DEF DecentralInit, SendOK
<1>5. DisplayOK
  BY <1>1 DEF DecentralInit, DisplayOK, Shown
<1>6. ChanOK
  BY DEF DecentralInit, ChanOK
<1>7. RunOK
  <2>1. budget.losses \in Nat
    BY DecentralAssumption DEF DecentralInit
  <2>2. DOMAIN typedAfter = {}
    BY EmptyMap DEF DecentralInit
  <2> QED BY <2>1, <2>2 DEF DecentralInit, RunOK
<1> QED BY <1>2, <1>3, <1>4, <1>5, <1>6, <1>7 DEF ChatTypeOK

\* One more of what the budget bounds is used.
LEMMA SpendOK ==
  ASSUME RunOK, NEW what \in {"losses", "requests", "retransmissions"}, Spend(what)
  PROVE  /\ RunOK' /\ used'.lines = used.lines /\ used[what] < budget[what]
         /\ what # "losses" => used'.losses = used.losses
         /\ what = "losses" => used'.losses = used.losses + 1
<1>1. budget \in [lines : [Member -> Nat], losses : Nat, requests : Nat,
                  retransmissions : Nat]
  BY DecentralAssumption DEF RunOK
<1>2. used' = [used EXCEPT ![what] = used[what] + 1] /\ budget' = budget
      /\ typedAfter' = typedAfter /\ used[what] < budget[what]
  BY DEF Spend
<1>3. used' \in [lines : [Member -> Nat], losses : Nat, requests : Nat,
                 retransmissions : Nat]
      /\ used'.lines = used.lines
      /\ (what # "losses" => used'.losses = used.losses)
      /\ (what = "losses" => used'.losses = used.losses + 1)
  BY <1>2 DEF RunOK
<1>4. used'.losses <= budget'.losses
  BY <1>1, <1>2, <1>3 DEF RunOK
<1> QED BY <1>2, <1>3, <1>4 DEF RunOK

LEMMA SentNumbers ==
  ASSUME SendOK
  PROVE  /\ Max({0} \cup {s[2] : s \in sent}) \in Nat
         /\ \A s \in sent : s[2] <= Max({0} \cup {s2[2] : s2 \in sent})
         /\ \/ Max({0} \cup {s[2] : s \in sent}) = 0
            \/ (\E s \in sent : Max({0} \cup {s2[2] : s2 \in sent}) = s[2])
<1> DEFINE S == {0} \cup {s[2] : s \in sent}
<1>1. PICK b \in Nat : \A s \in sent : s[2] <= b
  BY DEF SendOK
<1>2. S \subseteq Nat /\ S # {} /\ \A y \in S : y <= b
  BY <1>1 DEF SendOK
<1>3. Max(S) \in S /\ \A y \in S : y <= Max(S)
  <2> HIDE DEF S
  <2> QED BY <1>2, LargestBelow
<1> QED BY <1>2, <1>3

LEMMA TypeType ==
  ASSUME ChatTypeOK, NEW m \in Member, Type(m)
  PROVE  ChatTypeOK' /\ MulticastFacts(m, S2_(localSeq[m] + 1))
         /\ used'.losses = used.losses /\ budget' = budget
<1> DEFINE l == localSeq[m] + 1
<1>0. ChatTypeOK
  OBVIOUS
<1>1. l \in Nat
  BY <1>0 DEF ChatTypeOK, RequestOK
<1>2. MulticastFacts(m, S2_(l))
  BY <1>0, <1>1, PacketMade, MulticastMoves DEF Type, ChatTypeOK, ChatLine
<1>3. RequestOK'
  <2> DEFINE v == [globalSeq |-> 0, ackCount |-> 0, tries |-> 0]
  <2>1. v \in Request
    BY DEF Request
  <2>2. seqBuffer[m] \in Map(Nat, Request)
    BY <1>0 DEF ChatTypeOK, RequestOK
  <2>3. Insert(seqBuffer[m], l, v) \in Map(Nat, Request)
    BY <1>1, <2>1, <2>2, InsertMap
  <2>4. seqBuffer' = [seqBuffer EXCEPT ![m] = Insert(seqBuffer[m], l, v)]
    BY DEF Type
  <2>5. seqBuffer' \in [Member -> Map(Nat, Request)]
    <3> HIDE DEF v, l
    <3> QED BY <1>0, <2>3, <2>4 DEF ChatTypeOK, RequestOK
  <2>6. localSeq' \in [Member -> Nat] /\ chatMsg' \in [Member -> Nat]
    BY <1>0, <1>1 DEF Type, ChatTypeOK, RequestOK
  <2> QED BY <2>5, <2>6 DEF RequestOK
<1>4. RunOK' /\ used'.losses = used.losses /\ budget' = budget
  <2>1. used' = [used EXCEPT !.lines[m] = @ + 1] /\ budget' = budget
    BY DEF Type
  <2>2. /\ used' \in [lines : [Member -> Nat], losses : Nat, requests : Nat,
                      retransmissions : Nat]
        /\ used'.losses = used.losses
    BY <1>0, <2>1 DEF ChatTypeOK, RunOK
  <2>3. DOMAIN typedAfter' \subseteq ChatLine /\ \A x \in DOMAIN typedAfter' : typedAfter'[x] \in Nat
    <3>1. PICK M \in Nat : M = Max({0} \cup {s[2] : s \in sent})
      BY <1>0, SentNumbers DEF ChatTypeOK
    <3>2. typedAfter' = typedAfter \/ typedAfter' = Insert(typedAfter, <<m, l>>, M)
      BY <3>1 DEF Type
    <3>3. <<m, l>> \in ChatLine
      BY <1>1 DEF ChatLine
    <3> HIDE DEF l
    <3>4. ASSUME typedAfter' = Insert(typedAfter, <<m, l>>, M)
          PROVE  /\ DOMAIN typedAfter' \subseteq ChatLine
                 /\ \A x \in DOMAIN typedAfter' : typedAfter'[x] \in Nat
      BY <1>0, <3>3, <3>4 DEF ChatTypeOK, RunOK, Insert
    <3> QED BY <1>0, <3>2, <3>4 DEF ChatTypeOK, RunOK
  <2> QED BY <1>0, <2>1, <2>2, <2>3 DEF ChatTypeOK, RunOK
<1>5. ProposalOK' /\ SendOK' /\ DisplayOK'
  BY <1>0 DEF Type, ChatTypeOK, ProposalOK, SendOK, DisplayOK, proposalVars, sendVars, displayVars
<1> QED BY <1>2, <1>3, <1>4, <1>5 DEF ChatTypeOK, MulticastFacts

\* What stays as it is keeps its type.
LEMMA TypeSame ==
  ASSUME ChatTypeOK
  PROVE  /\ UNCHANGED requestVars => RequestOK'
         /\ UNCHANGED proposalVars => ProposalOK'
         /\ UNCHANGED sendVars => SendOK'
         /\ UNCHANGED displayVars => DisplayOK'
         /\ UNCHANGED chan => ChanOK'
         /\ UNCHANGED runVars => RunOK'
BY DEF ChatTypeOK, RequestOK, ProposalOK, SendOK, DisplayOK, ChanOK, RunOK, requestVars,
       proposalVars, sendVars, displayVars, runVars

\* A request's entry changes its number of tries, or goes.
LEMMA RequestTried ==
  ASSUME ChatTypeOK, NEW m \in Member, NEW l \in DOMAIN seqBuffer[m],
         seqBuffer' = [seqBuffer EXCEPT ![m][l].tries = @ + 1],
         UNCHANGED <<localSeq, chatMsg>>
  PROVE  /\ RequestOK'
         /\ \A n \in Member : DOMAIN seqBuffer'[n] = DOMAIN seqBuffer[n]
         /\ \A n \in Member : \A k \in DOMAIN seqBuffer[n] :
              /\ seqBuffer'[n][k].globalSeq = seqBuffer[n][k].globalSeq
              /\ seqBuffer'[n][k].ackCount = seqBuffer[n][k].ackCount
<1> DEFINE f == [seqBuffer[m] EXCEPT ![l].tries = @ + 1]
<1>0. RequestOK
  BY DEF ChatTypeOK
<1>1. seqBuffer[m] \in [DOMAIN seqBuffer[m] -> Request] /\ DOMAIN seqBuffer[m] \subseteq Nat
      /\ IsFiniteSet(DOMAIN seqBuffer[m])
  BY <1>0, MapDef DEF RequestOK
<1>2. f \in [DOMAIN seqBuffer[m] -> Request]
      /\ \A k \in DOMAIN seqBuffer[m] : /\ f[k].globalSeq = seqBuffer[m][k].globalSeq
                                        /\ f[k].ackCount = seqBuffer[m][k].ackCount
  BY <1>1 DEF Request
<1>3. DOMAIN f = DOMAIN seqBuffer[m] /\ f \in Map(Nat, Request)
  BY <1>1, <1>2, MapDef
<1>4. seqBuffer' = [seqBuffer EXCEPT ![m] = f]
  OBVIOUS
<1> HIDE DEF f
<1>5. RequestOK'
  BY <1>0, <1>3, <1>4 DEF RequestOK
<1>6. seqBuffer'[m] = f /\ \A n \in Member \ {m} : seqBuffer'[n] = seqBuffer[n]
  BY <1>0, <1>4 DEF RequestOK
<1> QED BY <1>2, <1>3, <1>5, <1>6

LEMMA RequestsDropped ==
  ASSUME ChatTypeOK, NEW m \in Member, NEW S, S \subseteq DOMAIN seqBuffer[m],
         seqBuffer' = [seqBuffer EXCEPT ![m] = Restrict(@, S)],
         UNCHANGED <<localSeq, chatMsg>>
  PROVE  /\ RequestOK'
         /\ DOMAIN seqBuffer'[m] = S
         /\ \A n \in Member \ {m} : seqBuffer'[n] = seqBuffer[n]
         /\ \A k \in S : seqBuffer'[m][k] = seqBuffer[m][k]
<1>0. RequestOK
  BY DEF ChatTypeOK
<1>1. seqBuffer[m] \in Map(Nat, Request)
  BY <1>0 DEF RequestOK
<1>2. PICK f : f = Restrict(seqBuffer[m], S)
  OBVIOUS
<1>3. f \in Map(Nat, Request) /\ DOMAIN f = S /\ \A x \in S : f[x] = seqBuffer[m][x]
  BY <1>1, <1>2, RestrictMap
<1>4. seqBuffer' = [seqBuffer EXCEPT ![m] = f]
  BY <1>2
<1> QED BY <1>0, <1>3, <1>4 DEF RequestOK

LEMMA TypeResend ==
  ASSUME ChatTypeOK, NEW m \in Member, NEW l \in DOMAIN seqBuffer[m], Resend(m, l)
  PROVE  ChatTypeOK' /\ MulticastFacts(m, S2_(chatMsg[m]))
<1>1. chatMsg[m] \in Nat
  BY DEF ChatTypeOK, RequestOK
<1>2. MulticastFacts(m, S2_(chatMsg[m]))
  BY <1>1, PacketMade, MulticastMoves DEF Resend, ChatTypeOK
<1>3. RequestOK'
  BY RequestTried DEF Resend
<1>4. RunOK'
  BY SpendOK DEF Resend, ChatTypeOK
<1>5. ProposalOK' /\ SendOK' /\ DisplayOK'
  BY TypeSame DEF Resend
<1> QED BY <1>2, <1>3, <1>4, <1>5 DEF ChatTypeOK, MulticastFacts

LEMMA TypeGiveUp ==
  ASSUME ChatTypeOK, NEW m \in Member, NEW l \in DOMAIN seqBuffer[m], GiveUp(m, l)
  PROVE  ChatTypeOK'
<1>1. RequestOK'
  <2>1. PICK S : S = DOMAIN seqBuffer[m] \ {l}
    OBVIOUS
  <2>2. seqBuffer' = [seqBuffer EXCEPT ![m] = Restrict(@, S)]
    BY <2>1 DEF GiveUp, Erase
  <2>3. S \subseteq DOMAIN seqBuffer[m] /\ UNCHANGED <<localSeq, chatMsg>>
    BY <2>1 DEF GiveUp
  <2> QED BY <2>2, <2>3, RequestsDropped
<1>2. ProposalOK' /\ SendOK' /\ DisplayOK' /\ ChanOK' /\ RunOK'
  BY TypeSame DEF GiveUp
<1> QED BY <1>1, <1>2 DEF ChatTypeOK

LEMMA TypeRetransmit ==
  ASSUME ChatTypeOK, NEW m \in Member, NEW k \in DOMAIN txBuffer[m], Retransmit(m, k)
  PROVE  /\ ChatTypeOK' /\ used'.losses = used.losses /\ budget' = budget
         /\ MulticastFacts(m, S3A(k, txBuffer[m][k].num, <<m, txBuffer[m][k].l>>))
<1> DEFINE f == [txBuffer[m] EXCEPT ![k].tries = @ + 1]
<1>0. SendOK
  BY DEF ChatTypeOK
<1>1. txBuffer[m] \in Map(Nat, Kept)
  BY <1>0 DEF SendOK
<1>2. /\ txBuffer[m] \in [DOMAIN txBuffer[m] -> Kept] /\ DOMAIN txBuffer[m] \subseteq Nat
      /\ IsFiniteSet(DOMAIN txBuffer[m])
  BY <1>1, MapDef
<1>3. k \in Nat /\ txBuffer[m][k] \in Kept
  BY <1>2
<1>4. S3A(k, txBuffer[m][k].num, <<m, txBuffer[m][k].l>>) \in ChatPacket
  BY <1>3, PacketMade DEF Kept, ChatLine
<1>5. MulticastFacts(m, S3A(k, txBuffer[m][k].num, <<m, txBuffer[m][k].l>>))
  BY <1>4, MulticastMoves DEF Retransmit, ChatTypeOK
<1>6. SendOK'
  <2>1. f \in [DOMAIN txBuffer[m] -> Kept]
    BY <1>2 DEF Kept
  <2>2. f \in Map(Nat, Kept)
    BY <1>2, <2>1, MapDef
  <2>3. txBuffer' = [txBuffer EXCEPT ![m] = f] /\ UNCHANGED <<sent, forgotten>>
    BY DEF Retransmit
  <2> HIDE DEF f
  <2> QED BY <1>0, <2>2, <2>3 DEF SendOK
<1>7. RunOK' /\ used'.losses = used.losses /\ budget' = budget
  BY SpendOK DEF Retransmit, ChatTypeOK, Spend
<1>8. RequestOK' /\ ProposalOK' /\ DisplayOK'
  BY TypeSame DEF Retransmit
<1> QED BY <1>5, <1>6, <1>7, <1>8 DEF ChatTypeOK, MulticastFacts

LEMMA TypeTxExpire ==
  ASSUME ChatTypeOK, NEW m \in Member, NEW k \in DOMAIN txBuffer[m], TxExpire(m, k)
  PROVE  /\ ChatTypeOK'
         /\ \/ seqBuffer' = seqBuffer
            \/ \E S \in SUBSET DOMAIN seqBuffer[m] :
                 seqBuffer' = [seqBuffer EXCEPT ![m] = Restrict(@, S)]
<1> DEFINE own == {l \in DOMAIN seqBuffer[m] : seqBuffer[m][l].globalSeq = k}
<1>0. /\ own = {} => UNCHANGED <<seqBuffer, forgotten>>
      /\ own # {} =>
           /\ seqBuffer' = [seqBuffer EXCEPT ![m] = Erase(@, Min(own))]
           /\ forgotten' = forgotten \cup ({<<m, Min(own)>>} \ {s[1] : s \in sent})
  BY DEF TxExpire
<1>1. \/ seqBuffer' = seqBuffer
      \/ \E S \in SUBSET DOMAIN seqBuffer[m] :
           seqBuffer' = [seqBuffer EXCEPT ![m] = Restrict(@, S)]
  <2>1. seqBuffer' = IF own = {} THEN seqBuffer
                     ELSE [seqBuffer EXCEPT ![m] = Erase(@, Min(own))]
    BY <1>0
  <2>2. Erase(seqBuffer[m], Min(own)) = Restrict(seqBuffer[m], DOMAIN seqBuffer[m] \ {Min(own)})
    BY DEF Erase
  <2> HIDE DEF own
  <2>3. PICK x : x = Min(own)
    OBVIOUS
  <2>4. CASE own = {}
    BY <2>1, <2>4
  <2>5. CASE own # {}
    <3>1. seqBuffer' = [seqBuffer EXCEPT ![m] = Restrict(@, DOMAIN seqBuffer[m] \ {x})]
      BY <2>1, <2>2, <2>3, <2>5
    <3> QED BY <3>1
  <2> QED BY <2>4, <2>5
<1>2. RequestOK'
  <2>1. UNCHANGED <<localSeq, chatMsg>>
    BY DEF TxExpire
  <2>2. CASE seqBuffer' = seqBuffer
    BY <2>1, <2>2 DEF ChatTypeOK, RequestOK
  <2>3. ASSUME NEW S \in SUBSET DOMAIN seqBuffer[m],
               seqBuffer' = [seqBuffer EXCEPT ![m] = Restrict(@, S)]
        PROVE  RequestOK'
    BY <2>1, <2>3, RequestsDropped
  <2> QED BY <1>1, <2>2, <2>3
<1>3. SendOK'
  <2>1. txBuffer[m] \in Map(Nat, Kept)
    BY DEF ChatTypeOK, SendOK
  <2>2. PICK f : f = Erase(txBuffer[m], k) /\ f \in Map(Nat, Kept)
    BY <2>1, EraseMap
  <2>3. txBuffer' = [txBuffer EXCEPT ![m] = f] /\ sent' = sent
    BY <2>2 DEF TxExpire
  <2>4. forgotten' \subseteq ChatLine
    <3>1. forgotten \subseteq ChatLine
      BY DEF ChatTypeOK, SendOK
    <3>2. own \subseteq Nat
      <4>1. seqBuffer[m] \in Map(Nat, Request)
        BY DEF ChatTypeOK, RequestOK
      <4> QED BY <4>1, MapUse
    <3> HIDE DEF own
    <3>3. CASE own = {}
      BY <1>0, <3>1, <3>3
    <3>4. CASE own # {}
      <4>1. Min(own) \in Nat
        BY <3>2, <3>4, SmallestOf
      <4>2. PICK line \in ChatLine : line = <<m, Min(own)>>
        BY <4>1 DEF ChatLine
      <4> QED BY <1>0, <3>1, <3>4, <4>2
    <3> QED BY <3>3, <3>4
  <2> QED BY <2>2, <2>3, <2>4 DEF ChatTypeOK, SendOK
<1>4. ProposalOK' /\ DisplayOK' /\ ChanOK' /\ RunOK'
  BY TypeSame DEF TxExpire
<1> QED BY <1>1, <1>2, <1>3, <1>4 DEF ChatTypeOK

-----------------------------------------------------------------------------
\* The steps that concern no request or proposal.

Book == {"S2_", "S2A", "S4_", "S4A"}
Plain(put) == \A i \in 1..Len(put) : put[i].tag \notin Book
PlainMove(c, d) ==
  \E off, put : Shift(c, d, off, put) /\ Plain(put) /\ (off = 1 => c[1].tag \notin Book)

\* They may forget a request, but keep what is known of the others.
SameAnswers ==
  \A m \in Member :
    /\ DOMAIN seqBuffer'[m] \subseteq DOMAIN seqBuffer[m]
    /\ \A l \in DOMAIN seqBuffer'[m] :
         /\ seqBuffer'[m][l].globalSeq = seqBuffer[m][l].globalSeq
         /\ seqBuffer'[m][l].ackCount = seqBuffer[m][l].ackCount

PlainStep ==
  /\ UNCHANGED <<localSeq, chatMsg, proposalVars, sent, typedAfter, budget>>
  /\ used'.losses = used.losses
  /\ SameAnswers
  /\ \A s, r \in Member : PlainMove(chan[s][r], chan'[s][r])

LEMMA HandledPlain ==
  ASSUME ChanOK, NEW m \in Member, NEW n \in Member, NEW out, HandledFacts(m, n, out),
         Head(chan[m][n]) = chan[m][n][1], Head(chan[m][n]).tag \notin Book,
         \A r \in Member : Plain(out[r])
  PROVE  \A s, r \in Member : PlainMove(chan[s][r], chan'[s][r])
<1>1. Plain(<<>>)
  BY DEF Plain
<1>2. ASSUME NEW s \in Member, NEW r \in Member
      PROVE  PlainMove(chan[s][r], chan'[s][r])
  <2>1. PICK off, put : /\ off = IF s = m /\ r = n THEN 1 ELSE 0
                        /\ put = IF s = n THEN out[r] ELSE <<>>
    OBVIOUS
  <2>2. Shift(chan[s][r], chan'[s][r], off, put)
    BY <2>1, Zenon DEF HandledFacts
  <2>3. Plain(put)
    BY <1>1, <2>1
  <2>4. off = 1 => chan[s][r][1].tag \notin Book
    BY <2>1
  <2> QED BY <2>2, <2>3, <2>4 DEF PlainMove
<1> QED BY <1>2

LEMMA MulticastPlain ==
  ASSUME NEW m \in Member, NEW p, MulticastFacts(m, p), p.tag \notin Book
  PROVE  \A s, r \in Member : PlainMove(chan[s][r], chan'[s][r])
<1>1. Plain(<<>>) /\ Plain(<<p>>)
  BY DEF Plain
<1>2. ASSUME NEW s \in Member, NEW r \in Member
      PROVE  PlainMove(chan[s][r], chan'[s][r])
  <2>1. PICK put : put = IF s = m THEN <<p>> ELSE <<>>
    OBVIOUS
  <2>2. Shift(chan[s][r], chan'[s][r], 0, put)
    BY <2>1, Zenon DEF MulticastFacts
  <2> QED BY <1>1, <2>1, <2>2 DEF PlainMove
<1> QED BY <1>2

LEMMA StillPlain ==
  ASSUME ChanOK, UNCHANGED chan
  PROVE  \A s, r \in Member : PlainMove(chan[s][r], chan'[s][r])
<1>1. Plain(<<>>)
  BY DEF Plain
<1> QED BY <1>1, StillMoves DEF PlainMove

LEMMA SameTried ==
  ASSUME RequestOK, UNCHANGED seqBuffer
  PROVE  SameAnswers
BY DEF SameAnswers

LEMMA SameDropped ==
  ASSUME ChatTypeOK, NEW m \in Member, NEW S, S \subseteq DOMAIN seqBuffer[m],
         seqBuffer' = [seqBuffer EXCEPT ![m] = Restrict(@, S)],
         UNCHANGED <<localSeq, chatMsg>>
  PROVE  SameAnswers
<1>1. /\ DOMAIN seqBuffer'[m] = S
      /\ \A n \in Member \ {m} : seqBuffer'[n] = seqBuffer[n]
      /\ \A k \in S : seqBuffer'[m][k] = seqBuffer[m][k]
  BY RequestsDropped
<1>2. ASSUME NEW n \in Member
      PROVE  /\ DOMAIN seqBuffer'[n] \subseteq DOMAIN seqBuffer[n]
             /\ \A l \in DOMAIN seqBuffer'[n] :
                  /\ seqBuffer'[n][l].globalSeq = seqBuffer[n][l].globalSeq
                  /\ seqBuffer'[n][l].ackCount = seqBuffer[n][l].ackCount
  <2>1. CASE n = m
    BY <1>1, <2>1
  <2>2. CASE n # m
    BY <1>1, <2>2
  <2> QED BY <2>1, <2>2
<1> QED BY <1>2 DEF SameAnswers

LEMMA PlainGiveUp ==
  ASSUME ChatTypeOK, NEW m \in Member, NEW l \in DOMAIN seqBuffer[m], GiveUp(m, l)
  PROVE  PlainStep
<1>1. SameAnswers
  <2>1. PICK S : S = DOMAIN seqBuffer[m] \ {l}
    OBVIOUS
  <2>2. seqBuffer' = [seqBuffer EXCEPT ![m] = Restrict(@, S)]
    BY <2>1 DEF GiveUp, Erase
  <2>3. S \subseteq DOMAIN seqBuffer[m] /\ UNCHANGED <<localSeq, chatMsg>>
    BY <2>1 DEF GiveUp
  <2> QED BY <2>2, <2>3, SameDropped
<1>2. \A s, r \in Member : PlainMove(chan[s][r], chan'[s][r])
  BY StillPlain DEF GiveUp, ChatTypeOK
<1> QED BY <1>1, <1>2 DEF PlainStep, GiveUp, sendVars, runVars

LEMMA PlainRetransmit ==
  ASSUME ChatTypeOK, NEW m \in Member, NEW k \in DOMAIN txBuffer[m], Retransmit(m, k)
  PROVE  PlainStep
<1>1. /\ MulticastFacts(m, S3A(k, txBuffer[m][k].num, <<m, txBuffer[m][k].l>>))
      /\ used'.losses = used.losses /\ budget' = budget
  BY TypeRetransmit
<1>2. \A s, r \in Member : PlainMove(chan[s][r], chan'[s][r])
  <2>1. S3A(k, txBuffer[m][k].num, <<m, txBuffer[m][k].l>>).tag \notin Book
    BY DEF S3A, Book
  <2> QED BY <1>1, <2>1, MulticastPlain
<1>3. SameAnswers
  BY SameTried DEF Retransmit, requestVars, ChatTypeOK
<1> QED BY <1>1, <1>2, <1>3 DEF PlainStep, Retransmit, requestVars, Spend

LEMMA PlainTxExpire ==
  ASSUME ChatTypeOK, NEW m \in Member, NEW k \in DOMAIN txBuffer[m], TxExpire(m, k)
  PROVE  PlainStep
<1>1. SameAnswers
  <2>1. UNCHANGED <<localSeq, chatMsg>>
    BY DEF TxExpire
  <2>2. CASE seqBuffer' = seqBuffer
    BY <2>2, SameTried DEF ChatTypeOK
  <2>3. ASSUME NEW S \in SUBSET DOMAIN seqBuffer[m],
               seqBuffer' = [seqBuffer EXCEPT ![m] = Restrict(@, S)]
        PROVE  SameAnswers
    BY <2>1, <2>3, SameDropped
  <2> QED BY <2>2, <2>3, TypeTxExpire
<1>2. \A s, r \in Member : PlainMove(chan[s][r], chan'[s][r])
  BY StillPlain DEF TxExpire, ChatTypeOK
<1> QED BY <1>1, <1>2 DEF PlainStep, TxExpire, runVars

\* A handler that answers m only.
LEMMA AnsweredMoves ==
  ASSUME ChanOK, NEW m \in Member, NEW n \in Member, chan[m][n] # <<>>,
         NEW ps \in Seq(ChatPacket), Answered(m, n, ps)
  PROVE  HandledFacts(m, n, [r \in Member |-> IF r = m THEN ps ELSE <<>>])
<1>1. \A r \in Member : [r1 \in Member |-> IF r1 = m THEN ps ELSE <<>>][r] \in Seq(ChatPacket)
  OBVIOUS
<1> QED BY <1>1, HandledMoves DEF Answered

LEMMA AnsweredPlain ==
  ASSUME ChanOK, NEW m \in Member, NEW n \in Member, NEW tag, Got(m, n, tag), tag \notin Book,
         NEW ps \in Seq(ChatPacket), Answered(m, n, ps), Plain(ps)
  PROVE  ChanOK' /\ \A s, r \in Member : PlainMove(chan[s][r], chan'[s][r])
<1>1. /\ chan[m][n] # <<>> /\ Head(chan[m][n]) = chan[m][n][1]
      /\ Head(chan[m][n]).tag = tag
  BY GotFirst
<1>2. PICK out : out = [r \in Member |-> IF r = m THEN ps ELSE <<>>]
  OBVIOUS
<1>3. HandledFacts(m, n, out)
  BY <1>1, <1>2, AnsweredMoves
<1>4. \A r \in Member : Plain(out[r])
  BY <1>2 DEF Plain
<1>5. \A s, r \in Member : PlainMove(chan[s][r], chan'[s][r])
  BY <1>1, <1>3, <1>4, HandledPlain
<1> QED BY <1>3, <1>5 DEF HandledFacts

\* A line is placed and displayed with those that follow it.
LEMMA ChatPlain ==
  ASSUME ChatTypeOK, NEW m \in Member, NEW n \in Member, NEW tag, Got(m, n, tag), tag \notin Book,
         NEW g \in Nat, NEW line \in ChatLine, Chat(m, n, g, line)
  PROVE  ChatTypeOK' /\ PlainStep
<1> DEFINE q == Place(holdBackQ[n], g, line)
           d == IF First(n) THEN [g |-> g, lines |-> <<<<g, line>>>>, ask |-> 0]
                ELSE Deliverable(n, q)
           own == {d.lines[i][2][2] : i \in {j \in DOMAIN d.lines : d.lines[j][2][1] = n}}
<1>0. DisplayOK /\ RequestOK /\ ChanOK
  BY DEF ChatTypeOK
<1>1. q \in Map(Nat, ChatLine)
  <2>1. holdBackQ[n] \in Map(Nat, ChatLine)
    BY <1>0 DEF DisplayOK
  <2>2. q = Insert(holdBackQ[n], g, line)
    BY DEF Place
  <2> QED BY <2>1, <2>2, InsertMap
<1>2. Found(q, d)
  <2>1. CASE First(n)
    <3>1. d = [g |-> g, lines |-> <<<<g, line>>>>, ask |-> 0]
      BY <2>1
    <3>2. <<<<g, line>>>> \in Shown
      BY DEF Shown
    <3> QED BY <3>1, <3>2 DEF Found
  <2>2. CASE ~First(n)
    <3>1. d = Deliverable(n, q) /\ globalSeq[n] \in Nat
      BY <1>0, <2>2 DEF DisplayOK
    <3> HIDE DEF q, d
    <3> QED BY <1>1, <3>1, DeliverableFound
  <2> QED BY <2>1, <2>2
<1>3. /\ holdBackQ' = [holdBackQ EXCEPT ![n] = q]
      /\ globalSeq' = [globalSeq EXCEPT ![n] = d.g]
      /\ shown' = [shown EXCEPT ![n] = @ \o d.lines]
      /\ seqBuffer' = [seqBuffer EXCEPT ![n] = Restrict(@, DOMAIN @ \ own)]
      /\ globalSeqLost' = IF d.ask = 0 THEN globalSeqLost
                          ELSE [globalSeqLost EXCEPT ![n] = Insert(@, d.ask, 0)]
      /\ IF d.ask = 0 THEN Answered(m, n, <<>>)
         ELSE Handled(m, n, [r \in Member |-> <<S3_(d.ask)>>])
      /\ UNCHANGED <<localSeq, chatMsg, proposalVars, sendVars, givenUp, runVars>>
  BY DEF Chat
<1>4. PICK dd : dd = d
  OBVIOUS
<1>5. PICK gone : gone = own
  OBVIOUS
<1>6. PICK qq : qq = q
  OBVIOUS
<1> HIDE DEF q, d, own
<1>7. qq \in Map(Nat, ChatLine) /\ dd.g \in Nat /\ dd.lines \in Shown /\ dd.ask \in Nat
  BY <1>1, <1>2, <1>4, <1>6 DEF Found
<1>8. RequestOK' /\ SameAnswers
  <2>1. PICK S : S = DOMAIN seqBuffer[n] \ gone
    OBVIOUS
  <2>2. seqBuffer' = [seqBuffer EXCEPT ![n] = Restrict(@, S)]
    BY <1>3, <1>5, <2>1
  <2>3. S \subseteq DOMAIN seqBuffer[n] /\ UNCHANGED <<localSeq, chatMsg>>
    BY <1>3, <2>1
  <2> QED BY <2>2, <2>3, RequestsDropped, SameDropped
<1>9. DisplayOK'
  <2>1. holdBackQ' \in [Member -> Map(Nat, ChatLine)]
    BY <1>0, <1>3, <1>6, <1>7 DEF DisplayOK
  <2>2. globalSeq' \in [Member -> Nat]
    BY <1>0, <1>3, <1>4, <1>7 DEF DisplayOK
  <2>3. shown' \in [Member -> Shown]
    <3>1. shown[n] \in Shown
      BY <1>0 DEF DisplayOK
    <3>2. shown[n] \o dd.lines \in Shown
      BY <3>1, <1>7, ConcatShift DEF Shown
    <3>3. shown' = [shown EXCEPT ![n] = shown[n] \o dd.lines]
      BY <1>3, <1>4
    <3> QED BY <1>0, <3>2, <3>3 DEF DisplayOK
  <2>4. globalSeqLost' \in [Member -> Map(Nat, Nat)]
    <3>1. CASE dd.ask = 0
      BY <1>0, <1>3, <1>4, <3>1 DEF DisplayOK
    <3>2. CASE dd.ask # 0
      <4>1. globalSeqLost' = [globalSeqLost EXCEPT ![n] = Insert(globalSeqLost[n], dd.ask, 0)]
        BY <1>3, <1>4, <3>2
      <4>2. Insert(globalSeqLost[n], dd.ask, 0) \in Map(Nat, Nat)
        BY <1>0, <1>7, InsertMap DEF DisplayOK
      <4> QED BY <1>0, <4>1, <4>2 DEF DisplayOK
    <3> QED BY <3>1, <3>2
  <2> QED BY <1>0, <1>3, <2>1, <2>2, <2>3, <2>4 DEF DisplayOK
<1>10. ChanOK' /\ \A s, r \in Member : PlainMove(chan[s][r], chan'[s][r])
  <2>1. /\ chan[m][n] # <<>> /\ Head(chan[m][n]) = chan[m][n][1]
        /\ Head(chan[m][n]).tag = tag
    BY <1>0, GotFirst
  <2>2. CASE dd.ask = 0
    <3>1. Answered(m, n, <<>>)
      BY <1>3, <1>4, <2>2
    <3>2. <<>> \in Seq(ChatPacket) /\ Plain(<<>>)
      BY DEF Plain
    <3> QED BY <1>0, <3>1, <3>2, AnsweredPlain
  <2>3. CASE dd.ask # 0
    <3>1. PICK out : out = [r \in Member |-> <<S3_(dd.ask)>>]
      OBVIOUS
    <3>2. Handled(m, n, out)
      BY <1>3, <1>4, <2>3, <3>1
    <3>3. S3_(dd.ask) \in ChatPacket /\ S3_(dd.ask).tag \notin Book
      BY <1>7, PacketMade DEF S3_, Book
    <3>4. \A r \in Member : out[r] \in Seq(ChatPacket) /\ Plain(out[r])
      BY <3>1, <3>3 DEF Plain
    <3>5. HandledFacts(m, n, out)
      BY <1>0, <2>1, <3>2, <3>4, HandledMoves
    <3> QED BY <1>0, <2>1, <3>4, <3>5, HandledPlain DEF HandledFacts
  <2> QED BY <2>2, <2>3
<1>11. ProposalOK' /\ SendOK' /\ RunOK'
  BY <1>3, TypeSame
<1>12. UNCHANGED <<localSeq, chatMsg, proposalVars, sent, typedAfter, budget>>
       /\ used'.losses = used.losses
  BY <1>3 DEF sendVars, runVars
<1> QED BY <1>8, <1>9, <1>10, <1>11, <1>12 DEF ChatTypeOK, PlainStep

LEMMA PlainC0_ ==
  ASSUME ChatTypeOK, NEW m \in Member, NEW n \in Member, ReceiveC0_(m, n)
  PROVE  ChatTypeOK' /\ PlainStep
<1>1. Got(m, n, "C0_") /\ "C0_" \notin Book
  BY DEF ReceiveC0_, Book
<1>2. PICK p \in ChatPacket : p = Head(chan[m][n]) /\ p.tag = "C0_"
  BY <1>1, GotFirst DEF ChatTypeOK
<1>3. p.g \in Nat /\ p.line \in ChatLine
  BY <1>2, PacketUse DEF Fields
<1>4. Chat(m, n, p.g, p.line)
  BY <1>2 DEF ReceiveC0_
<1> QED BY <1>1, <1>3, <1>4, ChatPlain

LEMMA PlainS3A ==
  ASSUME ChatTypeOK, NEW m \in Member, NEW n \in Member, ReceiveS3A(m, n)
  PROVE  ChatTypeOK' /\ PlainStep
<1>1. Got(m, n, "S3A") /\ "S3A" \notin Book
  BY DEF ReceiveS3A, Book
<1>2. PICK p \in ChatPacket : p = Head(chan[m][n]) /\ p.tag = "S3A"
  BY <1>1, GotFirst DEF ChatTypeOK
<1>3. p.num \in Nat /\ p.line \in ChatLine
  BY <1>2, PacketUse DEF Fields
<1>4. \/ Chat(m, n, p.num, p.line)
      \/ /\ Answered(m, n, <<>>)
         /\ UNCHANGED <<requestVars, proposalVars, sendVars, displayVars, runVars>>
  BY <1>2 DEF ReceiveS3A
<1>5. CASE Chat(m, n, p.num, p.line)
  BY <1>1, <1>3, <1>5, ChatPlain
<1>6. CASE /\ Answered(m, n, <<>>)
           /\ UNCHANGED <<requestVars, proposalVars, sendVars, displayVars, runVars>>
  <2>1. <<>> \in Seq(ChatPacket) /\ Plain(<<>>)
    BY DEF Plain
  <2>2. ChanOK' /\ \A s, r \in Member : PlainMove(chan[s][r], chan'[s][r])
    BY <1>1, <1>6, <2>1, AnsweredPlain DEF ChatTypeOK
  <2>3. SameAnswers
    BY <1>6, SameTried DEF ChatTypeOK, requestVars
  <2>4. RequestOK' /\ ProposalOK' /\ SendOK' /\ DisplayOK' /\ RunOK'
    BY <1>6, TypeSame
  <2> QED BY <1>6, <2>2, <2>3, <2>4 DEF ChatTypeOK, PlainStep, requestVars, sendVars, runVars
<1> QED BY <1>4, <1>5, <1>6

LEMMA PlainS3_ ==
  ASSUME ChatTypeOK, NEW m \in Member, NEW n \in Member, ReceiveS3_(m, n)
  PROVE  ChatTypeOK' /\ PlainStep
<1>1. Got(m, n, "S3_") /\ "S3_" \notin Book
  BY DEF ReceiveS3_, Book
<1>2. PICK p \in ChatPacket : p = Head(chan[m][n]) /\ p.tag = "S3_"
  BY <1>1, GotFirst DEF ChatTypeOK
<1>3. PICK g \in Nat : g = p.g
  BY <1>2, PacketUse DEF Fields
<1>4. \E out : /\ Handled(m, n, out)
               /\ \A r \in Member : out[r] \in Seq(ChatPacket) /\ Plain(out[r])
  <2>1. <<>> \in Seq(ChatPacket) /\ Plain(<<>>)
    BY DEF Plain
  <2>2. ASSUME NEW a \in ChatPacket, a.tag \notin Book
        PROVE  <<a>> \in Seq(ChatPacket) /\ Plain(<<a>>)
    BY <2>2 DEF Plain
  <2>3. ASSUME NEW ps, ps \in Seq(ChatPacket), Plain(ps), Answered(m, n, ps)
        PROVE  \E out : /\ Handled(m, n, out)
                        /\ \A r \in Member : out[r] \in Seq(ChatPacket) /\ Plain(out[r])
    <3>1. PICK out : out = [r \in Member |-> IF r = m THEN ps ELSE <<>>]
      OBVIOUS
    <3>2. Handled(m, n, out)
      BY <2>3, <3>1 DEF Answered
    <3>3. \A r \in Member : out[r] \in Seq(ChatPacket) /\ Plain(out[r])
      BY <2>1, <2>3, <3>1
    <3> QED BY <3>2, <3>3
  <2>4. CASE g \in DOMAIN holdBackQ[n]
    <3>1. holdBackQ[n][g] \in ChatLine
      BY <2>4, MapUse DEF ChatTypeOK, DisplayOK
    <3>2. S3A(g, g, holdBackQ[n][g]) \in ChatPacket /\ S3A(g, g, holdBackQ[n][g]).tag \notin Book
      BY <3>1, PacketMade DEF S3A, Book
    <3>3. Answered(m, n, <<S3A(g, g, holdBackQ[n][g])>>)
      BY <1>2, <1>3, <2>4 DEF ReceiveS3_
    <3> QED BY <2>2, <2>3, <3>2, <3>3
  <2>5. CASE g \notin DOMAIN holdBackQ[n] /\ g \in DOMAIN txBuffer[n]
    <3>1. txBuffer[n][g] \in Kept
      BY <2>5, MapUse DEF ChatTypeOK, SendOK
    <3>2. PICK a : a = S3A(g, g, <<n, txBuffer[n][g].l>>)
      OBVIOUS
    <3>3. a \in ChatPacket /\ a.tag \notin Book
      <4>1. <<n, txBuffer[n][g].l>> \in ChatLine
        BY <3>1 DEF Kept, ChatLine
      <4> QED BY <3>2, <4>1, PacketMade DEF S3A, Book
    <3>4. PICK out : out = [r \in Member |-> IF r = n THEN <<a>> ELSE <<>>]
      OBVIOUS
    <3>5. Handled(m, n, out)
      BY <1>2, <1>3, <2>5, <3>2, <3>4 DEF ReceiveS3_
    <3>6. \A r \in Member : out[r] \in Seq(ChatPacket) /\ Plain(out[r])
      BY <2>1, <2>2, <3>3, <3>4
    <3> QED BY <3>5, <3>6
  <2>6. CASE g \notin DOMAIN holdBackQ[n] /\ g \notin DOMAIN txBuffer[n]
    <3>1. Answered(m, n, <<>>) \/ Answered(m, n, <<S3N(g)>>)
      BY <1>2, <1>3, <2>6 DEF ReceiveS3_
    <3>2. S3N(g) \in ChatPacket /\ S3N(g).tag \notin Book
      BY PacketMade DEF S3N, Book
    <3> QED BY <2>1, <2>2, <2>3, <3>1, <3>2
  <2> QED BY <2>4, <2>5, <2>6
<1>5. PICK out : /\ Handled(m, n, out)
                 /\ \A r \in Member : out[r] \in Seq(ChatPacket) /\ Plain(out[r])
  BY <1>4
<1>6. /\ chan[m][n] # <<>> /\ Head(chan[m][n]) = chan[m][n][1]
      /\ Head(chan[m][n]).tag \notin Book
  BY <1>1, GotFirst DEF ChatTypeOK
<1>7. HandledFacts(m, n, out)
  BY <1>5, <1>6, HandledMoves DEF ChatTypeOK
<1>8. \A s, r \in Member : PlainMove(chan[s][r], chan'[s][r])
  BY <1>5, <1>6, <1>7, HandledPlain DEF ChatTypeOK
<1>9. UNCHANGED <<requestVars, proposalVars, sendVars, displayVars, runVars>>
  BY DEF ReceiveS3_
<1>10. SameAnswers
  BY <1>9, SameTried DEF ChatTypeOK, requestVars
<1>11. RequestOK' /\ ProposalOK' /\ SendOK' /\ DisplayOK' /\ RunOK' /\ ChanOK'
  BY <1>7, <1>9, TypeSame DEF HandledFacts
<1> QED BY <1>8, <1>9, <1>10, <1>11 DEF ChatTypeOK, PlainStep, requestVars, sendVars, runVars

LEMMA PlainS3N ==
  ASSUME ChatTypeOK, NEW m \in Member, NEW n \in Member, ReceiveS3N(m, n)
  PROVE  ChatTypeOK' /\ PlainStep
<1>1. Got(m, n, "S3N") /\ "S3N" \notin Book
  BY DEF ReceiveS3N, Book
<1>2. PICK p \in ChatPacket : p = Head(chan[m][n]) /\ p.tag = "S3N"
  BY <1>1, GotFirst DEF ChatTypeOK
<1>3. PICK g \in Nat : g = p.g
  BY <1>2, PacketUse DEF Fields
<1>4. /\ Answered(m, n, <<>>)
      /\ UNCHANGED <<requestVars, proposalVars, sendVars, holdBackQ, shown, runVars>>
  BY DEF ReceiveS3N
<1>5. ChanOK' /\ \A s, r \in Member : PlainMove(chan[s][r], chan'[s][r])
  <2>1. <<>> \in Seq(ChatPacket) /\ Plain(<<>>)
    BY DEF Plain
  <2> QED BY <1>1, <1>4, <2>1, AnsweredPlain DEF ChatTypeOK
<1>6. DisplayOK'
  <2> DEFINE asked == globalSeqLost[n][g] + 1
  <2>0. globalSeqLost[n] \in Map(Nat, Nat)
    BY DEF ChatTypeOK, DisplayOK
  <2>1. CASE g \notin DOMAIN globalSeqLost[n]
    <3>1. UNCHANGED <<globalSeqLost, globalSeq, givenUp>>
      BY <1>2, <1>3, <2>1 DEF ReceiveS3N
    <3> QED BY <1>4, <3>1 DEF ChatTypeOK, DisplayOK
  <2>2. CASE g \in DOMAIN globalSeqLost[n] /\ asked < Cardinality(Member)
    <3>1. /\ globalSeqLost' = [globalSeqLost EXCEPT ![n][g] = asked]
          /\ UNCHANGED <<globalSeq, givenUp>>
      BY <1>2, <1>3, <2>2 DEF ReceiveS3N
    <3>2. /\ globalSeqLost[n] \in [DOMAIN globalSeqLost[n] -> Nat]
          /\ DOMAIN globalSeqLost[n] \subseteq Nat /\ IsFiniteSet(DOMAIN globalSeqLost[n])
      BY <2>0, MapDef
    <3>3. PICK f : f = [globalSeqLost[n] EXCEPT ![g] = asked]
      OBVIOUS
    <3>4. f \in [DOMAIN globalSeqLost[n] -> Nat] /\ DOMAIN f = DOMAIN globalSeqLost[n]
      BY <2>2, <3>2, <3>3
    <3>5. f \in Map(Nat, Nat)
      BY <3>2, <3>4, MapDef
    <3>6. globalSeqLost' = [globalSeqLost EXCEPT ![n] = f]
      BY <3>1, <3>3
    <3> QED BY <1>4, <3>1, <3>5, <3>6 DEF ChatTypeOK, DisplayOK
  <2>3. CASE g \in DOMAIN globalSeqLost[n] /\ ~(asked < Cardinality(Member))
    <3>1. /\ globalSeqLost' = [globalSeqLost EXCEPT ![n] = Erase(@, g)]
          /\ globalSeq' = [globalSeq EXCEPT ![n] = g + 1]
          /\ givenUp' = [givenUp EXCEPT ![n] = @ \cup {g}]
      BY <1>2, <1>3, <2>3 DEF ReceiveS3N
    <3>2. PICK f : f = Erase(globalSeqLost[n], g) /\ f \in Map(Nat, Nat)
      BY <2>0, EraseMap
    <3>3. globalSeqLost' = [globalSeqLost EXCEPT ![n] = f]
      BY <3>1, <3>2
    <3>4. globalSeqLost' \in [Member -> Map(Nat, Nat)]
      BY <3>2, <3>3 DEF ChatTypeOK, DisplayOK
    <3>5. globalSeq' \in [Member -> Nat] /\ givenUp' \in [Member -> SUBSET Nat]
      BY <3>1 DEF ChatTypeOK, DisplayOK
    <3> QED BY <1>4, <3>4, <3>5 DEF ChatTypeOK, DisplayOK
  <2> QED BY <2>1, <2>2, <2>3
<1>7. SameAnswers
  BY <1>4, SameTried DEF ChatTypeOK, requestVars
<1>8. RequestOK' /\ ProposalOK' /\ SendOK' /\ RunOK'
  BY <1>4, TypeSame
<1> QED BY <1>4, <1>5, <1>6, <1>7, <1>8 DEF ChatTypeOK, PlainStep, requestVars, sendVars, runVars

-----------------------------------------------------------------------------
\* The types after the other handlers.

LEMMA TypeLose ==
  ASSUME ChatTypeOK, NEW m \in Member, NEW n \in Member, Lose(m, n)
  PROVE  ChatTypeOK' /\ used'.losses # 0 /\ budget'.losses # 0
<1>1. RunOK' /\ used'.losses = used.losses + 1 /\ used.losses \in Nat
  BY SpendOK DEF Lose, ChatTypeOK, RunOK
<1>2. budget'.losses # 0
  <2>1. used'.losses <= budget'.losses /\ budget'.losses \in Nat
    BY <1>1, DecentralAssumption DEF RunOK
  <2> QED BY <1>1, <2>1
<1>3. ChanOK'
  <2>1. Tail(chan[m][n]) \in Seq(ChatPacket)
    BY DEF Lose, ChatTypeOK, ChanOK
  <2>2. PICK t \in Seq(ChatPacket) : t = Tail(chan[m][n])
    BY <2>1
  <2>3. chan' = [chan EXCEPT ![m] = [chan[m] EXCEPT ![n] = t]]
    BY <2>2 DEF Lose
  <2>4. chan[m] \in [Member -> Seq(ChatPacket)]
    BY DEF ChatTypeOK, ChanOK
  <2>5. [chan[m] EXCEPT ![n] = t] \in [Member -> Seq(ChatPacket)]
    BY <2>4
  <2> QED BY <2>3, <2>5 DEF ChatTypeOK, ChanOK
<1>4. RequestOK' /\ ProposalOK' /\ SendOK' /\ DisplayOK'
  BY TypeSame DEF Lose
<1> QED BY <1>1, <1>2, <1>3, <1>4 DEF ChatTypeOK

LEMMA TypeS4_ ==
  ASSUME ChatTypeOK, NEW m \in Member, NEW n \in Member, ReceiveS4_(m, n)
  PROVE  ChatTypeOK'
<1>1. Got(m, n, "S4_") /\ chan[m][n] # <<>>
  BY DEF ReceiveS4_, Got
<1>2. PICK p \in ChatPacket : p = Head(chan[m][n]) /\ p.tag = "S4_"
  BY <1>1, GotFirst DEF ChatTypeOK
<1>3. PICK l \in Nat : l = p.l
  BY <1>2, PacketUse DEF Fields
<1>4. PICK a \in ChatPacket : Answered(m, n, <<a>>)
  <2>1. S2_(l) \in ChatPacket /\ S4A(l) \in ChatPacket
    BY PacketMade
  <2>2. Answered(m, n, <<S2_(l)>>) \/ Answered(m, n, <<S4A(l)>>)
    BY <1>2, <1>3 DEF ReceiveS4_
  <2> QED BY <2>1, <2>2
<1>5. ChanOK'
  <2>1. <<a>> \in Seq(ChatPacket)
    OBVIOUS
  <2> QED BY <1>1, <1>4, <2>1, AnsweredMoves DEF HandledFacts, ChatTypeOK
<1> QED BY <1>5, TypeSame DEF ReceiveS4_, ChatTypeOK

LEMMA TypeS4A ==
  ASSUME ChatTypeOK, NEW m \in Member, NEW n \in Member, ReceiveS4A(m, n)
  PROVE  ChatTypeOK'
<1>1. Got(m, n, "S4A") /\ chan[m][n] # <<>>
  BY DEF ReceiveS4A, Got
<1>2. PICK p \in ChatPacket : p = Head(chan[m][n]) /\ p.tag = "S4A"
  BY <1>1, GotFirst DEF ChatTypeOK
<1>3. PICK l \in Nat : l = p.l
  BY <1>2, PacketUse DEF Fields
<1>4. Answered(m, n, <<>>)
      /\ UNCHANGED <<requestVars, generatedGlobalSeq, proposed, sendVars, displayVars, runVars>>
  BY DEF ReceiveS4A
<1>5. ChanOK'
  <2>1. <<>> \in Seq(ChatPacket)
    OBVIOUS
  <2> QED BY <1>1, <1>4, <2>1, AnsweredMoves DEF HandledFacts, ChatTypeOK
<1>6. ProposalOK'
  <2>0. ProposalOK
    BY DEF ChatTypeOK
  <2>1. CASE m \notin DOMAIN hold_back_queue[n]
    BY <1>4, <2>0, <2>1 DEF ReceiveS4A, ProposalOK
  <2>2. CASE m \in DOMAIN hold_back_queue[n]
    <3>1. PICK f : f = hold_back_queue[n]
      OBVIOUS
    <3>2. f \in [DOMAIN f -> Queue] /\ DOMAIN f \subseteq Member /\ IsFiniteSet(DOMAIN f)
      BY <2>0, <3>1, MapDef DEF ProposalOK
    <3>3. PICK h : h = [f EXCEPT ![m].last = Largest(@, l)]
      OBVIOUS
    <3>4. h \in [DOMAIN f -> Queue]
      BY <2>2, <3>1, <3>2, <3>3 DEF Queue, Largest
    <3>5. h \in Map(Member, Queue)
      BY <3>2, <3>4, MapDef
    <3>6. hold_back_queue' = [hold_back_queue EXCEPT ![n][m].last = Largest(@, l)]
      BY <1>2, <1>3, <2>2 DEF ReceiveS4A
    <3>7. hold_back_queue' = [hold_back_queue EXCEPT ![n] = h]
      BY <3>1, <3>3, <3>6
    <3> QED BY <1>4, <2>0, <3>5, <3>7 DEF ProposalOK
  <2> QED BY <2>1, <2>2
<1>7. RequestOK' /\ SendOK' /\ DisplayOK' /\ RunOK'
  BY <1>4, TypeSame
<1> QED BY <1>5, <1>6, <1>7 DEF ChatTypeOK

-----------------------------------------------------------------------------
\* What an answer does: n counts it, and with the last one sends the line.

Counted(n, l, g) ==
  /\ \A k \in Member \ {n} : seqBuffer'[k] = seqBuffer[k]
  /\ DOMAIN seqBuffer'[n] = DOMAIN seqBuffer[n]
  /\ \A k \in DOMAIN seqBuffer[n] \ {l} : seqBuffer'[n][k] = seqBuffer[n][k]
  /\ seqBuffer'[n][l].globalSeq = Largest(g, seqBuffer[n][l].globalSeq)
  /\ seqBuffer'[n][l].ackCount = seqBuffer[n][l].ackCount + 1
  /\ seqBuffer'[n][l].tries = seqBuffer[n][l].tries

\* Nothing is put into the channels.
NoAnswers == [r \in Member |-> <<>>]

AnswerTaken(m, n, l, g) ==
  /\ g \in Nat /\ l \in Nat /\ Head(chan[m][n]) = chan[m][n][1]
  /\ chan[m][n] # <<>> /\ chan[m][n][1].tag = "S2A"
  /\ chan[m][n][1].l = l /\ chan[m][n][1].g = g
  /\ UNCHANGED <<localSeq, chatMsg, proposalVars, displayVars, runVars>>
  /\ \/ /\ l \notin DOMAIN seqBuffer[n]
        /\ UNCHANGED <<seqBuffer, sendVars>>
        /\ HandledFacts(m, n, NoAnswers)
     \/ /\ l \in DOMAIN seqBuffer[n] /\ Counted(n, l, g)
        /\ seqBuffer'[n][l].ackCount < Cardinality(Member)
        /\ UNCHANGED sendVars
        /\ HandledFacts(m, n, NoAnswers)
     \/ /\ l \in DOMAIN seqBuffer[n] /\ Counted(n, l, g)
        /\ seqBuffer'[n][l].ackCount >= Cardinality(Member)
        /\ sent' = sent \cup {<<<<n, l>>, seqBuffer'[n][l].globalSeq>>}
        /\ UNCHANGED forgotten
        /\ \A r \in Member : \A k \in DOMAIN txBuffer'[r] :
             \/ k \in DOMAIN txBuffer[r] /\ txBuffer'[r][k] = txBuffer[r][k]
             \/ /\ r = n /\ txBuffer'[r][k].l = l
                /\ txBuffer'[r][k].num = seqBuffer'[n][l].globalSeq
        /\ HandledFacts(m, n, [r \in Member |-> <<C0_(seqBuffer'[n][l].globalSeq, <<n, l>>)>>])

LEMMA AnswerEffect ==
  ASSUME ChatTypeOK, NEW m \in Member, NEW n \in Member, ReceiveS2A(m, n)
  PROVE  ChatTypeOK' /\ \E l, g \in Nat : AnswerTaken(m, n, l, g)
<1>1. Got(m, n, "S2A")
  BY DEF ReceiveS2A
<1>2. PICK p \in ChatPacket : /\ p = Head(chan[m][n]) /\ p = chan[m][n][1] /\ p.tag = "S2A"
                          /\ chan[m][n] # <<>>
  BY <1>1, GotFirst DEF ChatTypeOK
<1>3. PICK l \in Nat, g \in Nat : l = p.l /\ g = p.g
  BY <1>2, PacketUse DEF Fields
<1>4. UNCHANGED <<localSeq, chatMsg, proposalVars, displayVars, runVars>>
  BY DEF ReceiveS2A
<1>5. ProposalOK' /\ DisplayOK' /\ RunOK'
  BY <1>4, TypeSame
<1>n. ASSUME Answered(m, n, <<>>)
      PROVE  HandledFacts(m, n, NoAnswers)
  <2>1. <<>> \in Seq(ChatPacket)
    OBVIOUS
  <2>2. HandledFacts(m, n, [r \in Member |-> IF r = m THEN <<>> ELSE <<>>])
    BY <1>2, <1>n, <2>1, AnsweredMoves DEF ChatTypeOK
  <2>3. [r \in Member |-> IF r = m THEN <<>> ELSE <<>>] = NoAnswers
    BY DEF NoAnswers
  <2> QED BY <2>2, <2>3
<1>6. CASE l \notin DOMAIN seqBuffer[n]
  <2>1. Answered(m, n, <<>>) /\ UNCHANGED <<seqBuffer, sendVars>>
    BY <1>2, <1>3, <1>6 DEF ReceiveS2A
  <2>2. AnswerTaken(m, n, l, g)
    BY <1>2, <1>3, <1>4, <1>6, <1>n, <2>1 DEF AnswerTaken
  <2>3. RequestOK' /\ SendOK' /\ ChanOK'
    BY <1>4, <1>n, <2>1, TypeSame DEF HandledFacts, requestVars
  <2> QED BY <1>5, <2>2, <2>3 DEF ChatTypeOK
<1>7. CASE l \in DOMAIN seqBuffer[n]
  <2>1. PICK old : old = seqBuffer[n][l]
    OBVIOUS
  <2>2. /\ seqBuffer[n] \in [DOMAIN seqBuffer[n] -> Request] /\ DOMAIN seqBuffer[n] \subseteq Nat
        /\ IsFiniteSet(DOMAIN seqBuffer[n])
    BY MapDef DEF ChatTypeOK, RequestOK
  <2>3. old \in Request
    BY <1>7, <2>1, <2>2
  <2>4. PICK new : new = [old EXCEPT !.globalSeq = Largest(g, @), !.ackCount = @ + 1]
    OBVIOUS
  <2>5. /\ new \in Request /\ new.globalSeq = Largest(g, old.globalSeq)
        /\ new.ackCount = old.ackCount + 1 /\ new.tries = old.tries
    <3>1. Largest(g, old.globalSeq) \in Nat
      BY <2>3 DEF Request, Largest
    <3>2. new = [globalSeq |-> Largest(g, old.globalSeq), ackCount |-> old.ackCount + 1,
                 tries |-> old.tries]
      <4>1. old = [globalSeq |-> old.globalSeq, ackCount |-> old.ackCount, tries |-> old.tries]
        BY <2>3 DEF Request
      <4> QED BY <2>4, <4>1
    <3> QED BY <2>3, <3>1, <3>2 DEF Request
  <2>6. seqBuffer' = [seqBuffer EXCEPT ![n][l] = new]
    BY <1>2, <1>3, <1>7, <2>1, <2>4 DEF ReceiveS2A
  <2>7. PICK f : f = [seqBuffer[n] EXCEPT ![l] = new]
    OBVIOUS
  <2>8. f \in [DOMAIN seqBuffer[n] -> Request] /\ DOMAIN f = DOMAIN seqBuffer[n]
        /\ f[l] = new /\ \A k \in DOMAIN seqBuffer[n] \ {l} : f[k] = seqBuffer[n][k]
    BY <1>7, <2>2, <2>5, <2>7
  <2>9. f \in Map(Nat, Request)
    BY <2>2, <2>8, MapDef
  <2>10. seqBuffer' = [seqBuffer EXCEPT ![n] = f]
    BY <2>6, <2>7
  <2>11. /\ seqBuffer'[n] = f /\ \A k \in Member \ {n} : seqBuffer'[k] = seqBuffer[k]
         /\ RequestOK'
    BY <1>4, <2>9, <2>10 DEF ChatTypeOK, RequestOK
  <2>12. Counted(n, l, g) /\ seqBuffer'[n][l] = new
    BY <2>1, <2>5, <2>8, <2>11 DEF Counted
  <2>13. AllAnswered(new) <=> new.ackCount >= Cardinality(Member)
    BY DEF AllAnswered
  <2>14. CASE ~AllAnswered(new)
    <3>1. Answered(m, n, <<>>) /\ UNCHANGED sendVars
      BY <1>2, <1>3, <1>7, <2>1, <2>4, <2>14 DEF ReceiveS2A
    <3>2. seqBuffer'[n][l].ackCount < Cardinality(Member)
      BY <2>3, <2>5, <2>12, <2>13, <2>14, MemberFacts DEF Request
    <3>3. AnswerTaken(m, n, l, g)
      BY <1>2, <1>3, <1>4, <1>7, <1>n, <2>12, <3>1, <3>2 DEF AnswerTaken
    <3>4. SendOK' /\ ChanOK'
      BY <1>n, <3>1, TypeSame DEF HandledFacts
    <3> QED BY <1>5, <2>11, <3>3, <3>4 DEF ChatTypeOK
  <2>15. CASE AllAnswered(new)
    <3>1. PICK gg \in Nat : gg = new.globalSeq
      BY <2>5 DEF Request
    <3>2. <<n, l>> \in ChatLine
      BY DEF ChatLine
    <3>3. PICK out : out = [r \in Member |-> <<C0_(gg, <<n, l>>)>>]
      OBVIOUS
    <3>4. PICK e : e = [l |-> l, num |-> gg, tries |-> 0]
      OBVIOUS
    <3>5. /\ Handled(m, n, out)
          /\ txBuffer' = [txBuffer EXCEPT ![n] = Insert(@, generatedGlobalSeq[n], e)]
          /\ sent' = sent \cup {<<<<n, l>>, gg>>} /\ UNCHANGED forgotten
      <4>1. /\ Handled(m, n, [r \in Member |-> <<C0_(new.globalSeq, <<n, p.l>>)>>])
            /\ txBuffer' = [txBuffer EXCEPT ![n] =
                  Insert(@, generatedGlobalSeq[n],
                         [l |-> p.l, num |-> new.globalSeq, tries |-> 0])]
            /\ sent' = sent \cup {<<<<n, p.l>>, new.globalSeq>>}
            /\ UNCHANGED forgotten
        <5> DEFINE pp == Head(chan[m][n])
                   oo == seqBuffer[n][pp.l]
                   nn == [oo EXCEPT !.globalSeq = Largest(pp.g, @), !.ackCount = @ + 1]
        <5>1. IF pp.l \notin DOMAIN seqBuffer[n]
              THEN TRUE
              ELSE IF AllAnswered(nn)
              THEN /\ Handled(m, n, [r \in Member |-> <<C0_(nn.globalSeq, <<n, pp.l>>)>>])
                   /\ txBuffer' = [txBuffer EXCEPT ![n] =
                         Insert(@, generatedGlobalSeq[n],
                                [l |-> pp.l, num |-> nn.globalSeq, tries |-> 0])]
                   /\ sent' = sent \cup {<<<<n, pp.l>>, nn.globalSeq>>}
                   /\ UNCHANGED forgotten
              ELSE TRUE
          BY Zenon DEF ReceiveS2A
        <5>2. pp = p /\ oo = old
          BY <1>2, <1>3, <2>1
        <5>3. nn = new
          BY <1>2, <1>3, <2>1, <2>4
        <5> HIDE DEF nn, oo, pp
        <5> QED BY <1>3, <1>7, <2>15, <5>1, <5>2, <5>3, Zenon
      <4> QED BY <1>3, <3>1, <3>3, <3>4, <4>1, Zenon
    <3>6. HandledFacts(m, n, out)
      <4>1. C0_(gg, <<n, l>>) \in ChatPacket
        BY <3>1, <3>2, PacketMade
      <4>2. \A r \in Member : out[r] \in Seq(ChatPacket)
        BY <3>3, <4>1
      <4> QED BY <1>2, <3>5, <4>2, HandledMoves DEF ChatTypeOK
    <3>7. e \in Kept /\ e.l = l /\ e.num = gg /\ generatedGlobalSeq[n] \in Nat /\ txBuffer[n] \in Map(Nat, Kept)
      BY <3>4 DEF Kept, ChatTypeOK, ProposalOK, SendOK
    <3>8. PICK t : t = Insert(txBuffer[n], generatedGlobalSeq[n], e) /\ t \in Map(Nat, Kept)
      BY <3>7, InsertMap
    <3>9. \A k \in DOMAIN t : \/ k \in DOMAIN txBuffer[n] /\ t[k] = txBuffer[n][k]
                              \/ t[k].l = l /\ t[k].num = gg
      BY <3>7, <3>8 DEF Insert
    <3>10. txBuffer' = [txBuffer EXCEPT ![n] = t]
      BY <3>5, <3>8
    <3>11. /\ txBuffer' \in [Member -> Map(Nat, Kept)]
           /\ txBuffer'[n] = t /\ \A r \in Member \ {n} : txBuffer'[r] = txBuffer[r]
      BY <3>8, <3>10 DEF ChatTypeOK, SendOK
    <3>12. \A r \in Member : \A k \in DOMAIN txBuffer'[r] :
             \/ k \in DOMAIN txBuffer[r] /\ txBuffer'[r][k] = txBuffer[r][k]
             \/ r = n /\ txBuffer'[r][k].l = l /\ txBuffer'[r][k].num = gg
      BY <3>9, <3>11
    <3>13. SendOK'
      <4>1. PICK b \in Nat : \A s \in sent : s[2] <= b
        BY DEF ChatTypeOK, SendOK
      <4>2. PICK c \in Nat : b <= c /\ gg <= c
        BY <4>1
      <4>3. sent \subseteq ChatLine \X Nat
        BY DEF ChatTypeOK, SendOK
      <4>4. \A s \in sent' : s[2] <= c
        BY <3>5, <4>1, <4>2, <4>3
      <4>5. sent' \subseteq ChatLine \X Nat
        BY <3>2, <3>5, <4>3
      <4>6. forgotten' \subseteq ChatLine
        BY <3>5 DEF ChatTypeOK, SendOK
      <4> QED BY <3>11, <4>4, <4>5, <4>6 DEF SendOK
    <3>14. seqBuffer'[n][l].ackCount >= Cardinality(Member) /\ seqBuffer'[n][l].globalSeq = gg
      BY <2>12, <2>13, <2>15, <3>1
    <3>15. AnswerTaken(m, n, l, g)
      BY <1>2, <1>3, <1>4, <1>7, <2>12, <3>3, <3>5, <3>6, <3>12, <3>14 DEF AnswerTaken
    <3> QED BY <1>5, <2>11, <3>6, <3>13, <3>15 DEF ChatTypeOK, HandledFacts
  <2> QED BY <2>14, <2>15
<1> QED BY <1>6, <1>7

-----------------------------------------------------------------------------
\* What a request does at its proposer.

\* The last line of m that needs no number, and the last one n has passed.
Base(m) == IF m = Founder THEN 0 ELSE 1
Passed(n, m) ==
  IF m \in DOMAIN hold_back_queue[n] THEN hold_back_queue[n][m].last ELSE Base(m)
MsgsOf(n, m) == IF m \in DOMAIN hold_back_queue[n] THEN hold_back_queue[n][m].msgs ELSE {}

LEMMA QueueFacts ==
  ASSUME ProposalOK, NEW n \in Member, NEW m \in Member
  PROVE  /\ Base(m) \in Nat /\ Passed(n, m) \in Nat
         /\ MsgsOf(n, m) \subseteq Nat /\ IsFiniteSet(MsgsOf(n, m))
<1>1. Base(m) \in Nat
  BY DEF Base
<1>2. CASE m \in DOMAIN hold_back_queue[n]
  <2>1. hold_back_queue[n][m] \in Queue
    BY <1>2, MapUse DEF ProposalOK
  <2> QED BY <1>1, <1>2, <2>1 DEF Passed, MsgsOf, Queue
<1>3. CASE m \notin DOMAIN hold_back_queue[n]
  BY <1>1, <1>3, FS_EmptySet DEF Passed, MsgsOf
<1> QED BY <1>2, <1>3

LEMMA SeqMade ==
  ASSUME NEW k \in Nat, NEW f \in [1..k -> ChatPacket]
  PROVE  f \in Seq(ChatPacket) /\ Len(f) = k
OBVIOUS

LEMMA ProposalsMade ==
  ASSUME ProposalOK, NEW n \in Member, NEW l \in Nat, NEW k \in Nat
  PROVE  /\ Proposals(n, l, k) \in Seq(ChatPacket) /\ Len(Proposals(n, l, k)) = k
         /\ \A i \in 1..k : Proposals(n, l, k)[i] = S2A(generatedGlobalSeq[n] + i, l)
<1>1. \A i \in 1..k : S2A(generatedGlobalSeq[n] + i, l) \in ChatPacket
  <2> TAKE i \in 1..k
  <2>1. generatedGlobalSeq[n] + i \in Nat
    BY DEF ProposalOK
  <2> QED BY <2>1, PacketMade
<1>2. PICK f : f = Proposals(n, l, k)
  OBVIOUS
<1>3. f \in [1..k -> ChatPacket] /\ \A i \in 1..k : f[i] = S2A(generatedGlobalSeq[n] + i, l)
  BY <1>1, <1>2 DEF Proposals
<1> QED BY <1>2, <1>3, SeqMade

LEMMA MissingMade ==
  ASSUME NEW q \in Queue
  PROVE  Missing(q) \in Seq(ChatPacket)
<1> DEFINE asked == {i \in 1..Cardinality(q.msgs) : \A j \in 1..i :
                       Cardinality({x \in q.msgs : x <= q.last + j}) < j}
<1>1. Cardinality(q.msgs) \in Nat /\ q.last \in Nat
  BY FS_CardinalityType DEF Queue
<1>2. PICK k \in Nat : k = Cardinality(asked)
  <2>1. PICK c \in Nat : c = Cardinality(q.msgs)
    BY <1>1
  <2>2. asked \subseteq 1..c
    BY <2>1
  <2>3. IsFiniteSet(1..c)
    BY FS_Interval
  <2> HIDE DEF asked
  <2> QED BY <2>2, <2>3, FS_Subset, FS_CardinalityType
<1>3. Missing(q) = [i \in 1..k |-> S4_(q.last + i)]
  BY <1>2 DEF Missing
<1>4. \A i \in 1..k : S4_(q.last + i) \in ChatPacket
  BY <1>1, PacketMade
<1>5. Missing(q) \in [1..k -> ChatPacket]
  BY <1>3, <1>4
<1> QED BY <1>5, SeqMade

LEMMA DueFacts ==
  ASSUME NEW q \in Queue
  PROVE  Due(q) \subseteq q.msgs /\ IsFiniteSet(Due(q)) /\ Cardinality(Due(q)) \in Nat
<1>1. Due(q) \subseteq q.msgs
  BY DEF Due
<1>2. IsFiniteSet(q.msgs)
  BY DEF Queue
<1> QED BY <1>1, <1>2, FS_Subset, FS_CardinalityType

\* n's queue for m becomes q; those of others stay as they are.
Queued(n, m, q) ==
  /\ DOMAIN hold_back_queue'[n] = DOMAIN hold_back_queue[n] \cup {m}
  /\ hold_back_queue'[n][m] = q
  /\ \A k \in DOMAIN hold_back_queue[n] \ {m} : hold_back_queue'[n][k] = hold_back_queue[n][k]
  /\ \A k \in Member \ {n} : hold_back_queue'[k] = hold_back_queue[k]

LEMMA QueueSet ==
  ASSUME ProposalOK, NEW n \in Member, NEW m \in Member, NEW q \in Queue,
         hold_back_queue' = [hold_back_queue EXCEPT ![n] =
                              [x \in DOMAIN @ \cup {m} |-> IF x = m THEN q ELSE @[x]]]
  PROVE  /\ hold_back_queue' \in [Member -> Map(Member, Queue)]
         /\ Queued(n, m, q)
<1>1. PICK f : f = hold_back_queue[n]
  OBVIOUS
<1>2. f \in [DOMAIN f -> Queue] /\ DOMAIN f \subseteq Member /\ IsFiniteSet(DOMAIN f)
  BY <1>1, MapDef DEF ProposalOK
<1>3. PICK h : h = [x \in DOMAIN f \cup {m} |-> IF x = m THEN q ELSE f[x]]
  OBVIOUS
<1>4. h \in [DOMAIN f \cup {m} -> Queue] /\ DOMAIN h = DOMAIN f \cup {m}
      /\ h[m] = q /\ \A k \in DOMAIN f \ {m} : h[k] = f[k]
  BY <1>2, <1>3
<1>5. IsFiniteSet(DOMAIN f \cup {m})
  BY <1>2, FS_AddElement
<1>6. h \in Map(Member, Queue)
  BY <1>2, <1>4, <1>5, MapDef
<1>7. hold_back_queue' = [hold_back_queue EXCEPT ![n] = h]
  BY <1>1, <1>3
<1>8. /\ hold_back_queue' \in [Member -> Map(Member, Queue)]
      /\ hold_back_queue'[n] = h /\ \A k \in Member \ {n} : hold_back_queue'[k] = hold_back_queue[k]
  BY <1>6, <1>7 DEF ProposalOK
<1> QED BY <1>1, <1>4, <1>8 DEF Queued

\* A request in order, or the first one of its sender.
InOrderCase(m, n, l) ==
  /\ m \notin DOMAIN hold_back_queue[n] \/ InOrder(hold_back_queue[n][m], l)
  /\ Queued(n, m, [last |-> l, msgs |-> {}])
  /\ Propose(n, <<m, l>>, 1)
  /\ Answered(m, n, Proposals(n, l, 1))

HeldCase(m, n, l, held) ==
  /\ m \in DOMAIN hold_back_queue[n] /\ ~InOrder(hold_back_queue[n][m], l)
  /\ held = [last |-> hold_back_queue[n][m].last, msgs |-> hold_back_queue[n][m].msgs \cup {l}]
  /\ held \in Queue
  /\ Queued(n, m, [last |-> held.last + Cardinality(Due(held)), msgs |-> held.msgs \ Due(held)])
  /\ Propose(n, <<m, l>>, Cardinality(Due(held)))
  /\ Answered(m, n, Missing(held) \o Proposals(n, l, Cardinality(Due(held))))

LEMMA ProposeOK ==
  ASSUME ProposalOK, NEW n \in Member, NEW line \in ChatLine, NEW k \in Nat, Propose(n, line, k),
         hold_back_queue' \in [Member -> Map(Member, Queue)]
  PROVE  ProposalOK'
<1>1. generatedGlobalSeq' \in [Member -> Nat]
  BY DEF Propose, ProposalOK
<1>2. {<<n, line, generatedGlobalSeq[n] + i>> : i \in 1..k} \subseteq Member \X ChatLine \X Nat
  BY DEF ProposalOK
<1> QED BY <1>1, <1>2 DEF Propose, ProposalOK

LEMMA RequestEffect ==
  ASSUME ChatTypeOK, NEW m \in Member, NEW n \in Member, ReceiveS2_(m, n)
  PROVE  /\ ChatTypeOK' /\ UNCHANGED <<requestVars, sendVars, displayVars, runVars>>
         /\ chan[m][n] # <<>> /\ chan[m][n][1].tag = "S2_" /\ chan[m][n][1].l \in Nat
         /\ \/ InOrderCase(m, n, chan[m][n][1].l)
            \/ \E held : HeldCase(m, n, chan[m][n][1].l, held)
<1>1. Got(m, n, "S2_")
  BY DEF ReceiveS2_
<1>2. PICK p \in ChatPacket : /\ p = Head(chan[m][n]) /\ p = chan[m][n][1] /\ p.tag = "S2_"
                          /\ chan[m][n] # <<>>
  BY <1>1, GotFirst DEF ChatTypeOK
<1>3. PICK l \in Nat : l = p.l
  BY <1>2, PacketUse DEF Fields
<1>4. UNCHANGED <<requestVars, sendVars, displayVars, runVars>>
  BY DEF ReceiveS2_
<1>5. <<m, l>> \in ChatLine
  BY DEF ChatLine
<1>6. ProposalOK /\ ChanOK
  BY DEF ChatTypeOK
<1>7. ASSUME NEW ps \in Seq(ChatPacket), Answered(m, n, ps)
      PROVE  ChanOK'
  BY <1>2, <1>6, <1>7, AnsweredMoves DEF HandledFacts
<1>8. CASE m \notin DOMAIN hold_back_queue[n] \/ InOrder(hold_back_queue[n][m], l)
  <2>1. /\ hold_back_queue' = [hold_back_queue EXCEPT ![n] =
             [x \in DOMAIN @ \cup {m} |->
                IF x = m THEN [last |-> l, msgs |-> {}] ELSE @[x]]]
        /\ Propose(n, <<m, l>>, 1)
        /\ Answered(m, n, Proposals(n, l, 1))
    BY <1>2, <1>3, <1>8 DEF ReceiveS2_
  <2>2. PICK q : q = [last |-> l, msgs |-> {}]
    OBVIOUS
  <2>3. q \in Queue
    BY <2>2, FS_EmptySet DEF Queue
  <2>4. hold_back_queue' = [hold_back_queue EXCEPT ![n] =
             [x \in DOMAIN @ \cup {m} |-> IF x = m THEN q ELSE @[x]]]
    BY <2>1, <2>2
  <2>5. hold_back_queue' \in [Member -> Map(Member, Queue)] /\ Queued(n, m, q)
    BY <1>6, <2>3, <2>4, QueueSet
  <2>6. ProposalOK'
    BY <1>5, <1>6, <2>1, <2>5, ProposeOK
  <2>7. ChanOK'
    BY <1>6, <1>7, <2>1, ProposalsMade
  <2>8. InOrderCase(m, n, l)
    BY <1>8, <2>1, <2>2, <2>5 DEF InOrderCase
  <2> QED BY <1>2, <1>3, <1>4, <2>6, <2>7, <2>8, TypeSame DEF ChatTypeOK
<1>9. CASE m \in DOMAIN hold_back_queue[n] /\ ~InOrder(hold_back_queue[n][m], l)
  <2>1. PICK q : q = hold_back_queue[n][m]
    OBVIOUS
  <2>2. q \in Queue
    BY <1>6, <1>9, <2>1, MapUse DEF ProposalOK
  <2>3. PICK held : held = [q EXCEPT !.msgs = @ \cup {l}]
    OBVIOUS
  <2>4. held = [last |-> q.last, msgs |-> q.msgs \cup {l}]
    BY <2>2, <2>3 DEF Queue
  <2>5. held \in Queue
    <3>1. IsFiniteSet(q.msgs \cup {l}) /\ q.msgs \cup {l} \subseteq Nat /\ q.last \in Nat
      BY <2>2, FS_AddElement DEF Queue
    <3> QED BY <2>4, <3>1 DEF Queue
  <2>6. PICK due : due = Due(held)
    OBVIOUS
  <2>7. due \subseteq held.msgs /\ Cardinality(due) \in Nat
    BY <2>5, <2>6, DueFacts
  <2>8. PICK k \in Nat : k = Cardinality(due)
    BY <2>7
  <2>9. PICK r : r = [last |-> held.last + k, msgs |-> held.msgs \ due]
    OBVIOUS
  <2>10. r \in Queue
    <3>1. IsFiniteSet(held.msgs \ due) /\ held.msgs \ due \subseteq Nat /\ held.last + k \in Nat
      BY <2>5, <2>8, FS_Subset DEF Queue
    <3> QED BY <2>9, <3>1 DEF Queue
  <2>11. /\ hold_back_queue' = [hold_back_queue EXCEPT ![n][m] =
                  [last |-> q.last + k, msgs |-> held.msgs \ due]]
         /\ Propose(n, <<m, l>>, k)
         /\ Answered(m, n, Missing(held) \o Proposals(n, l, k))
    <3> DEFINE ll == Head(chan[m][n]).l
               qq == hold_back_queue[n][m]
               hh == [qq EXCEPT !.msgs = @ \cup {ll}]
               dd == Due(hh)
    <3>1. IF m \notin DOMAIN hold_back_queue[n] \/ InOrder(qq, ll) THEN TRUE
          ELSE /\ hold_back_queue' = [hold_back_queue EXCEPT ![n][m] =
                  [last |-> qq.last + Cardinality(dd), msgs |-> hh.msgs \ dd]]
               /\ Propose(n, <<m, ll>>, Cardinality(dd))
               /\ Answered(m, n, Missing(hh) \o Proposals(n, ll, Cardinality(dd)))
      BY Zenon DEF ReceiveS2_
    <3>2. ll = l /\ qq = q
      BY <1>2, <1>3, <2>1
    <3>3. hh = held
      BY <1>2, <1>3, <2>1, <2>3
    <3> HIDE DEF ll, qq, hh
    <3>4. dd = due
      BY <2>6, <3>3
    <3> HIDE DEF dd
    <3> QED BY <1>9, <2>1, <2>8, <3>1, <3>2, <3>3, <3>4, Zenon
  <2>12. hold_back_queue' = [hold_back_queue EXCEPT ![n][m] = r]
    BY <2>4, <2>9, <2>11
  <2>13. hold_back_queue' = [hold_back_queue EXCEPT ![n] =
             [x \in DOMAIN @ \cup {m} |-> IF x = m THEN r ELSE @[x]]]
    <3>1. PICK f : f = hold_back_queue[n]
      OBVIOUS
    <3>2. f \in [DOMAIN f -> Queue] /\ m \in DOMAIN f
      BY <1>6, <1>9, <3>1, MapDef DEF ProposalOK
    <3>3. [f EXCEPT ![m] = r] = [x \in DOMAIN f \cup {m} |-> IF x = m THEN r ELSE f[x]]
      BY <3>2
    <3> QED BY <2>12, <3>1, <3>3
  <2>14. hold_back_queue' \in [Member -> Map(Member, Queue)] /\ Queued(n, m, r)
    BY <1>6, <2>10, <2>13, QueueSet
  <2>15. ProposalOK'
    BY <1>5, <1>6, <2>8, <2>11, <2>14, ProposeOK
  <2>16. ChanOK'
    <3>1. Missing(held) \o Proposals(n, l, k) \in Seq(ChatPacket)
      BY <1>6, <2>5, <2>8, MissingMade, ProposalsMade, ConcatShift
    <3> QED BY <1>7, <2>11, <3>1
  <2>17. HeldCase(m, n, l, held)
    BY <1>9, <2>1, <2>4, <2>5, <2>6, <2>8, <2>9, <2>11, <2>14 DEF HeldCase
  <2> QED BY <1>2, <1>3, <1>4, <2>15, <2>16, <2>17, TypeSame DEF ChatTypeOK
<1> QED BY <1>8, <1>9

-----------------------------------------------------------------------------
\* What a request does when none is missing: it is the next one or an old one.

\* n's queue for m has passed p, and holds back none that follows.
QueueAt(n, m, p) == Passed(n, m)' = p /\ \A x \in MsgsOf(n, m)' : x <= p
OtherQueues(n, m) ==
  \A k, r \in Member : ~(k = n /\ r = m) =>
    Passed(k, r)' = Passed(k, r) /\ MsgsOf(k, r)' = MsgsOf(k, r)

OldRequest(m, n) ==
  /\ QueueAt(n, m, Passed(n, m)) /\ OtherQueues(n, m)
  /\ UNCHANGED <<generatedGlobalSeq, proposed>>
  /\ HandledFacts(m, n, NoAnswers)

\* A proposal g of n for line l of m.
NextRequest(m, n, l, g) ==
  /\ QueueAt(n, m, l) /\ OtherQueues(n, m)
  /\ g = generatedGlobalSeq[n] + 1 /\ generatedGlobalSeq'[n] = g
  /\ \A k \in Member \ {n} : generatedGlobalSeq'[k] = generatedGlobalSeq[k]
  /\ proposed' = proposed \cup {<<n, <<m, l>>, g>>}
  /\ HandledFacts(m, n, [r \in Member |-> IF r = m THEN <<S2A(g, l)>> ELSE <<>>])

LEMMA QueuedMoves ==
  ASSUME NEW n \in Member, NEW m \in Member, NEW q, Queued(n, m, q), NEW p, q.last = p,
         \A x \in q.msgs : x <= p
  PROVE  QueueAt(n, m, p) /\ OtherQueues(n, m)
<1>1. QueueAt(n, m, p)
  BY DEF Queued, QueueAt, Passed, MsgsOf
<1>2. ASSUME NEW k \in Member, NEW r \in Member, ~(k = n /\ r = m)
      PROVE  Passed(k, r)' = Passed(k, r) /\ MsgsOf(k, r)' = MsgsOf(k, r)
  <2>1. CASE k # n
    BY <2>1 DEF Queued, Passed, MsgsOf
  <2>2. CASE k = n /\ r # m
    BY <2>2 DEF Queued, Passed, MsgsOf
  <2> QED BY <1>2, <2>1, <2>2
<1> QED BY <1>1, <1>2 DEF OtherQueues

LEMMA NoneMissing ==
  ASSUME NEW q \in Queue, q.msgs # {}, \A x \in q.msgs : x <= q.last + 1
  PROVE  Missing(q) = <<>>
<1> DEFINE asked == {i \in 1..Cardinality(q.msgs) : \A j \in 1..i :
                       Cardinality({x \in q.msgs : x <= q.last + j}) < j}
<1>1. PICK c \in Nat : c = Cardinality(q.msgs) /\ c # 0
  BY FS_CardinalityType, FS_EmptySet DEF Queue
<1>2. {x \in q.msgs : x <= q.last + 1} = q.msgs
  OBVIOUS
<1>3. asked = {}
  <2>1. ASSUME NEW i \in asked PROVE FALSE
    <3>1. i \in 1..c /\ \A j \in 1..i : Cardinality({x \in q.msgs : x <= q.last + j}) < j
      BY <1>1, <2>1
    <3>2. 1 \in 1..i
      BY <3>1
    <3>3. Cardinality({x \in q.msgs : x <= q.last + 1}) < 1
      BY <3>1, <3>2
    <3> QED BY <1>1, <1>2, <3>3
  <2> QED BY <2>1
<1>4. Missing(q) = [i \in 1..Cardinality(asked) |-> S4_(q.last + i)]
  BY Zenon DEF Missing
<1> HIDE DEF asked
<1>5. Cardinality(asked) = 0
  BY <1>3, FS_EmptySet
<1> QED BY <1>4, <1>5

LEMMA NothingDue ==
  ASSUME NEW q \in Queue, \A x \in q.msgs : x <= q.last
  PROVE  Due(q) = {} /\ Cardinality(Due(q)) = 0
<1>1. \A x \in q.msgs : x \in 0..q.last
  BY DEF Queue
<1>2. Due(q) = {}
  BY <1>1 DEF Due
<1> QED BY <1>2, FS_EmptySet

LEMMA NextDue ==
  ASSUME NEW q \in Queue, NEW l, l = q.last + 1, l \in q.msgs, \A x \in q.msgs : x <= l
  PROVE  Due(q) = {l} /\ Cardinality(Due(q)) = 1
<1>1. q.last \in Nat /\ q.msgs \subseteq Nat
  BY DEF Queue
<1>2. l \in Due(q)
  BY <1>1 DEF Due
<1>3. ASSUME NEW x \in Due(q) PROVE x = l
  BY <1>1, <1>3 DEF Due
<1>4. Due(q) = {l}
  BY <1>2, <1>3
<1> QED BY <1>4, FS_Singleton

LEMMA ProposedOne ==
  ASSUME ProposalOK, NEW n \in Member, NEW line, NEW l \in Nat, Propose(n, line, 1)
  PROVE  \E g \in Nat :
           /\ g = generatedGlobalSeq[n] + 1 /\ generatedGlobalSeq'[n] = g
           /\ \A k \in Member \ {n} : generatedGlobalSeq'[k] = generatedGlobalSeq[k]
           /\ proposed' = proposed \cup {<<n, line, g>>}
           /\ Proposals(n, l, 1) = <<S2A(g, l)>>
<1>1. PICK g \in Nat : g = generatedGlobalSeq[n] + 1
  BY DEF ProposalOK
<1>2. generatedGlobalSeq'[n] = g /\ \A k \in Member \ {n} : generatedGlobalSeq'[k] = generatedGlobalSeq[k]
  BY <1>1 DEF Propose, ProposalOK
<1>3. {<<n, line, generatedGlobalSeq[n] + i>> : i \in 1..1} = {<<n, line, g>>}
  BY <1>1
<1>4. proposed' = proposed \cup {<<n, line, g>>}
  BY <1>3 DEF Propose
<1>5. Proposals(n, l, 1) = <<S2A(g, l)>>
  BY <1>1 DEF Proposals
<1> QED BY <1>1, <1>2, <1>4, <1>5

LEMMA ProposedNone ==
  ASSUME ProposalOK, NEW n \in Member, NEW line, NEW l \in Nat, Propose(n, line, 0)
  PROVE  UNCHANGED <<generatedGlobalSeq, proposed>> /\ Proposals(n, l, 0) = <<>>
<1>1. generatedGlobalSeq' = generatedGlobalSeq
  BY DEF Propose, ProposalOK
<1>2. proposed' = proposed
  BY DEF Propose
<1>3. Proposals(n, l, 0) = <<>>
  BY DEF Proposals
<1> QED BY <1>1, <1>2, <1>3

\* Of the two forms a lossless request has, the one that number tells.
LEMMA RequestTaken ==
  ASSUME ChatTypeOK, NEW m \in Member, NEW n \in Member, ReceiveS2_(m, n),
         \A x \in MsgsOf(n, m) : x <= Passed(n, m),
         Base(m) < chan[m][n][1].l, chan[m][n][1].l <= Passed(n, m) + 1
  PROVE  /\ ChatTypeOK' /\ UNCHANGED <<requestVars, sendVars, displayVars, runVars>>
         /\ chan[m][n] # <<>> /\ chan[m][n][1].tag = "S2_" /\ chan[m][n][1].l \in Nat
         /\ \/ chan[m][n][1].l <= Passed(n, m) /\ OldRequest(m, n)
            \/ /\ chan[m][n][1].l = Passed(n, m) + 1
               /\ \E g \in Nat : NextRequest(m, n, chan[m][n][1].l, g)
<1>1. /\ ChatTypeOK' /\ UNCHANGED <<requestVars, sendVars, displayVars, runVars>>
      /\ chan[m][n] # <<>> /\ chan[m][n][1].tag = "S2_" /\ chan[m][n][1].l \in Nat
      /\ \/ InOrderCase(m, n, chan[m][n][1].l)
         \/ \E held : HeldCase(m, n, chan[m][n][1].l, held)
  BY RequestEffect, Zenon
<1>2. PICK l \in Nat : l = chan[m][n][1].l
  BY <1>1
<1>3. PICK p \in Nat : p = Passed(n, m)
  BY QueueFacts DEF ChatTypeOK
<1>4. Base(m) \in Nat /\ MsgsOf(n, m) \subseteq Nat /\ ProposalOK /\ ChanOK
  BY QueueFacts DEF ChatTypeOK
<1>5. Base(m) < l /\ l <= p + 1 /\ \A x \in MsgsOf(n, m) : x <= p
  BY <1>2, <1>3
<1>a. ASSUME NEW ps \in Seq(ChatPacket), Answered(m, n, ps)
      PROVE  HandledFacts(m, n, [r \in Member |-> IF r = m THEN ps ELSE <<>>])
  BY <1>1, <1>4, <1>a, AnsweredMoves
<1>n. ASSUME Answered(m, n, <<>>)
      PROVE  HandledFacts(m, n, NoAnswers)
  <2>0. <<>> \in Seq(ChatPacket)
    OBVIOUS
  <2>1. HandledFacts(m, n, [r \in Member |-> IF r = m THEN <<>> ELSE <<>>])
    BY <1>a, <1>n, <2>0
  <2>2. [r \in Member |-> IF r = m THEN <<>> ELSE <<>>] = NoAnswers
    BY DEF NoAnswers
  <2> QED BY <2>1, <2>2
<1>o. ASSUME QueueAt(n, m, l), OtherQueues(n, m), Propose(n, <<m, l>>, 1),
             Answered(m, n, Proposals(n, l, 1))
      PROVE  \E g \in Nat : NextRequest(m, n, l, g)
  <2>1. PICK g \in Nat :
           /\ g = generatedGlobalSeq[n] + 1 /\ generatedGlobalSeq'[n] = g
           /\ \A k \in Member \ {n} : generatedGlobalSeq'[k] = generatedGlobalSeq[k]
           /\ proposed' = proposed \cup {<<n, <<m, l>>, g>>}
           /\ Proposals(n, l, 1) = <<S2A(g, l)>>
    BY <1>4, <1>o, ProposedOne
  <2>2. <<S2A(g, l)>> \in Seq(ChatPacket)
    BY PacketMade
  <2>3. HandledFacts(m, n, [r \in Member |-> IF r = m THEN <<S2A(g, l)>> ELSE <<>>])
    BY <1>a, <1>o, <2>1, <2>2
  <2>4. NextRequest(m, n, l, g)
    BY <1>o, <2>1, <2>3, Zenon DEF NextRequest
  <2> QED BY <2>4
<1>6. CASE InOrderCase(m, n, l)
  <2>1. l = p + 1
    <3>1. CASE m \notin DOMAIN hold_back_queue[n]
      <4>1. p = Base(m)
        BY <1>3, <3>1 DEF Passed
      <4> QED BY <1>4, <1>5, <4>1
    <3>2. CASE m \in DOMAIN hold_back_queue[n] /\ InOrder(hold_back_queue[n][m], l)
      BY <1>3, <3>2 DEF Passed, InOrder
    <3> QED BY <1>6, <3>1, <3>2 DEF InOrderCase
  <2>2. PICK q : q = [last |-> l, msgs |-> {}]
    OBVIOUS
  <2>3. q.last = l /\ \A x \in q.msgs : x <= l
    BY <2>2
  <2>4. Queued(n, m, q)
    BY <1>6, <2>2 DEF InOrderCase
  <2>5. QueueAt(n, m, l) /\ OtherQueues(n, m)
    BY <2>3, <2>4, QueuedMoves
  <2>6. \E g \in Nat : NextRequest(m, n, l, g)
    BY <1>o, <1>6, <2>5 DEF InOrderCase
  <2> QED BY <1>1, <1>2, <1>3, <2>1, <2>6
<1>7. ASSUME NEW held, HeldCase(m, n, l, held)
      PROVE  \/ l <= p /\ OldRequest(m, n)
             \/ l = p + 1 /\ \E g \in Nat : NextRequest(m, n, l, g)
  <2>1. held \in Queue /\ held.last = p /\ held.msgs = MsgsOf(n, m) \cup {l}
    BY <1>3, <1>7 DEF HeldCase, Passed, MsgsOf
  <2>2. \A x \in held.msgs : x \in Nat /\ x <= p + 1
    BY <1>4, <1>5, <2>1
  <2>3. Missing(held) = <<>>
    BY <2>1, <2>2, NoneMissing
  <2>4. PICK due, k : due = Due(held) /\ k = Cardinality(due)
    OBVIOUS
  <2>5. PICK q : q = [last |-> p + k, msgs |-> held.msgs \ due]
    OBVIOUS
  <2>6. Queued(n, m, q) /\ Propose(n, <<m, l>>, k) /\ Answered(m, n, <<>> \o Proposals(n, l, k))
    BY <1>7, <2>1, <2>3, <2>4, <2>5 DEF HeldCase
  <2>7. CASE l <= p
    <3>1. due = {} /\ k = 0
      BY <1>5, <2>1, <2>4, <2>7, NothingDue
    <3>2. q.last = p /\ \A x \in q.msgs : x <= p
      BY <1>5, <2>1, <2>5, <2>7, <3>1
    <3>3. QueueAt(n, m, p) /\ OtherQueues(n, m)
      BY <2>6, <3>2, QueuedMoves
    <3>4. UNCHANGED <<generatedGlobalSeq, proposed>> /\ Proposals(n, l, 0) = <<>>
      BY <1>4, <2>6, <3>1, ProposedNone
    <3>5. Answered(m, n, <<>>)
      <4>1. <<>> \o <<>> = <<>>
        OBVIOUS
      <4> QED BY <2>6, <3>1, <3>4, <4>1
    <3> QED BY <1>3, <1>n, <2>7, <3>3, <3>4, <3>5 DEF OldRequest
  <2>8. CASE l = p + 1
    <3>1. due = {l} /\ k = 1
      BY <2>1, <2>2, <2>4, <2>8, NextDue
    <3>2. q.last = l /\ \A x \in q.msgs : x <= l
      BY <2>2, <2>5, <2>8, <3>1
    <3>3. QueueAt(n, m, l) /\ OtherQueues(n, m)
      BY <2>6, <3>2, QueuedMoves
    <3>4. Answered(m, n, Proposals(n, l, 1))
      <4>1. Proposals(n, l, 1) \in Seq(ChatPacket)
        BY <1>4, ProposalsMade
      <4>2. <<>> \o Proposals(n, l, 1) = Proposals(n, l, 1)
        BY <4>1
      <4> QED BY <2>6, <3>1, <4>2
    <3>5. \E g \in Nat : NextRequest(m, n, l, g)
      BY <1>o, <2>6, <3>1, <3>3, <3>4
    <3> QED BY <2>8, <3>5
  <2> QED BY <1>5, <2>7, <2>8
<1> QED BY <1>1, <1>2, <1>3, <1>6, <1>7
-----------------------------------------------------------------------------
\* The invariant behind the order and the agreement of the numbers, as long as
\* no packet is lost.

\* m's lines, and the copies of its requests for them.
RequestsOf(m) ==
  /\ Base(m) <= localSeq[m]
  /\ localSeq[m] > Base(m) => chatMsg[m] = localSeq[m]
  /\ \A l \in DOMAIN seqBuffer[m] : Base(m) < l /\ l <= localSeq[m]

\* n gets m's requests in order, without a gap.
RequestsComing(m, n) ==
  /\ Base(m) <= Passed(n, m) /\ Passed(n, m) <= localSeq[m]
  /\ \A x \in MsgsOf(n, m) : x <= Passed(n, m)
  /\ RequestsIn(chan[m][n], Base(m), Passed(n, m), localSeq[m])

RequestsInv ==
  /\ \A m \in Member : RequestsOf(m)
  /\ \A m, n \in Member : RequestsComing(m, n)

Proposed(n, m, l, g) == <<n, <<m, l>>, g>> \in proposed
Made(n, m, l) == \E g \in Nat : Proposed(n, m, l, g)

\* n has proposed one number for each line of m it has passed, a larger one for a
\* later line.
ProposalsGrow(n, m) ==
  /\ \A l, g \in Nat : Proposed(n, m, l, g) =>
       /\ Base(m) < l /\ l <= Passed(n, m)
       /\ 0 < g /\ g <= generatedGlobalSeq[n]
  /\ \A l \in (Base(m) + 1)..Passed(n, m) : Made(n, m, l)
  /\ \A k, l, g, h \in Nat : Proposed(n, m, k, g) /\ Proposed(n, m, l, h) =>
       (k < l => g < h) /\ (k = l => g = h)

ProposalsInv ==
  \A n, m \in Member : ProposalsGrow(n, m) /\ AnswersIn(chan[n][m], n, m, proposed)

\* The members whose proposal for a line has arrived at its sender.
Heard(m, l) == {n \in Member : Made(n, m, l) /\ ~Coming(chan[n][m], l)}

Collected(m, l) ==
  /\ seqBuffer[m][l].ackCount = Cardinality(Heard(m, l))
  /\ \A n \in Heard(m, l) : \A g \in Nat :
       Proposed(n, m, l, g) => g <= seqBuffer[m][l].globalSeq
  /\ \/ seqBuffer[m][l].globalSeq = 0
     \/ \E n \in Member : Proposed(n, m, l, seqBuffer[m][l].globalSeq)

CollectedInv == \A m \in Member : \A l \in DOMAIN seqBuffer[m] : Collected(m, l)

SentByAll(m, l, g) ==
  /\ \A n \in Member : Made(n, m, l)
  /\ \A n \in Member : \A h \in Nat : Proposed(n, m, l, h) => h <= g
  /\ \E n \in Member : Proposed(n, m, l, g)

SentInv == \A m \in Member : \A l, g \in Nat : <<<<m, l>>, g>> \in sent => SentByAll(m, l, g)

\* Some member's proposal for the line is above all that was sent when it was
\* typed, or will be.
TypedLater(m, l) ==
  /\ <<m, l>> \in DOMAIN typedAfter
  /\ \E n \in Member :
       \/ Passed(n, m) < l /\ typedAfter[<<m, l>>] <= generatedGlobalSeq[n]
       \/ \E g \in Nat : Proposed(n, m, l, g) /\ typedAfter[<<m, l>>] < g

LaterInv ==
  /\ \A m \in Member : \A l \in Nat : <<m, l>> \in DOMAIN typedAfter => l <= localSeq[m]
  /\ budget.losses = 0 =>
       \A m \in Member : \A l \in (Base(m) + 1)..localSeq[m] : TypedLater(m, l)

NumbersOK == RequestsInv /\ ProposalsInv /\ CollectedInv /\ SentInv /\ LaterInv
NumbersInv == used.losses = 0 => NumbersOK

\* Channels that get no request, or no answer.
Requestless(c, d) ==
  \E off, put : Shift(c, d, off, put) /\ NoRequest(put) /\ (off = 1 => c[1].tag # "S2_")
Answerless(c, d) ==
  \E off, put : Shift(c, d, off, put) /\ NoAnswer(put) /\ (off = 1 => c[1].tag # "S2A")

LEMMA RequestlessKeeps ==
  ASSUME NEW b \in Nat, NEW last \in Nat, NEW top \in Nat, NEW c, NEW d,
         RequestsIn(c, b, last, top), Requestless(c, d)
  PROVE  RequestsIn(d, b, last, top)
<1>1. PICK off, put : Shift(c, d, off, put) /\ NoRequest(put) /\ (off = 1 => c[1].tag # "S2_")
  BY DEF Requestless
<1>2. \A l \in (last + 1)..last : off = 1 /\ Asks(c[1], l)
  OBVIOUS
<1>3. off = 1 /\ c[1].tag = "S2_" => c[1].l <= last
  BY <1>1
<1>4. last <= last
  OBVIOUS
<1> QED BY <1>1, <1>2, <1>3, <1>4, RequestsTake

LEMMA AnswerlessKeeps ==
  ASSUME NEW c, NEW d, NEW n, NEW m, NEW made, NEW more, made \subseteq more,
         AnswersIn(c, n, m, made), Answerless(c, d)
  PROVE  AnswersIn(d, n, m, more) /\ \A l : Coming(d, l) <=> Coming(c, l)
<1>1. PICK off, put : Shift(c, d, off, put) /\ NoAnswer(put) /\ (off = 1 => c[1].tag # "S2A")
  BY DEF Answerless
<1>2. /\ AnswersIn(d, n, m, more)
      /\ \A l : Coming(d, l) <=> Coming(c, l) /\ ~(off = 1 /\ Answers(c[1], l))
  BY <1>1, AnswersTake
<1>3. \A l : ~(off = 1 /\ Answers(c[1], l))
  BY <1>1 DEF Answers
<1> QED BY <1>2, <1>3

LEMMA PlainLess ==
  ASSUME NEW c, NEW d, PlainMove(c, d)
  PROVE  Requestless(c, d) /\ Answerless(c, d)
<1>1. PICK off, put : Shift(c, d, off, put) /\ Plain(put) /\ (off = 1 => c[1].tag \notin Book)
  BY DEF PlainMove
<1>2. NoRequest(put) /\ NoAnswer(put)
  BY <1>1 DEF Plain, NoRequest, NoAnswer, Book
<1>3. off = 1 => c[1].tag # "S2_" /\ c[1].tag # "S2A"
  BY <1>1 DEF Book
<1> QED BY <1>1, <1>2, <1>3 DEF Requestless, Answerless

\* What follows when the proposals and the answers under way stay the same.
LEMMA AnswersStay ==
  ASSUME ProposalsInv, UNCHANGED proposed,
         \A n, m \in Member : Answerless(chan[n][m], chan'[n][m])
  PROVE  /\ \A n, m \in Member : AnswersIn(chan'[n][m], n, m, proposed')
         /\ \A m \in Member : \A l : Heard(m, l)' = Heard(m, l)
<1>1. ASSUME NEW n \in Member, NEW m \in Member
      PROVE  /\ AnswersIn(chan'[n][m], n, m, proposed')
             /\ \A l : Coming(chan'[n][m], l) <=> Coming(chan[n][m], l)
  BY <1>1, AnswerlessKeeps DEF ProposalsInv
<1>2. \A n, m, l : Made(n, m, l)' <=> Made(n, m, l)
  BY DEF Made, Proposed
<1>3. \A m \in Member : \A l : Heard(m, l)' = Heard(m, l)
  BY <1>1, <1>2 DEF Heard
<1> QED BY <1>1, <1>3

LEMMA CollectedStays ==
  ASSUME CollectedInv, UNCHANGED proposed, SameAnswers,
         \A m \in Member : \A l : Heard(m, l)' = Heard(m, l)
  PROVE  CollectedInv'
<1>1. ASSUME NEW m \in Member, NEW l \in DOMAIN seqBuffer'[m]
      PROVE  Collected(m, l)'
  <2>1. /\ l \in DOMAIN seqBuffer[m]
        /\ seqBuffer'[m][l].globalSeq = seqBuffer[m][l].globalSeq
        /\ seqBuffer'[m][l].ackCount = seqBuffer[m][l].ackCount
    BY <1>1 DEF SameAnswers
  <2>2. Collected(m, l)
    BY <2>1 DEF CollectedInv
  <2>3. Heard(m, l)' = Heard(m, l)
    OBVIOUS
  <2>4. \A n, g : Proposed(n, m, l, g)' <=> Proposed(n, m, l, g)
    BY DEF Proposed
  <2> QED BY <2>1, <2>2, <2>3, <2>4 DEF Collected
<1> QED BY <1>1 DEF CollectedInv

LEMMA NumbersPlain ==
  ASSUME ChatTypeOK, ChatTypeOK', NumbersOK, PlainStep
  PROVE  NumbersOK'
<1>1. /\ UNCHANGED <<localSeq, chatMsg, generatedGlobalSeq, hold_back_queue, proposed, sent,
                     typedAfter, budget>>
      /\ SameAnswers
      /\ \A s, r \in Member : Requestless(chan[s][r], chan'[s][r])
                              /\ Answerless(chan[s][r], chan'[s][r])
  BY PlainLess DEF PlainStep, proposalVars
<1>2. RequestsInv'
  <2>1. ASSUME NEW m \in Member PROVE RequestsOf(m)'
    BY <1>1 DEF NumbersOK, RequestsInv, RequestsOf, SameAnswers, Base
  <2>2. ASSUME NEW m \in Member, NEW n \in Member PROVE RequestsComing(m, n)'
    <3>1. RequestsComing(m, n)
      BY DEF NumbersOK, RequestsInv
    <3>2. Base(m) \in Nat /\ Passed(n, m) \in Nat /\ localSeq[m] \in Nat
      BY QueueFacts DEF ChatTypeOK, RequestOK
    <3>3. RequestsIn(chan'[m][n], Base(m), Passed(n, m), localSeq[m])
      BY <1>1, <3>1, <3>2, RequestlessKeeps DEF RequestsComing
    <3>4. Passed(n, m)' = Passed(n, m) /\ MsgsOf(n, m)' = MsgsOf(n, m) /\ localSeq' = localSeq
      BY <1>1 DEF Passed, MsgsOf
    <3> QED BY <3>1, <3>3, <3>4, Zenon DEF RequestsComing
  <2> QED BY <2>1, <2>2 DEF RequestsInv
<1>3. /\ \A n, m \in Member : AnswersIn(chan'[n][m], n, m, proposed')
      /\ \A m \in Member : \A l : Heard(m, l)' = Heard(m, l)
  BY <1>1, AnswersStay DEF NumbersOK
<1>4. ProposalsInv'
  <2>1. ASSUME NEW n \in Member, NEW m \in Member PROVE ProposalsGrow(n, m)'
    <3>1. ProposalsGrow(n, m)
      BY DEF NumbersOK, ProposalsInv
    <3> QED BY <1>1, <3>1 DEF ProposalsGrow, Proposed, Made, Passed
  <2> QED BY <1>3, <2>1 DEF ProposalsInv
<1>5. CollectedInv'
  BY <1>1, <1>3, CollectedStays DEF NumbersOK
<1>6. SentInv'
  BY <1>1 DEF NumbersOK, SentInv, SentByAll, Made, Proposed
<1>7. LaterInv'
  BY <1>1 DEF NumbersOK, LaterInv, TypedLater, Made, Proposed, Passed
<1> QED BY <1>2, <1>4, <1>5, <1>6, <1>7 DEF NumbersOK
LEMMA SentStays ==
  ASSUME SentInv, UNCHANGED <<sent, proposed>>
  PROVE  SentInv'
<1>1. \A n, m, l, g : Proposed(n, m, l, g)' <=> Proposed(n, m, l, g)
  BY DEF Proposed
<1>2. \A n, m, l : Made(n, m, l)' <=> Made(n, m, l)
  BY <1>1 DEF Made
<1>3. \A m, l, g : SentByAll(m, l, g)' <=> SentByAll(m, l, g)
  BY <1>1, <1>2 DEF SentByAll
<1> QED BY <1>3 DEF SentInv

\* m's request for its next or its last line joins every channel of m.
LEMMA RequestJoins ==
  ASSUME ChatTypeOK, ChatTypeOK', RequestsInv, NEW m \in Member, NEW l \in Nat, Base(m) < l,
         l \in {localSeq[m], localSeq[m] + 1}, MulticastFacts(m, S2_(l)),
         UNCHANGED hold_back_queue, localSeq'[m] = l,
         \A k \in Member \ {m} : localSeq'[k] = localSeq[k]
  PROVE  \A k, n \in Member : RequestsComing(k, n)'
<1>1. PICK p : p = S2_(l)
  OBVIOUS
<1>2. p.tag = "S2_" /\ p.l = l
  BY <1>1 DEF S2_
<1>3. ASSUME NEW k \in Member, NEW n \in Member PROVE RequestsComing(k, n)'
  <2>1. RequestsComing(k, n)
    BY DEF RequestsInv
  <2>2. PICK b \in Nat, last \in Nat, top \in Nat :
          b = Base(k) /\ last = Passed(n, k) /\ top = localSeq[k]
    BY QueueFacts DEF ChatTypeOK, RequestOK
  <2>3. PICK c, d, put : /\ c = chan[k][n] /\ d = chan'[k][n]
                         /\ put = IF k = m THEN <<p>> ELSE <<>>
    OBVIOUS
  <2>4. Shift(c, d, 0, put)
    BY <1>1, <2>3, Zenon DEF MulticastFacts
  <2>5. RequestsIn(c, b, last, top) /\ b <= last /\ last <= top
    BY <2>1, <2>2, <2>3 DEF RequestsComing
  <2>6. /\ Passed(n, k)' = last /\ MsgsOf(n, k)' = MsgsOf(n, k)
        /\ \A x \in MsgsOf(n, k) : x <= last
    BY <2>1, <2>2 DEF Passed, MsgsOf, RequestsComing
  <2>7. CASE k = m
    <3>1. put = <<p>> /\ Len(put) = 1 /\ put[1] = p
      BY <2>3, <2>7
    <3>2. p.l \in {top, top + 1} /\ b < p.l
      BY <1>2, <2>2, <2>7
    <3>3. RequestsIn(d, b, last, p.l)
      <4>1. PICK off : off = 0
        OBVIOUS
      <4>2. Shift(c, d, off, put)
        BY <2>4, <4>1
      <4> QED BY <1>2, <2>5, <3>1, <3>2, <4>1, <4>2, RequestsAdd
    <3>4. localSeq'[k] = p.l /\ last <= p.l
      BY <1>2, <2>2, <2>5, <2>7
    <3> QED BY <2>2, <2>3, <2>5, <2>6, <3>3, <3>4 DEF RequestsComing
  <2>8. CASE k # m
    <3>1. Requestless(c, d)
      <4>1. NoRequest(put)
        BY <2>3, <2>8 DEF NoRequest
      <4> QED BY <2>4, <4>1 DEF Requestless
    <3>2. RequestsIn(d, b, last, top)
      BY <2>5, <3>1, RequestlessKeeps
    <3>3. localSeq'[k] = top
      BY <2>2, <2>8
    <3> QED BY <2>2, <2>3, <2>5, <2>6, <3>2, <3>3 DEF RequestsComing
  <2> QED BY <2>7, <2>8
<1> QED BY <1>3

LEMMA RequestAnswerless ==
  ASSUME NEW m \in Member, NEW l, MulticastFacts(m, S2_(l))
  PROVE  \A n, k \in Member : Answerless(chan[n][k], chan'[n][k])
<1>1. NoAnswer(<<>>) /\ NoAnswer(<<S2_(l)>>)
  BY DEF NoAnswer, S2_
<1>2. ASSUME NEW n \in Member, NEW k \in Member PROVE Answerless(chan[n][k], chan'[n][k])
  <2>1. PICK put : put = IF n = m THEN <<S2_(l)>> ELSE <<>>
    OBVIOUS
  <2>2. Shift(chan[n][k], chan'[n][k], 0, put)
    BY <2>1, Zenon DEF MulticastFacts
  <2> QED BY <1>1, <2>1, <2>2 DEF Answerless
<1> QED BY <1>2

LEMMA NumbersResend ==
  ASSUME ChatTypeOK, NumbersOK, NEW m \in Member, NEW k \in DOMAIN seqBuffer[m], Resend(m, k)
  PROVE  NumbersOK'
<1>0. ChatTypeOK' /\ MulticastFacts(m, S2_(chatMsg[m]))
  BY TypeResend
<1>1. /\ UNCHANGED <<localSeq, chatMsg, generatedGlobalSeq, hold_back_queue, proposed, sent,
                     typedAfter, budget>>
      /\ seqBuffer' = [seqBuffer EXCEPT ![m][k].tries = @ + 1]
  BY DEF Resend, proposalVars, sendVars, Spend
<1>2. /\ \A n \in Member : DOMAIN seqBuffer'[n] = DOMAIN seqBuffer[n]
      /\ \A n \in Member : \A l \in DOMAIN seqBuffer[n] :
              /\ seqBuffer'[n][l].globalSeq = seqBuffer[n][l].globalSeq
              /\ seqBuffer'[n][l].ackCount = seqBuffer[n][l].ackCount
  BY <1>1, RequestTried
<1>3. SameAnswers
  BY <1>2 DEF SameAnswers
<1>4. PICK l \in Nat : l = chatMsg[m] /\ l = localSeq[m] /\ Base(m) < l
  <2>1. RequestsOf(m) /\ localSeq[m] \in Nat /\ Base(m) \in Nat /\ k \in Nat
    BY QueueFacts, MapUse DEF NumbersOK, RequestsInv, ChatTypeOK, RequestOK
  <2> QED BY <2>1 DEF RequestsOf
<1>5. RequestsInv'
  <2>1. \A n, r \in Member : RequestsComing(n, r)'
    BY <1>0, <1>1, <1>4, RequestJoins DEF NumbersOK
  <2>2. \A n \in Member : RequestsOf(n)'
    BY <1>1, <1>2 DEF NumbersOK, RequestsInv, RequestsOf
  <2> QED BY <2>1, <2>2 DEF RequestsInv
<1>6. /\ \A n, r \in Member : AnswersIn(chan'[n][r], n, r, proposed')
      /\ \A r \in Member : \A j : Heard(r, j)' = Heard(r, j)
  BY <1>0, <1>1, RequestAnswerless, AnswersStay DEF NumbersOK
<1>7. ProposalsInv'
  <2>1. ASSUME NEW n \in Member, NEW r \in Member PROVE ProposalsGrow(n, r)'
    <3>1. ProposalsGrow(n, r)
      BY DEF NumbersOK, ProposalsInv
    <3> QED BY <1>1, <3>1 DEF ProposalsGrow, Proposed, Made, Passed
  <2> QED BY <1>6, <2>1 DEF ProposalsInv
<1>8. CollectedInv'
  BY <1>1, <1>3, <1>6, CollectedStays DEF NumbersOK
<1>9. SentInv'
  BY <1>1, SentStays DEF NumbersOK
<1>10. LaterInv'
  BY <1>1 DEF NumbersOK, LaterInv, TypedLater, Made, Proposed, Passed
<1> QED BY <1>5, <1>7, <1>8, <1>9, <1>10 DEF NumbersOK

LEMMA NotMade ==
  ASSUME ChatTypeOK, NumbersOK, NEW m \in Member, NEW l \in Nat, NEW n \in Member, ~(l <= Passed(n, m))
  PROVE  ~Made(n, m, l) /\ ~Coming(chan[n][m], l)
<1>1. ProposalsGrow(n, m) /\ AnswersIn(chan[n][m], n, m, proposed)
  BY DEF NumbersOK, ProposalsInv
<1>2. ~Made(n, m, l)
  BY <1>1 DEF ProposalsGrow, Made
<1>3. ASSUME Coming(chan[n][m], l) PROVE FALSE
  <2>1. PICK i \in 1..Len(chan[n][m]) : chan[n][m][i].tag = "S2A" /\ chan[n][m][i].l = l
    BY <1>3 DEF Coming, Answers
  <2>2. PICK g : g = chan[n][m][i].g
    OBVIOUS
  <2>3. <<n, <<m, l>>, g>> \in proposed
    BY <1>1, <2>1, <2>2 DEF AnswersIn
  <2>4. g \in Nat
    BY <2>3 DEF ChatTypeOK, ProposalOK
  <2> QED BY <1>2, <2>3, <2>4 DEF Made, Proposed
<1> QED BY <1>2, <1>3

\* A line is typed: a request of its own, above all that came before.
LEMMA NumbersType ==
  ASSUME ChatTypeOK, NumbersOK, NEW m \in Member, Type(m)
  PROVE  NumbersOK'
<1>0. ChatTypeOK' /\ MulticastFacts(m, S2_(localSeq[m] + 1)) /\ budget' = budget
  BY TypeType
<1>1. PICK l \in Nat : l = localSeq[m] + 1 /\ Base(m) < l
  <2>1. RequestsOf(m) /\ localSeq[m] \in Nat /\ Base(m) \in Nat
    BY QueueFacts DEF NumbersOK, RequestsInv, ChatTypeOK, RequestOK
  <2> QED BY <2>1 DEF RequestsOf
<1>2. PICK v : v = [globalSeq |-> 0, ackCount |-> 0, tries |-> 0]
  OBVIOUS
<1>3. PICK top \in Nat : top = Max({0} \cup {s[2] : s \in sent})
  BY SentNumbers DEF ChatTypeOK
<1>4. /\ localSeq' = [localSeq EXCEPT ![m] = l] /\ chatMsg' = [chatMsg EXCEPT ![m] = l]
      /\ seqBuffer' = [seqBuffer EXCEPT ![m] = Insert(@, l, v)]
      /\ typedAfter' = IF budget.losses > 0 THEN typedAfter
                       ELSE Insert(typedAfter, <<m, l>>, top)
      /\ UNCHANGED <<generatedGlobalSeq, hold_back_queue, proposed, sent>>
  BY <1>1, <1>2, <1>3 DEF Type, proposalVars, sendVars
<1>5. /\ localSeq'[m] = l /\ \A k \in Member \ {m} : localSeq'[k] = localSeq[k]
      /\ chatMsg'[m] = l /\ \A k \in Member \ {m} : chatMsg'[k] = chatMsg[k]
      /\ seqBuffer'[m] = Insert(seqBuffer[m], l, v)
      /\ \A k \in Member \ {m} : seqBuffer'[k] = seqBuffer[k]
  BY <1>4 DEF ChatTypeOK, RequestOK
<1>6. \A k \in Member : localSeq[k] \in Nat
  BY DEF ChatTypeOK, RequestOK
<1>7. l \notin DOMAIN seqBuffer[m]
  BY <1>1, <1>6 DEF NumbersOK, RequestsInv, RequestsOf
<1>8. /\ DOMAIN seqBuffer'[m] = DOMAIN seqBuffer[m] \cup {l}
      /\ \A k \in DOMAIN seqBuffer[m] : seqBuffer'[m][k] = seqBuffer[m][k]
      /\ seqBuffer'[m][l].globalSeq = 0 /\ seqBuffer'[m][l].ackCount = 0
  <2>1. PICK f, h : f = seqBuffer[m] /\ h = Insert(f, l, v)
    OBVIOUS
  <2>2. DOMAIN h = DOMAIN f \cup {l}
    BY <2>1, InsertDef
  <2>4. \A k \in DOMAIN f : h[k] = f[k]
    BY <2>1, InsertDef
  <2>5. h[l] = v
    BY <1>7, <2>1, InsertDef
  <2>3. v.globalSeq = 0 /\ v.ackCount = 0
    BY <1>2
  <2> QED BY <1>5, <2>1, <2>2, <2>3, <2>4, <2>5
<1>9. \A n \in Member : Passed(n, m) < l
  BY <1>1, <1>6, QueueFacts DEF NumbersOK, RequestsInv, RequestsComing, ChatTypeOK
<1>10. RequestsInv'
  <2>1. \A n, r \in Member : RequestsComing(n, r)'
    BY <1>0, <1>1, <1>4, <1>5, RequestJoins DEF NumbersOK
  <2>2. ASSUME NEW n \in Member PROVE RequestsOf(n)'
    <3>1. RequestsOf(n)
      BY DEF NumbersOK, RequestsInv
    <3>2. CASE n = m
      <4>1. \A k \in DOMAIN seqBuffer'[m] : Base(m) < k /\ k <= l
        <5>1. DOMAIN seqBuffer[m] \subseteq Nat /\ Base(m) \in Nat
          BY MapUse, QueueFacts DEF ChatTypeOK, RequestOK
        <5>2. \A k \in DOMAIN seqBuffer[m] : Base(m) < k /\ k <= localSeq[m]
          BY <3>1, <3>2 DEF RequestsOf
        <5> QED BY <1>1, <1>6, <1>8, <5>1, <5>2
      <4>2. Base(m) <= l
        BY <1>1, QueueFacts DEF ChatTypeOK
      <4> QED BY <1>5, <3>2, <4>1, <4>2 DEF RequestsOf
    <3>3. CASE n # m
      BY <1>5, <3>1, <3>3 DEF RequestsOf
    <3> QED BY <3>2, <3>3
  <2> QED BY <2>1, <2>2 DEF RequestsInv
<1>11. /\ \A n, r \in Member : AnswersIn(chan'[n][r], n, r, proposed')
       /\ \A r \in Member : \A j : Heard(r, j)' = Heard(r, j)
  BY <1>0, <1>4, RequestAnswerless, AnswersStay DEF NumbersOK
<1>12. ProposalsInv'
  <2>1. ASSUME NEW n \in Member, NEW r \in Member PROVE ProposalsGrow(n, r)'
    <3>1. ProposalsGrow(n, r)
      BY DEF NumbersOK, ProposalsInv
    <3> QED BY <1>4, <3>1 DEF ProposalsGrow, Proposed, Made, Passed
  <2> QED BY <1>11, <2>1 DEF ProposalsInv
<1>13. Heard(m, l) = {}
  <2>1. \A n \in Member : ~(l <= Passed(n, m))
    BY <1>9, QueueFacts DEF ChatTypeOK
  <2>2. \A n \in Member : ~Made(n, m, l)
    BY <2>1, NotMade
  <2> QED BY <2>2 DEF Heard
<1>14. CollectedInv'
  <2>0. \A n, r, k, g : Proposed(n, r, k, g)' <=> Proposed(n, r, k, g)
    BY <1>4 DEF Proposed
  <2>1. ASSUME NEW r \in Member, NEW k \in DOMAIN seqBuffer'[r] PROVE Collected(r, k)'
    <3>1. Heard(r, k)' = Heard(r, k)
      BY <1>11
    <3>2. CASE r = m /\ k = l
      <4>1. Heard(r, k)' = {} /\ Cardinality({}) = 0
        BY <1>13, <3>1, <3>2, FS_EmptySet
      <4> QED BY <1>8, <3>2, <4>1 DEF Collected
    <3>3. CASE ~(r = m /\ k = l)
      <4>1. k \in DOMAIN seqBuffer[r] /\ seqBuffer'[r][k] = seqBuffer[r][k]
        BY <1>5, <1>8, <2>1, <3>3
      <4>2. Collected(r, k)
        BY <4>1 DEF NumbersOK, CollectedInv
      <4> QED BY <2>0, <3>1, <4>1, <4>2, Zenon DEF Collected
    <3> QED BY <3>2, <3>3
  <2> QED BY <2>1 DEF CollectedInv
<1>15. SentInv'
  BY <1>4, SentStays DEF NumbersOK
<1>16. LaterInv'
  <2>0. \A n, r, k, g : Proposed(n, r, k, g)' <=> Proposed(n, r, k, g)
    BY <1>4 DEF Proposed
  <2>1. \A n, r \in Member : Passed(n, r)' = Passed(n, r)
    BY <1>4 DEF Passed
  <2>2. <<m, l>> \notin DOMAIN typedAfter
    BY <1>1, <1>6 DEF NumbersOK, LaterInv
  <2>3. /\ DOMAIN typedAfter' \subseteq DOMAIN typedAfter \cup {<<m, l>>}
        /\ DOMAIN typedAfter \subseteq DOMAIN typedAfter'
        /\ \A x \in DOMAIN typedAfter : typedAfter'[x] = typedAfter[x]
    <3>1. PICK x, h : x = <<m, l>> /\ h = Insert(typedAfter, x, top)
      OBVIOUS
    <3>2. DOMAIN h = DOMAIN typedAfter \cup {x}
      BY <3>1, InsertDef
    <3>4. \A y \in DOMAIN typedAfter : h[y] = typedAfter[y]
      BY <3>1, InsertDef
    <3>3. typedAfter' = typedAfter \/ typedAfter' = h
      BY <1>4, <3>1
    <3> QED BY <3>1, <3>2, <3>3, <3>4
  <2>4. ASSUME NEW r \in Member, NEW k \in Nat, <<r, k>> \in DOMAIN typedAfter'
        PROVE  k <= localSeq'[r]
    <3>1. CASE <<r, k>> = <<m, l>>
      BY <1>5, <3>1
    <3>2. CASE <<r, k>> \in DOMAIN typedAfter
      <4>1. k <= localSeq[r] /\ localSeq[r] <= localSeq'[r]
        BY <1>1, <1>5, <1>6, <3>2 DEF NumbersOK, LaterInv
      <4>2. localSeq[r] \in Nat /\ localSeq'[r] \in Nat
        BY <1>5, <1>6
      <4> QED BY <4>1, <4>2
    <3> QED BY <2>3, <2>4, <3>1, <3>2
  <2>5. ASSUME budget'.losses = 0, NEW r \in Member, NEW k \in (Base(r) + 1)..localSeq'[r]
        PROVE  TypedLater(r, k)'
    <3>1. budget.losses = 0
      BY <1>0, <2>5
    <3>2. CASE r = m /\ k = l
      <4>1. typedAfter'[<<m, l>>] = top /\ <<m, l>> \in DOMAIN typedAfter'
        <5>1. PICK x, h : x = <<m, l>> /\ h = Insert(typedAfter, x, top)
          OBVIOUS
        <5>2. DOMAIN h = DOMAIN typedAfter \cup {x} /\ h[x] = top
          BY <2>2, <5>1, InsertDef
        <5>3. typedAfter' = h
          BY <1>4, <3>1, <5>1
        <5> QED BY <5>1, <5>2, <5>3
      <4>2. \E n \in Member : top <= generatedGlobalSeq[n]
        <5>0. \A n \in Member : generatedGlobalSeq[n] \in Nat
          BY DEF ChatTypeOK, ProposalOK
        <5>1. CASE top = 0
          BY <5>0, <5>1, DecentralAssumption
        <5>2. CASE \E s \in sent : top = s[2]
          <6>1. PICK s \in sent : top = s[2]
            BY <5>2
          <6>2. PICK a \in Member, j \in Nat : s = <<<<a, j>>, top>>
            BY <6>1 DEF ChatTypeOK, SendOK, ChatLine
          <6>3. PICK n \in Member : Proposed(n, a, j, top)
            BY <6>1, <6>2 DEF NumbersOK, SentInv, SentByAll
          <6>4. top <= generatedGlobalSeq[n]
            BY <6>2, <6>3 DEF NumbersOK, ProposalsInv, ProposalsGrow
          <6> QED BY <6>4
        <5> QED BY <1>3, <5>1, <5>2, SentNumbers DEF ChatTypeOK
      <4> QED BY <1>4, <1>9, <2>1, <3>2, <4>1, <4>2 DEF TypedLater
    <3>3. CASE ~(r = m /\ k = l)
      <4>1. k \in (Base(r) + 1)..localSeq[r]
        BY <1>1, <1>5, <1>6, <2>5, <3>3, QueueFacts DEF ChatTypeOK
      <4>2. TypedLater(r, k)
        BY <3>1, <4>1 DEF NumbersOK, LaterInv
      <4>3. /\ <<r, k>> \in DOMAIN typedAfter' /\ typedAfter'[<<r, k>>] = typedAfter[<<r, k>>]
        BY <2>3, <4>2 DEF TypedLater
      <4> QED BY <1>4, <2>0, <2>1, <4>2, <4>3 DEF TypedLater
    <3> QED BY <3>2, <3>3
  <2> QED BY <2>4, <2>5 DEF LaterInv
<1> QED BY <1>10, <1>12, <1>14, <1>15, <1>16 DEF NumbersOK
\* An answer leaves its channel: its sender has been heard.
LEMMA AnswerLeaves ==
  ASSUME ChatTypeOK, ProposalsInv, NEW n \in Member, NEW m \in Member, NEW l \in Nat, NEW out,
         HandledFacts(n, m, out), \A r \in Member : NoAnswer(out[r]) /\ NoRequest(out[r]),
         chan[n][m] # <<>>, chan[n][m][1].tag = "S2A", chan[n][m][1].l = l,
         UNCHANGED proposed
  PROVE  /\ \A s, r \in Member : Requestless(chan[s][r], chan'[s][r])
         /\ \A s, r \in Member : AnswersIn(chan'[s][r], s, r, proposed')
         /\ n \notin Heard(m, l) /\ Heard(m, l)' = Heard(m, l) \cup {n}
         /\ Proposed(n, m, l, chan[n][m][1].g) /\ chan[n][m][1].g \in Nat
         /\ \A r \in Member, k \in Nat : ~(r = m /\ k = l) => Heard(r, k)' = Heard(r, k)
<1> DEFINE off(s, r) == IF s = n /\ r = m THEN 1 ELSE 0
           put(s, r) == IF s = m THEN out[r] ELSE <<>>
<1>1. \A s, r \in Member : Shift(chan[s][r], chan'[s][r], off(s, r), put(s, r))
  BY Zenon DEF HandledFacts
<1>2. \A s, r \in Member : NoAnswer(put(s, r)) /\ NoRequest(put(s, r))
  BY DEF NoAnswer, NoRequest
<1>3. /\ off(n, m) = 1
      /\ \A s, r \in Member : ~(s = n /\ r = m) => off(s, r) = 0
  OBVIOUS
<1> HIDE DEF off, put
<1>4. \A s, r \in Member : Requestless(chan[s][r], chan'[s][r])
  <2> TAKE s, r \in Member
  <2>1. off(s, r) = 1 => chan[s][r][1].tag # "S2_"
    BY <1>3
  <2> QED BY <1>1, <1>2, <2>1 DEF Requestless
<1>5. ASSUME NEW s \in Member, NEW r \in Member
      PROVE  /\ AnswersIn(chan'[s][r], s, r, proposed')
             /\ \A k : Coming(chan'[s][r], k) <=>
                         Coming(chan[s][r], k) /\ ~(off(s, r) = 1 /\ Answers(chan[s][r][1], k))
  <2>1. AnswersIn(chan[s][r], s, r, proposed) /\ proposed \subseteq proposed'
    BY DEF ProposalsInv
  <2> QED BY <1>1, <1>2, <2>1, AnswersTake
<1>6. \A k : Answers(chan[n][m][1], k) <=> k = l
  BY DEF Answers
<1>7. /\ Coming(chan[n][m], l) /\ ~Coming(chan'[n][m], l)
      /\ \A s, r \in Member : \A k : ~(s = n /\ r = m /\ k = l) =>
            (Coming(chan'[s][r], k) <=> Coming(chan[s][r], k))
  <2>1. 1 \in 1..Len(chan[n][m])
    BY DEF ChatTypeOK, ChanOK
  <2>2. Coming(chan[n][m], l)
    BY <1>6, <2>1 DEF Coming
  <2>3. ~Coming(chan'[n][m], l)
    BY <1>3, <1>5, <1>6
  <2>4. ASSUME NEW s \in Member, NEW r \in Member, NEW k, ~(s = n /\ r = m /\ k = l)
        PROVE  Coming(chan'[s][r], k) <=> Coming(chan[s][r], k)
    <3>1. CASE s = n /\ r = m
      BY <1>5, <1>6, <2>4, <3>1
    <3>2. CASE ~(s = n /\ r = m)
      BY <1>3, <1>5, <3>2
    <3> QED BY <3>1, <3>2
  <2> QED BY <2>2, <2>3, <2>4
<1>8. \A s, r, k : Made(s, r, k)' <=> Made(s, r, k)
  BY DEF Made, Proposed
<1>9. /\ Proposed(n, m, l, chan[n][m][1].g) /\ chan[n][m][1].g \in Nat
  <2>1. 1 \in 1..Len(chan[n][m])
    BY DEF ChatTypeOK, ChanOK
  <2>2. <<n, <<m, l>>, chan[n][m][1].g>> \in proposed
    BY <2>1 DEF ProposalsInv, AnswersIn
  <2> QED BY <2>2 DEF Proposed, ChatTypeOK, ProposalOK
<1>10. n \notin Heard(m, l)
  BY <1>7 DEF Heard
<1>11. Heard(m, l)' = Heard(m, l) \cup {n}
  <2>1. Made(n, m, l)
    BY <1>9 DEF Made
  <2>2. \A s \in Member : s # n => (s \in Heard(m, l)' <=> s \in Heard(m, l))
    BY <1>7, <1>8 DEF Heard
  <2>3. n \in Heard(m, l)'
    BY <1>7, <1>8, <2>1 DEF Heard
  <2>4. Heard(m, l)' \subseteq Member /\ Heard(m, l) \subseteq Member
    BY DEF Heard
  <2> QED BY <2>2, <2>3, <2>4
<1>12. ASSUME NEW r \in Member, NEW k \in Nat, ~(r = m /\ k = l)
       PROVE  Heard(r, k)' = Heard(r, k)
  <2>1. \A s \in Member : Coming(chan'[s][r], k) <=> Coming(chan[s][r], k)
    BY <1>7, <1>12
  <2> QED BY <1>8, <2>1 DEF Heard
<1> QED BY <1>4, <1>5, <1>9, <1>10, <1>11, <1>12

LEMMA NumbersAnswer ==
  ASSUME ChatTypeOK, NumbersOK, NEW n \in Member, NEW m \in Member, ReceiveS2A(n, m)
  PROVE  NumbersOK'
<1>1. PICK l \in Nat, g \in Nat : ChatTypeOK' /\ AnswerTaken(n, m, l, g)
  BY AnswerEffect
<1>2. /\ chan[n][m] # <<>> /\ chan[n][m][1].tag = "S2A"
      /\ chan[n][m][1].l = l /\ chan[n][m][1].g = g
      /\ UNCHANGED <<localSeq, chatMsg, generatedGlobalSeq, hold_back_queue, proposed,
                     typedAfter, budget>>
  BY <1>1 DEF AnswerTaken, proposalVars, runVars
<1>3. PICK out : /\ HandledFacts(n, m, out)
                 /\ \A r \in Member : NoAnswer(out[r]) /\ NoRequest(out[r])
  <2>1. \A r \in Member : NoAnswer(NoAnswers[r]) /\ NoRequest(NoAnswers[r])
    BY DEF NoAnswers, NoAnswer, NoRequest
  <2>2. ASSUME NEW h PROVE \A r \in Member :
          LET o == [q \in Member |-> <<C0_(h, <<m, l>>)>>] IN NoAnswer(o[r]) /\ NoRequest(o[r])
    BY DEF NoAnswer, NoRequest, C0_
  <2> QED BY <1>1, <2>1, <2>2 DEF AnswerTaken
<1>4. /\ \A s, r \in Member : Requestless(chan[s][r], chan'[s][r])
      /\ \A s, r \in Member : AnswersIn(chan'[s][r], s, r, proposed')
      /\ n \notin Heard(m, l) /\ Heard(m, l)' = Heard(m, l) \cup {n}
      /\ Proposed(n, m, l, g)
      /\ \A r \in Member, k \in Nat : ~(r = m /\ k = l) => Heard(r, k)' = Heard(r, k)
  <2>1. ProposalsInv /\ UNCHANGED proposed
    BY <1>2 DEF NumbersOK
  <2>2. /\ \A s, r \in Member : Requestless(chan[s][r], chan'[s][r])
        /\ \A s, r \in Member : AnswersIn(chan'[s][r], s, r, proposed')
        /\ n \notin Heard(m, l) /\ Heard(m, l)' = Heard(m, l) \cup {n}
        /\ Proposed(n, m, l, chan[n][m][1].g)
        /\ \A r \in Member, k \in Nat : ~(r = m /\ k = l) => Heard(r, k)' = Heard(r, k)
    BY <1>2, <1>3, <2>1, AnswerLeaves
  <2> QED BY <1>2, <2>2
<1>5. \A s, r, k, h : Proposed(s, r, k, h)' <=> Proposed(s, r, k, h)
  BY <1>2 DEF Proposed
<1>6. /\ \A r \in Member : DOMAIN seqBuffer'[r] = DOMAIN seqBuffer[r]
      /\ \A r \in Member : \A k \in DOMAIN seqBuffer[r] : ~(r = m /\ k = l) =>
            seqBuffer'[r][k] = seqBuffer[r][k]
      /\ l \in DOMAIN seqBuffer[m] =>
            /\ seqBuffer'[m][l].globalSeq = Largest(g, seqBuffer[m][l].globalSeq)
            /\ seqBuffer'[m][l].ackCount = seqBuffer[m][l].ackCount + 1
  <2>1. CASE l \notin DOMAIN seqBuffer[m] /\ UNCHANGED seqBuffer
    BY <2>1
  <2>2. CASE l \in DOMAIN seqBuffer[m] /\ Counted(m, l, g)
    BY <2>2 DEF Counted
  <2> QED BY <1>1, <2>1, <2>2 DEF AnswerTaken
<1>7. RequestsInv'
  <2>1. ASSUME NEW r \in Member PROVE RequestsOf(r)'
    BY <1>2, <1>6 DEF NumbersOK, RequestsInv, RequestsOf
  <2>2. ASSUME NEW r \in Member, NEW s \in Member PROVE RequestsComing(r, s)'
    <3>1. RequestsComing(r, s)
      BY DEF NumbersOK, RequestsInv
    <3>2. Base(r) \in Nat /\ Passed(s, r) \in Nat /\ localSeq[r] \in Nat
      BY QueueFacts DEF ChatTypeOK, RequestOK
    <3>3. RequestsIn(chan'[r][s], Base(r), Passed(s, r), localSeq[r])
      BY <1>4, <3>1, <3>2, RequestlessKeeps DEF RequestsComing
    <3>4. Passed(s, r)' = Passed(s, r) /\ MsgsOf(s, r)' = MsgsOf(s, r) /\ localSeq' = localSeq
      BY <1>2 DEF Passed, MsgsOf
    <3> QED BY <3>1, <3>3, <3>4, Zenon DEF RequestsComing
  <2> QED BY <2>1, <2>2 DEF RequestsInv
<1>8. ProposalsInv'
  <2>1. ASSUME NEW s \in Member, NEW r \in Member PROVE ProposalsGrow(s, r)'
    <3>1. ProposalsGrow(s, r)
      BY DEF NumbersOK, ProposalsInv
    <3> QED BY <1>2, <3>1 DEF ProposalsGrow, Proposed, Made, Passed
  <2> QED BY <1>4, <2>1 DEF ProposalsInv
<1>9. ASSUME l \in DOMAIN seqBuffer[m] PROVE Collected(m, l)'
  <2>1. Collected(m, l)
    BY <1>9 DEF NumbersOK, CollectedInv
  <2>2. IsFiniteSet(Heard(m, l)) /\ Heard(m, l) \subseteq Member
    BY MemberFacts, FS_Subset DEF Heard
  <2>3. Cardinality(Heard(m, l)') = Cardinality(Heard(m, l)) + 1
    BY <1>4, <2>2, FS_AddElement
  <2>4. PICK a, b : a = seqBuffer[m][l].globalSeq /\ b = seqBuffer'[m][l].globalSeq
    OBVIOUS
  <2>5. a \in Nat /\ b = Largest(g, a) /\ b \in Nat /\ a <= b /\ g <= b /\ (b = a \/ b = g)
    <3>1. a \in Nat
      <4>1. seqBuffer[m] \in Map(Nat, Request)
        BY DEF ChatTypeOK, RequestOK
      <4>2. seqBuffer[m][l] \in Request
        BY <1>9, <4>1, MapUse
      <4> QED BY <2>4, <4>2 DEF Request
    <3>2. b = Largest(g, a)
      BY <1>6, <1>9, <2>4
    <3> QED BY <3>1, <3>2 DEF Largest
  <2>6. ASSUME NEW s \in Heard(m, l)', NEW h \in Nat, Proposed(s, m, l, h)
        PROVE  h <= b
    <3>1. CASE s \in Heard(m, l)
      <4>1. h <= a
        BY <2>1, <2>4, <2>6, <3>1 DEF Collected
      <4> QED BY <2>5, <4>1
    <3>2. CASE s = n
      <4>1. ProposalsGrow(n, m)
        BY DEF NumbersOK, ProposalsInv
      <4>2. h = g
        BY <1>4, <2>6, <3>2, <4>1 DEF ProposalsGrow
      <4> QED BY <2>5, <4>2
    <3> QED BY <1>4, <2>6, <3>1, <3>2
  <2>7. b = 0 \/ \E s \in Member : Proposed(s, m, l, b)
    BY <1>4, <2>1, <2>4, <2>5 DEF Collected
  <2>8. seqBuffer'[m][l].ackCount = Cardinality(Heard(m, l)')
    BY <1>6, <1>9, <2>1, <2>3 DEF Collected
  <2> QED BY <1>5, <2>4, <2>6, <2>7, <2>8, Zenon DEF Collected
<1>10. CollectedInv'
  <2>1. ASSUME NEW r \in Member, NEW k \in DOMAIN seqBuffer'[r] PROVE Collected(r, k)'
    <3>1. CASE r = m /\ k = l
      BY <1>6, <1>9, <2>1, <3>1
    <3>2. CASE ~(r = m /\ k = l)
      <4>1. k \in DOMAIN seqBuffer[r] /\ seqBuffer'[r][k] = seqBuffer[r][k] /\ k \in Nat
        BY <1>6, <2>1, <3>2, MapUse DEF ChatTypeOK, RequestOK
      <4>2. Collected(r, k) /\ Heard(r, k)' = Heard(r, k)
        BY <1>4, <3>2, <4>1 DEF NumbersOK, CollectedInv
      <4> QED BY <1>5, <4>1, <4>2, Zenon DEF Collected
    <3> QED BY <3>1, <3>2
  <2> QED BY <2>1 DEF CollectedInv
<1>11. SentInv'
  <2>0. \A r, k, h : SentByAll(r, k, h)' <=> SentByAll(r, k, h)
    BY <1>5 DEF SentByAll, Made
  <2>1. CASE UNCHANGED sendVars
    BY <1>2, <2>1, SentStays DEF NumbersOK, sendVars
  <2>2. CASE /\ l \in DOMAIN seqBuffer[m] /\ seqBuffer'[m][l].ackCount >= Cardinality(Member)
             /\ sent' = sent \cup {<<<<m, l>>, seqBuffer'[m][l].globalSeq>>}
    <3>1. PICK b : b = seqBuffer'[m][l].globalSeq
      OBVIOUS
    <3>2. /\ seqBuffer'[m][l].ackCount = Cardinality(Heard(m, l)')
          /\ \A s \in Heard(m, l)' : \A h \in Nat : Proposed(s, m, l, h) => h <= b
          /\ b = 0 \/ \E s \in Member : Proposed(s, m, l, b)
      BY <1>5, <1>9, <2>2, <3>1, Zenon DEF Collected
    <3>3. Heard(m, l)' = Member
      <4>1. Heard(m, l)' \subseteq Member /\ IsFiniteSet(Member)
        BY MemberFacts DEF Heard
      <4>2. /\ Cardinality(Heard(m, l)') <= Cardinality(Member)
            /\ Cardinality(Heard(m, l)') = Cardinality(Member) => Heard(m, l)' = Member
        BY <4>1, FS_Subset
      <4>3. Cardinality(Heard(m, l)') \in Nat /\ Cardinality(Member) \in Nat
        BY <4>1, FS_Subset, FS_CardinalityType
      <4> QED BY <2>2, <3>2, <4>2, <4>3
    <3>4. \A s \in Member : Made(s, m, l)
      BY <1>5, <3>3 DEF Heard, Made
    <3>5. \E s \in Member : Proposed(s, m, l, b)
      <4>1. CASE b = 0
        <5>1. g <= b
          BY <1>4, <3>2, <3>3
        <5>2. 0 < g
          BY <1>4 DEF NumbersOK, ProposalsInv, ProposalsGrow
        <5> QED BY <4>1, <5>1, <5>2
      <4> QED BY <3>2, <4>1
    <3>6. SentByAll(m, l, b)
      BY <3>2, <3>3, <3>4, <3>5 DEF SentByAll
    <3>7. ASSUME NEW r \in Member, NEW k \in Nat, NEW h \in Nat, <<<<r, k>>, h>> \in sent'
          PROVE  SentByAll(r, k, h)'
      <4>1. CASE <<<<r, k>>, h>> \in sent
        BY <2>0, <4>1 DEF NumbersOK, SentInv
      <4>2. CASE <<<<r, k>>, h>> = <<<<m, l>>, b>>
        BY <2>0, <3>6, <4>2
      <4> QED BY <2>2, <3>1, <3>7, <4>1, <4>2
    <3> QED BY <3>7 DEF SentInv
  <2> QED BY <1>1, <2>1, <2>2 DEF AnswerTaken
<1>12. LaterInv'
  BY <1>2 DEF NumbersOK, LaterInv, TypedLater, Made, Proposed, Passed
<1> QED BY <1>7, <1>8, <1>10, <1>11, <1>12 DEF NumbersOK
LEMMA GrowStays ==
  ASSUME NEW n \in Member, NEW m \in Member, ProposalsGrow(n, m),
         Passed(n, m)' = Passed(n, m), UNCHANGED <<generatedGlobalSeq, proposed>>
  PROVE  ProposalsGrow(n, m)'
<1>1. \A l, g : Proposed(n, m, l, g)' <=> Proposed(n, m, l, g)
  BY DEF Proposed
<1>2. \A l : Made(n, m, l)' <=> Made(n, m, l)
  BY <1>1 DEF Made
<1>3. generatedGlobalSeq'[n] = generatedGlobalSeq[n]
  OBVIOUS
<1> QED BY <1>1, <1>2, <1>3 DEF ProposalsGrow

\* The request at the head of a channel is the next one or an old one.
LEMMA RequestAtHead ==
  ASSUME ChatTypeOK, RequestsInv, NEW m \in Member, NEW n \in Member, Got(m, n, "S2_")
  PROVE  /\ Base(m) < chan[m][n][1].l /\ chan[m][n][1].l <= Passed(n, m) + 1
         /\ chan[m][n][1].l <= localSeq[m]
         /\ \A x \in MsgsOf(n, m) : x <= Passed(n, m)
<1>1. /\ 1 \in 1..Len(chan[m][n]) /\ chan[m][n][1].tag = "S2_"
      /\ chan[m][n][1].l \in Nat
  <2>1. /\ 1 \in 1..Len(chan[m][n]) /\ Head(chan[m][n]) = chan[m][n][1]
        /\ Head(chan[m][n]).tag = "S2_" /\ Head(chan[m][n]) \in ChatPacket
    BY GotFirst DEF ChatTypeOK
  <2> QED BY <2>1, PacketUse DEF Fields
<1>2. PICK c, l : c = chan[m][n] /\ l = c[1].l
  OBVIOUS
<1>3. PICK b \in Nat, last \in Nat, top \in Nat :
        b = Base(m) /\ last = Passed(n, m) /\ top = localSeq[m]
  BY QueueFacts DEF ChatTypeOK, RequestOK
<1>4. RequestsIn(c, b, last, top) /\ \A x \in MsgsOf(n, m) : x <= last
  BY <1>2, <1>3 DEF RequestsInv, RequestsComing
<1>5. 1 \in 1..Len(c) /\ c[1].tag = "S2_" /\ l \in Nat
  BY <1>1, <1>2
<1>6. l \in (b + 1)..top
  BY <1>2, <1>4, <1>5, RequestsUse
<1>7. \A k \in (last + 1)..(l - 1) : \E j \in 1..(1 - 1) : Asks(c[j], k)
  BY <1>2, <1>4, <1>5, RequestsUse
<1>8. l <= last + 1
  <2> SUFFICES ASSUME l > last + 1 PROVE FALSE
    BY <1>3, <1>5
  <2>1. last + 1 \in (last + 1)..(l - 1)
    BY <1>3, <1>5
  <2>2. \E j \in 1..(1 - 1) : Asks(c[j], last + 1)
    BY <1>7, <2>1
  <2> QED BY <2>2
<1> QED BY <1>2, <1>3, <1>4, <1>6, <1>8

\* The requests still coming, once n has taken one of m's and passed its last
\* one, or stayed where it was.
LEMMA RequestsFollow ==
  ASSUME ChatTypeOK, ChatTypeOK', RequestsInv, NEW m \in Member, NEW n \in Member, NEW out,
         HandledFacts(m, n, out), \A r \in Member : NoRequest(out[r]),
         NEW last \in Nat, QueueAt(n, m, last), OtherQueues(n, m),
         chan[m][n][1].tag = "S2_", chan[m][n][1].l <= last, chan[m][n][1].l \in Nat,
         \/ last = Passed(n, m)
         \/ last = Passed(n, m) + 1 /\ chan[m][n][1].l = last,
         last <= localSeq[m], UNCHANGED <<localSeq, chatMsg, seqBuffer>>
  PROVE  RequestsInv'
<1>1. ASSUME NEW s \in Member, NEW r \in Member PROVE RequestsComing(s, r)'
  <2>1. RequestsComing(s, r)
    BY DEF RequestsInv
  <2>2. PICK b \in Nat, p \in Nat, top \in Nat :
          b = Base(s) /\ p = Passed(r, s) /\ top = localSeq[s]
    BY QueueFacts DEF ChatTypeOK, RequestOK
  <2>3. PICK c, d, off, put : /\ c = chan[s][r] /\ d = chan'[s][r]
                              /\ off = IF s = m /\ r = n THEN 1 ELSE 0
                              /\ put = IF s = n THEN out[r] ELSE <<>>
    OBVIOUS
  <2>4. Shift(c, d, off, put)
    BY <2>3, Zenon DEF HandledFacts
  <2>5. NoRequest(put)
    BY <2>3 DEF NoRequest
  <2>6. RequestsIn(c, b, p, top) /\ b <= p /\ p <= top /\ \A x \in MsgsOf(r, s) : x <= p
    BY <2>1, <2>2, <2>3 DEF RequestsComing
  <2>7. CASE s = m /\ r = n
    <3>1. off = 1 /\ c[1].tag = "S2_" /\ c[1].l <= last /\ p <= last
      BY <2>2, <2>3, <2>7
    <3>2. \A l \in (p + 1)..last : off = 1 /\ Asks(c[1], l)
      BY <2>2, <2>3, <2>7, <3>1 DEF Asks
    <3>3. RequestsIn(d, b, last, top)
      BY <2>4, <2>5, <2>6, <3>1, <3>2, RequestsTake
    <3>4. Passed(r, s)' = last /\ \A x \in MsgsOf(r, s)' : x <= last
      BY <2>7 DEF QueueAt
    <3>5. b <= last /\ last <= top /\ localSeq'[s] = top
      BY <2>2, <2>6, <2>7, <3>1
    <3> QED BY <2>2, <2>3, <3>3, <3>4, <3>5 DEF RequestsComing
  <2>8. CASE ~(s = m /\ r = n)
    <3>1. Requestless(c, d)
      BY <2>3, <2>4, <2>5, <2>8 DEF Requestless
    <3>2. RequestsIn(d, b, p, top)
      BY <2>6, <3>1, RequestlessKeeps
    <3>3. Passed(r, s)' = p /\ MsgsOf(r, s)' = MsgsOf(r, s)
      BY <2>2, <2>8 DEF OtherQueues
    <3> QED BY <2>2, <2>3, <2>6, <3>2, <3>3 DEF RequestsComing
  <2> QED BY <2>7, <2>8
<1>2. ASSUME NEW s \in Member PROVE RequestsOf(s)'
  BY DEF RequestsInv, RequestsOf
<1> QED BY <1>1, <1>2 DEF RequestsInv

LEMMA NumbersOldRequest ==
  ASSUME ChatTypeOK, ChatTypeOK', NumbersOK, NEW m \in Member, NEW n \in Member, OldRequest(m, n),
         chan[m][n][1].tag = "S2_", chan[m][n][1].l <= Passed(n, m), chan[m][n][1].l \in Nat,
         UNCHANGED <<localSeq, chatMsg, seqBuffer, sent, typedAfter, budget>>
  PROVE  NumbersOK'
<1>1. /\ QueueAt(n, m, Passed(n, m)) /\ OtherQueues(n, m)
      /\ UNCHANGED <<generatedGlobalSeq, proposed>> /\ HandledFacts(m, n, NoAnswers)
  BY DEF OldRequest
<1>2. \A r \in Member : NoRequest(NoAnswers[r]) /\ NoAnswer(NoAnswers[r])
  BY DEF NoAnswers, NoRequest, NoAnswer
<1>3. Passed(n, m) \in Nat /\ Passed(n, m) <= localSeq[m]
  BY QueueFacts DEF ChatTypeOK, NumbersOK, RequestsInv, RequestsComing
<1>4. RequestsInv'
  BY <1>1, <1>2, <1>3, RequestsFollow DEF NumbersOK
<1>5. \A s, r \in Member : Answerless(chan[s][r], chan'[s][r])
  <2> TAKE s, r \in Member
  <2>1. PICK off, put : /\ off = IF s = m /\ r = n THEN 1 ELSE 0
                        /\ put = IF s = n THEN NoAnswers[r] ELSE <<>>
    OBVIOUS
  <2>2. Shift(chan[s][r], chan'[s][r], off, put)
    BY <1>1, <2>1, Zenon DEF HandledFacts
  <2>3. NoAnswer(put) /\ (off = 1 => chan[s][r][1].tag # "S2A")
    BY <1>2, <2>1 DEF NoAnswer
  <2> QED BY <2>2, <2>3 DEF Answerless
<1>6. /\ \A s, r \in Member : AnswersIn(chan'[s][r], s, r, proposed')
      /\ \A r \in Member : \A j : Heard(r, j)' = Heard(r, j)
  BY <1>1, <1>5, AnswersStay DEF NumbersOK
<1>7. \A s, r \in Member : Passed(s, r)' = Passed(s, r)
  BY <1>1 DEF QueueAt, OtherQueues
<1>8. ProposalsInv'
  <2>1. ASSUME NEW s \in Member, NEW r \in Member PROVE ProposalsGrow(s, r)'
    <3>1. ProposalsGrow(s, r) /\ Passed(s, r)' = Passed(s, r)
      BY <1>7 DEF NumbersOK, ProposalsInv
    <3> QED BY <1>1, <3>1, GrowStays
  <2> QED BY <1>6, <2>1 DEF ProposalsInv
<1>9. CollectedInv'
  <2>1. SameAnswers
    BY SameTried DEF ChatTypeOK
  <2> QED BY <1>1, <1>6, <2>1, CollectedStays DEF NumbersOK
<1>10. SentInv'
  BY <1>1, SentStays DEF NumbersOK
<1>11. LaterInv'
  BY <1>1, <1>7 DEF NumbersOK, LaterInv, TypedLater, Made, Proposed
<1> QED BY <1>4, <1>8, <1>9, <1>10, <1>11 DEF NumbersOK
\* A new proposal: it is the only one of n for this line, and its answer is on
\* the way.
LEMMA ProposalJoins ==
  ASSUME ChatTypeOK, NumbersOK, NEW m \in Member, NEW n \in Member, NEW l \in Nat, NEW g \in Nat,
         NextRequest(m, n, l, g), chan[m][n][1].tag = "S2_", l = Passed(n, m) + 1
  PROVE  /\ \A s, r, k, h : Proposed(s, r, k, h)' <=>
               (Proposed(s, r, k, h) \/ (s = n /\ r = m /\ k = l /\ h = g))
         /\ \A s, r, k : Made(s, r, k)' <=> (Made(s, r, k) \/ (s = n /\ r = m /\ k = l))
         /\ \A s, r \in Member : AnswersIn(chan'[s][r], s, r, proposed')
         /\ \A r \in Member : \A k : Heard(r, k)' = Heard(r, k)
         /\ n \notin Heard(m, l) /\ ~Made(n, m, l)
<1>1. /\ proposed' = proposed \cup {<<n, <<m, l>>, g>>}
      /\ HandledFacts(m, n, [r \in Member |-> IF r = m THEN <<S2A(g, l)>> ELSE <<>>])
  BY DEF NextRequest
<1>2. ~Made(n, m, l) /\ ~Coming(chan[n][m], l)
  <2>1. ~(l <= Passed(n, m))
    BY QueueFacts DEF ChatTypeOK
  <2> QED BY <2>1, NotMade
<1>3. \A s, r, k, h : Proposed(s, r, k, h)' <=>
        (Proposed(s, r, k, h) \/ (s = n /\ r = m /\ k = l /\ h = g))
  BY <1>1 DEF Proposed
<1>4. \A s, r, k : Made(s, r, k)' <=> (Made(s, r, k) \/ (s = n /\ r = m /\ k = l))
  BY <1>3 DEF Made
<1>5. ASSUME NEW s \in Member, NEW r \in Member
      PROVE  /\ AnswersIn(chan'[s][r], s, r, proposed')
             /\ \A k : Coming(chan'[s][r], k) <=>
                         (Coming(chan[s][r], k) \/ (s = n /\ r = m /\ k = l))
  <2>1. PICK c, d, off, put : /\ c = chan[s][r] /\ d = chan'[s][r]
                              /\ off = IF s = m /\ r = n THEN 1 ELSE 0
                              /\ put = IF s = n THEN IF r = m THEN <<S2A(g, l)>> ELSE <<>>
                                       ELSE <<>>
    OBVIOUS
  <2>2. Shift(c, d, off, put)
    <3>1. PICK out : out = [q \in Member |-> IF q = m THEN <<S2A(g, l)>> ELSE <<>>]
      OBVIOUS
    <3>2. put = IF s = n THEN out[r] ELSE <<>>
      BY <2>1, <3>1
    <3>3. HandledFacts(m, n, out)
      BY <1>1, <3>1
    <3> QED BY <2>1, <3>2, <3>3, Zenon DEF HandledFacts
  <2>3. AnswersIn(c, s, r, proposed) /\ proposed \subseteq proposed'
    BY <1>1, <2>1 DEF NumbersOK, ProposalsInv
  <2>4. off = 1 => c[1].tag # "S2A"
    BY <2>1
  <2>5. CASE s = n /\ r = m
    <3>1. PICK p : p = S2A(g, l)
      OBVIOUS
    <3>2. p.tag = "S2A" /\ p.l = l /\ p.g = g
      BY <3>1 DEF S2A
    <3>3. put = <<p>> /\ Len(put) = 1 /\ put[1] = p
      BY <2>1, <2>5, <3>1
    <3>4. ~Coming(c, p.l)
      BY <1>2, <2>1, <2>5, <3>2
    <3>5. <<s, <<r, p.l>>, p.g>> \in proposed'
      BY <1>1, <2>5, <3>2
    <3>6. /\ AnswersIn(d, s, r, proposed')
          /\ \A k : Coming(d, k) <=> (Coming(c, k) \/ k = p.l)
      BY <2>2, <2>3, <2>4, <3>2, <3>3, <3>4, <3>5, AnswersAdd
    <3> QED BY <2>1, <2>5, <3>2, <3>6
  <2>6. CASE ~(s = n /\ r = m)
    <3>1. put = <<>>
      BY <2>1, <2>6
    <3>2. Answerless(c, d)
      <4>1. NoAnswer(put)
        BY <3>1 DEF NoAnswer
      <4> QED BY <2>2, <2>4, <4>1 DEF Answerless
    <3>3. /\ AnswersIn(d, s, r, proposed')
          /\ \A k : Coming(d, k) <=> Coming(c, k)
      BY <2>3, <3>2, AnswerlessKeeps
    <3> QED BY <2>1, <2>6, <3>3
  <2> QED BY <2>5, <2>6
<1>6. n \notin Heard(m, l)
  BY <1>2 DEF Heard
<1>7. ASSUME NEW r \in Member, NEW k PROVE Heard(r, k)' = Heard(r, k)
  <2>1. ASSUME NEW s \in Member
        PROVE  (Made(s, r, k)' /\ ~Coming(chan'[s][r], k)) <=>
               (Made(s, r, k) /\ ~Coming(chan[s][r], k))
    BY <1>2, <1>4, <1>5
  <2> QED BY <2>1 DEF Heard
<1> QED BY <1>2, <1>3, <1>4, <1>5, <1>6, <1>7

LEMMA NumbersNextRequest ==
  ASSUME ChatTypeOK, ChatTypeOK', NumbersOK, NEW m \in Member, NEW n \in Member,
         NEW l \in Nat, NEW g \in Nat, NextRequest(m, n, l, g),
         chan[m][n][1].tag = "S2_", chan[m][n][1].l = l, l = Passed(n, m) + 1, l <= localSeq[m],
         UNCHANGED <<localSeq, chatMsg, seqBuffer, sent, typedAfter, budget>>
  PROVE  NumbersOK'
<1>1. /\ QueueAt(n, m, l) /\ OtherQueues(n, m)
      /\ g = generatedGlobalSeq[n] + 1 /\ generatedGlobalSeq'[n] = g
      /\ \A k \in Member \ {n} : generatedGlobalSeq'[k] = generatedGlobalSeq[k]
      /\ HandledFacts(m, n, [r \in Member |-> IF r = m THEN <<S2A(g, l)>> ELSE <<>>])
  BY DEF NextRequest
<1>2. /\ \A s, r, k, h : Proposed(s, r, k, h)' <=>
               (Proposed(s, r, k, h) \/ (s = n /\ r = m /\ k = l /\ h = g))
      /\ \A s, r, k : Made(s, r, k)' <=> (Made(s, r, k) \/ (s = n /\ r = m /\ k = l))
      /\ \A s, r \in Member : AnswersIn(chan'[s][r], s, r, proposed')
      /\ \A r \in Member : \A k : Heard(r, k)' = Heard(r, k)
      /\ n \notin Heard(m, l) /\ ~Made(n, m, l)
  BY ProposalJoins
<1>3. RequestsInv'
  <2>1. PICK out : out = [r \in Member |-> IF r = m THEN <<S2A(g, l)>> ELSE <<>>]
    OBVIOUS
  <2>2. \A r \in Member : NoRequest(out[r])
    BY <2>1 DEF NoRequest, S2A
  <2>3. HandledFacts(m, n, out) /\ RequestsInv
    BY <1>1, <2>1 DEF NumbersOK
  <2> QED BY <1>1, <2>2, <2>3, RequestsFollow
<1>4. /\ Passed(n, m)' = l
      /\ \A s, r \in Member : ~(s = n /\ r = m) => Passed(s, r)' = Passed(s, r)
  BY <1>1 DEF QueueAt, OtherQueues
<1>5. /\ \A s \in Member : generatedGlobalSeq[s] \in Nat /\ generatedGlobalSeq'[s] \in Nat
                           /\ generatedGlobalSeq[s] <= generatedGlobalSeq'[s]
      /\ \A s, r \in Member : Passed(s, r) \in Nat /\ Base(r) \in Nat
  <2>1. \A s \in Member : generatedGlobalSeq[s] \in Nat
    BY DEF ChatTypeOK, ProposalOK
  <2>2. \A s \in Member : generatedGlobalSeq'[s] \in Nat
                         /\ generatedGlobalSeq[s] <= generatedGlobalSeq'[s]
    <3> TAKE s \in Member
    <3>1. CASE s = n
      BY <1>1, <2>1, <3>1
    <3>2. CASE s # n
      BY <1>1, <2>1, <3>2
    <3> QED BY <3>1, <3>2
  <2>3. \A s, r \in Member : Passed(s, r) \in Nat /\ Base(r) \in Nat
    BY QueueFacts DEF ChatTypeOK
  <2> QED BY <2>1, <2>2, <2>3
<1>6. ASSUME NEW s \in Member, NEW r \in Member PROVE ProposalsGrow(s, r)'
  <2>0. ProposalsGrow(s, r)
    BY DEF NumbersOK, ProposalsInv
  <2>1. PICK b \in Nat, p \in Nat, pp \in Nat, G \in Nat, GG \in Nat :
          /\ b = Base(r) /\ p = Passed(s, r) /\ pp = Passed(s, r)'
          /\ G = generatedGlobalSeq[s] /\ GG = generatedGlobalSeq'[s]
    <3>1. Passed(s, r)' \in Nat
      BY <1>4, <1>5
    <3> QED BY <1>5, <3>1
  <2>2. CASE s = n /\ r = m
    <3>1. pp = l /\ l = p + 1 /\ g = G + 1 /\ GG = g
      BY <1>1, <1>4, <2>1, <2>2
    <3>2. b <= p
      BY <2>1, <2>2 DEF NumbersOK, RequestsInv, RequestsComing
    <3>3. \A k, h \in Nat : Proposed(s, r, k, h) => b < k /\ k <= p /\ 0 < h /\ h <= G
      BY <2>0, <2>1 DEF ProposalsGrow
    <3>4. \A k, h \in Nat : Proposed(s, r, k, h)' => b < k /\ k <= pp /\ 0 < h /\ h <= GG
      BY <1>2, <3>1, <3>2, <3>3
    <3>5. \A k \in (b + 1)..pp : Made(s, r, k)'
      <4>1. \A k \in (b + 1)..p : Made(s, r, k)
        BY <2>0, <2>1 DEF ProposalsGrow
      <4>2. \A k \in (b + 1)..pp : k \in (b + 1)..p \/ k = l
        BY <3>1
      <4> QED BY <1>2, <2>2, <4>1, <4>2
    <3>6. ASSUME NEW j \in Nat, NEW k \in Nat, NEW h1 \in Nat, NEW h2 \in Nat,
                 Proposed(s, r, j, h1)', Proposed(s, r, k, h2)'
          PROVE  (j < k => h1 < h2) /\ (j = k => h1 = h2)
      <4>1. CASE Proposed(s, r, j, h1) /\ Proposed(s, r, k, h2)
        BY <2>0, <4>1 DEF ProposalsGrow
      <4>2. CASE Proposed(s, r, j, h1) /\ k = l /\ h2 = g
        <5>1. j <= p /\ h1 <= G
          BY <3>3, <4>2
        <5> QED BY <3>1, <4>2, <5>1
      <4>3. CASE j = l /\ h1 = g /\ Proposed(s, r, k, h2)
        <5>1. k <= p /\ h2 <= G
          BY <3>3, <4>3
        <5> QED BY <3>1, <4>3, <5>1
      <4>4. CASE j = l /\ h1 = g /\ k = l /\ h2 = g
        BY <4>4
      <4> QED BY <1>2, <3>6, <4>1, <4>2, <4>3, <4>4
    <3> QED BY <2>1, <3>4, <3>5, <3>6, Zenon DEF ProposalsGrow
  <2>3. CASE ~(s = n /\ r = m)
    <3>1. pp = p /\ G <= GG
      BY <1>4, <1>5, <2>1, <2>3
    <3>2. \A k, h : Proposed(s, r, k, h)' <=> Proposed(s, r, k, h)
      BY <1>2, <2>3
    <3>3. \A k : Made(s, r, k)' <=> Made(s, r, k)
      BY <1>2, <2>3
    <3>4. \A k, h \in Nat : Proposed(s, r, k, h)' => b < k /\ k <= pp /\ 0 < h /\ h <= GG
      <4>1. \A k, h \in Nat : Proposed(s, r, k, h) => b < k /\ k <= p /\ 0 < h /\ h <= G
        BY <2>0, <2>1 DEF ProposalsGrow
      <4> QED BY <3>1, <3>2, <4>1
    <3>5. \A k \in (b + 1)..pp : Made(s, r, k)'
      BY <2>0, <2>1, <3>1, <3>3 DEF ProposalsGrow
    <3>6. \A j, k, h1, h2 \in Nat : Proposed(s, r, j, h1)' /\ Proposed(s, r, k, h2)' =>
             (j < k => h1 < h2) /\ (j = k => h1 = h2)
      BY <2>0, <3>2 DEF ProposalsGrow
    <3> QED BY <2>1, <3>4, <3>5, <3>6, Zenon DEF ProposalsGrow
  <2> QED BY <2>2, <2>3
<1>7. ProposalsInv'
  BY <1>2, <1>6 DEF ProposalsInv
<1>8. CollectedInv'
  <2>1. ASSUME NEW r \in Member, NEW k \in DOMAIN seqBuffer[r] PROVE Collected(r, k)'
    <3>1. Collected(r, k) /\ Heard(r, k)' = Heard(r, k)
      BY <1>2 DEF NumbersOK, CollectedInv
    <3>2. \A s \in Heard(r, k) : ~(s = n /\ r = m /\ k = l)
      BY <1>2
    <3>3. PICK e, a : /\ e = seqBuffer[r][k].globalSeq /\ e = seqBuffer'[r][k].globalSeq
                      /\ a = seqBuffer[r][k].ackCount /\ a = seqBuffer'[r][k].ackCount
      OBVIOUS
    <3>4. \A s \in Heard(r, k)' : \A h \in Nat : Proposed(s, r, k, h)' => h <= e
      BY <1>2, <3>1, <3>2, <3>3 DEF Collected
    <3>5. e = 0 \/ \E s \in Member : Proposed(s, r, k, e)'
      BY <1>2, <3>1, <3>3 DEF Collected
    <3>6. a = Cardinality(Heard(r, k)')
      BY <3>1, <3>3 DEF Collected
    <3> QED BY <3>3, <3>4, <3>5, <3>6, Zenon DEF Collected
  <2> QED BY <2>1 DEF CollectedInv
<1>9. SentInv'
  <2>1. ASSUME NEW r \in Member, NEW k \in Nat, NEW h \in Nat, <<<<r, k>>, h>> \in sent'
        PROVE  SentByAll(r, k, h)'
    <3>1. SentByAll(r, k, h)
      BY <2>1 DEF NumbersOK, SentInv
    <3>2. ~(r = m /\ k = l)
      BY <1>2, <3>1 DEF SentByAll
    <3>3. \A s, q : Proposed(s, r, k, q)' <=> Proposed(s, r, k, q)
      BY <1>2, <3>2
    <3>4. \A s : Made(s, r, k)' <=> Made(s, r, k)
      BY <1>2, <3>2
    <3> QED BY <3>1, <3>3, <3>4 DEF SentByAll
  <2> QED BY <2>1 DEF SentInv
<1>10. LaterInv'
  <2>1. ASSUME NEW r \in Member, NEW k \in (Base(r) + 1)..localSeq[r], TypedLater(r, k)
        PROVE  TypedLater(r, k)'
    <3>1. PICK t \in Nat : t = typedAfter[<<r, k>>]
      BY <2>1 DEF TypedLater, ChatTypeOK, RunOK
    <3>2. typedAfter' = typedAfter /\ <<r, k>> \in DOMAIN typedAfter
      BY <2>1 DEF TypedLater
    <3>3. PICK s \in Member : \/ Passed(s, r) < k /\ t <= generatedGlobalSeq[s]
                              \/ \E h \in Nat : Proposed(s, r, k, h) /\ t < h
      BY <2>1, <3>1 DEF TypedLater
    <3>0. k \in Nat
      BY <1>5, <2>1
    <3>4. \/ Passed(s, r)' < k /\ t <= generatedGlobalSeq'[s]
          \/ \E h \in Nat : Proposed(s, r, k, h)' /\ t < h
      <4>1. CASE \E h \in Nat : Proposed(s, r, k, h) /\ t < h
        BY <1>2, <4>1
      <4>2. CASE Passed(s, r) < k /\ t <= generatedGlobalSeq[s]
        <5>1. t <= generatedGlobalSeq'[s]
          BY <1>5, <4>2
        <5>2. CASE s = n /\ r = m /\ k = l
          <6>1. Proposed(s, r, k, g)' /\ t < g
            BY <1>1, <1>2, <1>5, <4>2, <5>2
          <6> QED BY <6>1
        <5>3. CASE s = n /\ r = m /\ k # l
          <6>1. l < k
            BY <1>5, <3>0, <4>2, <5>3
          <6> QED BY <1>4, <5>1, <5>3, <6>1
        <5>4. CASE ~(s = n /\ r = m)
          BY <1>4, <4>2, <5>1, <5>4
        <5> QED BY <5>2, <5>3, <5>4
      <4> QED BY <3>3, <4>1, <4>2
    <3> QED BY <3>1, <3>2, <3>4 DEF TypedLater
  <2>2. localSeq' = localSeq /\ budget' = budget /\ typedAfter' = typedAfter
    OBVIOUS
  <2> QED BY <2>1, <2>2 DEF NumbersOK, LaterInv
<1> QED BY <1>3, <1>7, <1>8, <1>9, <1>10 DEF NumbersOK
-----------------------------------------------------------------------------
\* The numbers of the lines, as long as no packet is lost.

LEMMA NumbersRequest ==
  ASSUME ChatTypeOK, NumbersOK, NEW m \in Member, NEW n \in Member, ReceiveS2_(m, n)
  PROVE  NumbersOK'
<1>1. /\ Base(m) < chan[m][n][1].l /\ chan[m][n][1].l <= Passed(n, m) + 1
      /\ chan[m][n][1].l <= localSeq[m] /\ \A x \in MsgsOf(n, m) : x <= Passed(n, m)
  BY RequestAtHead DEF NumbersOK, ReceiveS2_
<1>2. /\ ChatTypeOK' /\ UNCHANGED <<requestVars, sendVars, displayVars, runVars>>
      /\ chan[m][n] # <<>> /\ chan[m][n][1].tag = "S2_" /\ chan[m][n][1].l \in Nat
      /\ \/ chan[m][n][1].l <= Passed(n, m) /\ OldRequest(m, n)
         \/ /\ chan[m][n][1].l = Passed(n, m) + 1
            /\ \E g \in Nat : NextRequest(m, n, chan[m][n][1].l, g)
  BY <1>1, RequestTaken
<1>3. UNCHANGED <<localSeq, chatMsg, seqBuffer, sent, typedAfter, budget>>
  BY <1>2 DEF requestVars, sendVars, runVars
<1>4. ASSUME chan[m][n][1].l <= Passed(n, m), OldRequest(m, n) PROVE NumbersOK'
  BY <1>2, <1>3, <1>4, NumbersOldRequest
<1>5. ASSUME chan[m][n][1].l = Passed(n, m) + 1,
             NEW g \in Nat, NextRequest(m, n, chan[m][n][1].l, g)
      PROVE  NumbersOK'
  BY <1>1, <1>2, <1>3, <1>5, NumbersNextRequest
<1> QED BY <1>2, <1>4, <1>5

LEMMA NumbersStart == DecentralInit => NumbersOK
<1> SUFFICES ASSUME DecentralInit PROVE NumbersOK
  OBVIOUS
<1>1. \A m \in Member : localSeq[m] = Base(m) /\ Base(m) \in Nat
  BY DEF DecentralInit, Base
<1>2. \A n, m \in Member : Passed(n, m) = Base(m) /\ MsgsOf(n, m) = {}
  BY DEF DecentralInit, Passed, MsgsOf, Empty
<1>3. \A n, m \in Member : Len(chan[n][m]) = 0
  BY DEF DecentralInit
<1>4. RequestsInv
  <2>1. \A m, n \in Member : RequestsIn(chan[m][n], Base(m), Base(m), Base(m))
    BY <1>1, <1>3 DEF RequestsIn
  <2>2. \A m \in Member : DOMAIN seqBuffer[m] = {}
    BY DEF DecentralInit, Empty
  <2> QED BY <1>1, <1>2, <2>1, <2>2 DEF RequestsInv, RequestsOf, RequestsComing
<1>5. ProposalsInv
  <2>1. \A n, m \in Member : AnswersIn(chan[n][m], n, m, proposed)
    BY <1>3 DEF AnswersIn
  <2>2. \A n, m \in Member : ProposalsGrow(n, m)
    BY <1>1, <1>2 DEF ProposalsGrow, Proposed, DecentralInit
  <2> QED BY <2>1, <2>2 DEF ProposalsInv
<1>6. CollectedInv
  BY DEF CollectedInv, DecentralInit, Empty
<1>7. SentInv
  BY DEF SentInv, DecentralInit
<1>8. LaterInv
  BY <1>1 DEF LaterInv, DecentralInit, Empty
<1> QED BY <1>4, <1>5, <1>6, <1>7, <1>8 DEF NumbersOK

\* No packet about a missing request, as none is missing.
LEMMA NoneAskedAgain ==
  ASSUME ChatTypeOK, RequestsInv, NEW m \in Member, NEW n \in Member, NEW tag \in {"S4_", "S4A"}
  PROVE  ~Got(m, n, tag)
<1> SUFFICES ASSUME Got(m, n, tag) PROVE FALSE
  OBVIOUS
<1>1. 1 \in 1..Len(chan[m][n]) /\ chan[m][n][1].tag = tag
  BY GotFirst DEF ChatTypeOK
<1>2. \A i \in 1..Len(chan[m][n]) : chan[m][n][i].tag # "S4_" /\ chan[m][n][i].tag # "S4A"
  BY RequestsUse DEF RequestsInv, RequestsComing
<1> QED BY <1>1, <1>2

DecentralInv == ChatTypeOK /\ NumbersInv

LEMMA DecentralStep ==
  ASSUME DecentralInv, [DecentralNext]_decentralVars
  PROVE  DecentralInv'
<1>0. ChatTypeOK /\ NumbersInv
  BY DEF DecentralInv
<1>p. ASSUME ChatTypeOK', PlainStep PROVE DecentralInv'
  BY <1>0, <1>p, NumbersPlain DEF DecentralInv, NumbersInv, PlainStep
<1>r. ASSUME UNCHANGED runVars, ChatTypeOK', NumbersOK => NumbersOK' PROVE DecentralInv'
  BY <1>0, <1>r DEF DecentralInv, NumbersInv, runVars
<1>1. ASSUME NEW m \in Member, NEW n \in Member, Handle(m, n) PROVE DecentralInv'
  <2>1. CASE ReceiveS2_(m, n)
    BY <1>0, <1>r, <2>1, RequestEffect, NumbersRequest DEF ReceiveS2_
  <2>2. CASE ReceiveS2A(m, n)
    BY <1>0, <1>r, <2>2, AnswerEffect, NumbersAnswer DEF ReceiveS2A
  <2>3. CASE ReceiveC0_(m, n)
    BY <1>0, <1>p, <2>3, PlainC0_
  <2>4. CASE ReceiveS3_(m, n)
    BY <1>0, <1>p, <2>4, PlainS3_
  <2>5. CASE ReceiveS3A(m, n)
    BY <1>0, <1>p, <2>5, PlainS3A
  <2>6. CASE ReceiveS3N(m, n)
    BY <1>0, <1>p, <2>6, PlainS3N
  <2>7. CASE ReceiveS4_(m, n)
    BY <1>0, <1>r, <2>7, TypeS4_, NoneAskedAgain DEF ReceiveS4_, NumbersOK
  <2>8. CASE ReceiveS4A(m, n)
    BY <1>0, <1>r, <2>8, TypeS4A, NoneAskedAgain DEF ReceiveS4A, NumbersOK
  <2> QED BY <1>1, <2>1, <2>2, <2>3, <2>4, <2>5, <2>6, <2>7, <2>8 DEF Handle
<1>2. ASSUME NEW m \in Member, NEW n \in Member, Lose(m, n) PROVE DecentralInv'
  BY <1>0, <1>2, TypeLose DEF DecentralInv, NumbersInv
<1>3. ASSUME NEW m \in Member, Type(m) PROVE DecentralInv'
  BY <1>0, <1>3, TypeType, NumbersType DEF DecentralInv, NumbersInv
<1>4. ASSUME NEW m \in Member, NEW l \in DOMAIN seqBuffer[m], Resend(m, l) PROVE DecentralInv'
  <2>1. used'.losses = used.losses
    BY <1>0, <1>4, SpendOK DEF Resend, ChatTypeOK
  <2> QED BY <1>0, <1>4, <2>1, TypeResend, NumbersResend DEF DecentralInv, NumbersInv
<1>5. ASSUME NEW m \in Member, NEW l \in DOMAIN seqBuffer[m], GiveUp(m, l) PROVE DecentralInv'
  BY <1>0, <1>p, <1>5, TypeGiveUp, PlainGiveUp
<1>6. ASSUME NEW m \in Member, NEW k \in DOMAIN txBuffer[m], Retransmit(m, k) PROVE DecentralInv'
  BY <1>0, <1>p, <1>6, TypeRetransmit, PlainRetransmit
<1>7. ASSUME NEW m \in Member, NEW k \in DOMAIN txBuffer[m], TxExpire(m, k) PROVE DecentralInv'
  BY <1>0, <1>p, <1>7, TypeTxExpire, PlainTxExpire
<1>8. ASSUME NEW m \in Member, Timers(m) PROVE DecentralInv'
  BY <1>4, <1>5, <1>6, <1>7, <1>8 DEF Timers
<1>9. CASE UNCHANGED decentralVars
  <2>1. /\ UNCHANGED <<requestVars, proposalVars, sendVars, displayVars, chan, runVars>>
    BY <1>9 DEF decentralVars
  <2>2. ChatTypeOK'
    BY <1>0, <2>1, TypeSame DEF ChatTypeOK
  <2>3. PlainStep
    BY <1>0, <2>1, StillPlain, SameTried DEF PlainStep, requestVars, sendVars, runVars, ChatTypeOK
  <2> QED BY <1>p, <2>2, <2>3
<1> QED BY <1>1, <1>2, <1>3, <1>8, <1>9 DEF DecentralNext

LEMMA DecentralInvariant == DecentralSpec => []DecentralInv
<1>1. DecentralInit => DecentralInv
  BY TypeStart, NumbersStart DEF DecentralInv, NumbersInv
<1>2. DecentralInv /\ [DecentralNext]_decentralVars => DecentralInv'
  BY DecentralStep
<1> QED BY <1>1, <1>2, PTL DEF DecentralSpec

\* Every variable of the decentralised chat keeps its type.
THEOREM DecentralTypeCorrect == DecentralSpec => []ChatTypeOK
<1>1. DecentralInv => ChatTypeOK
  BY DEF DecentralInv
<1> QED BY <1>1, DecentralInvariant, PTL

\* Without losses the lines of a member carry numbers in the order in which it
\* has typed them (CHAT/extra: sequencer, sendSequenced and the S2A handler).
THEOREM LinesKeepTheirOrder == DecentralSpec => []SenderOrderKept
<1>1. DecentralInv => SenderOrderKept
  <2> SUFFICES ASSUME DecentralInv, used.losses = 0, NEW a \in sent, NEW b \in sent,
                      a[1][1] = b[1][1], a[1][2] < b[1][2]
               PROVE  a[2] < b[2]
    BY DEF SenderOrderKept
  <2>1. NumbersOK /\ ChatTypeOK
    BY DEF DecentralInv, NumbersInv
  <2>2. PICK m \in Member, j \in Nat, k \in Nat, g \in Nat, h \in Nat :
          a = <<<<m, j>>, g>> /\ b = <<<<m, k>>, h>>
    <3>1. a \in ChatLine \X Nat /\ b \in ChatLine \X Nat
      BY <2>1 DEF ChatTypeOK, SendOK
    <3> QED BY <3>1 DEF ChatLine
  <2>3. SentByAll(m, j, g) /\ SentByAll(m, k, h) /\ j < k
    BY <2>1, <2>2 DEF NumbersOK, SentInv
  <2>4. PICK n \in Member : Proposed(n, m, j, g)
    BY <2>3 DEF SentByAll
  <2>5. PICK q \in Nat : Proposed(n, m, k, q) /\ q <= h
    BY <2>3 DEF SentByAll, Made
  <2>6. g < q
    BY <2>1, <2>3, <2>4, <2>5 DEF NumbersOK, ProposalsInv, ProposalsGrow
  <2> QED BY <2>2, <2>5, <2>6
<1> QED BY <1>1, DecentralInvariant, PTL

\* Without losses a line is sent only when every member has proposed a number for
\* it, under the largest of them, which is above every number sent before the line
\* was typed (CHAT/extra: the S2A handler of identify).
THEOREM NumbersAgreed == DecentralSpec => []NumberAgreed
<1>1. DecentralInv => NumberAgreed
  <2> SUFFICES ASSUME DecentralInv, used.losses = 0, NEW s \in sent
               PROVE  LET asked == {q \in proposed : q[2] = s[1]}
                      IN /\ {q[1] : q \in asked} = Member /\ s[2] = Max({q[3] : q \in asked})
                         /\ (budget.losses = 0 => typedAfter[s[1]] < s[2])
    BY DEF NumberAgreed
  <2>1. NumbersOK /\ ChatTypeOK
    BY DEF DecentralInv, NumbersInv
  <2>2. PICK m \in Member, l \in Nat, g \in Nat : s = <<<<m, l>>, g>>
    <3>1. s \in ChatLine \X Nat
      BY <2>1 DEF ChatTypeOK, SendOK
    <3> QED BY <3>1 DEF ChatLine
  <2>3. SentByAll(m, l, g)
    BY <2>1, <2>2 DEF NumbersOK, SentInv
  <2>4. PICK asked : asked = {q \in proposed : q[2] = s[1]}
    OBVIOUS
  <2>5. ASSUME NEW q \in asked
        PROVE  q[1] \in Member /\ q[3] \in Nat /\ Proposed(q[1], m, l, q[3])
    <3>1. q \in proposed /\ q[2] = <<m, l>>
      BY <2>2, <2>4, <2>5
    <3>2. q \in Member \X ChatLine \X Nat
      BY <2>1, <3>1 DEF ChatTypeOK, ProposalOK
    <3>3. q = <<q[1], q[2], q[3]>> /\ q[1] \in Member /\ q[3] \in Nat
      BY <3>2
    <3> QED BY <3>1, <3>3 DEF Proposed
  <2>6. ASSUME NEW n \in Member, NEW h \in Nat, Proposed(n, m, l, h)
        PROVE  <<n, <<m, l>>, h>> \in asked
    BY <2>2, <2>4, <2>6 DEF Proposed
  <2>7. {q[1] : q \in asked} = Member
    <3>1. ASSUME NEW n \in Member PROVE n \in {q[1] : q \in asked}
      <4>1. PICK h \in Nat : Proposed(n, m, l, h)
        BY <2>3 DEF SentByAll, Made
      <4>2. <<n, <<m, l>>, h>> \in asked
        BY <2>6, <4>1
      <4> QED BY <4>2
    <3>2. {q[1] : q \in asked} \subseteq Member
      BY <2>5
    <3> QED BY <3>1, <3>2
  <2>8. g = Max({q[3] : q \in asked})
    <3>1. PICK S : S = {q[3] : q \in asked}
      OBVIOUS
    <3>2. S \subseteq Nat /\ \A x \in S : x <= g
      <4>1. \A q \in asked : q[3] \in Nat /\ q[3] <= g
        BY <2>3, <2>5 DEF SentByAll
      <4> QED BY <3>1, <4>1
    <3>3. g \in S
      <4>1. PICK n \in Member : Proposed(n, m, l, g)
        BY <2>3 DEF SentByAll
      <4>2. <<n, <<m, l>>, g>> \in asked
        BY <2>6, <4>1
      <4> QED BY <3>1, <4>2
    <3>4. Max(S) \in S /\ \A x \in S : x <= Max(S)
      BY <3>2, <3>3, LargestBelow
    <3> QED BY <3>1, <3>2, <3>3, <3>4
  <2>9. ASSUME budget.losses = 0 PROVE typedAfter[<<m, l>>] < g
    <3>1. PICK n \in Member, h \in Nat : Proposed(n, m, l, h)
      BY <2>3 DEF SentByAll
    <3>2. /\ Base(m) < l /\ l <= Passed(n, m) /\ Passed(n, m) <= localSeq[m]
      BY <2>1, <3>1 DEF NumbersOK, ProposalsInv, ProposalsGrow, RequestsInv, RequestsComing
    <3>3. l \in (Base(m) + 1)..localSeq[m]
      BY <2>1, <3>2, QueueFacts DEF ChatTypeOK, RequestOK
    <3>4. TypedLater(m, l)
      BY <2>1, <2>9, <3>3 DEF NumbersOK, LaterInv
    <3>5. PICK r \in Member :
            \/ Passed(r, m) < l /\ typedAfter[<<m, l>>] <= generatedGlobalSeq[r]
            \/ \E q \in Nat : Proposed(r, m, l, q) /\ typedAfter[<<m, l>>] < q
      BY <3>4 DEF TypedLater
    <3>6. ~(Passed(r, m) < l)
      <4>1. PICK q \in Nat : Proposed(r, m, l, q)
        BY <2>3 DEF SentByAll, Made
      <4>2. l <= Passed(r, m)
        BY <2>1, <4>1 DEF NumbersOK, ProposalsInv, ProposalsGrow
      <4> QED BY <2>1, <4>2, QueueFacts DEF ChatTypeOK
    <3>7. PICK q \in Nat : Proposed(r, m, l, q) /\ typedAfter[<<m, l>>] < q
      BY <3>5, <3>6
    <3>8. q <= g
      BY <2>3, <3>7 DEF SentByAll
    <3>9. typedAfter[<<m, l>>] \in Nat
      BY <2>1, <3>4 DEF TypedLater, ChatTypeOK, RunOK
    <3> QED BY <3>7, <3>8, <3>9
  <2> QED BY <2>2, <2>4, <2>7, <2>8, <2>9
<1> QED BY <1>1, DecentralInvariant, PTL
-----------------------------------------------------------------------------
\* One member talks, nothing is lost and no request repeated.

Alone(t) ==
  /\ budget.losses = 0 /\ budget.requests = 0
  /\ \A n \in Member \ {t} : budget.lines[n] = 0

\* A member's proposals start here; the number of line l of t, the packet with it.
Start(n) == IF n = Founder THEN Joins ELSE 0
NumberOf(t, l) == Joins + l - Base(t)
LineOf(t, l) == C0_(NumberOf(t, l), <<t, l>>)

OnlyTalker(t) ==
  /\ \A n \in Member \ {t} : localSeq[n] = Base(n)
  /\ \A n \in Member : \A l \in DOMAIN seqBuffer[n] : seqBuffer[n][l].tries = 0

TagsOf(c, withLines) ==
  \A i \in 1..Len(c) :
    c[i].tag \in {"S2_", "S2A"} \/ (withLines /\ c[i].tag \in {"C0_", "S3A"})
ChanTags(t) == \A m, n \in Member : TagsOf(chan[m][n], m = t)

\* The proposals of a member follow each other without a gap.
ProposalIs(n, t) ==
  /\ generatedGlobalSeq[n] = Start(n) + Passed(n, t) - Base(t)
  /\ \A l, g \in Nat : Proposed(n, t, l, g) => g = Start(n) + l - Base(t)

\* Answers arrive in the order of the lines.
AnswersOrdered(c) ==
  \A i, j \in 1..Len(c) :
    (c[i].tag = "S2A" /\ c[j].tag = "S2A" /\ i < j) => c[i].l < c[j].l
AnswersFollow(n, t) ==
  /\ AnswersOrdered(chan[n][t])
  /\ \A k, l \in Nat : (k < l /\ Coming(chan[n][t], k) /\ Made(n, t, l)) =>
       Coming(chan[n][t], l)

\* The lines up to top have been answered by all, and sent; the others have not.
AnsweredUpTo(t, top) ==
  /\ Base(t) <= top /\ top <= localSeq[t]
  /\ \A l \in (Base(t) + 1)..top : Heard(t, l) = Member
  /\ \A l \in (top + 1)..localSeq[t] : Heard(t, l) # Member /\ l \in DOMAIN seqBuffer[t]

\* The lines in a channel are t's from seen + 1 to top, in order.
LinesIn(c, t, seen, top) ==
  /\ \A i \in 1..Len(c) : c[i].tag = "C0_" => \E l \in (seen + 1)..top : c[i] = LineOf(t, l)
  /\ \A l \in (seen + 1)..top : \E i \in 1..Len(c) : c[i] = LineOf(t, l)
  /\ \A i, j \in 1..Len(c) : (c[i].tag = "C0_" /\ c[j].tag = "C0_" /\ i < j) =>
       c[i].line[2] < c[j].line[2]

\* n has displayed the lines up to seen.
Displays(n, t, seen) ==
  /\ globalSeq[n] = IF seen = Base(t) THEN 0 ELSE NumberOf(t, seen)
  /\ DOMAIN holdBackQ[n] = (Joins + 1)..NumberOf(t, seen)
  /\ Len(shown[n]) = seen - Base(t)
  /\ \A i \in 1..Len(shown[n]) : shown[n][i] = <<Joins + i, <<t, Base(t) + i>>>>
Seen(t, n, top) ==
  \E seen \in Base(t)..top : LinesIn(chan[t][n], t, seen, top) /\ Displays(n, t, seen)

\* The lines kept for repetition, and those sent, are t's up to top.
KeptUpTo(t, top) ==
  /\ \A n \in Member : \A k \in DOMAIN txBuffer[n] :
       /\ n = t /\ txBuffer[n][k].l \in (Base(t) + 1)..top
       /\ txBuffer[n][k].num = NumberOf(t, txBuffer[n][k].l)
  /\ \A s \in sent : s[1][1] = t => s[1][2] <= top

\* A repetition comes after the line it repeats.
IsRepeat(p, t, top) ==
  \E l \in (Base(t) + 1)..top : p.line = <<t, l>> /\ p.num = NumberOf(t, l)
RepeatsIn(c, t, top) ==
  /\ \A i \in 1..Len(c) : c[i].tag = "S3A" => IsRepeat(c[i], t, top)
  /\ \A i, j \in 1..Len(c) : (c[i].tag = "S3A" /\ c[j].tag = "C0_" /\ i < j) =>
       c[i].line[2] < c[j].line[2]
Repeats(t, n, top) == RepeatsIn(chan[t][n], t, top)

AloneAt(t, top) ==
  /\ OnlyTalker(t) /\ ChanTags(t)
  /\ \A n \in Member : ProposalIs(n, t) /\ AnswersFollow(n, t)
  /\ AnsweredUpTo(t, top) /\ KeptUpTo(t, top)
  /\ \A n \in Member : Seen(t, n, top) /\ Repeats(t, n, top)

LEMMA LineOfIs ==
  \A t, l : /\ LineOf(t, l).tag = "C0_" /\ LineOf(t, l).g = NumberOf(t, l)
            /\ LineOf(t, l).line = <<t, l>> /\ LineOf(t, l).line[2] = l
BY DEF LineOf, C0_

LEMMA LinesUse ==
  ASSUME NEW t, NEW seen, NEW top, NEW c, LinesIn(c, t, seen, top)
  PROVE  /\ \A i \in 1..Len(c) : c[i].tag = "C0_" => \E l \in (seen + 1)..top : c[i] = LineOf(t, l)
         /\ \A l \in (seen + 1)..top : \E i \in 1..Len(c) : c[i] = LineOf(t, l)
         /\ \A i, j \in 1..Len(c) : (c[i].tag = "C0_" /\ c[j].tag = "C0_" /\ i < j) =>
              c[i].line[2] < c[j].line[2]
BY Zenon DEF LinesIn

NoLine(put) == \A i \in 1..Len(put) : put[i].tag # "C0_"
Lineless(c, d) ==
  \E off, put : Shift(c, d, off, put) /\ NoLine(put) /\ (off = 1 => c[1].tag # "C0_")

LEMMA LinesKeep ==
  ASSUME NEW t, NEW seen \in Nat, NEW top \in Nat, NEW c, NEW d,
         LinesIn(c, t, seen, top), Lineless(c, d)
  PROVE  LinesIn(d, t, seen, top)
<1>a. PICK off, put : Shift(c, d, off, put) /\ NoLine(put) /\ (off = 1 => c[1].tag # "C0_")
  BY DEF Lineless
<1>0. Len(c) \in Nat /\ Len(d) \in Nat /\ off \in {0, 1} /\ off <= Len(c)
  BY <1>a DEF Shift
<1>s. /\ \A i \in 1..Len(d) :
           \/ (i + off \in 1..Len(c) /\ d[i] = c[i + off])
           \/ (i > Len(c) - off /\ i - (Len(c) - off) \in 1..Len(put)
               /\ d[i] = put[i - (Len(c) - off)])
      /\ \A i \in 1..Len(c) : i > off => (i - off \in 1..Len(d) /\ d[i - off] = c[i])
  BY <1>a, ShiftUse DEF Moved
<1>p. \A i \in 1..Len(d) : d[i].tag = "C0_" => (i + off \in 1..Len(c) /\ d[i] = c[i + off])
  BY <1>s, <1>a DEF NoLine
<1>u. /\ \A i \in 1..Len(c) : c[i].tag = "C0_" => \E l \in (seen + 1)..top : c[i] = LineOf(t, l)
      /\ \A l \in (seen + 1)..top : \E i \in 1..Len(c) : c[i] = LineOf(t, l)
      /\ \A i, j \in 1..Len(c) : (c[i].tag = "C0_" /\ c[j].tag = "C0_" /\ i < j) =>
           c[i].line[2] < c[j].line[2]
  BY LinesUse
<1>1. \A i \in 1..Len(d) : d[i].tag = "C0_" => \E l \in (seen + 1)..top : d[i] = LineOf(t, l)
  BY <1>p, <1>u
<1>2. ASSUME NEW l \in (seen + 1)..top
      PROVE  \E i \in 1..Len(d) : d[i] = LineOf(t, l)
  <2>1. PICK i \in 1..Len(c) : c[i] = LineOf(t, l)
    BY <1>u
  <2>2. c[i].tag = "C0_"
    BY <2>1, LineOfIs
  <2>3. i > off
    BY <1>0, <1>a, <2>2
  <2> QED BY <1>s, <2>1, <2>3
<1>3. ASSUME NEW i \in 1..Len(d), NEW j \in 1..Len(d), d[i].tag = "C0_", d[j].tag = "C0_", i < j
      PROVE  d[i].line[2] < d[j].line[2]
  <2>1. /\ i + off \in 1..Len(c) /\ d[i] = c[i + off]
        /\ j + off \in 1..Len(c) /\ d[j] = c[j + off] /\ i + off < j + off
    BY <1>0, <1>p, <1>3
  <2>2. c[i + off].tag = "C0_" /\ c[j + off].tag = "C0_"
    BY <1>3, <2>1
  <2>3. c[i + off].line[2] < c[j + off].line[2]
    BY <1>u, <2>1, <2>2
  <2> QED BY <2>1, <2>3
<1> QED BY <1>1, <1>2, <1>3 DEF LinesIn

\* The first line in a channel is the next one.
LEMMA LinesFirst ==
  ASSUME NEW t, NEW seen \in Nat, NEW top \in Nat, NEW c, LinesIn(c, t, seen, top),
         1 \in 1..Len(c), c[1].tag = "C0_"
  PROVE  seen + 1 <= top /\ c[1] = LineOf(t, seen + 1)
<1>u. /\ \A i \in 1..Len(c) : c[i].tag = "C0_" => \E l \in (seen + 1)..top : c[i] = LineOf(t, l)
      /\ \A l \in (seen + 1)..top : \E i \in 1..Len(c) : c[i] = LineOf(t, l)
      /\ \A i, j \in 1..Len(c) : (c[i].tag = "C0_" /\ c[j].tag = "C0_" /\ i < j) =>
           c[i].line[2] < c[j].line[2]
  BY LinesUse
<1>1. PICK l \in (seen + 1)..top : c[1] = LineOf(t, l)
  BY <1>u
<1>2. PICK i \in 1..Len(c) : c[i] = LineOf(t, seen + 1)
  <2>1. seen + 1 \in (seen + 1)..top
    BY <1>1
  <2> QED BY <1>u, <2>1
<1>3. i = 1
  <2> SUFFICES ASSUME 1 < i PROVE FALSE
    BY <1>2
  <2>0. c[i].tag = "C0_"
    BY <1>2, LineOfIs
  <2>1. c[1].line[2] < c[i].line[2]
    BY <1>u, <2>0
  <2>2. c[1].line[2] = l /\ c[i].line[2] = seen + 1
    BY <1>1, <1>2, LineOfIs
  <2> QED BY <2>1, <2>2
<1> QED BY <1>1, <1>2, <1>3

\* The first line is taken.
LEMMA LinesTake ==
  ASSUME NEW t, NEW seen \in Nat, NEW top \in Nat, NEW c, NEW d, NEW off, NEW put,
         LinesIn(c, t, seen, top), Shift(c, d, off, put), NoLine(put),
         off = 1, c[1].tag = "C0_", 1 \in 1..Len(c)
  PROVE  LinesIn(d, t, seen + 1, top)
<1>0. Len(c) \in Nat /\ Len(d) \in Nat /\ off \in {0, 1} /\ off <= Len(c)
  BY DEF Shift
<1>s. /\ \A i \in 1..Len(d) :
           \/ (i + off \in 1..Len(c) /\ d[i] = c[i + off])
           \/ (i > Len(c) - off /\ i - (Len(c) - off) \in 1..Len(put)
               /\ d[i] = put[i - (Len(c) - off)])
      /\ \A i \in 1..Len(c) : i > off => (i - off \in 1..Len(d) /\ d[i - off] = c[i])
  <2>1. Moved(c, d, off, put)
    BY Zenon, ShiftUse
  <2> QED BY Zenon, <2>1 DEF Moved
<1>p. \A i \in 1..Len(d) : d[i].tag = "C0_" => (i + off \in 1..Len(c) /\ d[i] = c[i + off])
  BY <1>s DEF NoLine
<1>u. /\ \A i \in 1..Len(c) : c[i].tag = "C0_" => \E l \in (seen + 1)..top : c[i] = LineOf(t, l)
      /\ \A l \in (seen + 1)..top : \E i \in 1..Len(c) : c[i] = LineOf(t, l)
      /\ \A i, j \in 1..Len(c) : (c[i].tag = "C0_" /\ c[j].tag = "C0_" /\ i < j) =>
           c[i].line[2] < c[j].line[2]
  BY LinesUse
<1>h. c[1] = LineOf(t, seen + 1) /\ c[1].line[2] = seen + 1
  <2>1. c[1] = LineOf(t, seen + 1)
    BY Zenon, LinesFirst
  <2> QED BY <2>1, LineOfIs
<1>1. ASSUME NEW i \in 1..Len(d), d[i].tag = "C0_"
      PROVE  \E l \in ((seen + 1) + 1)..top : d[i] = LineOf(t, l)
  <2>1. i + off \in 1..Len(c) /\ d[i] = c[i + off] /\ 1 < i + off
    BY <1>0, <1>p, <1>1
  <2>2. PICK l \in (seen + 1)..top : c[i + off] = LineOf(t, l)
    BY <1>u, <1>1, <2>1
  <2>3. c[i + off].tag = "C0_" /\ c[i + off].line[2] = l
    BY <2>2, LineOfIs
  <2>4. c[1].line[2] < c[i + off].line[2]
    BY <1>u, <2>1, <2>3
  <2>5. l \in ((seen + 1) + 1)..top
    BY <1>h, <2>2, <2>3, <2>4
  <2> QED BY <2>1, <2>2, <2>5
<1>2. ASSUME NEW l \in ((seen + 1) + 1)..top
      PROVE  \E i \in 1..Len(d) : d[i] = LineOf(t, l)
  <2>0. l \in (seen + 1)..top /\ l # seen + 1
    OBVIOUS
  <2>1. PICK i \in 1..Len(c) : c[i] = LineOf(t, l)
    BY <1>u, <2>0
  <2>2. c[i].line[2] = l
    BY <2>1, LineOfIs
  <2>3. i # 1
    BY <1>h, <2>0, <2>2
  <2>4. i > off
    BY <1>0, <2>3
  <2> QED BY <1>s, <2>1, <2>4
<1>3. ASSUME NEW i \in 1..Len(d), NEW j \in 1..Len(d), d[i].tag = "C0_", d[j].tag = "C0_", i < j
      PROVE  d[i].line[2] < d[j].line[2]
  <2>1. /\ i + off \in 1..Len(c) /\ d[i] = c[i + off]
        /\ j + off \in 1..Len(c) /\ d[j] = c[j + off] /\ i + off < j + off
    BY <1>0, <1>p, <1>3
  <2>2. c[i + off].tag = "C0_" /\ c[j + off].tag = "C0_"
    BY <1>3, <2>1
  <2>3. c[i + off].line[2] < c[j + off].line[2]
    BY <1>u, <2>1, <2>2
  <2> QED BY <2>1, <2>3
<1> QED BY <1>1, <1>2, <1>3 DEF LinesIn

\* The next line is put at the end.
LEMMA LinesAdd ==
  ASSUME NEW t, NEW seen \in Nat, NEW top \in Nat, seen <= top, NEW c, NEW d, NEW off, NEW put,
         LinesIn(c, t, seen, top), Shift(c, d, off, put), off = 1 => c[1].tag # "C0_",
         Len(put) = 1, put[1] = LineOf(t, top + 1)
  PROVE  LinesIn(d, t, seen, top + 1)
<1>0. /\ Len(c) \in Nat /\ Len(d) \in Nat /\ off \in {0, 1} /\ off <= Len(c)
      /\ Len(d) = Len(c) - off + Len(put)
  BY DEF Shift
<1>s. /\ \A i \in 1..Len(d) :
           \/ (i + off \in 1..Len(c) /\ d[i] = c[i + off])
           \/ (i > Len(c) - off /\ i - (Len(c) - off) \in 1..Len(put)
               /\ d[i] = put[i - (Len(c) - off)])
      /\ \A i \in 1..Len(c) : i > off => (i - off \in 1..Len(d) /\ d[i - off] = c[i])
      /\ \A i \in 1..Len(put) :
           Len(c) - off + i \in 1..Len(d) /\ d[Len(c) - off + i] = put[i]
  <2>1. Moved(c, d, off, put)
    BY Zenon, ShiftUse
  <2> QED BY Zenon, <2>1 DEF Moved
<1>k. PICK k : k = Len(c) - off + 1
  OBVIOUS
<1>e. k \in 1..Len(d) /\ d[k] = LineOf(t, top + 1) /\ k = Len(d)
  <2>1. 1 \in 1..Len(put)
    OBVIOUS
  <2>2. Len(c) - off + 1 \in 1..Len(d) /\ d[Len(c) - off + 1] = put[1]
    BY <1>s, <2>1
  <2> QED BY <1>0, <1>k, <2>2
<1>p. \A i \in 1..Len(d) : i < k => (i + off \in 1..Len(c) /\ d[i] = c[i + off])
  BY <1>0, <1>k, <1>s
<1>u. /\ \A i \in 1..Len(c) : c[i].tag = "C0_" => \E l \in (seen + 1)..top : c[i] = LineOf(t, l)
      /\ \A l \in (seen + 1)..top : \E i \in 1..Len(c) : c[i] = LineOf(t, l)
      /\ \A i, j \in 1..Len(c) : (c[i].tag = "C0_" /\ c[j].tag = "C0_" /\ i < j) =>
           c[i].line[2] < c[j].line[2]
  BY LinesUse
<1>1. ASSUME NEW i \in 1..Len(d), d[i].tag = "C0_"
      PROVE  \E l \in (seen + 1)..(top + 1) : d[i] = LineOf(t, l)
  <2>1. CASE i < k
    <3>1. i + off \in 1..Len(c) /\ d[i] = c[i + off]
      BY <1>p, <2>1
    <3>2. PICK l \in (seen + 1)..top : c[i + off] = LineOf(t, l)
      BY <1>u, <1>1, <3>1
    <3>3. l \in (seen + 1)..(top + 1)
      OBVIOUS
    <3> QED BY <3>1, <3>2, <3>3
  <2>2. CASE ~(i < k)
    <3>1. i = k
      BY <1>0, <1>e, <2>2
    <3>2. top + 1 \in (seen + 1)..(top + 1)
      OBVIOUS
    <3> QED BY <1>e, <3>1, <3>2
  <2> QED BY <2>1, <2>2
<1>2. ASSUME NEW l \in (seen + 1)..(top + 1)
      PROVE  \E i \in 1..Len(d) : d[i] = LineOf(t, l)
  <2>1. CASE l = top + 1
    BY <1>e, <2>1
  <2>2. CASE l # top + 1
    <3>1. l \in (seen + 1)..top
      BY <2>2
    <3>2. PICK i \in 1..Len(c) : c[i] = LineOf(t, l)
      BY <1>u, <3>1
    <3>3. c[i].tag = "C0_"
      BY <3>2, LineOfIs
    <3>4. i > off
      BY <1>0, <3>3
    <3> QED BY <1>s, <3>2, <3>4
  <2> QED BY <2>1, <2>2
<1>3. ASSUME NEW i \in 1..Len(d), NEW j \in 1..Len(d), d[i].tag = "C0_", d[j].tag = "C0_", i < j
      PROVE  d[i].line[2] < d[j].line[2]
  <2>1. i < k
    BY <1>0, <1>e, <1>3
  <2>2. i + off \in 1..Len(c) /\ d[i] = c[i + off] /\ c[i + off].tag = "C0_"
    BY <1>p, <1>3, <2>1
  <2>3. CASE j < k
    <3>1. j + off \in 1..Len(c) /\ d[j] = c[j + off] /\ c[j + off].tag = "C0_" /\ i + off < j + off
      BY <1>0, <1>p, <1>3, <2>3
    <3>2. c[i + off].line[2] < c[j + off].line[2]
      BY <1>u, <2>2, <3>1
    <3> QED BY <2>2, <3>1, <3>2
  <2>4. CASE ~(j < k)
    <3>1. j = k
      BY <1>0, <1>e, <2>4
    <3>2. PICK l \in (seen + 1)..top : c[i + off] = LineOf(t, l)
      BY <1>u, <2>2
    <3>3. d[i].line[2] = l
      BY <2>2, <3>2, LineOfIs
    <3>4. d[j].line[2] = top + 1
      BY <1>e, <3>1, LineOfIs
    <3> QED BY <3>3, <3>4
  <2> QED BY <2>3, <2>4
<1> QED BY <1>1, <1>2, <1>3 DEF LinesIn

\* What is put into a channel is behind the lines up to top.
Behind(put, t, top) ==
  \A i \in 1..Len(put) :
    /\ put[i].tag = "S3A" => IsRepeat(put[i], t, top)
    /\ put[i].tag = "C0_" => put[i].line[2] \in Nat /\ top < put[i].line[2]

LEMMA RepeatsKeep ==
  ASSUME NEW t \in Member, NEW top \in Nat, NEW next \in Nat, top <= next, NEW c, NEW d,
         NEW off, NEW put, RepeatsIn(c, t, top), Shift(c, d, off, put), Behind(put, t, top)
  PROVE  RepeatsIn(d, t, next)
<1>0. Len(c) \in Nat /\ Len(d) \in Nat /\ off \in {0, 1} /\ off <= Len(c) /\ Base(t) \in Nat
  BY DEF Shift, Base
<1>s. \A i \in 1..Len(d) :
        \/ (i + off \in 1..Len(c) /\ d[i] = c[i + off])
        \/ (i > Len(c) - off /\ i - (Len(c) - off) \in 1..Len(put)
            /\ d[i] = put[i - (Len(c) - off)])
  BY ShiftUse DEF Moved
<1>1. ASSUME NEW i \in 1..Len(d), d[i].tag = "S3A" PROVE IsRepeat(d[i], t, top)
  <2>1. CASE i + off \in 1..Len(c) /\ d[i] = c[i + off]
    BY <1>1, <2>1 DEF RepeatsIn
  <2>2. CASE i - (Len(c) - off) \in 1..Len(put) /\ d[i] = put[i - (Len(c) - off)]
    BY <1>1, <2>2 DEF Behind
  <2> QED BY <1>s, <2>1, <2>2
<1>2. ASSUME NEW i \in 1..Len(d), NEW j \in 1..Len(d), d[i].tag = "S3A", d[j].tag = "C0_", i < j
      PROVE  d[i].line[2] < d[j].line[2]
  <2>1. PICK l \in (Base(t) + 1)..top : d[i].line = <<t, l>>
    BY <1>1, <1>2 DEF IsRepeat
  <2>2. d[i].line[2] = l
    BY <2>1
  <2>3. CASE j - (Len(c) - off) \in 1..Len(put) /\ d[j] = put[j - (Len(c) - off)]
    <3>1. PICK k \in Nat : k = d[j].line[2] /\ top < k
      BY <1>2, <2>3 DEF Behind
    <3>2. l \in Nat /\ l <= top
      BY <1>0, <2>1
    <3>3. l < k
      BY <3>1, <3>2
    <3> QED BY <2>2, <3>1, <3>3
  <2>4. CASE j + off \in 1..Len(c) /\ d[j] = c[j + off]
    <3>1. i + off \in 1..Len(c) /\ d[i] = c[i + off] /\ i + off < j + off
      BY <1>0, <1>s, <1>2, <2>4
    <3>2. c[i + off].line[2] < c[j + off].line[2]
      BY <1>2, <2>4, <3>1 DEF RepeatsIn
    <3> QED BY <2>4, <3>1, <3>2
  <2> QED BY <1>s, <2>3, <2>4
<1>3. \A i \in 1..Len(d) : d[i].tag = "S3A" => IsRepeat(d[i], t, next)
  <2> SUFFICES ASSUME NEW i \in 1..Len(d), d[i].tag = "S3A" PROVE IsRepeat(d[i], t, next)
    OBVIOUS
  <2>1. PICK l \in (Base(t) + 1)..top : d[i].line = <<t, l>> /\ d[i].num = NumberOf(t, l)
    BY <1>1 DEF IsRepeat
  <2>2. l \in (Base(t) + 1)..next
    BY <1>0
  <2> QED BY <2>1, <2>2 DEF IsRepeat
<1> QED BY <1>2, <1>3 DEF RepeatsIn

\* The line that the first packet repeats has been taken.
LEMMA RepeatFirst ==
  ASSUME NEW t \in Member, NEW seen \in Nat, NEW top \in Nat, NEW c, LinesIn(c, t, seen, top),
         RepeatsIn(c, t, top), 1 \in 1..Len(c), c[1].tag = "S3A"
  PROVE  IsRepeat(c[1], t, seen)
<1>1. PICK l \in (Base(t) + 1)..top : c[1].line = <<t, l>> /\ c[1].num = NumberOf(t, l)
  BY DEF RepeatsIn, IsRepeat
<1>2. Base(t) \in Nat /\ l \in Nat /\ c[1].line[2] = l
  BY <1>1 DEF Base
<1>3. ASSUME seen < l PROVE FALSE
  <2>1. l \in (seen + 1)..top
    BY <1>2, <1>3
  <2>2. PICK i \in 1..Len(c) : c[i] = LineOf(t, l)
    BY <2>1 DEF LinesIn
  <2>3. c[i].tag = "C0_" /\ c[i].line[2] = l
    BY <2>2, LineOfIs
  <2>4. 1 < i
    BY <2>3
  <2>5. c[1].line[2] < c[i].line[2]
    BY <2>3, <2>4 DEF RepeatsIn
  <2> QED BY <1>2, <2>3, <2>5
<1>4. l \in (Base(t) + 1)..seen
  BY <1>2, <1>3
<1> QED BY <1>1, <1>4 DEF IsRepeat

LEMMA OrderKeeps ==
  ASSUME NEW c, NEW d, NEW off, NEW put, AnswersOrdered(c), Shift(c, d, off, put), NoAnswer(put)
  PROVE  AnswersOrdered(d)
<1>0. Len(c) \in Nat /\ Len(d) \in Nat /\ off \in {0, 1}
  BY DEF Shift
<1>1. \A i \in 1..Len(d) : d[i].tag = "S2A" => (i + off \in 1..Len(c) /\ d[i] = c[i + off])
  BY ShiftUse DEF Moved, NoAnswer
<1>2. ASSUME NEW i \in 1..Len(d), NEW j \in 1..Len(d), d[i].tag = "S2A", d[j].tag = "S2A", i < j
      PROVE  d[i].l < d[j].l
  <2>1. /\ i + off \in 1..Len(c) /\ d[i] = c[i + off] /\ c[i + off].tag = "S2A"
        /\ j + off \in 1..Len(c) /\ d[j] = c[j + off] /\ c[j + off].tag = "S2A"
        /\ i + off < j + off
    BY <1>0, <1>1, <1>2
  <2>2. c[i + off].l < c[j + off].l
    BY <2>1 DEF AnswersOrdered
  <2> QED BY <2>1, <2>2
<1> QED BY <1>2 DEF AnswersOrdered

LEMMA OrderAdds ==
  ASSUME NEW c, NEW d, NEW off, NEW put, NEW p, AnswersOrdered(c), Shift(c, d, off, put),
         Len(put) = 1, put[1] = p, \A k : Coming(c, k) => k < p.l
  PROVE  AnswersOrdered(d)
<1>0. /\ Len(c) \in Nat /\ Len(d) \in Nat /\ off \in {0, 1} /\ off <= Len(c)
      /\ Len(d) = Len(c) - off + Len(put)
  BY DEF Shift
<1>s. /\ \A i \in 1..Len(d) :
           \/ (i + off \in 1..Len(c) /\ d[i] = c[i + off])
           \/ (i > Len(c) - off /\ i - (Len(c) - off) \in 1..Len(put)
               /\ d[i] = put[i - (Len(c) - off)])
      /\ \A i \in 1..Len(put) :
           Len(c) - off + i \in 1..Len(d) /\ d[Len(c) - off + i] = put[i]
  BY ShiftUse DEF Moved
<1>k. PICK k : k = Len(c) - off + 1
  OBVIOUS
<1>e. k \in 1..Len(d) /\ d[k] = p /\ k = Len(d)
  <2>1. 1 \in 1..Len(put)
    OBVIOUS
  <2>2. Len(c) - off + 1 \in 1..Len(d) /\ d[Len(c) - off + 1] = put[1]
    BY <1>s, <2>1
  <2> QED BY <1>0, <1>k, <2>2
<1>p. \A i \in 1..Len(d) : i < k => (i + off \in 1..Len(c) /\ d[i] = c[i + off])
  BY <1>0, <1>k, <1>s
<1>2. ASSUME NEW i \in 1..Len(d), NEW j \in 1..Len(d), d[i].tag = "S2A", d[j].tag = "S2A", i < j
      PROVE  d[i].l < d[j].l
  <2>1. i < k
    BY <1>0, <1>e, <1>2
  <2>2. i + off \in 1..Len(c) /\ d[i] = c[i + off] /\ c[i + off].tag = "S2A"
    BY <1>p, <1>2, <2>1
  <2>3. CASE j < k
    <3>1. j + off \in 1..Len(c) /\ d[j] = c[j + off] /\ c[j + off].tag = "S2A" /\ i + off < j + off
      BY <1>0, <1>p, <1>2, <2>3
    <3>2. c[i + off].l < c[j + off].l
      BY <2>2, <3>1 DEF AnswersOrdered
    <3> QED BY <2>2, <3>1, <3>2
  <2>4. CASE ~(j < k)
    <3>1. j = k
      BY <1>0, <1>e, <2>4
    <3>2. Coming(c, c[i + off].l)
      BY <2>2 DEF Coming, Answers
    <3> QED BY <1>e, <2>2, <3>1, <3>2
  <2> QED BY <2>3, <2>4
<1> QED BY <1>2 DEF AnswersOrdered

LEMMA TagsKeep ==
  ASSUME NEW c, NEW d, NEW off, NEW put, NEW withLines, TagsOf(c, withLines), Shift(c, d, off, put),
         TagsOf(put, withLines)
  PROVE  TagsOf(d, withLines)
BY ShiftUse DEF Moved, TagsOf

\* The answers on their way stay in order.
LEMMA FollowStays ==
  ASSUME NEW n \in Member, NEW t \in Member, AnswersFollow(n, t), UNCHANGED proposed,
         AnswersIn(chan[n][t], n, t, proposed), Answerless(chan[n][t], chan'[n][t])
  PROVE  AnswersFollow(n, t)'
<1>c. PICK c, d : c = chan[n][t] /\ d = chan'[n][t]
  OBVIOUS
<1>1. PICK off, put : Shift(c, d, off, put) /\ NoAnswer(put)
  BY <1>c DEF Answerless
<1>2. AnswersOrdered(d)
  BY <1>1, <1>c, OrderKeeps DEF AnswersFollow
<1>3. \A l : Coming(d, l) <=> Coming(c, l)
  BY <1>c, AnswerlessKeeps
<1>4. \A l : Made(n, t, l)' <=> Made(n, t, l)
  BY DEF Made, Proposed
<1>5. \A k, l \in Nat : (k < l /\ Coming(d, k) /\ Made(n, t, l)') => Coming(d, l)
  BY <1>3, <1>4, <1>c DEF AnswersFollow
<1> QED BY <1>2, <1>5, <1>c DEF AnswersFollow

LEMMA FollowTaken ==
  ASSUME NEW n \in Member, NEW t \in Member, AnswersFollow(n, t), UNCHANGED proposed,
         AnswersIn(chan[n][t], n, t, proposed), NEW off, NEW put, off = 1,
         Shift(chan[n][t], chan'[n][t], off, put), NoAnswer(put),
         1 \in 1..Len(chan[n][t]), chan[n][t][1].tag = "S2A", chan[n][t][1].l \in Nat
  PROVE  AnswersFollow(n, t)'
<1>c. PICK c, d : c = chan[n][t] /\ d = chan'[n][t]
  OBVIOUS
<1>1. Shift(c, d, off, put)
  BY Zenon, <1>c
<1>2. AnswersOrdered(c) /\ AnswersOrdered(d)
  BY <1>1, <1>c, OrderKeeps DEF AnswersFollow
<1>3. \A l : Coming(d, l) <=> Coming(c, l) /\ ~Answers(c[1], l)
  <2>1. AnswersIn(c, n, t, proposed) /\ proposed \subseteq proposed
    BY <1>c
  <2>2. \A l : Coming(d, l) <=> Coming(c, l) /\ ~(off = 1 /\ Answers(c[1], l))
    BY Zenon, <1>1, <2>1, AnswersTake
  <2> QED BY <2>2
<1>4. \A l : Made(n, t, l)' <=> Made(n, t, l)
  BY DEF Made, Proposed
<1>5. ASSUME NEW k \in Nat, NEW l \in Nat, k < l, Coming(d, k), Made(n, t, l)'
      PROVE  Coming(d, l)
  <2>1. Coming(c, k) /\ ~Answers(c[1], k)
    BY <1>3, <1>5
  <2>2. Coming(c, l)
    BY <1>4, <1>5, <1>c, <2>1 DEF AnswersFollow
  <2>3. PICK i \in 1..Len(c) : Answers(c[i], k)
    BY <2>1 DEF Coming
  <2>4. ASSUME Answers(c[1], l) PROVE FALSE
    <3>1. 1 < i /\ 1 \in 1..Len(c)
      BY <2>1, <2>3, <1>c
    <3>2. c[1].l < c[i].l
      BY <1>2, <2>3, <2>4, <3>1 DEF AnswersOrdered, Answers
    <3> QED BY <1>5, <2>3, <2>4, <3>2 DEF Answers
  <2> QED BY <1>3, <2>2, <2>4
<1> QED BY <1>2, <1>5, <1>c DEF AnswersFollow

\* The answer to the next line joins them.
LEMMA FollowJoins ==
  ASSUME NEW n \in Member, NEW t \in Member, AnswersFollow(n, t),
         AnswersIn(chan[n][t], n, t, proposed), NEW l \in Nat,
         \A k, g \in Nat : Proposed(n, t, k, g) => k < l,
         \A k : Coming(chan[n][t], k) => k \in Nat /\ Made(n, t, k),
         \A k : Made(n, t, k)' => (Made(n, t, k) \/ k = l),
         NEW off, NEW put, NEW p, Shift(chan[n][t], chan'[n][t], off, put),
         off = 1 => chan[n][t][1].tag # "S2A",
         Len(put) = 1, put[1] = p, p.tag = "S2A", p.l = l
  PROVE  AnswersFollow(n, t)'
<1>c. PICK c, d : c = chan[n][t] /\ d = chan'[n][t]
  OBVIOUS
<1>0. \A k : Coming(c, k) => k \in Nat /\ k < l /\ Made(n, t, k)
  BY <1>c DEF Made
<1>1. AnswersOrdered(d)
  BY <1>0, <1>c, OrderAdds DEF AnswersFollow
<1>s. /\ \A i \in 1..Len(d) :
           \/ (i + off \in 1..Len(c) /\ d[i] = c[i + off])
           \/ (i > Len(c) - off /\ i - (Len(c) - off) \in 1..Len(put)
               /\ d[i] = put[i - (Len(c) - off)])
      /\ \A i \in 1..Len(c) : i > off => (i - off \in 1..Len(d) /\ d[i - off] = c[i])
      /\ \A i \in 1..Len(put) :
           Len(c) - off + i \in 1..Len(d) /\ d[Len(c) - off + i] = put[i]
      /\ off \in {0, 1} /\ Len(c) \in Nat
  <2>1. Shift(c, d, off, put)
    BY Zenon, <1>c
  <2>2. Moved(c, d, off, put)
    BY Zenon, <2>1, ShiftUse
  <2>3. off \in {0, 1} /\ Len(c) \in Nat
    BY <2>1 DEF Shift
  <2> QED BY Zenon, <2>2, <2>3 DEF Moved
<1>2. \A k : Coming(d, k) => (Coming(c, k) \/ k = l)
  <2> SUFFICES ASSUME NEW k, Coming(d, k) PROVE Coming(c, k) \/ k = l
    OBVIOUS
  <2>1. PICK i \in 1..Len(d) : d[i].tag = "S2A" /\ d[i].l = k
    BY DEF Coming, Answers
  <2>2. CASE i + off \in 1..Len(c) /\ d[i] = c[i + off]
    BY <2>1, <2>2 DEF Coming, Answers
  <2>3. CASE i - (Len(c) - off) \in 1..Len(put) /\ d[i] = put[i - (Len(c) - off)]
    <3>1. i - (Len(c) - off) = 1
      BY <2>3
    <3> QED BY <2>1, <2>3, <3>1
  <2> QED BY <1>s, <2>2, <2>3
<1>3. \A k : Coming(c, k) => Coming(d, k)
  <2> SUFFICES ASSUME NEW k, Coming(c, k) PROVE Coming(d, k)
    OBVIOUS
  <2>1. PICK i \in 1..Len(c) : c[i].tag = "S2A" /\ c[i].l = k
    BY DEF Coming, Answers
  <2>2. i > off
    BY <1>c, <1>s, <2>1
  <2> QED BY <1>s, <2>1, <2>2 DEF Coming, Answers
<1>4. Coming(d, l)
  <2>1. 1 \in 1..Len(put)
    OBVIOUS
  <2>2. PICK i : i = Len(c) - off + 1
    OBVIOUS
  <2>3. i \in 1..Len(d) /\ d[i] = put[1]
    BY <1>s, <2>1, <2>2
  <2> QED BY <2>3 DEF Coming, Answers
<1>5. ASSUME NEW k \in Nat, NEW j \in Nat, k < j, Coming(d, k), Made(n, t, j)'
      PROVE  Coming(d, j)
  <2>1. CASE j = l
    BY <1>4, <2>1
  <2>2. CASE j # l
    <3>1. Made(n, t, j)
      BY <1>5, <2>2
    <3>2. j < l
      BY <3>1 DEF Made
    <3>3. Coming(c, k)
      BY <1>2, <1>5, <3>2
    <3>4. Coming(c, j)
      BY <1>5, <1>c, <3>1, <3>3 DEF AnswersFollow
    <3> QED BY <1>3, <3>4
  <2> QED BY <2>1, <2>2
<1> QED BY <1>1, <1>5, <1>c DEF AnswersFollow

-----------------------------------------------------------------------------
\* What the steps of a lone talker keep.

LEMMA AloneUse ==
  ASSUME NEW t, NEW top, AloneAt(t, top)
  PROVE  /\ OnlyTalker(t) /\ ChanTags(t) /\ AnsweredUpTo(t, top) /\ KeptUpTo(t, top)
         /\ \A n \in Member : /\ ProposalIs(n, t) /\ AnswersFollow(n, t)
                               /\ Seen(t, n, top) /\ Repeats(t, n, top)
BY DEF AloneAt

LEMMA KeptStays ==
  ASSUME NEW t \in Member, NEW top \in Nat, KeptUpTo(t, top), UNCHANGED <<txBuffer, sent>>
  PROVE  KeptUpTo(t, top)'
BY DEF KeptUpTo, NumberOf, Base, Joins

LEMMA ProposalStays ==
  ASSUME NEW n \in Member, NEW t \in Member, ProposalIs(n, t),
         Passed(n, t)' = Passed(n, t), UNCHANGED <<generatedGlobalSeq, proposed>>
  PROVE  ProposalIs(n, t)'
<1>1. \A l, g : Proposed(n, t, l, g)' <=> Proposed(n, t, l, g)
  BY DEF Proposed
<1> QED BY <1>1 DEF ProposalIs, Start, Base, Joins

LEMMA SeenStays ==
  ASSUME NEW n \in Member, NEW t \in Member, NEW top \in Nat, Seen(t, n, top),
         Lineless(chan[t][n], chan'[t][n]),
         globalSeq'[n] = globalSeq[n], holdBackQ'[n] = holdBackQ[n], shown'[n] = shown[n]
  PROVE  Seen(t, n, top)'
<1>1. PICK seen \in Base(t)..top : LinesIn(chan[t][n], t, seen, top) /\ Displays(n, t, seen)
  BY DEF Seen
<1>2. seen \in Nat
  BY <1>1 DEF Base
<1>3. LinesIn(chan'[t][n], t, seen, top)
  BY <1>1, <1>2, LinesKeep
<1>4. Displays(n, t, seen)'
  BY <1>1 DEF Displays, NumberOf, Base, Joins
<1>5. \E s \in Base(t)..top : LinesIn(chan'[t][n], t, s, top) /\ Displays(n, t, s)'
  BY <1>1, <1>3, <1>4
<1> QED BY Zenon, <1>5 DEF Seen

LEMMA HandledTags ==
  ASSUME NEW t \in Member, ChanTags(t), NEW m \in Member, NEW n \in Member, NEW out,
         HandledFacts(m, n, out), \A r \in Member : TagsOf(out[r], n = t)
  PROVE  ChanTags(t)'
<1>1. ASSUME NEW s \in Member, NEW r \in Member
      PROVE  TagsOf(chan'[s][r], s = t)
  <2>1. PICK off, put : /\ off = (IF s = m /\ r = n THEN 1 ELSE 0)
                        /\ put = (IF s = n THEN out[r] ELSE <<>>)
    OBVIOUS
  <2>2. Shift(chan[s][r], chan'[s][r], off, put)
    BY Zenon, <2>1 DEF HandledFacts
  <2>3. TagsOf(put, s = t)
    <3>1. CASE s = n
      BY <2>1, <3>1
    <3>2. CASE s # n
      BY <2>1, <3>2 DEF TagsOf
    <3> QED BY <3>1, <3>2
  <2>4. TagsOf(chan[s][r], s = t)
    BY DEF ChanTags
  <2>5. PICK wl : wl = (s = t)
    OBVIOUS
  <2> QED BY Zenon, <2>2, <2>3, <2>4, TagsKeep
<1> QED BY <1>1 DEF ChanTags

LEMMA MulticastTags ==
  ASSUME NEW t \in Member, ChanTags(t), NEW m \in Member, NEW p, MulticastFacts(m, p),
         p.tag = "S2_" \/ (m = t /\ p.tag = "S3A")
  PROVE  ChanTags(t)'
<1>1. ASSUME NEW s \in Member, NEW r \in Member
      PROVE  TagsOf(chan'[s][r], s = t)
  <2>1. PICK put : put = (IF s = m THEN <<p>> ELSE <<>>)
    OBVIOUS
  <2>2. Shift(chan[s][r], chan'[s][r], 0, put)
    BY Zenon, <2>1 DEF MulticastFacts
  <2>3. TagsOf(put, s = t)
    BY <2>1 DEF TagsOf
  <2>4. TagsOf(chan[s][r], s = t)
    BY DEF ChanTags
  <2> QED BY Zenon, <2>2, <2>3, <2>4, TagsKeep
<1> QED BY <1>1 DEF ChanTags

\* No line leaves or enters a channel unless it is at the head or put there.
LEMMA HandledLineless ==
  ASSUME NEW t \in Member, NEW m \in Member, NEW n \in Member, NEW out,
         HandledFacts(m, n, out), NEW r \in Member, n = t => NoLine(out[r]),
         (m = t /\ n = r) => chan[m][n][1].tag # "C0_"
  PROVE  Lineless(chan[t][r], chan'[t][r])
<1>1. PICK off, put : /\ off = (IF t = m /\ r = n THEN 1 ELSE 0)
                      /\ put = (IF t = n THEN out[r] ELSE <<>>)
  OBVIOUS
<1>2. Shift(chan[t][r], chan'[t][r], off, put)
  BY Zenon, <1>1 DEF HandledFacts
<1>3. NoLine(put)
  BY <1>1 DEF NoLine
<1>4. off = 1 => chan[t][r][1].tag # "C0_"
  BY <1>1
<1> QED BY Zenon, <1>2, <1>3, <1>4 DEF Lineless

LEMMA HandledRepeats ==
  ASSUME NEW t \in Member, NEW m \in Member, NEW n \in Member, NEW out,
         HandledFacts(m, n, out), NEW top \in Nat, NEW next \in Nat, top <= next,
         NEW r \in Member, Repeats(t, r, top), n = t => Behind(out[r], t, top)
  PROVE  Repeats(t, r, next)'
<1>1. PICK off, put : /\ off = (IF t = m /\ r = n THEN 1 ELSE 0)
                      /\ put = (IF t = n THEN out[r] ELSE <<>>)
  OBVIOUS
<1>2. Shift(chan[t][r], chan'[t][r], off, put)
  BY Zenon, <1>1 DEF HandledFacts
<1>3. Behind(put, t, top)
  BY <1>1 DEF Behind
<1>4. RepeatsIn(chan'[t][r], t, next)
  BY Zenon, <1>2, <1>3, RepeatsKeep DEF Repeats
<1> QED BY Zenon, <1>4 DEF Repeats

LEMMA MulticastRepeats ==
  ASSUME NEW t \in Member, NEW m \in Member, NEW p, MulticastFacts(m, p), NEW top \in Nat,
         NEW r \in Member, Repeats(t, r, top),
         p.tag = "S2_" \/ (p.tag = "S3A" /\ IsRepeat(p, t, top))
  PROVE  Repeats(t, r, top)'
<1>1. PICK off, put : off = 0 /\ put = (IF t = m THEN <<p>> ELSE <<>>)
  OBVIOUS
<1>2. Shift(chan[t][r], chan'[t][r], off, put)
  BY Zenon, <1>1 DEF MulticastFacts
<1>3. Behind(put, t, top)
  BY <1>1 DEF Behind
<1>4. RepeatsIn(chan'[t][r], t, top) /\ top <= top
  BY <1>2, <1>3, RepeatsKeep DEF Repeats
<1> QED BY Zenon, <1>4 DEF Repeats

LEMMA AnsweredStays ==
  ASSUME NEW t \in Member, NEW top \in Nat, AnsweredUpTo(t, top), UNCHANGED <<localSeq, seqBuffer>>,
         \A l \in Nat : Heard(t, l)' = Heard(t, l), localSeq[t] \in Nat
  PROVE  AnsweredUpTo(t, top)'
<1>1. Base(t)' = Base(t) /\ Base(t) \in Nat
  BY DEF Base
<1>2. \A l \in (Base(t) + 1)..top : Heard(t, l)' = Member
  BY <1>1 DEF AnsweredUpTo
<1>3. \A l \in (top + 1)..localSeq[t] : Heard(t, l)' # Member /\ l \in DOMAIN seqBuffer[t]
  BY DEF AnsweredUpTo
<1> QED BY <1>1, <1>2, <1>3 DEF AnsweredUpTo

LEMMA AloneType ==
  ASSUME ChatTypeOK, NumbersOK, NEW t \in Member, NEW top \in Nat, AloneAt(t, top), Type(t)
  PROVE  AloneAt(t, top)'
<1>n. localSeq[t] \in Nat /\ localSeq \in [Member -> Nat] /\ seqBuffer \in [Member -> Map(Nat, Request)]
  BY DEF ChatTypeOK, RequestOK
<1>l. PICK l \in Nat : l = localSeq[t] + 1
  BY <1>n
<1>t. ChatTypeOK' /\ MulticastFacts(t, S2_(l))
  BY <1>l, TypeType
<1>d. /\ localSeq' = [localSeq EXCEPT ![t] = l]
      /\ seqBuffer' = [seqBuffer EXCEPT ![t] =
           Insert(seqBuffer[t], l, [globalSeq |-> 0, ackCount |-> 0, tries |-> 0])]
      /\ UNCHANGED <<generatedGlobalSeq, hold_back_queue, proposed, txBuffer, sent, globalSeq,
                     holdBackQ, shown>>
  BY <1>l DEF Type, proposalVars, sendVars, displayVars
<1>a. /\ OnlyTalker(t) /\ ChanTags(t) /\ AnsweredUpTo(t, top) /\ KeptUpTo(t, top)
      /\ \A n \in Member : /\ ProposalIs(n, t) /\ AnswersFollow(n, t)
                            /\ Seen(t, n, top) /\ Repeats(t, n, top)
  BY AloneUse
<1>i. ProposalsInv /\ RequestsInv
  BY DEF NumbersOK
<1>r. \A n, k \in Member : Answerless(chan[n][k], chan'[n][k])
  BY <1>t, RequestAnswerless
<1>h. \A k \in Nat : Heard(t, k)' = Heard(t, k)
  BY <1>i, <1>r, <1>d, AnswersStay
<1>1. OnlyTalker(t)'
  <2>1. \A n \in Member \ {t} : localSeq'[n] = Base(n)'
    BY <1>a, <1>d, <1>n DEF OnlyTalker, Base
  <2>2. ASSUME NEW n \in Member, NEW k \in DOMAIN seqBuffer'[n]
        PROVE  seqBuffer'[n][k].tries = 0
    <3>1. CASE n # t
      <4>1. seqBuffer'[n] = seqBuffer[n]
        BY <1>d, <1>n, <3>1
      <4> QED BY <4>1, <2>2, <1>a DEF OnlyTalker
    <3>2. CASE n = t
      <4>1. PICK e : e = [globalSeq |-> 0, ackCount |-> 0, tries |-> 0]
        OBVIOUS
      <4>2. e.tries = 0
        BY <4>1
      <4>3. seqBuffer'[t] = Insert(seqBuffer[t], l, e)
        BY <1>d, <1>n, <4>1
      <4>4. CASE k \in DOMAIN seqBuffer[t]
        <5>1. seqBuffer'[t][k] = seqBuffer[t][k]
          BY <4>3, <4>4, InsertDef
        <5> QED BY <5>1, <4>4, <3>2, <1>a DEF OnlyTalker
      <4>5. CASE k \notin DOMAIN seqBuffer[t]
        <5>0. k \in DOMAIN seqBuffer'[t]
          BY <2>2, <3>2
        <5>1. k = l
          <6>1. DOMAIN Insert(seqBuffer[t], l, e) = DOMAIN seqBuffer[t] \cup {l}
            BY InsertDef
          <6> QED BY <4>3, <4>5, <5>0, <6>1
        <5>2. seqBuffer'[t][l] = e
          BY <4>3, <4>5, <5>1, InsertDef
        <5> QED BY <3>2, <4>2, <5>1, <5>2
      <4> QED BY <4>4, <4>5
    <3> QED BY <3>1, <3>2
  <2> QED BY <2>1, <2>2 DEF OnlyTalker
<1>2. ChanTags(t)'
  <2>1. PICK p : p = S2_(l)
    OBVIOUS
  <2>2. p.tag = "S2_"
    BY <2>1 DEF S2_
  <2>3. MulticastFacts(t, p)
    BY Zenon, <1>t, <2>1
  <2> QED BY <1>a, <2>2, <2>3, MulticastTags
<1>3. ASSUME NEW n \in Member
      PROVE  ProposalIs(n, t)'
  <2>1. Passed(n, t)' = Passed(n, t)
    BY <1>d DEF Passed, Base
  <2> QED BY <1>a, <1>d, <2>1, ProposalStays
<1>4. ASSUME NEW n \in Member
      PROVE  AnswersFollow(n, t)'
  <2>1. AnswersIn(chan[n][t], n, t, proposed)
    BY <1>i DEF ProposalsInv
  <2> QED BY <1>a, <1>d, <1>r, <2>1, FollowStays
<1>5. AnsweredUpTo(t, top)'
  <2>0. Base(t)' = Base(t) /\ Base(t) \in Nat /\ localSeq'[t] = l
    BY <1>d, <1>n DEF Base
  <2>1. Base(t) <= top /\ top <= l
    BY <1>a, <1>l, <1>n DEF AnsweredUpTo
  <2>2. \A k \in (Base(t) + 1)..top : Heard(t, k)' = Member
    BY <1>a, <1>h, <2>0 DEF AnsweredUpTo
  <2>3. DOMAIN seqBuffer'[t] = DOMAIN seqBuffer[t] \cup {l}
    BY <1>d, <1>n, InsertDef
  <2>4. ASSUME NEW k \in (top + 1)..l
        PROVE  Heard(t, k)' # Member /\ k \in DOMAIN seqBuffer'[t]
    <3>1. CASE k # l
      <4>1. k \in (top + 1)..localSeq[t]
        BY <3>1, <1>l, <1>n
      <4> QED BY <4>1, <1>a, <1>h, <2>3 DEF AnsweredUpTo
    <3>2. CASE k = l
      <4>1. Passed(Founder, t) <= localSeq[t] /\ Passed(Founder, t) \in Nat
        BY <1>i, MemberFacts, QueueFacts DEF RequestsInv, RequestsComing, ChatTypeOK
      <4>2. ~(l <= Passed(Founder, t))
        BY <4>1, <1>l, <1>n
      <4>3. ~Made(Founder, t, l)
        BY <4>2, MemberFacts, NotMade
      <4>4. Founder \notin Heard(t, l)
        BY <4>3 DEF Heard
      <4> QED BY <4>4, <3>2, <1>h, <2>3, MemberFacts
    <3> QED BY <3>1, <3>2
  <2> QED BY <2>0, <2>1, <2>2, <2>4 DEF AnsweredUpTo
<1>6. ASSUME NEW n \in Member
      PROVE  Seen(t, n, top)'
  <2>1. PICK put : put = <<S2_(l)>>
    OBVIOUS
  <2>2. NoLine(put)
    BY <2>1 DEF NoLine, S2_
  <2>3. PICK off : off = 0
    OBVIOUS
  <2>4. Shift(chan[t][n], chan'[t][n], off, put)
    BY <1>t, <2>1, <2>3 DEF MulticastFacts
  <2>5. ~(off = 1)
    BY <2>3
  <2>6. Lineless(chan[t][n], chan'[t][n])
    BY Zenon, <2>2, <2>4, <2>5 DEF Lineless
  <2> QED BY <1>a, <1>d, <2>6, SeenStays
<1>7. KeptUpTo(t, top)'
  BY <1>a, <1>d, KeptStays
<1>8. ASSUME NEW n \in Member
      PROVE  Repeats(t, n, top)'
  <2>1. PICK p : p = S2_(l)
    OBVIOUS
  <2>2. p.tag = "S2_"
    BY <2>1 DEF S2_
  <2>3. MulticastFacts(t, p)
    BY Zenon, <1>t, <2>1
  <2> QED BY <1>a, <2>2, <2>3, MulticastRepeats
<1> QED BY <1>1, <1>2, <1>3, <1>4, <1>5, <1>6, <1>7, <1>8 DEF AloneAt

LEMMA AloneRequest ==
  ASSUME ChatTypeOK, NumbersOK, NEW t \in Member, NEW top \in Nat, AloneAt(t, top),
         NEW n \in Member, ReceiveS2_(t, n)
  PROVE  AloneAt(t, top)'
<1>a. /\ OnlyTalker(t) /\ ChanTags(t) /\ AnsweredUpTo(t, top) /\ KeptUpTo(t, top)
      /\ \A r \in Member : /\ ProposalIs(r, t) /\ AnswersFollow(r, t)
                            /\ Seen(t, r, top) /\ Repeats(t, r, top)
  BY AloneUse
<1>i. ProposalsInv /\ RequestsInv
  BY DEF NumbersOK
<1>g. /\ Base(t) < chan[t][n][1].l /\ chan[t][n][1].l <= Passed(n, t) + 1
      /\ \A x \in MsgsOf(n, t) : x <= Passed(n, t)
  <2>1. Got(t, n, "S2_")
    BY DEF ReceiveS2_
  <2> QED BY <1>i, <2>1, RequestAtHead
<1>b. PICK l \in Nat : l = chan[t][n][1].l
  BY <1>g, RequestTaken
<1>e. /\ ChatTypeOK' /\ UNCHANGED <<requestVars, sendVars, displayVars, runVars>>
      /\ chan[t][n] # <<>> /\ chan[t][n][1].tag = "S2_"
      /\ \/ OldRequest(t, n)
         \/ l = Passed(n, t) + 1 /\ \E g \in Nat : NextRequest(t, n, l, g)
  BY <1>g, <1>b, RequestTaken
<1>u. UNCHANGED <<localSeq, seqBuffer, txBuffer, sent, globalSeq, holdBackQ, shown>>
  BY <1>e DEF requestVars, sendVars, displayVars
<1>k. KeptUpTo(t, top)'
  BY <1>a, <1>u, KeptStays
<1>n. localSeq[t] \in Nat
  BY DEF ChatTypeOK, RequestOK
<1>1. OnlyTalker(t)'
  BY <1>a, <1>u DEF OnlyTalker, Base
<1>2. CASE OldRequest(t, n)
  <2>1. /\ QueueAt(n, t, Passed(n, t)) /\ OtherQueues(n, t)
        /\ UNCHANGED <<generatedGlobalSeq, proposed>>
        /\ HandledFacts(t, n, NoAnswers)
    BY <1>2 DEF OldRequest
  <2>2. \A r \in Member : /\ NoAnswer(NoAnswers[r]) /\ NoLine(NoAnswers[r])
                          /\ TagsOf(NoAnswers[r], n = t)
    BY DEF NoAnswers, NoAnswer, NoLine, TagsOf
  <2>3. \A s, r \in Member : Answerless(chan[s][r], chan'[s][r])
    <3> SUFFICES ASSUME NEW s \in Member, NEW r \in Member
                 PROVE  Answerless(chan[s][r], chan'[s][r])
      OBVIOUS
    <3>1. PICK off, put : /\ off = (IF s = t /\ r = n THEN 1 ELSE 0)
                          /\ put = (IF s = n THEN NoAnswers[r] ELSE <<>>)
      OBVIOUS
    <3>2. Shift(chan[s][r], chan'[s][r], off, put)
      BY Zenon, <2>1, <3>1 DEF HandledFacts
    <3>3. NoAnswer(put)
      BY <3>1 DEF NoAnswer, NoAnswers
    <3>4. off = 1 => chan[s][r][1].tag # "S2A"
      BY <3>1, <1>e
    <3> QED BY Zenon, <3>2, <3>3, <3>4 DEF Answerless
  <2>4. ChanTags(t)'
    BY <1>a, <2>1, <2>2, HandledTags
  <2>5. ASSUME NEW r \in Member
        PROVE  /\ ProposalIs(r, t)' /\ AnswersFollow(r, t)' /\ Seen(t, r, top)'
               /\ Repeats(t, r, top)'
    <3>1. Passed(r, t)' = Passed(r, t)
      BY <2>1 DEF QueueAt, OtherQueues
    <3>2. ProposalIs(r, t)'
      BY <1>a, <2>1, <3>1, ProposalStays
    <3>3. AnswersIn(chan[r][t], r, t, proposed)
      BY <1>i DEF ProposalsInv
    <3>4. AnswersFollow(r, t)'
      BY <1>a, <2>1, <2>3, <3>3, FollowStays
    <3>5. Lineless(chan[t][r], chan'[t][r])
      BY <1>e, <2>1, <2>2, HandledLineless
    <3>6. Behind(NoAnswers[r], t, top)
      BY DEF NoAnswers, Behind
    <3>7. Repeats(t, r, top)'
      BY <1>a, <2>1, <3>6, HandledRepeats
    <3> QED BY <1>a, <1>u, <3>2, <3>4, <3>5, <3>7, SeenStays
  <2>6. AnsweredUpTo(t, top)'
    <3>1. \A k \in Nat : Heard(t, k)' = Heard(t, k)
      BY <1>i, <2>1, <2>3, AnswersStay
    <3> QED BY <1>a, <1>u, <1>n, <3>1, AnsweredStays
  <2> QED BY <1>1, <1>k, <2>4, <2>5, <2>6 DEF AloneAt
<1>3. CASE l = Passed(n, t) + 1 /\ \E g \in Nat : NextRequest(t, n, l, g)
  <2>0. PICK g \in Nat : NextRequest(t, n, l, g)
    BY <1>3
  <2>o. PICK out : out = [r \in Member |-> IF r = t THEN <<S2A(g, l)>> ELSE <<>>]
    OBVIOUS
  <2>1. /\ QueueAt(n, t, l) /\ OtherQueues(n, t)
        /\ g = generatedGlobalSeq[n] + 1 /\ generatedGlobalSeq'[n] = g
        /\ \A k \in Member \ {n} : generatedGlobalSeq'[k] = generatedGlobalSeq[k]
        /\ HandledFacts(t, n, out)
    BY Zenon, <2>0, <2>o DEF NextRequest
  <2>p. PICK p : p = S2A(g, l)
    OBVIOUS
  <2>q. p.tag = "S2A" /\ p.l = l
    BY <2>p DEF S2A
  <2>r. out[t] = <<p>> /\ \A r \in Member \ {t} : out[r] = <<>>
    BY <2>o, <2>p
  <2>2. \A r \in Member : NoLine(out[r]) /\ TagsOf(out[r], n = t)
    <3>1. NoLine(<<p>>) /\ TagsOf(<<p>>, n = t)
      BY <2>q DEF NoLine, TagsOf
    <3>2. NoLine(<<>>) /\ TagsOf(<<>>, n = t)
      BY DEF NoLine, TagsOf
    <3> QED BY <2>r, <3>1, <3>2
  <2>3. /\ \A s, r, k, h : Proposed(s, r, k, h)' <=>
             (Proposed(s, r, k, h) \/ (s = n /\ r = t /\ k = l /\ h = g))
        /\ \A s, r, k : Made(s, r, k)' <=> (Made(s, r, k) \/ (s = n /\ r = t /\ k = l))
        /\ \A r \in Member : \A k : Heard(r, k)' = Heard(r, k)
    BY <1>3, <1>e, <2>0, ProposalJoins
  <2>4. ChanTags(t)'
    BY <1>a, <2>1, <2>2, HandledTags
  <2>5. ASSUME NEW r \in Member
        PROVE  ProposalIs(r, t)'
    <3>0. Start(r)' = Start(r) /\ Base(t)' = Base(t) /\ Base(t) \in Nat /\ Start(r) \in Nat
      BY MemberFacts DEF Start, Base, Joins
    <3>1. CASE r # n
      <4>1. Passed(r, t)' = Passed(r, t) /\ generatedGlobalSeq'[r] = generatedGlobalSeq[r]
        BY <2>1, <3>1 DEF OtherQueues
      <4>2. \A k, h : Proposed(r, t, k, h)' <=> Proposed(r, t, k, h)
        BY <2>3, <3>1
      <4> QED BY <1>a, <3>0, <4>1, <4>2 DEF ProposalIs
    <3>2. CASE r = n
      <4>0. Passed(n, t) \in Nat
        BY QueueFacts DEF ChatTypeOK
      <4>1. Passed(n, t)' = l /\ generatedGlobalSeq'[n] = g
        BY <2>1 DEF QueueAt
      <4>2. generatedGlobalSeq[n] = Start(n) + Passed(n, t) - Base(t)
        BY <1>a DEF ProposalIs
      <4>3. g = Start(n) + l - Base(t)
        BY <2>1, <4>0, <4>2, <1>3, <3>0, <3>2
      <4>4. \A k, h \in Nat : Proposed(n, t, k, h)' => h = Start(n) + k - Base(t)
        BY <1>a, <2>3, <4>3 DEF ProposalIs
      <4> QED BY <3>0, <3>2, <4>1, <4>3, <4>4 DEF ProposalIs
    <3> QED BY <3>1, <3>2
  <2>6. ASSUME NEW r \in Member
        PROVE  AnswersFollow(r, t)'
    <3>0. AnswersIn(chan[r][t], r, t, proposed) /\ ProposalsGrow(r, t)
      BY <1>i DEF ProposalsInv
    <3>1. PICK off, put : /\ off = (IF r = t /\ t = n THEN 1 ELSE 0)
                          /\ put = (IF r = n THEN out[t] ELSE <<>>)
      OBVIOUS
    <3>2. Shift(chan[r][t], chan'[r][t], off, put)
      BY Zenon, <2>1, <3>1 DEF HandledFacts
    <3>3. off = 1 => chan[r][t][1].tag # "S2A"
      BY <1>e, <3>1
    <3>4. \A k : Coming(chan[r][t], k) => k \in Nat /\ Made(r, t, k)
      <4> SUFFICES ASSUME NEW k, Coming(chan[r][t], k) PROVE k \in Nat /\ Made(r, t, k)
        OBVIOUS
      <4>1. PICK i \in 1..Len(chan[r][t]) : Answers(chan[r][t][i], k)
        BY DEF Coming
      <4>2. <<r, <<t, k>>, chan[r][t][i].g>> \in proposed
        BY <4>1, <3>0 DEF AnswersIn, Answers
      <4>3. k \in Nat /\ chan[r][t][i].g \in Nat
        BY <4>2 DEF ChatTypeOK, ProposalOK, ChatLine
      <4> QED BY <4>2, <4>3 DEF Made, Proposed
    <3>5. CASE r = n
      <4>1. \A k, h \in Nat : Proposed(n, t, k, h) => k < l
        <5>1. \A k, h \in Nat : Proposed(n, t, k, h) => k <= Passed(n, t)
          BY <3>0, <3>5 DEF ProposalsGrow
        <5>2. Passed(n, t) \in Nat
          BY QueueFacts DEF ChatTypeOK
        <5> QED BY <1>3, <5>1, <5>2
      <4>2. \A k : Made(n, t, k)' => (Made(n, t, k) \/ k = l)
        BY <2>3
      <4>3. Len(put) = 1 /\ put[1] = p
        BY <2>r, <3>1, <3>5
      <4> QED BY Zenon, <1>a, <2>q, <3>0, <3>2, <3>3, <3>4, <3>5, <4>1, <4>2, <4>3, FollowJoins
    <3>6. CASE r # n
      <4>1. off = 0 /\ put = <<>>
        BY <3>1, <3>6
      <4>2. NoAnswer(put)
        BY <4>1 DEF NoAnswer
      <4>3. PICK c, d : c = chan[r][t] /\ d = chan'[r][t]
        OBVIOUS
      <4>4. AnswersOrdered(d)
        BY <1>a, <3>2, <4>2, <4>3, OrderKeeps DEF AnswersFollow
      <4>5. Answerless(c, d)
        BY Zenon, <3>2, <3>3, <4>2, <4>3 DEF Answerless
      <4>6. \A k : Coming(d, k) <=> Coming(c, k)
        BY <3>0, <4>3, <4>5, AnswerlessKeeps
      <4>7. \A k : Made(r, t, k)' <=> Made(r, t, k)
        BY <2>3, <3>6
      <4>8. \A j, k \in Nat : (j < k /\ Coming(d, j) /\ Made(r, t, k)') => Coming(d, k)
        BY <1>a, <4>3, <4>6, <4>7 DEF AnswersFollow
      <4> QED BY <4>3, <4>4, <4>8 DEF AnswersFollow
    <3> QED BY <3>5, <3>6
  <2>7. AnsweredUpTo(t, top)'
    BY <1>a, <1>u, <1>n, <2>3, AnsweredStays
  <2>8. ASSUME NEW r \in Member
        PROVE  Seen(t, r, top)' /\ Repeats(t, r, top)'
    <3>1. Lineless(chan[t][r], chan'[t][r])
      BY <1>e, <2>1, <2>2, HandledLineless
    <3>2. Behind(<<p>>, t, top) /\ Behind(<<>>, t, top)
      BY <2>q DEF Behind
    <3>3. Behind(out[r], t, top)
      BY <2>r, <3>2
    <3>4. Repeats(t, r, top)'
      BY <1>a, <2>1, <3>3, HandledRepeats
    <3> QED BY <1>a, <1>u, <3>1, <3>4, SeenStays
  <2> QED BY <1>1, <1>k, <2>4, <2>5, <2>6, <2>7, <2>8 DEF AloneAt
<1> QED BY <1>e, <1>2, <1>3

\* A lone talker's line has the number of everybody's proposals' largest.
LEMMA AloneNumber ==
  ASSUME NEW t \in Member, NEW l \in Nat, NEW g \in Nat, SentByAll(t, l, g), Base(t) <= l,
         \A n \in Member : ProposalIs(n, t)
  PROVE  g = NumberOf(t, l)
<1>0. Base(t) \in Nat /\ Joins \in Nat /\ Founder \in Member
  BY MemberFacts DEF Base
<1>1. PICK n \in Member : Proposed(n, t, l, g)
  BY DEF SentByAll
<1>2. g = Start(n) + l - Base(t) /\ Start(n) \in Nat /\ Start(n) <= Joins
  BY <1>0, <1>1 DEF ProposalIs, Start
<1>3. PICK h \in Nat : Proposed(Founder, t, l, h)
  BY <1>0 DEF SentByAll, Made
<1>4. h <= g /\ h = Joins + l - Base(t)
  BY <1>0, <1>3 DEF SentByAll, ProposalIs, Start
<1> QED BY <1>0, <1>2, <1>4 DEF NumberOf

LEMMA AloneAnswer ==
  ASSUME ChatTypeOK, NumbersOK, NEW t \in Member, NEW top \in Nat, AloneAt(t, top),
         NEW n \in Member, ReceiveS2A(n, t)
  PROVE  \E next \in Nat : AloneAt(t, next)'
<1>a. /\ OnlyTalker(t) /\ ChanTags(t) /\ AnsweredUpTo(t, top) /\ KeptUpTo(t, top)
      /\ \A r \in Member : /\ ProposalIs(r, t) /\ AnswersFollow(r, t)
                            /\ Seen(t, r, top) /\ Repeats(t, r, top)
  BY AloneUse
<1>i. ProposalsInv /\ RequestsInv
  BY DEF NumbersOK
<1>N. ProposalsInv' /\ CollectedInv' /\ SentInv'
  BY NumbersAnswer DEF NumbersOK
<1>1. PICK l \in Nat, g \in Nat : ChatTypeOK' /\ AnswerTaken(n, t, l, g)
  BY AnswerEffect
<1>2. /\ chan[n][t] # <<>> /\ chan[n][t][1].tag = "S2A"
      /\ chan[n][t][1].l = l /\ chan[n][t][1].g = g
      /\ UNCHANGED <<localSeq, generatedGlobalSeq, hold_back_queue, proposed, globalSeq,
                     holdBackQ, shown>>
  BY <1>1 DEF AnswerTaken, proposalVars, displayVars
<1>n. /\ localSeq[t] \in Nat /\ Base(t) \in Nat /\ Base(t) <= top
      /\ \A r \in Member : Passed(r, t) \in Nat /\ Passed(r, t) <= localSeq[t]
  BY <1>a, <1>i, QueueFacts DEF ChatTypeOK, RequestOK, AnsweredUpTo, RequestsInv, RequestsComing
<1>o. PICK out : /\ HandledFacts(n, t, out)
                 /\ \A r \in Member : NoAnswer(out[r]) /\ NoRequest(out[r]) /\ TagsOf(out[r], t = t)
                 /\ \/ /\ UNCHANGED sendVars
                       /\ \A r \in Member : NoLine(out[r]) /\ Behind(out[r], t, top)
                       /\ (l \in DOMAIN seqBuffer[t] =>
                             Counted(t, l, g) /\ seqBuffer'[t][l].ackCount < Cardinality(Member))
                    \/ /\ l \in DOMAIN seqBuffer[t] /\ Counted(t, l, g)
                       /\ seqBuffer'[t][l].ackCount >= Cardinality(Member)
                       /\ sent' = sent \cup {<<<<t, l>>, seqBuffer'[t][l].globalSeq>>}
                       /\ \A r \in Member : \A k \in DOMAIN txBuffer'[r] :
                            \/ k \in DOMAIN txBuffer[r] /\ txBuffer'[r][k] = txBuffer[r][k]
                            \/ /\ r = t /\ txBuffer'[r][k].l = l
                               /\ txBuffer'[r][k].num = seqBuffer'[t][l].globalSeq
                       /\ \A r \in Member :
                            out[r] = <<C0_(seqBuffer'[t][l].globalSeq, <<t, l>>)>>
  <2>1. \A r \in Member : /\ NoAnswer(NoAnswers[r]) /\ NoRequest(NoAnswers[r])
                          /\ TagsOf(NoAnswers[r], t = t) /\ NoLine(NoAnswers[r])
                          /\ Behind(NoAnswers[r], t, top)
    BY DEF NoAnswers, NoAnswer, NoRequest, TagsOf, NoLine, Behind
  <2>2. CASE /\ l \notin DOMAIN seqBuffer[t]
             /\ UNCHANGED <<seqBuffer, sendVars>> /\ HandledFacts(n, t, NoAnswers)
    BY <2>1, <2>2
  <2>3. CASE /\ l \in DOMAIN seqBuffer[t] /\ Counted(t, l, g)
             /\ seqBuffer'[t][l].ackCount < Cardinality(Member)
             /\ UNCHANGED sendVars /\ HandledFacts(n, t, NoAnswers)
    BY <2>1, <2>3
  <2>4. CASE /\ l \in DOMAIN seqBuffer[t] /\ Counted(t, l, g)
             /\ seqBuffer'[t][l].ackCount >= Cardinality(Member)
             /\ sent' = sent \cup {<<<<t, l>>, seqBuffer'[t][l].globalSeq>>}
             /\ \A r \in Member : \A k \in DOMAIN txBuffer'[r] :
                  \/ k \in DOMAIN txBuffer[r] /\ txBuffer'[r][k] = txBuffer[r][k]
                  \/ /\ r = t /\ txBuffer'[r][k].l = l
                     /\ txBuffer'[r][k].num = seqBuffer'[t][l].globalSeq
             /\ HandledFacts(n, t, [r \in Member |-> <<C0_(seqBuffer'[t][l].globalSeq, <<t, l>>)>>])
    <3>1. PICK h : h = seqBuffer'[t][l].globalSeq
      OBVIOUS
    <3>2. PICK p : p = C0_(h, <<t, l>>)
      OBVIOUS
    <3>3. p.tag = "C0_"
      BY <3>2 DEF C0_
    <3>4. NoAnswer(<<p>>) /\ NoRequest(<<p>>) /\ TagsOf(<<p>>, t = t)
      BY <3>3 DEF NoAnswer, NoRequest, TagsOf
    <3>5. PICK o : o = [r \in Member |-> <<p>>]
      OBVIOUS
    <3>6. HandledFacts(n, t, o)
      BY Zenon, <2>4, <3>1, <3>2, <3>5
    <3>7. \A r \in Member : o[r] = <<p>>
      BY <3>5
    <3>8. \A r \in Member : o[r] = <<C0_(seqBuffer'[t][l].globalSeq, <<t, l>>)>>
      BY Zenon, <3>1, <3>2, <3>7
    <3>9. \A r \in Member : NoAnswer(o[r]) /\ NoRequest(o[r]) /\ TagsOf(o[r], t = t)
      BY Zenon, <3>4, <3>7
    <3> QED BY Zenon, <2>4, <3>6, <3>8, <3>9
  <2> QED BY Zenon, <1>1, <2>2, <2>3, <2>4 DEF AnswerTaken
<1>4. /\ n \notin Heard(t, l) /\ Heard(t, l)' = Heard(t, l) \cup {n}
      /\ Proposed(n, t, l, g)
      /\ \A k \in Nat : k # l => Heard(t, k)' = Heard(t, k)
  BY <1>2, <1>o, <1>i, AnswerLeaves
<1>l. l \in (top + 1)..localSeq[t] /\ l \in DOMAIN seqBuffer[t]
  <2>1. Base(t) < l /\ l <= localSeq[t]
    BY <1>4, <1>i, <1>n DEF ProposalsInv, ProposalsGrow
  <2>2. ~(l <= top)
    BY <1>4, <1>a, <1>n, <2>1 DEF AnsweredUpTo
  <2>3. l \in (top + 1)..localSeq[t]
    BY <2>1, <2>2, <1>n
  <2> QED BY <2>3, <1>a DEF AnsweredUpTo
<1>k. Counted(t, l, g)
  BY <1>l, <1>o
<1>s. /\ DOMAIN seqBuffer'[t] = DOMAIN seqBuffer[t]
      /\ \A r \in Member : \A k \in DOMAIN seqBuffer'[r] :
           k \in DOMAIN seqBuffer[r] /\ seqBuffer'[r][k].tries = seqBuffer[r][k].tries
  BY <1>k DEF Counted
<1>c. Collected(t, l)'
  <2>1. \A m \in Member : \A k \in DOMAIN seqBuffer'[m] : Collected(m, k)'
    BY <1>N DEF CollectedInv
  <2> QED BY <1>l, <1>s, <2>1
<1>5. OnlyTalker(t)'
  <2>1. \A r \in Member \ {t} : localSeq'[r] = Base(r)'
    BY <1>a, <1>2 DEF OnlyTalker, Base
  <2>2. \A r \in Member : \A k \in DOMAIN seqBuffer'[r] : seqBuffer'[r][k].tries = 0
    BY <1>a, <1>s DEF OnlyTalker
  <2> QED BY <2>1, <2>2 DEF OnlyTalker
<1>6. ChanTags(t)'
  BY <1>a, <1>o, HandledTags
<1>7. ASSUME NEW r \in Member
      PROVE  ProposalIs(r, t)'
  <2>1. Passed(r, t)' = Passed(r, t)
    BY <1>2 DEF Passed, Base
  <2> QED BY <1>2, <1>a, <2>1, ProposalStays
<1>8. ASSUME NEW r \in Member
      PROVE  AnswersFollow(r, t)'
  <2>0. AnswersIn(chan[r][t], r, t, proposed)
    BY <1>i DEF ProposalsInv
  <2>1. PICK off, put : /\ off = (IF r = n /\ t = t THEN 1 ELSE 0)
                        /\ put = (IF r = t THEN out[t] ELSE <<>>)
    OBVIOUS
  <2>2. Shift(chan[r][t], chan'[r][t], off, put)
    BY Zenon, <1>o, <2>1 DEF HandledFacts
  <2>3. NoAnswer(put)
    BY <1>o, <2>1 DEF NoAnswer
  <2>4. CASE r = n
    <3>1. off = 1 /\ 1 \in 1..Len(chan[n][t])
      BY <1>2, <2>1, <2>4 DEF ChatTypeOK, ChanOK
    <3>2. chan[r][t][1].tag = "S2A" /\ chan[r][t][1].l \in Nat /\ 1 \in 1..Len(chan[r][t])
      BY <1>2, <2>4, <3>1
    <3>3. AnswersFollow(r, t) /\ UNCHANGED proposed
      BY <1>a, <1>2
    <3> QED BY Zenon, <2>0, <2>2, <2>3, <3>1, <3>2, <3>3, FollowTaken
  <2>5. CASE r # n
    <3>1. ~(off = 1)
      BY <2>1, <2>5
    <3>2. Answerless(chan[r][t], chan'[r][t])
      BY Zenon, <2>2, <2>3, <3>1 DEF Answerless
    <3> QED BY <1>a, <1>2, <2>0, <3>2, FollowStays
  <2> QED BY <2>4, <2>5
<1>b. Base(t)' = Base(t)
  BY DEF Base
<1>9. CASE seqBuffer'[t][l].ackCount < Cardinality(Member)
  <2>1. UNCHANGED sendVars /\ \A r \in Member : NoLine(out[r]) /\ Behind(out[r], t, top)
    <3>1. seqBuffer'[t][l].ackCount \in Nat /\ Cardinality(Member) \in Nat
      <4>1. seqBuffer'[t] \in Map(Nat, Request)
        BY <1>1 DEF ChatTypeOK, RequestOK
      <4>2. seqBuffer'[t][l] \in Request
        BY <4>1, <1>l, <1>s, MapUse
      <4> QED BY <4>2, MemberFacts DEF Request
    <3> QED BY <1>o, <1>9, <3>1
  <2>2. ASSUME NEW r \in Member PROVE Seen(t, r, top)' /\ Repeats(t, r, top)'
    <3>1. Lineless(chan[t][r], chan'[t][r])
      BY <1>o, <1>2, <2>1, HandledLineless
    <3>2. Repeats(t, r, top)'
      BY <1>a, <1>o, <2>1, HandledRepeats
    <3> QED BY <1>a, <1>2, <3>1, <3>2, SeenStays
  <2>3. Heard(t, l)' # Member
    <3>1. seqBuffer'[t][l].ackCount = Cardinality(Heard(t, l)')
      BY <1>c DEF Collected
    <3> QED BY <1>9, <3>1, MemberFacts
  <2>4. AnsweredUpTo(t, top)'
    <3>1. \A k \in (Base(t) + 1)..top : Heard(t, k)' = Member
      BY <1>4, <1>a, <1>l, <1>n DEF AnsweredUpTo
    <3>2. \A k \in (top + 1)..localSeq[t] : Heard(t, k)' # Member /\ k \in DOMAIN seqBuffer'[t]
      BY <1>4, <1>a, <1>s, <2>3 DEF AnsweredUpTo
    <3>3. top <= localSeq[t]
      BY <1>a DEF AnsweredUpTo
    <3> QED BY <1>b, <1>n, <1>2, <3>1, <3>2, <3>3 DEF AnsweredUpTo
  <2>5. KeptUpTo(t, top)'
    BY <1>a, <2>1, KeptStays DEF sendVars
  <2>6. AloneAt(t, top)'
    BY <1>5, <1>6, <1>7, <1>8, <2>2, <2>4, <2>5 DEF AloneAt
  <2> QED BY <2>6
<1>10. CASE ~(seqBuffer'[t][l].ackCount < Cardinality(Member))
  <2>1. Heard(t, l)' = Member
    <3>1. seqBuffer'[t][l].ackCount = Cardinality(Heard(t, l)')
      BY <1>c DEF Collected
    <3>2. Heard(t, l)' \subseteq Member /\ IsFiniteSet(Member)
      BY MemberFacts DEF Heard
    <3>3. PICK S : S = Heard(t, l)'
      OBVIOUS
    <3>4. Cardinality(S) \in Nat /\ Cardinality(S) <= Cardinality(Member)
      BY <3>2, <3>3, FS_Subset, FS_CardinalityType
    <3>5. Cardinality(S) = Cardinality(Member)
      BY <1>10, <3>1, <3>3, <3>4, MemberFacts
    <3> QED BY <3>2, <3>3, <3>5, FS_Subset
  <2>h. /\ \A r \in Member : Made(r, t, l)' /\ ~Coming(chan'[r][t], l)
        /\ Made(n, t, l)
    <3>1. \A r \in Member : Made(r, t, l)' /\ ~Coming(chan'[r][t], l)
      BY <2>1 DEF Heard
    <3> QED BY <3>1, <1>4 DEF Made
  <2>2. l = top + 1
    <3> SUFFICES ASSUME l # top + 1 PROVE FALSE
      OBVIOUS
    <3>0. PICK k \in Nat : k = top + 1
      OBVIOUS
    <3>1. k < l /\ k # l /\ k \in (top + 1)..localSeq[t] /\ Base(t) < k
      BY <3>0, <1>l, <1>n
    <3>2. Heard(t, k)' # Member
      BY <1>4, <1>a, <3>1 DEF AnsweredUpTo
    <3>3. PICK r \in Member : r \notin Heard(t, k)'
      <4>1. Heard(t, k)' \subseteq Member
        BY DEF Heard
      <4> QED BY <3>2, <4>1
    <3>4. Made(r, t, k)'
      <4>1. Made(r, t, l) <=> Made(r, t, l)'
        BY <1>2 DEF Made, Proposed
      <4>2. l <= Passed(r, t)
        BY <1>i, <2>h, <4>1 DEF ProposalsInv, ProposalsGrow, Made
      <4>3. k \in (Base(t) + 1)..Passed(r, t)
        BY <3>1, <4>2, <1>n
      <4>4. Made(r, t, k)
        BY <1>i, <4>3 DEF ProposalsInv, ProposalsGrow
      <4> QED BY <4>4, <1>2 DEF Made, Proposed
    <3>5. Coming(chan'[r][t], k)
      BY <3>3, <3>4 DEF Heard
    <3>6. Coming(chan'[r][t], l)
      <4>1. AnswersFollow(r, t)'
        BY <1>8
      <4>2. \A j, q \in Nat : (j < q /\ Coming(chan'[r][t], j) /\ Made(r, t, q)') =>
              Coming(chan'[r][t], q)
        BY <4>1 DEF AnswersFollow
      <4> QED BY <4>2, <2>h, <3>1, <3>5
    <3> QED BY <2>h, <3>6
  <2>3. PICK h : h = seqBuffer'[t][l].globalSeq
    OBVIOUS
  <2>4. h \in Nat
    <3>1. seqBuffer'[t] \in Map(Nat, Request)
      BY <1>1 DEF ChatTypeOK, RequestOK
    <3>2. seqBuffer'[t][l] \in Request
      BY <3>1, <1>l, <1>s, MapUse
    <3> QED BY <3>2, <2>3 DEF Request
  <2>5. /\ \A r \in Member : out[r] = <<C0_(h, <<t, l>>)>>
        /\ sent' = sent \cup {<<<<t, l>>, h>>}
        /\ \A r \in Member : \A k \in DOMAIN txBuffer'[r] :
             \/ k \in DOMAIN txBuffer[r] /\ txBuffer'[r][k] = txBuffer[r][k]
             \/ r = t /\ txBuffer'[r][k].l = l /\ txBuffer'[r][k].num = h
    BY <1>o, <1>10, <1>l, <2>3
  <2>6. h = NumberOf(t, l)
    <3>1. SentByAll(t, l, h)'
      <4>1. \A m \in Member : \A j, q \in Nat : <<<<m, j>>, q>> \in sent' => SentByAll(m, j, q)'
        BY <1>N DEF SentInv
      <4> QED BY <2>4, <2>5, <4>1
    <3>2. SentByAll(t, l, h)
      BY <3>1, <1>2 DEF SentByAll, Made, Proposed
    <3>3. Base(t) <= l
      BY <1>l, <1>n
    <3> QED BY <1>a, <2>4, <3>2, <3>3, AloneNumber
  <2>7. \A r \in Member : out[r] = <<LineOf(t, top + 1)>>
    BY <2>2, <2>5, <2>6 DEF LineOf
  <2>8. PICK next \in Nat : next = top + 1
    OBVIOUS
  <2>9. ASSUME NEW r \in Member PROVE Seen(t, r, next)'
    <3>1. PICK seen \in Base(t)..top : LinesIn(chan[t][r], t, seen, top) /\ Displays(r, t, seen)
      BY <1>a DEF Seen
    <3>2. seen \in Nat /\ seen <= top
      BY <3>1, <1>n
    <3>3. PICK off, put : /\ off = (IF t = n /\ r = t THEN 1 ELSE 0)
                          /\ put = (IF t = t THEN out[r] ELSE <<>>)
      OBVIOUS
    <3>4. Shift(chan[t][r], chan'[t][r], off, put)
      BY Zenon, <1>o, <3>3 DEF HandledFacts
    <3>5. off = 1 => chan[t][r][1].tag # "C0_"
      BY <1>2, <3>3
    <3>6. PICK p : p = LineOf(t, top + 1)
      OBVIOUS
    <3>7. Len(put) = 1 /\ put[1] = p
      BY <2>7, <3>3, <3>6
    <3>8. LinesIn(chan'[t][r], t, seen, top + 1)
      BY Zenon, <3>1, <3>2, <3>4, <3>5, <3>6, <3>7, LinesAdd
    <3>9. Displays(r, t, seen)'
      BY <1>2, <3>1 DEF Displays, NumberOf, Base, Joins
    <3>10. seen \in Base(t)..next
      BY <2>8, <3>1, <1>n
    <3>11. \E s \in Base(t)..next : LinesIn(chan'[t][r], t, s, next) /\ Displays(r, t, s)'
      BY <2>8, <3>8, <3>9, <3>10
    <3> QED BY Zenon, <3>11, <1>b DEF Seen
  <2>10. AnsweredUpTo(t, next)'
    <3>1. \A k \in (Base(t) + 1)..next : Heard(t, k)' = Member
      <4> SUFFICES ASSUME NEW k \in (Base(t) + 1)..next PROVE Heard(t, k)' = Member
        OBVIOUS
      <4>1. CASE k = l
        BY <2>1, <4>1
      <4>2. CASE k # l
        <5>1. k \in (Base(t) + 1)..top /\ k \in Nat
          BY <4>2, <2>2, <2>8, <1>n
        <5> QED BY <4>2, <5>1, <1>4, <1>a DEF AnsweredUpTo
      <4> QED BY <4>1, <4>2
    <3>2. \A k \in (next + 1)..localSeq[t] : Heard(t, k)' # Member /\ k \in DOMAIN seqBuffer'[t]
      <4> SUFFICES ASSUME NEW k \in (next + 1)..localSeq[t]
                   PROVE  Heard(t, k)' # Member /\ k \in DOMAIN seqBuffer'[t]
        OBVIOUS
      <4>1. k \in (top + 1)..localSeq[t] /\ k # l /\ k \in Nat
        BY <2>2, <2>8, <1>n
      <4> QED BY <4>1, <1>4, <1>a, <1>s DEF AnsweredUpTo
    <3>3. Base(t) <= next /\ next <= localSeq[t]
      BY <1>l, <2>2, <2>8, <1>n
    <3> QED BY <1>b, <1>2, <3>1, <3>2, <3>3 DEF AnsweredUpTo
  <2>11. KeptUpTo(t, next)'
    <3>1. ASSUME NEW r \in Member, NEW k \in DOMAIN txBuffer'[r]
          PROVE  /\ r = t /\ txBuffer'[r][k].l \in (Base(t) + 1)..next
                 /\ txBuffer'[r][k].num = NumberOf(t, txBuffer'[r][k].l)
      <4>1. CASE k \in DOMAIN txBuffer[r] /\ txBuffer'[r][k] = txBuffer[r][k]
        <5>1. /\ r = t /\ txBuffer[r][k].l \in (Base(t) + 1)..top
              /\ txBuffer[r][k].num = NumberOf(t, txBuffer[r][k].l)
          BY <1>a, <4>1 DEF KeptUpTo
        <5>2. (Base(t) + 1)..top \subseteq (Base(t) + 1)..next
          BY <1>n, <2>8
        <5> QED BY <4>1, <5>1, <5>2
      <4>2. CASE r = t /\ txBuffer'[r][k].l = l /\ txBuffer'[r][k].num = h
        <5>1. l \in (Base(t) + 1)..next
          BY <1>n, <2>2, <2>8
        <5> QED BY <4>2, <5>1, <2>6
      <4> QED BY <2>5, <4>1, <4>2
    <3>2. ASSUME NEW s \in sent', s[1][1] = t PROVE s[1][2] <= next
      <4>1. CASE s \in sent
        <5>1. s \in ChatLine \X Nat
          BY <4>1 DEF ChatTypeOK, SendOK
        <5>2. s[1][2] \in Nat
          BY <5>1 DEF ChatLine
        <5>3. s[1][2] <= top
          BY <1>a, <3>2, <4>1 DEF KeptUpTo
        <5> QED BY <2>8, <5>2, <5>3
      <4>2. CASE s = <<<<t, l>>, h>>
        BY <2>2, <2>8, <4>2
      <4> QED BY <2>5, <3>2, <4>1, <4>2
    <3> QED BY <3>1, <3>2 DEF KeptUpTo, NumberOf, Base, Joins
  <2>12. ASSUME NEW r \in Member PROVE Repeats(t, r, next)'
    <3>1. PICK p : p = LineOf(t, top + 1)
      OBVIOUS
    <3>2. p.tag = "C0_" /\ p.line[2] = top + 1
      BY <3>1, LineOfIs
    <3>3. out[r] = <<p>>
      BY <2>7, <3>1
    <3>4. Behind(out[r], t, top)
      BY <3>2, <3>3 DEF Behind
    <3> QED BY <1>a, <1>o, <2>8, <3>4, HandledRepeats
  <2>13. AloneAt(t, next)'
    BY <1>5, <1>6, <1>7, <1>8, <2>9, <2>10, <2>11, <2>12 DEF AloneAt
  <2> QED BY <2>13
<1> QED BY <1>9, <1>10

\* The line after the one displayed last is found, and nothing else.
LEMMA NextFound ==
  ASSUME NEW n \in Member, NEW b \in Nat, globalSeq[n] \in Nat, b <= globalSeq[n],
         NEW q, NEW g, g = globalSeq[n] + 1, DOMAIN q = b..g
  PROVE  Deliverable(n, q) = [g |-> g, lines |-> <<<<g, q[g]>>>>, ask |-> 0]
<1>0. PICK f \in Nat : f = globalSeq[n]
  OBVIOUS
<1>1. g \in Nat /\ g = f + 1 /\ f \in DOMAIN q /\ g \in DOMAIN q
  BY <1>0
<1>2. Max(DOMAIN q) = g
  <2>1. PICK S : S = DOMAIN q
    OBVIOUS
  <2>2. S \subseteq Nat /\ S # {} /\ (\A y \in S : y <= g) /\ g \in S
    BY <1>1, <2>1
  <2>3. \E k \in Nat : \A y \in S : y <= k
    BY <1>1, <2>2
  <2>4. Max(S) \in S /\ \A y \in S : y <= Max(S)
    BY <2>2, <2>3, LargestBelow
  <2>5. Max(S) <= g /\ g <= Max(S) /\ Max(S) \in Nat
    BY <2>2, <2>4
  <2>6. Max(S) = g
    BY <1>1, <2>5
  <2> QED BY <2>1, <2>6
<1>3. PICK start : start = [g |-> globalSeq[n], lines |-> <<>>, ask |-> 0]
  OBVIOUS
<1>4. PICK w : Walks(w, n, q, start, g) /\ Deliverable(n, q) = w[g]
  BY <1>0, <1>1, <1>2, <1>3, DeliverableIs
<1>5. /\ w[0] = start
      /\ \A k \in 1..g : w[k] = IF k >= f /\ k \in DOMAIN q THEN Entry(q, w[k - 1], k)
                                ELSE w[k - 1]
  <2>1. w = [k \in 0..g |->
               IF k = 0 THEN start
               ELSE IF k >= f /\ k \in DOMAIN q THEN Entry(q, w[k - 1], k)
               ELSE w[k - 1]]
    BY Zenon, <1>0, <1>4 DEF Walks
  <2>2. PICK e : e = [k \in 0..g |-> IF k = 0 THEN start
               ELSE IF k >= f /\ k \in DOMAIN q THEN Entry(q, w[k - 1], k)
               ELSE w[k - 1]]
    OBVIOUS
  <2>3. /\ e[0] = start
        /\ \A k \in 1..g : e[k] = IF k >= f /\ k \in DOMAIN q THEN Entry(q, w[k - 1], k)
                                  ELSE w[k - 1]
    BY <1>1, <2>2
  <2>4. w = e
    BY Zenon, <2>1, <2>2
  <2> QED BY Zenon, <2>3, <2>4
<1>s. start.g = f /\ start.lines = <<>> /\ start.ask = 0
  BY <1>0, <1>3
<1>6. w[f] = start
  <2> DEFINE S == {k \in 0..f : w[k] = start}
  <2>1. 0 \in S
    BY <1>5
  <2>2. ASSUME NEW k \in 1..f, k - 1 \in S
        PROVE  k \in S
    <3>1. k \in 1..g /\ w[k - 1] = start
      BY <1>1, <2>2
    <3>2. CASE k >= f
      <4>1. k = f
        BY <3>2
      <4>2. Entry(q, start, k) = start
        <5>1. ~(k = start.g + 1) /\ ~(k > start.g + 1)
          BY <1>s, <4>1
        <5> QED BY <1>s, <5>1 DEF Entry
      <4> QED BY <1>1, <1>5, <3>1, <3>2, <4>1, <4>2
    <3>3. CASE ~(k >= f)
      BY <1>5, <3>1, <3>3
    <3> QED BY <3>2, <3>3
  <2>3. f \in S
    <3> HIDE DEF S
    <3> QED BY <1>0, <2>1, <2>2, Climb
  <2> QED BY <2>3
<1>7. w[g] = Entry(q, start, g)
  <2>1. g \in 1..g /\ g >= f /\ g - 1 = f
    BY <1>0, <1>1
  <2> QED BY <1>1, <1>5, <1>6, <2>1
<1>8. Entry(q, start, g) = [start EXCEPT !.g = g, !.lines = Append(@, <<g, q[g]>>)]
  <2>1. start.ask = 0 /\ g = start.g + 1
    BY <1>1, <1>s
  <2> QED BY <2>1 DEF Entry
<1>9. [start EXCEPT !.g = g, !.lines = Append(@, <<g, q[g]>>)]
        = [g |-> g, lines |-> <<<<g, q[g]>>>>, ask |-> 0]
  <2>1. PICK x : x = <<g, q[g]>>
    OBVIOUS
  <2>2. start = [g |-> start.g, lines |-> start.lines, ask |-> start.ask]
    BY <1>3
  <2>3. PICK e : e = [start EXCEPT !.g = g, !.lines = Append(@, x)]
    OBVIOUS
  <2>4. e = [g |-> g, lines |-> Append(start.lines, x), ask |-> start.ask]
    BY <2>2, <2>3
  <2>5. Append(<<>>, x) = <<x>>
    OBVIOUS
  <2>6. e = [g |-> g, lines |-> <<x>>, ask |-> 0]
    BY <1>s, <2>4, <2>5
  <2> QED BY Zenon, <2>1, <2>3, <2>6
<1> QED BY <1>4, <1>7, <1>8, <1>9

\* When nothing follows the line displayed last, nothing is found.
LEMMA NothingFound ==
  ASSUME NEW n \in Member, NEW b \in Nat, globalSeq[n] \in Nat, b <= globalSeq[n],
         NEW q, DOMAIN q = b..globalSeq[n]
  PROVE  Deliverable(n, q) = [g |-> globalSeq[n], lines |-> <<>>, ask |-> 0]
<1>0. PICK f \in Nat : f = globalSeq[n]
  OBVIOUS
<1>1. f \in DOMAIN q
  BY <1>0
<1>2. Max(DOMAIN q) = f
  <2>1. PICK S : S = DOMAIN q
    OBVIOUS
  <2>2. S \subseteq Nat /\ S # {} /\ (\A y \in S : y <= f) /\ f \in S
    BY <1>0, <1>1, <2>1
  <2>3. \E k \in Nat : \A y \in S : y <= k
    BY <2>2
  <2>4. Max(S) \in S /\ \A y \in S : y <= Max(S)
    BY <2>2, <2>3, LargestBelow
  <2>5. Max(S) <= f /\ f <= Max(S) /\ Max(S) \in Nat
    BY <2>2, <2>4
  <2>6. Max(S) = f
    BY <2>5
  <2> QED BY <2>1, <2>6
<1>3. PICK start : start = [g |-> globalSeq[n], lines |-> <<>>, ask |-> 0]
  OBVIOUS
<1>4. PICK w : Walks(w, n, q, start, f) /\ Deliverable(n, q) = w[f]
  BY <1>0, <1>1, <1>2, <1>3, DeliverableIs
<1>5. /\ w[0] = start
      /\ \A k \in 1..f : w[k] = IF k >= f /\ k \in DOMAIN q THEN Entry(q, w[k - 1], k)
                                ELSE w[k - 1]
  <2>1. w = [k \in 0..f |->
               IF k = 0 THEN start
               ELSE IF k >= f /\ k \in DOMAIN q THEN Entry(q, w[k - 1], k)
               ELSE w[k - 1]]
    BY Zenon, <1>0, <1>4 DEF Walks
  <2>2. PICK e : e = [k \in 0..f |-> IF k = 0 THEN start
               ELSE IF k >= f /\ k \in DOMAIN q THEN Entry(q, w[k - 1], k)
               ELSE w[k - 1]]
    OBVIOUS
  <2>3. /\ e[0] = start
        /\ \A k \in 1..f : e[k] = IF k >= f /\ k \in DOMAIN q THEN Entry(q, w[k - 1], k)
                                  ELSE w[k - 1]
    BY <2>2
  <2>4. w = e
    BY Zenon, <2>1, <2>2
  <2> QED BY Zenon, <2>3, <2>4
<1>s. start.g = f /\ start.lines = <<>> /\ start.ask = 0
  BY <1>0, <1>3
<1>6. w[f] = start
  <2> DEFINE S == {k \in 0..f : w[k] = start}
  <2>1. 0 \in S
    BY <1>5
  <2>2. ASSUME NEW k \in 1..f, k - 1 \in S
        PROVE  k \in S
    <3>1. w[k - 1] = start
      BY <2>2
    <3>2. CASE k >= f
      <4>1. k = f
        BY <3>2
      <4>2. Entry(q, start, k) = start
        <5>1. ~(k = start.g + 1) /\ ~(k > start.g + 1)
          BY <1>s, <4>1
        <5> QED BY <1>s, <5>1 DEF Entry
      <4> QED BY <1>1, <1>5, <3>1, <3>2, <4>1, <4>2
    <3>3. CASE ~(k >= f)
      BY <1>5, <3>1, <3>3
    <3> QED BY <3>2, <3>3
  <2>3. f \in S
    <3> HIDE DEF S
    <3> QED BY <1>0, <2>1, <2>2, Climb
  <2> QED BY <2>3
<1> QED BY <1>3, <1>4, <1>6

\* What n does with the next line of a lone talker.
NextShown(m, n, t, s) ==
  /\ Displays(n, t, s)' /\ Answered(m, n, <<>>)
  /\ \A r \in Member \ {n} : /\ globalSeq'[r] = globalSeq[r] /\ shown'[r] = shown[r]
                             /\ holdBackQ'[r] = holdBackQ[r]
  /\ \A r \in Member : \A k \in DOMAIN seqBuffer'[r] :
       k \in DOMAIN seqBuffer[r] /\ seqBuffer'[r][k] = seqBuffer[r][k]
  /\ \A r \in Member : \A k \in DOMAIN seqBuffer[r] :
       k \in DOMAIN seqBuffer'[r] \/ (r = t /\ k = s)

LEMMA ChatShows ==
  ASSUME ChatTypeOK, NEW m \in Member, NEW n \in Member, NEW t \in Member, NEW seen \in Nat,
         Base(t) <= seen, Displays(n, t, seen), NEW s, s = seen + 1,
         Chat(m, n, NumberOf(t, s), <<t, s>>)
  PROVE  NextShown(m, n, t, s)
<1>b. Base(t) \in Nat /\ Joins \in Nat
  BY MemberFacts DEF Base
<1>g. PICK g \in Nat : g = NumberOf(t, s) /\ g = NumberOf(t, seen) + 1 /\ g > Joins
  BY <1>b DEF NumberOf
<1>v. PICK line : line = <<t, s>>
  OBVIOUS
<1>l. line \in ChatLine
  BY <1>v DEF ChatLine
<1> DEFINE q == Place(holdBackQ[n], g, line)
           d == IF First(n) THEN [g |-> g, lines |-> <<<<g, line>>>>, ask |-> 0]
                ELSE Deliverable(n, q)
           own == {d.lines[i][2][2] : i \in {j \in DOMAIN d.lines : d.lines[j][2][1] = n}}
<1>3. /\ holdBackQ' = [holdBackQ EXCEPT ![n] = q]
      /\ globalSeq' = [globalSeq EXCEPT ![n] = d.g]
      /\ shown' = [shown EXCEPT ![n] = @ \o d.lines]
      /\ seqBuffer' = [seqBuffer EXCEPT ![n] = Restrict(@, DOMAIN @ \ own)]
      /\ IF d.ask = 0 THEN Answered(m, n, <<>>)
         ELSE Handled(m, n, [r \in Member |-> <<S3_(d.ask)>>])
  <2>1. Chat(m, n, g, line)
    BY Zenon, <1>g, <1>v
  <2> QED BY <2>1 DEF Chat
<1>q. DOMAIN q = (Joins + 1)..g /\ q[g] = line
  <2>1. q = Insert(holdBackQ[n], g, line)
    BY DEF Place
  <2>2. PICK h \in Int : h = NumberOf(t, seen)
    BY <1>b DEF NumberOf
  <2>3. DOMAIN holdBackQ[n] = (Joins + 1)..h /\ g = h + 1
    BY <1>g, <2>2 DEF Displays
  <2>4. (Joins + 1)..h \cup {g} = (Joins + 1)..g /\ g \notin (Joins + 1)..h
    BY <1>b, <1>g, <2>2, <2>3
  <2> HIDE DEF q
  <2>5. DOMAIN q = DOMAIN holdBackQ[n] \cup {g}
    BY <2>1, InsertDef
  <2>6. q[g] = line
    BY <2>1, <2>3, <2>4, InsertDef
  <2> QED BY <2>3, <2>4, <2>5, <2>6
<1>d. d = [g |-> g, lines |-> <<<<g, line>>>>, ask |-> 0]
  <2>1. CASE First(n)
    BY <2>1
  <2>2. CASE ~First(n)
    <3>1. globalSeq[n] = NumberOf(t, seen) /\ seen # Base(t)
      BY <2>2 DEF First, Displays
    <3>2. globalSeq[n] \in Nat /\ Joins + 1 <= globalSeq[n] /\ g = globalSeq[n] + 1
      BY <1>b, <1>g, <3>1 DEF NumberOf
    <3>3. d = Deliverable(n, q)
      BY <2>2
    <3> HIDE DEF d, q
    <3>4. PICK b \in Nat : b = Joins + 1
      BY <1>b
    <3>5. Deliverable(n, q) = [g |-> g, lines |-> <<<<g, q[g]>>>>, ask |-> 0]
      BY <1>q, <3>2, <3>4, NextFound
    <3> QED BY <1>q, <3>3, <3>5
  <2> QED BY <2>1, <2>2
<1>4. PICK dd : dd = d
  OBVIOUS
<1>5. PICK gone : gone = own
  OBVIOUS
<1>6. PICK qq : qq = q
  OBVIOUS
<1>o. \A k \in gone : n = t /\ k = s
  <2>1. own = {d.lines[i][2][2] : i \in {j \in DOMAIN d.lines : d.lines[j][2][1] = n}}
    OBVIOUS
  <2> HIDE DEF d, own
  <2>2. PICK ls : ls = d.lines
    OBVIOUS
  <2>3. gone = {ls[i][2][2] : i \in {j \in DOMAIN ls : ls[j][2][1] = n}}
    BY Zenon, <1>5, <2>1, <2>2
  <2>4. ls = <<<<g, line>>>>
    BY <1>d, <2>2
  <2>5. DOMAIN ls = {1} /\ ls[1][2] = <<t, s>>
    BY <1>v, <2>4
  <2> QED BY <2>3, <2>5
<1> HIDE DEF q, d, own
<1>7. /\ holdBackQ' = [holdBackQ EXCEPT ![n] = qq]
      /\ globalSeq' = [globalSeq EXCEPT ![n] = g]
      /\ shown' = [shown EXCEPT ![n] = shown[n] \o <<<<g, line>>>>]
      /\ seqBuffer' = [seqBuffer EXCEPT ![n] = Restrict(seqBuffer[n], DOMAIN seqBuffer[n] \ gone)]
      /\ Answered(m, n, <<>>)
  BY <1>3, <1>5, <1>6, <1>d
<1>t. /\ holdBackQ \in [Member -> Map(Nat, ChatLine)] /\ globalSeq \in [Member -> Nat]
      /\ shown \in [Member -> Shown] /\ seqBuffer \in [Member -> Map(Nat, Request)]
  BY DEF ChatTypeOK, DisplayOK, RequestOK
<1>8. /\ holdBackQ'[n] = qq /\ globalSeq'[n] = g /\ shown'[n] = shown[n] \o <<<<g, line>>>>
      /\ \A r \in Member \ {n} : /\ globalSeq'[r] = globalSeq[r] /\ shown'[r] = shown[r]
                                 /\ holdBackQ'[r] = holdBackQ[r] /\ seqBuffer'[r] = seqBuffer[r]
      /\ seqBuffer'[n] = Restrict(seqBuffer[n], DOMAIN seqBuffer[n] \ gone)
  BY <1>7, <1>t
<1>9. Displays(n, t, s)'
  <2>0. NumberOf(t, s)' = g /\ Base(t)' = Base(t) /\ Joins' = Joins /\ s' = s /\ s # Base(t)
    BY <1>b, <1>g DEF NumberOf, Base, Joins
  <2>1. globalSeq'[n] = IF s = Base(t) THEN 0 ELSE g
    BY <1>8, <2>0
  <2>2. DOMAIN holdBackQ'[n] = (Joins + 1)..g
    BY <1>6, <1>8, <1>q
  <2>3. PICK x : x = <<g, line>>
    OBVIOUS
  <2>4. x \in Nat \X ChatLine
    BY <2>3, <1>l
  <2>5. PICK E : E = Nat \X ChatLine
    OBVIOUS
  <2>6. shown[n] \in Seq(E) /\ <<x>> \in Seq(E)
    BY <1>t, <2>4, <2>5 DEF Shown
  <2>7. Shift(shown[n], shown'[n], 0, <<x>>)
    <3>1. shown'[n] = shown[n] \o <<x>>
      BY <1>8, <2>3
    <3> QED BY <2>6, <3>1, ConcatShift
  <2>8. /\ Len(shown'[n]) = Len(shown[n]) + 1 /\ Len(shown[n]) \in Nat
        /\ \A i \in 1..Len(shown[n]) : shown'[n][i] = shown[n][i]
        /\ shown'[n][Len(shown[n]) + 1] = x
    <3>1. Len(<<x>>) = 1 /\ <<x>>[1] = x
      OBVIOUS
    <3> QED BY <2>7, <3>1 DEF Shift
  <2>9. /\ Len(shown[n]) = seen - Base(t)
        /\ \A i \in 1..Len(shown[n]) : shown[n][i] = <<Joins + i, <<t, Base(t) + i>>>>
    BY DEF Displays
  <2>10. Len(shown'[n]) = s - Base(t)
    BY <2>8, <2>9, <1>b
  <2>11. ASSUME NEW i \in 1..Len(shown'[n])
         PROVE  shown'[n][i] = <<Joins + i, <<t, Base(t) + i>>>>
    <3>1. CASE i \in 1..Len(shown[n])
      BY <2>8, <2>9, <3>1
    <3>2. CASE i \notin 1..Len(shown[n])
      <4>1. i = Len(shown[n]) + 1
        BY <2>8, <3>2
      <4>2. Joins + i = g /\ Base(t) + i = s
        BY <4>1, <2>9, <1>b, <1>g DEF NumberOf
      <4>3. shown'[n][i] = x
        BY <2>8, <4>1
      <4> QED BY <4>2, <4>3, <2>3, <1>v
    <3> QED BY <3>1, <3>2
  <2>12. \A i \in 1..Len(shown'[n]) : shown'[n][i] = <<Joins + i, <<t, Base(t) + i>>>>
    BY <2>11
  <2> QED BY <2>0, <2>1, <2>2, <2>10, <2>12 DEF Displays
<1>10. /\ \A r \in Member : \A k \in DOMAIN seqBuffer'[r] :
            k \in DOMAIN seqBuffer[r] /\ seqBuffer'[r][k] = seqBuffer[r][k]
       /\ \A r \in Member : \A k \in DOMAIN seqBuffer[r] :
            k \in DOMAIN seqBuffer'[r] \/ (r = t /\ k = s)
  <2>1. PICK S : S = DOMAIN seqBuffer[n] \ gone
    OBVIOUS
  <2>2. S \subseteq DOMAIN seqBuffer[n]
    BY <2>1
  <2>3. /\ DOMAIN Restrict(seqBuffer[n], S) = S
        /\ \A k \in S : Restrict(seqBuffer[n], S)[k] = seqBuffer[n][k]
    BY <1>t, <2>2, RestrictMap
  <2>4. DOMAIN seqBuffer'[n] = S /\ \A k \in S : seqBuffer'[n][k] = seqBuffer[n][k]
    BY <1>8, <2>1, <2>3
  <2>5. ASSUME NEW r \in Member, NEW k \in DOMAIN seqBuffer'[r]
        PROVE  k \in DOMAIN seqBuffer[r] /\ seqBuffer'[r][k] = seqBuffer[r][k]
    BY <1>8, <2>2, <2>4
  <2>6. ASSUME NEW r \in Member, NEW k \in DOMAIN seqBuffer[r]
        PROVE  k \in DOMAIN seqBuffer'[r] \/ (r = t /\ k = s)
    BY <1>8, <1>o, <2>1, <2>4
  <2> QED BY <2>5, <2>6
<1> QED BY Zenon, <1>7, <1>8, <1>9, <1>10 DEF NextShown

\* A line that n has displayed changes nothing when it comes again.
NothingShown(m, n) ==
  /\ Answered(m, n, <<>>)
  /\ \A r \in Member : /\ globalSeq'[r] = globalSeq[r] /\ shown'[r] = shown[r]
                       /\ holdBackQ'[r] = holdBackQ[r]
  /\ \A r \in Member : /\ DOMAIN seqBuffer'[r] = DOMAIN seqBuffer[r]
                       /\ \A k \in DOMAIN seqBuffer[r] : seqBuffer'[r][k] = seqBuffer[r][k]

LEMMA ChatRepeats ==
  ASSUME ChatTypeOK, NEW m \in Member, NEW n \in Member, NEW t \in Member, NEW seen \in Nat,
         Displays(n, t, seen), NEW l \in (Base(t) + 1)..seen,
         Chat(m, n, NumberOf(t, l), <<t, l>>)
  PROVE  NothingShown(m, n)
<1>b. Base(t) \in Nat /\ Joins \in Nat /\ seen # Base(t)
  BY MemberFacts DEF Base
<1>g. PICK g \in Nat : g = NumberOf(t, l)
  BY <1>b DEF NumberOf
<1>v. PICK line : line = <<t, l>>
  OBVIOUS
<1>h. /\ globalSeq[n] \in Nat /\ globalSeq[n] = NumberOf(t, seen) /\ globalSeq[n] # 0
      /\ Joins + 1 <= globalSeq[n] /\ DOMAIN holdBackQ[n] = (Joins + 1)..globalSeq[n]
      /\ g \in (Joins + 1)..globalSeq[n]
  <2>1. globalSeq[n] = NumberOf(t, seen) /\ DOMAIN holdBackQ[n] = (Joins + 1)..NumberOf(t, seen)
    BY <1>b DEF Displays
  <2>2. NumberOf(t, seen) \in Nat /\ Joins + 1 <= NumberOf(t, seen)
    BY <1>b DEF NumberOf
  <2>3. g \in (Joins + 1)..NumberOf(t, seen)
    BY <1>b, <1>g DEF NumberOf
  <2> QED BY <1>b, <2>1, <2>2, <2>3
<1> DEFINE q == Place(holdBackQ[n], g, line)
           d == IF First(n) THEN [g |-> g, lines |-> <<<<g, line>>>>, ask |-> 0]
                ELSE Deliverable(n, q)
           own == {d.lines[i][2][2] : i \in {j \in DOMAIN d.lines : d.lines[j][2][1] = n}}
<1>3. /\ holdBackQ' = [holdBackQ EXCEPT ![n] = q]
      /\ globalSeq' = [globalSeq EXCEPT ![n] = d.g]
      /\ shown' = [shown EXCEPT ![n] = @ \o d.lines]
      /\ seqBuffer' = [seqBuffer EXCEPT ![n] = Restrict(@, DOMAIN @ \ own)]
      /\ IF d.ask = 0 THEN Answered(m, n, <<>>)
         ELSE Handled(m, n, [r \in Member |-> <<S3_(d.ask)>>])
  <2>1. Chat(m, n, g, line)
    BY Zenon, <1>g, <1>v
  <2> QED BY <2>1 DEF Chat
<1>t. /\ holdBackQ \in [Member -> Map(Nat, ChatLine)] /\ globalSeq \in [Member -> Nat]
      /\ shown \in [Member -> Shown] /\ seqBuffer \in [Member -> Map(Nat, Request)]
  BY DEF ChatTypeOK, DisplayOK, RequestOK
<1>q. q = holdBackQ[n]
  <2>1. q = [x \in DOMAIN holdBackQ[n] \cup {g} |->
              IF x \in DOMAIN holdBackQ[n] THEN holdBackQ[n][x] ELSE line]
    BY DEF Place, Insert
  <2>2. DOMAIN holdBackQ[n] \cup {g} = DOMAIN holdBackQ[n]
    BY <1>h
  <2>3. holdBackQ[n] = [x \in DOMAIN holdBackQ[n] |-> holdBackQ[n][x]]
    <3>1. holdBackQ[n] \in Map(Nat, ChatLine)
      BY <1>t
    <3>2. holdBackQ[n] \in [DOMAIN holdBackQ[n] -> ChatLine]
      BY <3>1, MapDef
    <3> QED BY <3>2
  <2> QED BY <2>1, <2>2, <2>3
<1>d. d = [g |-> globalSeq[n], lines |-> <<>>, ask |-> 0]
  <2>1. ~First(n)
    BY <1>h DEF First
  <2>2. d = Deliverable(n, q)
    BY <2>1
  <2> HIDE DEF d, q
  <2>3. PICK b \in Nat : b = Joins + 1
    BY <1>b
  <2>4. b <= globalSeq[n] /\ DOMAIN q = b..globalSeq[n] /\ globalSeq[n] \in Nat
    BY <1>h, <1>q, <2>3
  <2> QED BY <2>2, <2>4, NothingFound
<1>o. own = {}
  <2> HIDE DEF d
  <2>1. PICK ls : ls = d.lines
    OBVIOUS
  <2>2. own = {ls[i][2][2] : i \in {j \in DOMAIN ls : ls[j][2][1] = n}}
    BY Zenon, <2>1
  <2>3. ls = <<>>
    BY <1>d, <2>1
  <2>4. DOMAIN ls = {}
    BY <2>3
  <2> QED BY <2>2, <2>4
<1> HIDE DEF q, d, own
<1>7. /\ holdBackQ' = [holdBackQ EXCEPT ![n] = holdBackQ[n]]
      /\ globalSeq' = [globalSeq EXCEPT ![n] = globalSeq[n]]
      /\ shown' = [shown EXCEPT ![n] = shown[n] \o <<>>]
      /\ seqBuffer' = [seqBuffer EXCEPT ![n] = Restrict(seqBuffer[n], DOMAIN seqBuffer[n])]
      /\ Answered(m, n, <<>>)
  <2>1. DOMAIN seqBuffer[n] \ own = DOMAIN seqBuffer[n]
    BY <1>o
  <2> QED BY <1>3, <1>d, <1>q, <2>1
<1>8. shown[n] \o <<>> = shown[n]
  <2>1. shown[n] \in Seq(Nat \X ChatLine)
    BY <1>t DEF Shown
  <2> QED BY <2>1
<1>9. \A r \in Member : /\ globalSeq'[r] = globalSeq[r] /\ shown'[r] = shown[r]
                        /\ holdBackQ'[r] = holdBackQ[r]
  BY <1>7, <1>8, <1>t
<1>10. /\ DOMAIN Restrict(seqBuffer[n], DOMAIN seqBuffer[n]) = DOMAIN seqBuffer[n]
       /\ \A k \in DOMAIN seqBuffer[n] :
            Restrict(seqBuffer[n], DOMAIN seqBuffer[n])[k] = seqBuffer[n][k]
  BY <1>t, RestrictMap
<1>11. ASSUME NEW r \in Member
       PROVE  /\ DOMAIN seqBuffer'[r] = DOMAIN seqBuffer[r]
              /\ \A k \in DOMAIN seqBuffer[r] : seqBuffer'[r][k] = seqBuffer[r][k]
  <2>1. CASE r = n
    <3>1. seqBuffer'[n] = Restrict(seqBuffer[n], DOMAIN seqBuffer[n])
      BY <1>7, <1>t
    <3> QED BY <1>10, <2>1, <3>1
  <2>2. CASE r # n
    BY <1>7, <1>t, <2>2
  <2> QED BY <2>1, <2>2
<1> QED BY Zenon, <1>7, <1>9, <1>11 DEF NothingShown

LEMMA AloneChat ==
  ASSUME ChatTypeOK, NumbersOK, NEW t \in Member, NEW top \in Nat, AloneAt(t, top),
         NEW n \in Member, ReceiveC0_(t, n)
  PROVE  AloneAt(t, top)'
<1>a. /\ OnlyTalker(t) /\ ChanTags(t) /\ AnsweredUpTo(t, top) /\ KeptUpTo(t, top)
      /\ \A r \in Member : /\ ProposalIs(r, t) /\ AnswersFollow(r, t)
                            /\ Seen(t, r, top) /\ Repeats(t, r, top)
  BY AloneUse
<1>i. ProposalsInv
  BY DEF NumbersOK
<1>n. Base(t) \in Nat /\ localSeq[t] \in Nat /\ ChanOK
  BY DEF Base, ChatTypeOK, RequestOK
<1>p. /\ UNCHANGED <<localSeq, generatedGlobalSeq, hold_back_queue, proposed>>
      /\ \A s, r \in Member : Answerless(chan[s][r], chan'[s][r])
  <2>1. PlainStep
    BY PlainC0_
  <2> QED BY <2>1, PlainLess DEF PlainStep, proposalVars
<1>1. /\ chan[t][n] # <<>> /\ 1 \in 1..Len(chan[t][n])
      /\ Head(chan[t][n]) = chan[t][n][1] /\ chan[t][n][1].tag = "C0_"
  <2>1. Got(t, n, "C0_")
    BY DEF ReceiveC0_
  <2> QED BY <1>n, <2>1, GotFirst
<1>2. PICK seen \in Base(t)..top : LinesIn(chan[t][n], t, seen, top) /\ Displays(n, t, seen)
  BY <1>a DEF Seen
<1>s. PICK s \in Nat : s = seen + 1
  BY <1>2, <1>n
<1>3. seen \in Nat /\ Base(t) <= seen /\ s <= top /\ chan[t][n][1] = LineOf(t, s)
  <2>1. seen \in Nat /\ Base(t) <= seen
    BY <1>2, <1>n
  <2>2. seen + 1 <= top /\ chan[t][n][1] = LineOf(t, seen + 1)
    BY <1>1, <1>2, <2>1, LinesFirst
  <2> QED BY <1>s, <2>1, <2>2
<1>4. Chat(t, n, NumberOf(t, s), <<t, s>>)
  <2>1. Chat(t, n, Head(chan[t][n]).g, Head(chan[t][n]).line)
    BY DEF ReceiveC0_
  <2>2. Head(chan[t][n]).g = NumberOf(t, s) /\ Head(chan[t][n]).line = <<t, s>>
    BY <1>1, <1>3, LineOfIs
  <2> QED BY Zenon, <2>1, <2>2
<1>5. NextShown(t, n, t, s)
  BY <1>2, <1>s, <1>3, <1>4, ChatShows
<1>6. /\ Displays(n, t, s)' /\ Answered(t, n, <<>>)
      /\ \A r \in Member \ {n} : /\ globalSeq'[r] = globalSeq[r] /\ shown'[r] = shown[r]
                                 /\ holdBackQ'[r] = holdBackQ[r]
      /\ \A r \in Member : \A k \in DOMAIN seqBuffer'[r] :
           k \in DOMAIN seqBuffer[r] /\ seqBuffer'[r][k] = seqBuffer[r][k]
      /\ \A r \in Member : \A k \in DOMAIN seqBuffer[r] :
           k \in DOMAIN seqBuffer'[r] \/ (r = t /\ k = s)
  BY Zenon, <1>5 DEF NextShown
<1>7. UNCHANGED <<txBuffer, sent>>
  BY <1>4 DEF Chat, sendVars
<1>8. PICK out : HandledFacts(t, n, out) /\ \A r \in Member : out[r] = <<>>
  <2>1. PICK o : o = [r \in Member |-> IF r = t THEN <<>> ELSE <<>>]
    OBVIOUS
  <2>2. <<>> \in Seq(ChatPacket)
    OBVIOUS
  <2>3. HandledFacts(t, n, [r \in Member |-> IF r = t THEN <<>> ELSE <<>>])
    BY Zenon, <1>1, <1>6, <1>n, <2>2, AnsweredMoves
  <2>4. HandledFacts(t, n, o)
    BY Zenon, <2>1, <2>3
  <2> QED BY <2>1, <2>4
<1>9. OnlyTalker(t)'
  <2>1. \A r \in Member \ {t} : localSeq'[r] = Base(r)'
    BY <1>a, <1>p DEF OnlyTalker, Base
  <2>2. \A r \in Member : \A k \in DOMAIN seqBuffer'[r] : seqBuffer'[r][k].tries = 0
    BY <1>a, <1>6 DEF OnlyTalker
  <2> QED BY <2>1, <2>2 DEF OnlyTalker
<1>10. ChanTags(t)'
  <2>1. \A r \in Member : TagsOf(out[r], n = t)
    BY <1>8 DEF TagsOf
  <2> QED BY <1>a, <1>8, <2>1, HandledTags
<1>11. ASSUME NEW r \in Member
       PROVE  ProposalIs(r, t)' /\ AnswersFollow(r, t)'
  <2>1. Passed(r, t)' = Passed(r, t)
    BY <1>p DEF Passed, Base
  <2>2. AnswersIn(chan[r][t], r, t, proposed)
    BY <1>i DEF ProposalsInv
  <2>3. ProposalIs(r, t)'
    BY <1>a, <1>p, <2>1, ProposalStays
  <2>4. AnswersFollow(r, t)'
    BY <1>a, <1>p, <2>2, FollowStays
  <2> QED BY <2>3, <2>4
<1>12. AnsweredUpTo(t, top)'
  <2>1. \A k \in Nat : Heard(t, k)' = Heard(t, k)
    BY <1>i, <1>p, AnswersStay
  <2>2. Base(t)' = Base(t) /\ Base(t) <= top /\ top <= localSeq[t]
    BY <1>a DEF Base, AnsweredUpTo
  <2>3. \A k \in (Base(t) + 1)..top : Heard(t, k)' = Member
    BY <1>a, <1>n, <2>1 DEF AnsweredUpTo
  <2>4. ASSUME NEW k \in (top + 1)..localSeq[t]
        PROVE  Heard(t, k)' # Member /\ k \in DOMAIN seqBuffer'[t]
    <3>1. k # s /\ k \in Nat
      BY <1>3, <2>2, <1>n
    <3>2. Heard(t, k) # Member /\ k \in DOMAIN seqBuffer[t]
      BY <1>a DEF AnsweredUpTo
    <3> QED BY <1>6, <2>1, <3>1, <3>2
  <2> QED BY <1>p, <2>2, <2>3, <2>4 DEF AnsweredUpTo
<1>13. ASSUME NEW r \in Member
       PROVE  Seen(t, r, top)'
  <2>0. NoLine(<<>>)
    BY DEF NoLine
  <2>1. CASE r # n
    <3>1. Lineless(chan[t][r], chan'[t][r])
      BY <1>8, <2>0, <2>1, HandledLineless
    <3> QED BY <1>a, <1>6, <2>1, <3>1, SeenStays
  <2>2. CASE r = n
    <3>1. PICK off, put : off = 1 /\ put = <<>>
      OBVIOUS
    <3>2. Shift(chan[t][n], chan'[t][n], off, put)
      <4>1. Shift(chan[t][n], chan'[t][n], IF t = t /\ n = n THEN 1 ELSE 0,
                  IF t = n THEN out[n] ELSE <<>>)
        BY Zenon, <1>8 DEF HandledFacts
      <4>2. (IF t = n THEN out[n] ELSE <<>>) = put /\ (IF t = t /\ n = n THEN 1 ELSE 0) = off
        BY <1>8, <3>1
      <4> QED BY Zenon, <4>1, <4>2
    <3>3. NoLine(put)
      BY <3>1, <2>0
    <3>4. LinesIn(chan'[t][n], t, seen + 1, top)
      BY Zenon, <1>1, <1>2, <1>3, <3>1, <3>2, <3>3, LinesTake
    <3>5. s \in Base(t)..top
      BY <1>s, <1>3, <1>n
    <3>6. \E k \in Base(t)..top : LinesIn(chan'[t][n], t, k, top) /\ Displays(n, t, k)'
      BY <1>s, <1>6, <3>4, <3>5
    <3>7. Base(t)' = Base(t)
      BY DEF Base
    <3> QED BY Zenon, <2>2, <3>6, <3>7 DEF Seen
  <2> QED BY <2>1, <2>2
<1>14. KeptUpTo(t, top)'
  BY <1>a, <1>7, KeptStays
<1>15. ASSUME NEW r \in Member
       PROVE  Repeats(t, r, top)'
  <2>1. Behind(out[r], t, top)
    BY <1>8 DEF Behind
  <2> QED BY <1>a, <1>8, <2>1, HandledRepeats
<1> QED BY <1>9, <1>10, <1>11, <1>12, <1>13, <1>14, <1>15 DEF AloneAt

\* A step that concerns no request, displays nothing and takes no line.
LEMMA AloneKept ==
  ASSUME ChatTypeOK, NumbersOK, NEW t \in Member, NEW top \in Nat, AloneAt(t, top), PlainStep,
         \A r \in Member : \A k \in DOMAIN seqBuffer'[r] :
           k \in DOMAIN seqBuffer[r] /\ seqBuffer'[r][k].tries = seqBuffer[r][k].tries,
         \A k \in (top + 1)..localSeq[t] : k \in DOMAIN seqBuffer'[t],
         KeptUpTo(t, top)', ChanTags(t)',
         \A r \in Member : /\ Lineless(chan[t][r], chan'[t][r]) /\ Repeats(t, r, top)'
                           /\ globalSeq'[r] = globalSeq[r] /\ shown'[r] = shown[r]
                           /\ holdBackQ'[r] = holdBackQ[r]
  PROVE  AloneAt(t, top)'
<1>a. /\ OnlyTalker(t) /\ AnsweredUpTo(t, top)
      /\ \A r \in Member : ProposalIs(r, t) /\ AnswersFollow(r, t) /\ Seen(t, r, top)
  BY AloneUse
<1>i. ProposalsInv /\ localSeq[t] \in Nat
  BY DEF NumbersOK, ChatTypeOK, RequestOK
<1>p. /\ UNCHANGED <<localSeq, generatedGlobalSeq, hold_back_queue, proposed>>
      /\ \A s, r \in Member : Answerless(chan[s][r], chan'[s][r])
  BY PlainLess DEF PlainStep, proposalVars
<1>1. OnlyTalker(t)'
  BY <1>a, <1>p DEF OnlyTalker, Base
<1>2. ASSUME NEW r \in Member
      PROVE  ProposalIs(r, t)' /\ AnswersFollow(r, t)' /\ Seen(t, r, top)'
  <2>1. Passed(r, t)' = Passed(r, t)
    BY <1>p DEF Passed, Base
  <2>2. AnswersIn(chan[r][t], r, t, proposed)
    BY <1>i DEF ProposalsInv
  <2>3. ProposalIs(r, t)'
    BY <1>a, <1>p, <2>1, ProposalStays
  <2>4. AnswersFollow(r, t)'
    BY <1>a, <1>p, <2>2, FollowStays
  <2> QED BY <1>a, <2>3, <2>4, SeenStays
<1>3. AnsweredUpTo(t, top)'
  <2>1. \A k \in Nat : Heard(t, k)' = Heard(t, k)
    BY <1>i, <1>p, AnswersStay
  <2>2. /\ Base(t)' = Base(t) /\ Base(t) \in Nat /\ Base(t) <= top /\ top <= localSeq[t]
        /\ localSeq'[t] = localSeq[t]
    BY <1>a, <1>p DEF Base, AnsweredUpTo
  <2>3. \A k \in (Base(t) + 1)..top : Heard(t, k)' = Member
    BY <1>a, <2>1, <2>2 DEF AnsweredUpTo
  <2>4. \A k \in (top + 1)..localSeq[t] : Heard(t, k)' # Member
    BY <1>a, <2>1 DEF AnsweredUpTo
  <2> QED BY <2>2, <2>3, <2>4 DEF AnsweredUpTo
<1> QED BY <1>1, <1>2, <1>3 DEF AloneAt

\* A repetition is of a line its receiver has displayed.
LEMMA AloneRepeat ==
  ASSUME ChatTypeOK, NumbersOK, NEW t \in Member, NEW top \in Nat, AloneAt(t, top),
         NEW n \in Member, ReceiveS3A(t, n)
  PROVE  AloneAt(t, top)'
<1>a. /\ ChanTags(t) /\ AnsweredUpTo(t, top) /\ KeptUpTo(t, top)
      /\ \A r \in Member : Seen(t, r, top) /\ Repeats(t, r, top)
  BY AloneUse
<1>1. /\ chan[t][n] # <<>> /\ 1 \in 1..Len(chan[t][n])
      /\ Head(chan[t][n]) = chan[t][n][1] /\ chan[t][n][1].tag = "S3A"
  <2>1. Got(t, n, "S3A") /\ ChanOK
    BY DEF ReceiveS3A, ChatTypeOK
  <2> QED BY <2>1, GotFirst
<1>2. PlainStep
  BY PlainS3A
<1>3. PICK seen \in Base(t)..top : LinesIn(chan[t][n], t, seen, top) /\ Displays(n, t, seen)
  BY <1>a DEF Seen
<1>4. seen \in Nat
  BY <1>3 DEF Base
<1>5. PICK l \in (Base(t) + 1)..seen :
        chan[t][n][1].line = <<t, l>> /\ chan[t][n][1].num = NumberOf(t, l)
  <2>1. RepeatsIn(chan[t][n], t, top)
    BY <1>a DEF Repeats
  <2>2. IsRepeat(chan[t][n][1], t, seen)
    BY <1>1, <1>3, <1>4, <2>1, RepeatFirst
  <2> QED BY <2>2 DEF IsRepeat
<1>6. NothingShown(t, n) /\ UNCHANGED <<txBuffer, sent>>
  <2>1. \/ Chat(t, n, NumberOf(t, l), <<t, l>>)
        \/ /\ Answered(t, n, <<>>)
           /\ UNCHANGED <<requestVars, proposalVars, sendVars, displayVars, runVars>>
    <3>1. \/ Chat(t, n, Head(chan[t][n]).num, Head(chan[t][n]).line)
          \/ /\ Answered(t, n, <<>>)
             /\ UNCHANGED <<requestVars, proposalVars, sendVars, displayVars, runVars>>
      BY DEF ReceiveS3A
    <3>2. Head(chan[t][n]).num = NumberOf(t, l) /\ Head(chan[t][n]).line = <<t, l>>
      BY <1>1, <1>5
    <3> QED BY Zenon, <3>1, <3>2
  <2>2. CASE Chat(t, n, NumberOf(t, l), <<t, l>>)
    <3>1. NothingShown(t, n)
      BY <1>3, <1>4, <1>5, <2>2, ChatRepeats
    <3> QED BY <2>2, <3>1 DEF Chat, sendVars
  <2>3. CASE /\ Answered(t, n, <<>>)
             /\ UNCHANGED <<requestVars, proposalVars, sendVars, displayVars, runVars>>
    <3>1. UNCHANGED <<seqBuffer, txBuffer, sent, globalSeq, shown, holdBackQ>>
      BY <2>3 DEF requestVars, sendVars, displayVars
    <3> QED BY <2>3, <3>1 DEF NothingShown
  <2> QED BY <2>1, <2>2, <2>3
<1>7. /\ Answered(t, n, <<>>)
      /\ \A r \in Member : /\ globalSeq'[r] = globalSeq[r] /\ shown'[r] = shown[r]
                           /\ holdBackQ'[r] = holdBackQ[r]
      /\ \A r \in Member : /\ DOMAIN seqBuffer'[r] = DOMAIN seqBuffer[r]
                           /\ \A k \in DOMAIN seqBuffer[r] : seqBuffer'[r][k] = seqBuffer[r][k]
  BY Zenon, <1>6 DEF NothingShown
<1>8. PICK out : HandledFacts(t, n, out) /\ \A r \in Member : out[r] = <<>>
  <2>1. PICK o : o = [r \in Member |-> IF r = t THEN <<>> ELSE <<>>]
    OBVIOUS
  <2>2. <<>> \in Seq(ChatPacket) /\ ChanOK
    BY DEF ChatTypeOK
  <2>3. HandledFacts(t, n, [r \in Member |-> IF r = t THEN <<>> ELSE <<>>])
    BY Zenon, <1>1, <1>7, <2>2, AnsweredMoves
  <2>4. HandledFacts(t, n, o)
    BY Zenon, <2>1, <2>3
  <2> QED BY <2>1, <2>4
<1>9. ChanTags(t)'
  <2>1. \A r \in Member : TagsOf(out[r], n = t)
    BY <1>8 DEF TagsOf
  <2> QED BY <1>a, <1>8, <2>1, HandledTags
<1>10. ASSUME NEW r \in Member
       PROVE  Lineless(chan[t][r], chan'[t][r]) /\ Repeats(t, r, top)'
  <2>1. NoLine(out[r]) /\ Behind(out[r], t, top)
    BY <1>8 DEF NoLine, Behind
  <2>2. Lineless(chan[t][r], chan'[t][r])
    BY <1>1, <1>8, <2>1, HandledLineless
  <2>3. Repeats(t, r, top)'
    BY <1>a, <1>8, <2>1, HandledRepeats
  <2> QED BY <2>2, <2>3
<1>11. KeptUpTo(t, top)'
  BY <1>a, <1>6, KeptStays
<1>12. \A k \in (top + 1)..localSeq[t] : k \in DOMAIN seqBuffer'[t]
  BY <1>a, <1>7 DEF AnsweredUpTo
<1>13. \A r \in Member : \A k \in DOMAIN seqBuffer'[r] :
         k \in DOMAIN seqBuffer[r] /\ seqBuffer'[r][k].tries = seqBuffer[r][k].tries
  BY <1>7
<1> QED BY <1>2, <1>7, <1>9, <1>10, <1>11, <1>12, <1>13, AloneKept

\* The lone talker repeats a line.
LEMMA AloneRetransmit ==
  ASSUME ChatTypeOK, NumbersOK, NEW t \in Member, NEW top \in Nat, AloneAt(t, top),
         NEW m \in Member, NEW k \in DOMAIN txBuffer[m], Retransmit(m, k)
  PROVE  AloneAt(t, top)'
<1>a. /\ ChanTags(t) /\ AnsweredUpTo(t, top) /\ KeptUpTo(t, top)
      /\ \A r \in Member : Repeats(t, r, top)
  BY AloneUse
<1>1. /\ m = t /\ txBuffer[t][k].l \in (Base(t) + 1)..top
      /\ txBuffer[t][k].num = NumberOf(t, txBuffer[t][k].l)
  BY <1>a DEF KeptUpTo
<1>2. PICK p : p = S3A(k, txBuffer[t][k].num, <<t, txBuffer[t][k].l>>)
  OBVIOUS
<1>3. p.tag = "S3A" /\ IsRepeat(p, t, top)
  BY <1>1, <1>2 DEF S3A, IsRepeat
<1>4. MulticastFacts(t, p) /\ PlainStep
  <2>1. /\ MulticastFacts(m, S3A(k, txBuffer[m][k].num, <<m, txBuffer[m][k].l>>))
        /\ PlainStep
    BY Zenon, TypeRetransmit, PlainRetransmit
  <2> QED BY <1>1, <1>2, <2>1
<1>5. UNCHANGED <<seqBuffer, sent, globalSeq, shown, holdBackQ>>
  BY DEF Retransmit, requestVars, displayVars
<1>6. ChanTags(t)'
  BY <1>a, <1>3, <1>4, MulticastTags
<1>7. ASSUME NEW r \in Member
      PROVE  Lineless(chan[t][r], chan'[t][r]) /\ Repeats(t, r, top)'
  <2>1. PICK off, put : off = 0 /\ put = <<p>>
    OBVIOUS
  <2>2. Shift(chan[t][r], chan'[t][r], off, put)
    BY <1>4, <2>1 DEF MulticastFacts
  <2>3. NoLine(put) /\ ~(off = 1)
    BY <1>3, <2>1 DEF NoLine
  <2>4. Lineless(chan[t][r], chan'[t][r])
    BY Zenon, <2>2, <2>3 DEF Lineless
  <2>5. Repeats(t, r, top)'
    BY <1>a, <1>3, <1>4, MulticastRepeats
  <2> QED BY <2>4, <2>5
<1>8. KeptUpTo(t, top)'
  <2>1. ASSUME NEW r \in Member, NEW j \in DOMAIN txBuffer'[r]
        PROVE  /\ r = t /\ txBuffer'[r][j].l \in (Base(t) + 1)..top
               /\ txBuffer'[r][j].num = NumberOf(t, txBuffer'[r][j].l)
    <3>1. /\ txBuffer \in [Member -> Map(Nat, Kept)] /\ txBuffer[t] \in Map(Nat, Kept)
          /\ txBuffer' = [txBuffer EXCEPT ![t][k].tries = @ + 1]
      BY <1>1 DEF ChatTypeOK, SendOK, Retransmit
    <3>2. txBuffer[t] \in [DOMAIN txBuffer[t] -> Kept]
      BY <3>1, MapDef
    <3>3. /\ DOMAIN txBuffer'[r] = DOMAIN txBuffer[r]
          /\ txBuffer'[r][j].l = txBuffer[r][j].l /\ txBuffer'[r][j].num = txBuffer[r][j].num
      <4>1. CASE r # t
        BY <3>1, <4>1
      <4>2. CASE r = t
        <5>1. PICK e : e = [txBuffer[t][k] EXCEPT !.tries = @ + 1]
          OBVIOUS
        <5>2. txBuffer'[t] = [txBuffer[t] EXCEPT ![k] = e]
          BY <3>1, <5>1
        <5>3. e.l = txBuffer[t][k].l /\ e.num = txBuffer[t][k].num
          <6>1. txBuffer[t][k] \in Kept
            BY <1>1, <3>2
          <6> QED BY <5>1, <6>1 DEF Kept
        <5>4. DOMAIN txBuffer'[t] = DOMAIN txBuffer[t]
          BY <5>2
        <5>5. j \in DOMAIN txBuffer[t]
          BY <2>1, <4>2, <5>4
        <5>6. txBuffer'[t][j] = IF j = k THEN e ELSE txBuffer[t][j]
          BY <3>2, <5>2, <5>5
        <5> QED BY <4>2, <5>3, <5>4, <5>6
      <4> QED BY <4>1, <4>2
    <3>4. j \in DOMAIN txBuffer[r]
      BY <2>1, <3>3
    <3>5. /\ r = t /\ txBuffer[r][j].l \in (Base(t) + 1)..top
          /\ txBuffer[r][j].num = NumberOf(t, txBuffer[r][j].l)
      BY <1>a, <3>4 DEF KeptUpTo
    <3> QED BY <3>3, <3>5
  <2>2. \A s \in sent' : s[1][1] = t => s[1][2] <= top
    BY <1>a, <1>5 DEF KeptUpTo
  <2> QED BY <2>1, <2>2 DEF KeptUpTo, NumberOf, Base, Joins
<1>9. \A j \in (top + 1)..localSeq[t] : j \in DOMAIN seqBuffer'[t]
  BY <1>a, <1>5 DEF AnsweredUpTo
<1>10. \A r \in Member : \A j \in DOMAIN seqBuffer'[r] :
         j \in DOMAIN seqBuffer[r] /\ seqBuffer'[r][j].tries = seqBuffer[r][j].tries
  BY <1>5
<1> QED BY <1>4, <1>5, <1>6, <1>7, <1>8, <1>9, <1>10, AloneKept

\* An expiry that erases no request still collecting.
LEMMA AloneExpire ==
  ASSUME ChatTypeOK, NumbersOK, NEW t \in Member, NEW top \in Nat, AloneAt(t, top),
         NEW m \in Member, NEW k \in DOMAIN txBuffer[m], TxExpire(m, k), forgotten' = {}
  PROVE  AloneAt(t, top)'
<1>a. /\ ChanTags(t) /\ AnsweredUpTo(t, top) /\ KeptUpTo(t, top)
      /\ \A r \in Member : Repeats(t, r, top)
  BY AloneUse
<1>1. m = t
  BY <1>a DEF KeptUpTo
<1>2. PlainStep
  BY PlainTxExpire
<1>3. UNCHANGED <<sent, chan, globalSeq, shown, holdBackQ>>
  BY DEF TxExpire, displayVars
<1>t. /\ seqBuffer \in [Member -> Map(Nat, Request)] /\ txBuffer \in [Member -> Map(Nat, Kept)]
      /\ localSeq[t] \in Nat /\ ChanOK
  BY DEF ChatTypeOK, RequestOK, SendOK
<1> DEFINE own == {l \in DOMAIN seqBuffer[m] : seqBuffer[m][l].globalSeq = k}
<1>4. /\ own = {} => UNCHANGED <<seqBuffer, forgotten>>
      /\ own # {} =>
           /\ seqBuffer' = [seqBuffer EXCEPT ![m] = Erase(@, Min(own))]
           /\ forgotten' = forgotten \cup ({<<m, Min(own)>>} \ {s[1] : s \in sent})
  BY DEF TxExpire
<1>5. /\ \A r \in Member : \A j \in DOMAIN seqBuffer'[r] :
           j \in DOMAIN seqBuffer[r] /\ seqBuffer'[r][j].tries = seqBuffer[r][j].tries
      /\ \A j \in (top + 1)..localSeq[t] : j \in DOMAIN seqBuffer'[t]
  <2>0. \A j \in (top + 1)..localSeq[t] : j \in DOMAIN seqBuffer[t]
    BY <1>a DEF AnsweredUpTo
  <2> HIDE DEF own
  <2>1. CASE own = {}
    BY <1>4, <2>0, <2>1
  <2>2. CASE own # {}
    <3>1. PICK x : x = Min(own)
      OBVIOUS
    <3>2. PICK f : f = Erase(seqBuffer[t], x)
      OBVIOUS
    <3>3. seqBuffer' = [seqBuffer EXCEPT ![t] = f]
      BY <1>1, <1>4, <2>2, <3>1, <3>2
    <3>4. /\ DOMAIN f = DOMAIN seqBuffer[t] \ {x}
          /\ \A j \in DOMAIN f : f[j] = seqBuffer[t][j]
      BY <3>2, EraseDef
    <3>5. seqBuffer'[t] = f /\ \A r \in Member \ {t} : seqBuffer'[r] = seqBuffer[r]
      BY <1>t, <3>3
    <3>6. <<t, x>> \in {s[1] : s \in sent}
      BY <1>1, <1>4, <2>2, <3>1
    <3>7. PICK s \in sent : s[1] = <<t, x>>
      BY <3>6
    <3>8. x <= top
      BY <1>a, <3>7 DEF KeptUpTo
    <3>9. x \in Nat
      <4>1. s \in ChatLine \X Nat
        BY <3>7 DEF ChatTypeOK, SendOK
      <4>2. s[1] \in ChatLine
        BY <4>1
      <4> QED BY <3>7, <4>2 DEF ChatLine
    <3>10. \A j \in (top + 1)..localSeq[t] : j \in DOMAIN seqBuffer'[t]
      BY <2>0, <3>4, <3>5, <3>8, <3>9
    <3>11. ASSUME NEW r \in Member, NEW j \in DOMAIN seqBuffer'[r]
           PROVE  j \in DOMAIN seqBuffer[r] /\ seqBuffer'[r][j].tries = seqBuffer[r][j].tries
      <4>1. CASE r = t
        BY <3>4, <3>5, <3>11, <4>1
      <4>2. CASE r # t
        BY <3>5, <3>11, <4>2
      <4> QED BY <4>1, <4>2
    <3> QED BY <3>10, <3>11
  <2> QED BY <2>1, <2>2
<1>6. KeptUpTo(t, top)'
  <2>1. PICK f : f = Erase(txBuffer[t], k)
    OBVIOUS
  <2>2. txBuffer' = [txBuffer EXCEPT ![t] = f]
    BY <1>1, <2>1 DEF TxExpire
  <2>3. /\ DOMAIN f = DOMAIN txBuffer[t] \ {k}
        /\ \A j \in DOMAIN f : f[j] = txBuffer[t][j]
    <3>1. PICK g : g = txBuffer[t]
      OBVIOUS
    <3>2. f = Erase(g, k)
      BY <2>1, <3>1
    <3>3. DOMAIN f = DOMAIN g \ {k} /\ \A j \in DOMAIN g \ {k} : f[j] = g[j]
      BY Zenon, <3>2, EraseDef
    <3> QED BY <3>1, <3>3
  <2>4. txBuffer'[t] = f /\ \A r \in Member \ {t} : txBuffer'[r] = txBuffer[r]
    BY <1>t, <2>2
  <2>5. ASSUME NEW r \in Member, NEW j \in DOMAIN txBuffer'[r]
        PROVE  /\ r = t /\ txBuffer'[r][j].l \in (Base(t) + 1)..top
               /\ txBuffer'[r][j].num = NumberOf(t, txBuffer'[r][j].l)
    <3>1. j \in DOMAIN txBuffer[r] /\ txBuffer'[r][j] = txBuffer[r][j]
      BY <2>3, <2>4, <2>5
    <3> QED BY <1>a, <3>1 DEF KeptUpTo
  <2>6. \A s \in sent' : s[1][1] = t => s[1][2] <= top
    BY <1>a, <1>3 DEF KeptUpTo
  <2> QED BY <2>5, <2>6 DEF KeptUpTo, NumberOf, Base, Joins
<1>7. ChanTags(t)'
  BY <1>a, <1>3 DEF ChanTags, TagsOf
<1>8. ASSUME NEW r \in Member
      PROVE  Lineless(chan[t][r], chan'[t][r]) /\ Repeats(t, r, top)'
  <2>1. PICK off, put : off = 0 /\ put = <<>>
    OBVIOUS
  <2>2. Shift(chan[t][r], chan'[t][r], off, put) /\ NoLine(put) /\ ~(off = 1)
    BY <1>3, <1>t, <2>1, StillMoves DEF NoLine
  <2>3. Lineless(chan[t][r], chan'[t][r])
    BY Zenon, <2>2 DEF Lineless
  <2>4. chan'[t][r] = chan[t][r]
    BY <1>3
  <2>5. RepeatsIn(chan'[t][r], t, top)
    BY <1>a, <2>4 DEF Repeats
  <2>6. Repeats(t, r, top)'
    BY Zenon, <2>5 DEF Repeats
  <2> QED BY <2>3, <2>6
<1> QED BY <1>2, <1>3, <1>5, <1>6, <1>7, <1>8, AloneKept

LEMMA AloneStart ==
  ASSUME DecentralInit, NEW t \in Member
  PROVE  AloneAt(t, Base(t))
<1>0. Base(t) \in Nat /\ Joins \in Nat
  BY MemberFacts DEF Base
<1>1. \A n, m \in Member : Len(chan[n][m]) = 0
  BY DEF DecentralInit
<1>2. \A n \in Member : Passed(n, t) = Base(t)
  BY DEF DecentralInit, Passed, Empty
<1>3. \A n \in Member : localSeq[n] = Base(n)
  BY DEF DecentralInit, Base
<1>4. OnlyTalker(t)
  BY <1>3 DEF OnlyTalker, DecentralInit, Empty
<1>5. ChanTags(t)
  BY <1>1 DEF ChanTags, TagsOf
<1>6. ASSUME NEW n \in Member
      PROVE  ProposalIs(n, t) /\ AnswersFollow(n, t) /\ Seen(t, n, Base(t))
  <2>1. ProposalIs(n, t)
    <3>1. generatedGlobalSeq[n] = Start(n) /\ Start(n) \in Nat
      BY <1>0 DEF DecentralInit, Start
    <3>2. \A l, g : ~Proposed(n, t, l, g)
      BY DEF DecentralInit, Proposed
    <3> QED BY <1>0, <1>2, <3>1, <3>2 DEF ProposalIs
  <2>2. AnswersFollow(n, t)
    BY <1>1 DEF AnswersFollow, AnswersOrdered, Coming
  <2>3. LinesIn(chan[t][n], t, Base(t), Base(t))
    BY <1>0, <1>1 DEF LinesIn
  <2>4. Displays(n, t, Base(t))
    <3>1. globalSeq[n] = 0 /\ DOMAIN holdBackQ[n] = {} /\ shown[n] = <<>>
      BY DEF DecentralInit, Empty
    <3>2. NumberOf(t, Base(t)) = Joins
      BY <1>0 DEF NumberOf
    <3>3. (Joins + 1)..Joins = {}
      BY <1>0
    <3>4. Len(shown[n]) = 0
      BY <3>1
    <3>5. Base(t) - Base(t) = 0 /\ \A i \in 1..0 : FALSE
      BY <1>0
    <3> QED BY <3>1, <3>2, <3>3, <3>4, <3>5 DEF Displays
  <2> QED BY <1>0, <2>1, <2>2, <2>3, <2>4 DEF Seen
<1>7. AnsweredUpTo(t, Base(t))
  BY <1>0, <1>3 DEF AnsweredUpTo
<1>8. KeptUpTo(t, Base(t))
  BY DEF DecentralInit, KeptUpTo, Empty
<1>9. \A n \in Member : Repeats(t, n, Base(t))
  BY <1>1 DEF Repeats, RepeatsIn
<1> QED BY <1>4, <1>5, <1>6, <1>7, <1>8, <1>9 DEF AloneAt

\* Only the lone talker's requests, answers to them and its lines are on their way.
LEMMA AlonePackets ==
  ASSUME ChatTypeOK, NumbersOK, NEW t \in Member, NEW top \in Nat, AloneAt(t, top),
         NEW m \in Member, NEW n \in Member, NEW tag, Got(m, n, tag)
  PROVE  /\ tag \in {"S2_", "S2A", "C0_", "S3A"}
         /\ tag \in {"S2_", "C0_", "S3A"} => m = t
         /\ tag = "S2A" => n = t
<1>1. /\ 1 \in 1..Len(chan[m][n]) /\ chan[m][n][1].tag = tag
      /\ chan[m][n][1] \in ChatPacket
  BY GotFirst DEF ChatTypeOK
<1>2. tag \in {"S2_", "S2A"} \/ (m = t /\ tag \in {"C0_", "S3A"})
  BY <1>1 DEF AloneAt, ChanTags, TagsOf
<1>3. \A r \in Member \ {t} : localSeq[r] = Base(r) /\ Base(r) \in Nat
  BY DEF AloneAt, OnlyTalker, Base
<1>4. ASSUME tag = "S2_" PROVE m = t
  <2>1. /\ Base(m) < chan[m][n][1].l /\ chan[m][n][1].l <= localSeq[m]
        /\ chan[m][n][1].l \in Nat
    BY <1>1, <1>4, RequestAtHead, PacketUse DEF NumbersOK, Fields
  <2> QED BY <1>3, <2>1
<1>5. ASSUME tag = "S2A" PROVE n = t
  <2>1. PICK l \in Nat, g \in Nat : l = chan[m][n][1].l /\ g = chan[m][n][1].g
    BY <1>1, <1>5, PacketUse DEF Fields
  <2>2. Proposed(m, n, l, g)
    BY <1>1, <1>5, <2>1 DEF NumbersOK, ProposalsInv, AnswersIn, Proposed
  <2>3. Base(n) < l /\ l <= Passed(m, n) /\ Passed(m, n) <= localSeq[n]
    BY <2>2 DEF NumbersOK, ProposalsInv, ProposalsGrow, RequestsInv, RequestsComing
  <2>4. Passed(m, n) \in Nat
    BY QueueFacts DEF ChatTypeOK
  <2> QED BY <1>3, <2>3, <2>4
<1> QED BY <1>2, <1>4, <1>5

LEMMA AloneStill ==
  ASSUME ChatTypeOK, NumbersOK, NEW t \in Member, NEW top \in Nat, AloneAt(t, top),
         UNCHANGED decentralVars
  PROVE  AloneAt(t, top)'
<1>a. /\ OnlyTalker(t) /\ ChanTags(t) /\ AnsweredUpTo(t, top) /\ KeptUpTo(t, top)
      /\ \A r \in Member : /\ ProposalIs(r, t) /\ AnswersFollow(r, t)
                            /\ Seen(t, r, top) /\ Repeats(t, r, top)
  BY AloneUse
<1>u. UNCHANGED <<localSeq, seqBuffer, txBuffer, sent, generatedGlobalSeq, hold_back_queue,
                  proposed, chan, globalSeq, holdBackQ, shown>>
  BY DEF decentralVars, requestVars, proposalVars, sendVars, displayVars
<1>m. \A s, r \in Member : Shift(chan[s][r], chan'[s][r], 0, <<>>)
  BY <1>u, StillMoves DEF ChatTypeOK
<1>p. \A s, r \in Member : Answerless(chan[s][r], chan'[s][r])
  BY <1>u, StillPlain, PlainLess DEF ChatTypeOK
<1>n. localSeq[t] \in Nat /\ ProposalsInv
  BY DEF ChatTypeOK, RequestOK, NumbersOK
<1>1. OnlyTalker(t)'
  BY <1>a, <1>u DEF OnlyTalker, Base
<1>2. ChanTags(t)'
  BY <1>a, <1>u DEF ChanTags, TagsOf
<1>3. ASSUME NEW r \in Member
      PROVE  ProposalIs(r, t)' /\ AnswersFollow(r, t)' /\ Seen(t, r, top)' /\ Repeats(t, r, top)'
  <2>1. Passed(r, t)' = Passed(r, t)
    BY <1>u DEF Passed, Base
  <2>2. ProposalIs(r, t)'
    BY <1>a, <1>u, <2>1, ProposalStays
  <2>3. AnswersIn(chan[r][t], r, t, proposed)
    BY <1>n DEF ProposalsInv
  <2>4. AnswersFollow(r, t)'
    BY <1>a, <1>u, <1>p, <2>3, FollowStays
  <2>5. PICK off, put : off = 0 /\ put = <<>>
    OBVIOUS
  <2>6. Shift(chan[t][r], chan'[t][r], off, put) /\ NoLine(put) /\ ~(off = 1)
    BY <1>m, <2>5 DEF NoLine
  <2>7. Lineless(chan[t][r], chan'[t][r])
    BY Zenon, <2>6 DEF Lineless
  <2>8. chan'[t][r] = chan[t][r]
    BY <1>u
  <2>9. RepeatsIn(chan'[t][r], t, top)
    BY <1>a, <2>8 DEF Repeats
  <2>10. Repeats(t, r, top)'
    BY Zenon, <2>9 DEF Repeats
  <2> QED BY <1>a, <1>u, <2>2, <2>4, <2>7, <2>10, SeenStays
<1>4. AnsweredUpTo(t, top)'
  <2>1. \A k \in Nat : Heard(t, k)' = Heard(t, k)
    BY <1>n, <1>u, <1>p, AnswersStay
  <2> QED BY <1>a, <1>n, <1>u, <2>1, AnsweredStays
<1>5. KeptUpTo(t, top)'
  BY <1>a, <1>u, KeptStays
<1> QED BY <1>1, <1>2, <1>3, <1>4, <1>5 DEF AloneAt

\* What stays without a budget.
LEMMA BudgetStays ==
  ASSUME [DecentralNext]_decentralVars
  PROVE  budget' = budget
<1>1. ASSUME NEW m \in Member, NEW n \in Member, Handle(m, n) PROVE budget' = budget
  <2>1. ASSUME NEW g, NEW line, Chat(m, n, g, line) PROVE budget' = budget
    BY <2>1 DEF Chat, runVars
  <2> QED BY <1>1, <2>1 DEF Handle, ReceiveS2_, ReceiveS2A, ReceiveC0_, ReceiveS3_, ReceiveS3A,
                            ReceiveS3N, ReceiveS4_, ReceiveS4A, runVars
<1>2. ASSUME NEW m \in Member, NEW n \in Member, Lose(m, n) PROVE budget' = budget
  BY <1>2 DEF Lose, Spend
<1>3. ASSUME NEW m \in Member, Type(m) PROVE budget' = budget
  BY <1>3 DEF Type
<1>4. ASSUME NEW m \in Member, Timers(m) PROVE budget' = budget
  BY <1>4 DEF Timers, Resend, GiveUp, Retransmit, TxExpire, Spend, runVars
<1>5. ASSUME UNCHANGED decentralVars PROVE budget' = budget
  BY <1>5 DEF decentralVars, runVars
<1> QED BY <1>1, <1>2, <1>3, <1>4, <1>5 DEF DecentralNext

LEMMA ForgottenStays ==
  ASSUME [DecentralNext]_decentralVars
  PROVE  forgotten \subseteq forgotten'
<1>1. ASSUME NEW m \in Member, NEW n \in Member, Handle(m, n) PROVE forgotten \subseteq forgotten'
  <2>1. ASSUME NEW g, NEW line, Chat(m, n, g, line) PROVE forgotten' = forgotten
    BY <2>1 DEF Chat, sendVars
  <2>2. ASSUME ReceiveS2A(m, n) PROVE forgotten' = forgotten
    BY <2>2 DEF ReceiveS2A, sendVars
  <2> QED BY <1>1, <2>1, <2>2 DEF Handle, ReceiveS2_, ReceiveC0_, ReceiveS3_, ReceiveS3A,
                                  ReceiveS3N, ReceiveS4_, ReceiveS4A, sendVars
<1>2. ASSUME NEW m \in Member, NEW n \in Member, Lose(m, n) PROVE forgotten' = forgotten
  BY <1>2 DEF Lose, sendVars
<1>3. ASSUME NEW m \in Member, Type(m) PROVE forgotten' = forgotten
  BY <1>3 DEF Type, sendVars
<1>4. ASSUME NEW m \in Member, Timers(m) PROVE forgotten \subseteq forgotten'
  <2>1. ASSUME NEW k, TxExpire(m, k) PROVE forgotten \subseteq forgotten'
    BY <2>1 DEF TxExpire
  <2> QED BY <1>4, <2>1 DEF Timers, Resend, GiveUp, Retransmit, sendVars
<1>5. ASSUME UNCHANGED decentralVars PROVE forgotten' = forgotten
  BY <1>5 DEF decentralVars, sendVars
<1> QED BY <1>1, <1>2, <1>3, <1>4, <1>5 DEF DecentralNext

AloneInv ==
  \A t \in Member : (Alone(t) /\ forgotten = {}) => \E top \in Nat : AloneAt(t, top)

LEMMA AloneStep ==
  ASSUME DecentralInv, AloneInv, [DecentralNext]_decentralVars
  PROVE  AloneInv'
<1> SUFFICES ASSUME NEW t \in Member, Alone(t)', forgotten' = {}
             PROVE  \E next \in Nat : AloneAt(t, next)'
  BY DEF AloneInv
<1>1. Alone(t) /\ forgotten = {}
  BY BudgetStays, ForgottenStays DEF Alone
<1>2. ChatTypeOK /\ NumbersOK
  <2>1. ChatTypeOK /\ used.losses \in Nat /\ used.losses <= budget.losses
    BY DEF DecentralInv, ChatTypeOK, RunOK
  <2>2. used.losses = 0
    BY <1>1, <2>1 DEF Alone
  <2> QED BY <2>1, <2>2 DEF DecentralInv, NumbersInv
<1>3. PICK top \in Nat : AloneAt(t, top)
  BY <1>1 DEF AloneInv
<1>s. ASSUME NEW what \in {"losses", "requests"}, Spend(what) PROVE FALSE
  <2>1. used[what] < budget[what]
    BY <1>s DEF Spend
  <2>2. budget[what] = 0 /\ used[what] \in Nat
    BY <1>1, <1>2 DEF Alone, ChatTypeOK, RunOK
  <2> QED BY <2>1, <2>2
<1>4. ASSUME NEW m \in Member, NEW n \in Member, Handle(m, n)
      PROVE  \E next \in Nat : AloneAt(t, next)'
  <2>1. CASE ReceiveS2_(m, n)
    <3>1. m = t
      BY <1>2, <1>3, <2>1, AlonePackets DEF ReceiveS2_
    <3> QED BY <1>2, <1>3, <2>1, <3>1, AloneRequest
  <2>2. CASE ReceiveS2A(m, n)
    <3>1. n = t
      BY <1>2, <1>3, <2>2, AlonePackets DEF ReceiveS2A
    <3> QED BY <1>2, <1>3, <2>2, <3>1, AloneAnswer
  <2>3. CASE ReceiveC0_(m, n)
    <3>1. m = t
      BY <1>2, <1>3, <2>3, AlonePackets DEF ReceiveC0_
    <3> QED BY <1>2, <1>3, <2>3, <3>1, AloneChat
  <2>4. CASE ReceiveS3A(m, n)
    <3>1. m = t
      BY <1>2, <1>3, <2>4, AlonePackets DEF ReceiveS3A
    <3> QED BY <1>2, <1>3, <2>4, <3>1, AloneRepeat
  <2>5. CASE \/ ReceiveS3_(m, n) \/ ReceiveS3N(m, n) \/ ReceiveS4_(m, n) \/ ReceiveS4A(m, n)
    <3>1. PICK tag \in {"S3_", "S3N", "S4_", "S4A"} : Got(m, n, tag)
      BY <2>5 DEF ReceiveS3_, ReceiveS3N, ReceiveS4_, ReceiveS4A
    <3>2. tag \in {"S2_", "S2A", "C0_", "S3A"}
      BY <1>2, <1>3, <3>1, AlonePackets
    <3> QED BY <3>2
  <2> QED BY <1>4, <2>1, <2>2, <2>3, <2>4, <2>5 DEF Handle
<1>5. ASSUME NEW m \in Member, NEW n \in Member, Lose(m, n) PROVE FALSE
  BY <1>5, <1>s DEF Lose
<1>6. ASSUME NEW m \in Member, Type(m) PROVE \E next \in Nat : AloneAt(t, next)'
  <2>1. m = t
    <3>1. used.lines[m] < budget.lines[m] /\ used.lines[m] \in Nat
      BY <1>2, <1>6 DEF Type, ChatTypeOK, RunOK
    <3>2. m # t => budget.lines[m] = 0
      BY <1>1 DEF Alone
    <3> QED BY <3>1, <3>2
  <2> QED BY <1>2, <1>3, <1>6, <2>1, AloneType
<1>7. ASSUME NEW m \in Member, Timers(m) PROVE \E next \in Nat : AloneAt(t, next)'
  <2>1. ASSUME NEW l \in DOMAIN seqBuffer[m], Resend(m, l) \/ GiveUp(m, l) PROVE FALSE
    <3>1. seqBuffer[m][l].tries = 0
      BY <1>3 DEF AloneAt, OnlyTalker
    <3>2. ~GiveUp(m, l)
      BY <3>1 DEF GiveUp
    <3>3. ~Resend(m, l)
      BY <1>s DEF Resend
    <3> QED BY <2>1, <3>2, <3>3
  <2>2. ASSUME NEW k \in DOMAIN txBuffer[m], Retransmit(m, k) PROVE AloneAt(t, top)'
    BY <1>2, <1>3, <2>2, AloneRetransmit
  <2>3. ASSUME NEW k \in DOMAIN txBuffer[m], TxExpire(m, k) PROVE AloneAt(t, top)'
    BY <1>2, <1>3, <2>3, AloneExpire
  <2> QED BY <1>3, <1>7, <2>1, <2>2, <2>3 DEF Timers
<1>8. CASE UNCHANGED decentralVars
  BY <1>2, <1>3, <1>8, AloneStill
<1> QED BY <1>4, <1>5, <1>6, <1>7, <1>8 DEF DecentralNext

\* When nothing is under way, everybody has displayed all of the talker's lines.
LEMMA AloneQuiet ==
  ASSUME ChatTypeOK, NumbersOK, NEW t \in Member, NEW top \in Nat, AloneAt(t, top), Quiet,
         NEW m \in Member, NEW n \in Member, NEW line \in LinesOf(m)
  PROVE  \E i \in DOMAIN shown[n] :
           /\ shown[n][i][2] = line
           /\ \A j \in DOMAIN shown[n] \ {i} : shown[n][j][2] # line
<1>0. /\ \A r \in Member : localSeq[r] \in Nat /\ Base(r) \in Nat
      /\ \A r, s \in Member : Len(chan[r][s]) = 0
      /\ AnsweredUpTo(t, top) /\ Seen(t, n, top) /\ ProposalsInv
      /\ \A r \in Member : RequestsComing(t, r) /\ Passed(r, t) \in Nat
  BY AloneUse, QueueFacts DEF ChatTypeOK, RequestOK, Base, Quiet, NumbersOK, RequestsInv
<1>1. PICK l \in (Base(m) + 1)..localSeq[m] : line = <<m, l>>
  BY DEF LinesOf, Base
<1>2. m = t
  <2> SUFFICES ASSUME m # t PROVE FALSE
    OBVIOUS
  <2>1. localSeq[m] = Base(m)
    BY AloneUse DEF OnlyTalker
  <2> QED BY <1>0, <1>1, <2>1
<1>3. top = localSeq[t]
  <2> SUFFICES ASSUME top # localSeq[t] PROVE FALSE
    OBVIOUS
  <2>1. PICK k \in Nat : k = top + 1
    OBVIOUS
  <2>2. k \in (top + 1)..localSeq[t] /\ k \in (Base(t) + 1)..localSeq[t]
    BY <1>0, <2>1 DEF AnsweredUpTo
  <2>3. PICK r \in Member : r \notin Heard(t, k)
    <3>1. Heard(t, k) # Member /\ Heard(t, k) \subseteq Member
      BY <1>0, <2>2 DEF AnsweredUpTo, Heard
    <3> QED BY <3>1
  <2>4. Passed(r, t) = localSeq[t]
    <3> SUFFICES ASSUME Passed(r, t) # localSeq[t] PROVE FALSE
      OBVIOUS
    <3>1. Passed(r, t) + 1 \in (Passed(r, t) + 1)..localSeq[t]
      BY <1>0 DEF RequestsComing
    <3>2. PICK i \in 1..Len(chan[t][r]) : Asks(chan[t][r][i], Passed(r, t) + 1)
      BY <1>0, <3>1 DEF RequestsComing, RequestsIn
    <3> QED BY <1>0, <3>2
  <2>5. Made(r, t, k)
    BY <1>0, <2>2, <2>4 DEF ProposalsInv, ProposalsGrow
  <2>6. ~Coming(chan[r][t], k)
    BY <1>0 DEF Coming
  <2> QED BY <2>3, <2>5, <2>6 DEF Heard
<1>4. PICK seen \in Base(t)..top : LinesIn(chan[t][n], t, seen, top) /\ Displays(n, t, seen)
  BY <1>0 DEF Seen
<1>5. seen = top
  <2> SUFFICES ASSUME seen # top PROVE FALSE
    OBVIOUS
  <2>1. seen + 1 \in (seen + 1)..top
    BY <1>0, <1>4
  <2>2. PICK i \in 1..Len(chan[t][n]) : chan[t][n][i] = LineOf(t, seen + 1)
    BY <1>4, <2>1 DEF LinesIn
  <2> QED BY <1>0, <2>2
<1>6. /\ Len(shown[n]) = localSeq[t] - Base(t) /\ DOMAIN shown[n] = 1..Len(shown[n])
      /\ \A i \in 1..Len(shown[n]) : shown[n][i] = <<Joins + i, <<t, Base(t) + i>>>>
  <2>1. DOMAIN shown[n] = 1..Len(shown[n])
    BY DEF ChatTypeOK, DisplayOK, Shown
  <2> QED BY <1>3, <1>4, <1>5, <2>1 DEF Displays
<1>7. PICK i \in 1..Len(shown[n]) : Base(t) + i = l
  <2>1. l - Base(t) \in 1..Len(shown[n]) /\ Base(t) + (l - Base(t)) = l
    BY <1>0, <1>1, <1>2, <1>6
  <2> QED BY <2>1
<1>8. shown[n][i][2] = line
  BY <1>1, <1>2, <1>6, <1>7
<1>9. ASSUME NEW j \in DOMAIN shown[n] \ {i} PROVE shown[n][j][2] # line
  <2>1. j \in 1..Len(shown[n]) /\ shown[n][j][2] = <<t, Base(t) + j>>
    BY <1>6
  <2>2. Base(t) + j # l
    BY <1>0, <1>7, <2>1
  <2> QED BY <1>1, <2>1, <2>2
<1> QED BY <1>6, <1>8, <1>9

\* While one member talks, nothing is lost and no request repeated, everybody has
\* displayed each of its lines once when nothing is under way, although each is
\* sent three times, as long as no expiry has erased a request that was still
\* collecting (CHAT/extra: the handlers S2_, S2A, C0_ and S3A of identify, the
\* repetitions and expiries of reliabilityThread).
THEOREM LonelyLinesShown == DecentralSpec => []DeliveredWhenQuiet
<1>1. DecentralInit => DecentralInv /\ AloneInv
  <2>1. DecentralInit => DecentralInv
    BY TypeStart, NumbersStart DEF DecentralInv, NumbersInv
  <2>2. ASSUME DecentralInit PROVE AloneInv
    <3>1. \A t \in Member : Base(t) \in Nat /\ AloneAt(t, Base(t))
      BY <2>2, AloneStart DEF Base
    <3> QED BY <3>1 DEF AloneInv
  <2> QED BY <2>1, <2>2
<1>2. DecentralInv /\ AloneInv /\ [DecentralNext]_decentralVars => DecentralInv' /\ AloneInv'
  BY DecentralStep, AloneStep
<1>3. DecentralInv /\ AloneInv => DeliveredWhenQuiet
  <2> SUFFICES ASSUME DecentralInv, AloneInv, Undisturbed, Quiet,
                      NEW m \in Member, NEW n \in Member, NEW line \in LinesOf(m)
               PROVE  \E i \in DOMAIN shown[n] :
                        /\ shown[n][i][2] = line
                        /\ \A j \in DOMAIN shown[n] \ {i} : shown[n][j][2] # line
    BY DEF DeliveredWhenQuiet
  <2>1. PICK t \in Member : Alone(t) /\ forgotten = {}
    BY DEF Undisturbed, Alone
  <2>2. ChatTypeOK /\ NumbersOK
    <3>1. ChatTypeOK /\ used.losses \in Nat /\ used.losses <= budget.losses
      BY DEF DecentralInv, ChatTypeOK, RunOK
    <3>2. used.losses = 0
      BY <2>1, <3>1 DEF Alone
    <3> QED BY <3>1, <3>2 DEF DecentralInv, NumbersInv
  <2>3. PICK top \in Nat : AloneAt(t, top)
    BY <2>1 DEF AloneInv
  <2> QED BY <2>2, <2>3, AloneQuiet
<1> QED BY <1>1, <1>2, <1>3, PTL DEF DecentralSpec
-----------------------------------------------------------------------------
(* Part three: the election and the heartbeats of the regular variant.      *)
(* First the packets of an inbox.                                           *)

\* The packets a queue holds.
In(q) == {q[i] : i \in 1..Len(q)}

\* Queueing a packet adds it, once.
LEMMA EnqueueAdds ==
  ASSUME NEW S, NEW q \in Seq(S), NEW p \in S
  PROVE  Enqueue(q, p) \in Seq(S) /\ In(Enqueue(q, p)) = In(q) \cup {p}
<1>1. CASE \E i \in 1..Len(q) : q[i] = p
  BY <1>1 DEF Enqueue, In
<1>2. CASE ~ \E i \in 1..Len(q) : q[i] = p
  <2>1. Enqueue(q, p) = Append(q, p)
    BY <1>2 DEF Enqueue
  <2>2. /\ Append(q, p) \in Seq(S) /\ Len(Append(q, p)) = Len(q) + 1
        /\ Append(q, p)[Len(q) + 1] = p /\ Len(q) \in Nat
        /\ \A i \in 1..Len(q) : Append(q, p)[i] = q[i]
    OBVIOUS
  <2>3. ASSUME NEW x \in In(Append(q, p)) PROVE x \in In(q) \cup {p}
    <3>1. PICK i \in 1..Len(q) + 1 : x = Append(q, p)[i]
      BY <2>2, <2>3 DEF In
    <3> QED BY <2>2, <3>1 DEF In
  <2>4. ASSUME NEW x \in In(q) \cup {p} PROVE x \in In(Append(q, p))
    <3>1. PICK i \in 1..Len(q) + 1 : x = Append(q, p)[i]
      BY <2>2, <2>4 DEF In
    <3> QED BY <2>2, <3>1 DEF In
  <2> QED BY <2>1, <2>2, <2>3, <2>4
<1> QED BY <1>1, <1>2

\* The first packet of a queue, and the others.
LEMMA HeadIn ==
  ASSUME NEW S, NEW q \in Seq(S), q # <<>>
  PROVE  /\ Head(q) \in S /\ Tail(q) \in Seq(S)
         /\ Head(q) \in In(q)
         /\ In(Tail(q)) \subseteq In(q)
         /\ In(q) \subseteq In(Tail(q)) \cup {Head(q)}
<1>1. /\ Len(q) \in Nat \ {0} /\ Head(q) = q[1] /\ Tail(q) \in Seq(S)
      /\ Len(Tail(q)) = Len(q) - 1
      /\ \A i \in 1..Len(q) - 1 : Tail(q)[i] = q[i + 1]
      /\ \A i \in 1..Len(q) : q[i] \in S
  BY EmptySeq
<1>2. ASSUME NEW x \in In(Tail(q)) PROVE x \in In(q)
  <2>1. PICK i \in 1..Len(q) - 1 : x = Tail(q)[i]
    BY <1>1, <1>2 DEF In
  <2>2. x = q[i + 1] /\ i + 1 \in 1..Len(q)
    BY <1>1, <2>1
  <2> QED BY <2>2 DEF In
<1>3. ASSUME NEW x \in In(q) PROVE x \in In(Tail(q)) \cup {Head(q)}
  <2>1. PICK i \in 1..Len(q) : x = q[i]
    BY <1>3 DEF In
  <2>2. CASE i = 1
    BY <1>1, <2>1, <2>2
  <2>3. CASE i # 1
    <3>1. i - 1 \in 1..Len(Tail(q)) /\ x = Tail(q)[i - 1]
      BY <1>1, <2>1, <2>3
    <3> QED BY <3>1 DEF In
  <2> QED BY <2>2, <2>3
<1>4. Head(q) \in In(q) /\ Head(q) \in S
  BY <1>1 DEF In
<1> QED BY <1>1, <1>2, <1>3, <1>4

LEMMA EmptyIn ==
  ASSUME NEW S, NEW q \in Seq(S)
  PROVE  In(q) = {} <=> q = <<>>
<1>1. CASE q = <<>>
  BY <1>1 DEF In
<1>2. CASE q # <<>>
  BY <1>2, HeadIn
<1> QED BY <1>1, <1>2

Boxes == [Members -> Seq(ElectionPacket)]

\* A packet that is sent keeps the inboxes what they are, and reaches the
\* members that run.
LEMMA DeliverAdds ==
  ASSUME NEW box \in Boxes, NEW to, NEW p \in ElectionPacket
  PROVE  /\ Deliver(box, to, p) \in Boxes
         /\ \A m \in Members :
              In(Deliver(box, to, p)[m]) = In(box[m]) \cup (IF m \in to \cap up THEN {p} ELSE {})
<1>1. ASSUME NEW m \in Members
      PROVE  /\ Deliver(box, to, p)[m] \in Seq(ElectionPacket)
             /\ In(Deliver(box, to, p)[m]) = In(box[m]) \cup (IF m \in to \cap up THEN {p} ELSE {})
  <2>1. box[m] \in Seq(ElectionPacket)
    BY DEF Boxes
  <2> QED BY <2>1, EnqueueAdds DEF Deliver
<1>2. Deliver(box, to, p) \in Boxes
  BY <1>1 DEF Deliver, Boxes
<1> QED BY <1>1, <1>2

LEMMA TakenBoxes ==
  ASSUME NEW n \in Members, inbox \in Boxes, inbox[n] # <<>>
  PROVE  /\ Taken(n) \in Boxes
         /\ Head(inbox[n]) \in ElectionPacket /\ Head(inbox[n]).from \in Members
         /\ \A m \in Members : m # n => Taken(n)[m] = inbox[m]
         /\ Taken(n)[n] = Tail(inbox[n])
<1>1. inbox[n] \in Seq(ElectionPacket)
  BY DEF Boxes
<1>2. Head(inbox[n]) \in ElectionPacket /\ Tail(inbox[n]) \in Seq(ElectionPacket)
  BY <1>1, HeadIn
<1>3. Taken(n) \in Boxes
  BY <1>2 DEF Taken, Boxes
<1>4. Head(inbox[n]).from \in Members
  BY <1>2 DEF ElectionPacket
<1> QED BY <1>2, <1>3, <1>4 DEF Taken, Boxes

LEMMA PacketKinds ==
  ASSUME NEW n \in Members
  PROVE  /\ \A t \in {"H0_", "H0A", "E1_", "E1A", "E2_"} : Pkt(t, n) \in ElectionPacket
         /\ \A l \in Members : \A S \in SUBSET Members : ListOf(n, S, l) \in ElectionPacket
BY DEF Pkt, ListOf, ElectionPacket, Nobody

-----------------------------------------------------------------------------
(* Types of the election.                                                   *)

\* The places of heartBeatThread.
HbPlaces == {"top", "beat", "watch", "alarm", "decide", "signal"} \cup TakingOver

\* What an action that only moves mail, or none, leaves typed.
LEMMA InboxTyped ==
  ASSUME ElectionTypeOK
  PROVE  inbox \in Boxes
BY DEF ElectionTypeOK, Boxes

LEMMA ElectionTypeInit == ElectionInit => ElectionTypeOK
<1> SUFFICES ASSUME ElectionInit PROVE ElectionTypeOK
  OBVIOUS
<1>1. Second \in Nat \ {0}
  BY ElectionAssumption
<1>2. inbox \in [Members -> Seq(ElectionPacket)]
  BY DEF ElectionInit
<1>3. hbSleep \in [Members -> 0..Second] /\ elSleep \in [Members -> 0..Second]
  BY <1>1 DEF ElectionInit
<1>4. leader \in [Members -> Members] /\ isLeader \in [Members -> BOOLEAN]
  BY DEF ElectionInit
<1>5. isLeaderAlive \in [Members -> BOOLEAN] /\ hb \in [Members -> HbPlaces]
  BY DEF ElectionInit, HbPlaces
<1> QED BY <1>2, <1>3, <1>4, <1>5 DEF ElectionInit, ElectionTypeOK, HbPlaces, TakingOver

LEMMA TakeOverTyped ==
  ASSUME ElectionTypeOK, NEW n \in Members, Claim(n) \/ Announce(n) \/ Publish(n)
  PROVE  /\ leader' \in [Members -> Members] /\ isLeader' \in [Members -> BOOLEAN]
         /\ isLeaderAlive' \in [Members -> BOOLEAN] /\ electionOnGoing' \in [Members -> BOOLEAN]
         /\ electionBowOut' \in [Members -> BOOLEAN] /\ inbox' \in Boxes
<1>a. inbox \in Boxes /\ participantList[n] \in SUBSET Members /\ leader[n] \in Members
  BY InboxTyped DEF ElectionTypeOK
<1>1. CASE Claim(n)
  BY <1>1, <1>a DEF Claim, ElectionTypeOK
<1>2. CASE Announce(n)
  <2>1. Deliver(inbox, participantList[n] \ {n}, Pkt("E2_", n)) \in Boxes
    BY <1>a, PacketKinds, DeliverAdds
  <2> QED BY <1>2, <2>1 DEF Announce, flags, ElectionTypeOK
<1>3. CASE Publish(n)
  <2>1. ListOf(n, participantList[n], leader[n]) \in ElectionPacket
    BY <1>a, PacketKinds
  <2>2. Deliver(inbox, participantList[n] \ {n}, ListOf(n, participantList[n], leader[n]))
          \in Boxes
    BY <1>a, <2>1, DeliverAdds
  <2> QED BY <1>3, <2>2 DEF Publish, flags, ElectionTypeOK
<1> QED BY <1>1, <1>2, <1>3

LEMMA HeartBeatTyped ==
  ASSUME ElectionTypeOK, NEW n \in Members, HeartBeat(n)
  PROVE  ElectionTypeOK'
<1>a. Second \in Nat \ {0} /\ 1 \in 0..Second /\ Second \in 0..Second /\ 0 \in 0..Second
  BY ElectionAssumption
<1>b. inbox \in Boxes
  BY InboxTyped
<1>1. CASE HbBeat(n)
  <2>1. inbox' \in Boxes
    <3>1. inbox' = Deliver(inbox, participantList[n] \ {n}, Pkt("H0_", n))
      BY <1>1 DEF HbBeat
    <3>2. Pkt("H0_", n) \in ElectionPacket
      BY PacketKinds
    <3> QED BY ONLY <1>b, <3>1, <3>2, DeliverAdds
  <2> QED BY <1>1, <1>a, <2>1 DEF HbBeat, HbSleeps, ElectionTypeOK, flags, Boxes
<1>2. CASE HbCount(n)
  <2> DEFINE gone == {m \in Silent(n) : Overdue(n, m)}
             left == participantList[n] \ gone
  <2>1. left \in SUBSET Members /\ leader[n] \in Members
    BY DEF ElectionTypeOK
  <2>2. inbox' \in Boxes
    <3>1. inbox' = IF gone = {} THEN inbox
                   ELSE Deliver(inbox, left \ {n}, ListOf(n, left, leader[n]))
      BY <1>2 DEF HbCount
    <3>2. ListOf(n, left, leader[n]) \in ElectionPacket
      BY <2>1, PacketKinds
    <3> HIDE DEF gone, left
    <3> QED BY <1>b, <3>1, <3>2, DeliverAdds
  <2>3. responseCount' = [responseCount EXCEPT ![n] =
             [m \in Members |-> IF m \in gone THEN 0
                                ELSE IF m \in Silent(n) THEN @[m] + 1 ELSE @[m]]]
        /\ participantList' = [participantList EXCEPT ![n] = left]
    BY <1>2 DEF HbCount
  <2> HIDE DEF gone, left
  <2>4. responseCount' \in [Members -> [Members -> Nat]]
    BY <2>3 DEF ElectionTypeOK
  <2> QED BY <1>2, <2>1, <2>2, <2>3, <2>4 DEF HbCount, ElectionTypeOK, flags, sleeps, Boxes
<1>3. CASE HbWatch(n)
  BY <1>3, <1>a DEF HbWatch, HbSleeps, ElectionTypeOK, count
<1>4. CASE HbCalm(n)
  BY <1>4 DEF HbCalm, ElectionTypeOK, flags, count, sleeps
<1>5. CASE HbAlarm(n)
  BY <1>5 DEF HbAlarm, ElectionTypeOK, flags, count, sleeps
<1>6. CASE HbRemove(n)
  <2>1. participantList' \in [Members -> SUBSET Members]
    <3>1. PICK left : left = participantList[n] \ {leader[n]}
      OBVIOUS
    <3>2. left \in SUBSET Members /\ participantList \in [Members -> SUBSET Members]
      BY <3>1 DEF ElectionTypeOK
    <3>3. participantList' = [participantList EXCEPT ![n] = left]
      BY <1>6, <3>1 DEF HbRemove
    <3> QED BY ONLY <3>2, <3>3
  <2> QED BY <1>6, <2>1 DEF HbRemove, ElectionTypeOK, flags, count, sleeps
<1>7. CASE HbDecide(n)
  <2>1. hb' \in [Members -> HbPlaces]
    BY <1>7 DEF HbDecide, ElectionTypeOK, HbPlaces, TakingOver
  <2> QED BY <1>7, <2>1 DEF HbDecide, ElectionTypeOK, HbPlaces, flags, count, sleeps
<1>8. CASE HbTakeOver(n)
  <2>t. \/ hb' = [hb EXCEPT ![n] = "announce"]
        \/ hb' = [hb EXCEPT ![n] = "publish"]
        \/ hb' = [hb EXCEPT ![n] = "top"]
    BY <1>8 DEF HbTakeOver
  <2>1. hb' \in [Members -> HbPlaces]
    BY <2>t DEF ElectionTypeOK, HbPlaces, TakingOver
  <2>2. /\ leader' \in [Members -> Members] /\ isLeader' \in [Members -> BOOLEAN]
        /\ isLeaderAlive' \in [Members -> BOOLEAN] /\ electionOnGoing' \in [Members -> BOOLEAN]
        /\ electionBowOut' \in [Members -> BOOLEAN] /\ inbox' \in Boxes
    BY <1>8, TakeOverTyped DEF HbTakeOver
  <2>3. UNCHANGED <<lost, up, participantList, count, el, net, sleeps, overtaken>>
    BY <1>8 DEF HbTakeOver
  <2> QED BY <2>1, <2>2, <2>3 DEF ElectionTypeOK, HbPlaces, count, sleeps, Boxes
<1>9. CASE HbSignal(n)
  BY <1>9 DEF HbSignal, Signal, ElectionTypeOK, flags, count, sleeps
<1> QED BY <1>1, <1>2, <1>3, <1>4, <1>5, <1>6, <1>7, <1>8, <1>9 DEF HeartBeat

LEMMA ElectionThreadTyped ==
  ASSUME ElectionTypeOK, NEW n \in Members, Election(n)
  PROVE  ElectionTypeOK'
<1>a. Second \in Nat \ {0} /\ 1 \in 0..Second /\ Second \in 0..Second
  BY ElectionAssumption
<1>b. inbox \in Boxes
  BY InboxTyped
<1>1. CASE ElWait(n)
  BY <1>1 DEF ElWait, ElectionTypeOK, flags, count, sleeps
<1>2. CASE ElWake(n)
  BY <1>2 DEF ElWake, ElectionTypeOK, count, sleeps
<1>3. CASE ElOver(n)
  BY <1>3 DEF ElOver, ElectionTypeOK, flags, count, sleeps
<1>4. CASE ElAsk(n)
  <2>1. inbox' \in Boxes
    <3>1. Pkt("E1_", n) \in ElectionPacket
      BY PacketKinds
    <3>2. inbox' = Deliver(inbox, Asked(n), Pkt("E1_", n))
      BY <1>4 DEF ElAsk
    <3> QED BY ONLY <1>b, <3>1, <3>2, DeliverAdds
  <2> QED BY <1>4, <1>a, <2>1 DEF ElAsk, ElSleeps, ElectionTypeOK, count, Boxes
<1>5. CASE ElWin(n)
  BY <1>5 DEF ElWin, TakingOver, ElectionTypeOK, flags, count, sleeps
<1>6. CASE ElTakeOver(n)
  <2>1. /\ leader' \in [Members -> Members] /\ isLeader' \in [Members -> BOOLEAN]
        /\ isLeaderAlive' \in [Members -> BOOLEAN] /\ electionOnGoing' \in [Members -> BOOLEAN]
        /\ electionBowOut' \in [Members -> BOOLEAN] /\ inbox' \in Boxes
    BY <1>6, TakeOverTyped DEF ElTakeOver
  <2>2. \/ el' = [el EXCEPT ![n] = "announce"]
        \/ el' = [el EXCEPT ![n] = "publish"]
        \/ el' = [el EXCEPT ![n] = "loop"]
    BY <1>6 DEF ElTakeOver
  <2>3. UNCHANGED <<lost, up, participantList, count, hb, net, sleeps, overtaken>>
    BY <1>6 DEF ElTakeOver
  <2>4. el' \in [Members -> {"start", "wait", "woken", "loop", "asked", "rest"} \cup TakingOver]
    BY <2>2 DEF ElectionTypeOK, TakingOver
  <2> QED BY <2>1, <2>3, <2>4 DEF ElectionTypeOK, count, sleeps, Boxes
<1>7. CASE ElBow(n)
  BY <1>7, <1>a DEF ElBow, ElSleeps, ElectionTypeOK, flags, count
<1>8. CASE ElRested(n)
  BY <1>8 DEF ElRested, ElectionTypeOK, flags, count, sleeps
<1> QED BY <1>1, <1>2, <1>3, <1>4, <1>5, <1>6, <1>7, <1>8 DEF Election

LEMMA NetworkTyped ==
  ASSUME ElectionTypeOK, NEW n \in Members, Network(n)
  PROVE  ElectionTypeOK'
<1>b. inbox \in Boxes
  BY InboxTyped
<1>c. inbox[n] # <<>> => /\ Taken(n) \in Boxes /\ Head(inbox[n]) \in ElectionPacket
                         /\ Sender(n) \in Members
  BY <1>b, TakenBoxes DEF Sender
<1>d. ASSUME inbox[n] # <<>>, NEW t \in {"H0A", "E1A"},
             inbox' = Deliver(Taken(n), {Sender(n)}, Pkt(t, n))
      PROVE  inbox' \in Boxes
  <2>1. Pkt(t, n) \in ElectionPacket
    BY PacketKinds
  <2> QED BY <1>c, <1>d, <2>1, DeliverAdds
<1>1. CASE OnBeat(n)
  <2>1. inbox' \in Boxes
    BY <1>1, <1>d DEF OnBeat, Take
  <2> QED BY <1>1, <2>1 DEF OnBeat, ElectionTypeOK, count, sleeps, Boxes
<1>2. CASE OnBeatAnswer(n)
  <2>1. inbox' \in Boxes /\ Sender(n) \in Members
    BY <1>2, <1>c DEF OnBeatAnswer, Take
  <2>s. PICK s \in Members : s = Sender(n)
    BY <2>1
  <2>t. \/ UNCHANGED <<heartBeatMap, responseCount>>
        \/ /\ heartBeatMap' = [heartBeatMap EXCEPT ![n] = @ \cup {s}]
           /\ responseCount' = [responseCount EXCEPT ![n][s] = 0]
    BY <1>2, <2>s DEF OnBeatAnswer, count
  <2>u. /\ heartBeatMap \in [Members -> SUBSET Members]
        /\ responseCount \in [Members -> [Members -> Nat]]
    BY DEF ElectionTypeOK
  <2>2. heartBeatMap' \in [Members -> SUBSET Members]
    BY ONLY <2>t, <2>u
  <2>3. responseCount' \in [Members -> [Members -> Nat]]
    BY ONLY <2>t, <2>u
  <2> QED BY <1>2, <2>1, <2>2, <2>3 DEF OnBeatAnswer, ElectionTypeOK, flags, sleeps, Boxes
<1>3. CASE OnElection(n)
  <2>1. inbox' \in Boxes
    BY <1>3, <1>d DEF OnElection, Take
  <2>2. participantList' \in [Members -> SUBSET Members]
    <3>1. PICK list : list = participantList[n] \ {leader[n]}
      OBVIOUS
    <3>2. list \in SUBSET Members
      BY <3>1 DEF ElectionTypeOK
    <3>3. UNCHANGED participantList \/ participantList' = [participantList EXCEPT ![n] = list]
      BY <1>3, <3>1 DEF OnElection
    <3>4. participantList \in [Members -> SUBSET Members]
      BY DEF ElectionTypeOK
    <3> QED BY ONLY <3>2, <3>3, <3>4
  <2>3. isLeaderAlive' \in [Members -> BOOLEAN]
    BY <1>3 DEF OnElection, ElectionTypeOK
  <2>4. net' \in [Members -> {"idle", "signal"}]
    BY <1>3 DEF OnElection, ElectionTypeOK
  <2> QED BY <1>3, <2>1, <2>2, <2>3, <2>4 DEF OnElection, ElectionTypeOK, count, sleeps, Boxes
<1>4. CASE NetSignal(n)
  BY <1>4 DEF NetSignal, Signal, ElectionTypeOK, flags, count, sleeps
<1>5. CASE OnElectionAnswer(n)
  <2>1. inbox' \in Boxes
    BY <1>5, <1>c DEF OnElectionAnswer, Take
  <2>2. electionBowOut' \in [Members -> BOOLEAN]
    BY <1>5 DEF OnElectionAnswer, ElectionTypeOK
  <2> QED BY <1>5, <2>1, <2>2 DEF OnElectionAnswer, ElectionTypeOK, count, sleeps, Boxes
<1>6. CASE OnLeader(n)
  <2>1. inbox' \in Boxes /\ Sender(n) \in Members
    BY <1>6, <1>c DEF OnLeader, Take
  <2> QED BY <1>6, <2>1 DEF OnLeader, ElectionTypeOK, count, sleeps, Boxes
<1>7. CASE OnList(n)
  <2>1. inbox' \in Boxes /\ Head(inbox[n]) \in ElectionPacket /\ Head(inbox[n]).tag = "N0A"
    BY <1>7, <1>c DEF OnList, Take
  <2>2. PICK p : p = Head(inbox[n])
    OBVIOUS
  <2>3. p.list \in SUBSET Members /\ p.flagged \in Members \cup {Nobody}
    BY <2>1, <2>2 DEF ElectionPacket
  <2>4. \/ UNCHANGED <<participantList, leader, isLeader>>
        \/ /\ participantList' = [participantList EXCEPT ![n] = p.list]
           /\ leader' = [leader EXCEPT ![n] = IF p.flagged = Nobody THEN @ ELSE p.flagged]
           /\ isLeader' = [isLeader EXCEPT ![n] =
                  IF p.flagged = Nobody THEN @ /\ leader[n] = n
                  ELSE FALSE]
    BY <1>7, <2>2 DEF OnList
  <2>5. participantList' \in [Members -> SUBSET Members]
    BY <2>3, <2>4 DEF ElectionTypeOK
  <2>6. leader' \in [Members -> Members]
    <3>1. PICK v : v = IF p.flagged = Nobody THEN leader[n] ELSE p.flagged
      OBVIOUS
    <3>2. v \in Members
      BY <2>3, <3>1 DEF ElectionTypeOK
    <3>3. UNCHANGED leader \/ leader' = [leader EXCEPT ![n] = v]
      BY <2>4, <3>1
    <3> QED BY ONLY <3>2, <3>3, ElectionTypeOK DEF ElectionTypeOK
  <2>7. isLeader' \in [Members -> BOOLEAN]
    <3>1. PICK v : v = IF p.flagged = Nobody THEN isLeader[n] /\ leader[n] = n
                       ELSE FALSE
      OBVIOUS
    <3>2. v \in BOOLEAN
      BY <3>1 DEF ElectionTypeOK
    <3>3. UNCHANGED isLeader \/ isLeader' = [isLeader EXCEPT ![n] = v]
      BY <2>4, <3>1
    <3> QED BY ONLY <3>2, <3>3, ElectionTypeOK DEF ElectionTypeOK
  <2> QED BY <1>7, <2>1, <2>5, <2>6, <2>7 DEF OnList, ElectionTypeOK, count, sleeps, Boxes
<1> QED BY <1>1, <1>2, <1>3, <1>4, <1>5, <1>6, <1>7 DEF Network

LEMMA CrashTyped ==
  ASSUME ElectionTypeOK, NEW n \in Members, Crash(n)
  PROVE  ElectionTypeOK'
<1>1. 0 \in 0..Second
  BY ElectionAssumption
<1>2. inbox' \in [Members -> Seq(ElectionPacket)]
  BY DEF Crash, ElectionTypeOK
<1>3. hbSleep' \in [Members -> 0..Second] /\ elSleep' \in [Members -> 0..Second]
  BY <1>1 DEF Crash, HbSleeps, ElSleeps, ElectionTypeOK
<1>4. responseCount' \in [Members -> [Members -> Nat]]
  BY DEF Crash, ElectionTypeOK
<1> QED BY <1>2, <1>3, <1>4 DEF Crash, ElectionTypeOK

LEMMA LoseTyped ==
  ASSUME ElectionTypeOK, NEW n \in Members, LosePacket(n)
  PROVE  ElectionTypeOK'
<1>1. inbox \in Boxes /\ inbox[n] # <<>> /\ inbox' = Taken(n)
  BY InboxTyped DEF LosePacket, Taken
<1>2. inbox' \in Boxes
  BY <1>1, TakenBoxes
<1> QED BY <1>2 DEF LosePacket, ElectionTypeOK, flags, count, sleeps, Boxes

LEMMA TickTyped ==
  ASSUME ElectionTypeOK, Tick
  PROVE  ElectionTypeOK'
<1>1. ASSUME NEW f \in [Members -> 0..Second] PROVE Less(f) \in [Members -> 0..Second]
  BY <1>1, ElectionAssumption DEF Less
<1> QED BY <1>1 DEF Tick, ElectionTypeOK, flags, count

LEMMA ElectionTypeStep == ElectionTypeOK /\ [ElectionNext]_electionVars => ElectionTypeOK'
<1> SUFFICES ASSUME ElectionTypeOK, [ElectionNext]_electionVars PROVE ElectionTypeOK'
  OBVIOUS
<1>1. CASE UNCHANGED electionVars
  BY <1>1 DEF ElectionTypeOK, electionVars, flags, count, sleeps
<1>2. CASE Tick
  BY <1>2, TickTyped
<1>3. ASSUME NEW n \in Members, Runs(n) PROVE ElectionTypeOK'
  BY <1>3, HeartBeatTyped, ElectionThreadTyped, NetworkTyped DEF Runs
<1>4. ASSUME NEW n \in Members, Crash(n) \/ LosePacket(n) PROVE ElectionTypeOK'
  BY <1>4, CrashTyped, LoseTyped
<1> QED BY <1>1, <1>2, <1>3, <1>4 DEF ElectionNext

\* The flags, lists and counters a member's threads share, their places and
\* sleeps, and every packet under way keep their types, whoever crashes and
\* whatever is lost (base.h:54, identify, heartBeatThread, electionThread).
THEOREM ElectionTypeCorrect == ElectionSpec => []ElectionTypeOK
<1>1. ElectionInit => ElectionTypeOK
  BY ElectionTypeInit
<1>2. ElectionTypeOK /\ [ElectionNext]_electionVars => ElectionTypeOK'
  BY ElectionTypeStep
<1> QED BY <1>1, <1>2, PTL DEF ElectionSpec

-----------------------------------------------------------------------------
(* Nobody is suspected.                                                     *)

\* More rounds and more ticks than packets can be lost: a member has to miss
\* MissLimit rounds, and a watch of a second has Second - 1 beats in it.
Patience == MaxLost < MissLimit /\ MaxLost + 1 < Second

\* What the members look like while l leads them and nobody has crashed.
CalmMembers(l) ==
  /\ \A n \in Members :
       /\ participantList[n] = Members /\ leader[n] = l /\ (isLeader[n] <=> n = l)
       /\ ~electionOnGoing[n] /\ el[n] = "wait" /\ net[n] = "idle"
  /\ hb[l] \in {"top", "beat"} /\ hbSleep[l] \in {0, 1}
  /\ \A n \in Members \ {l} : hb[n] \in {"top", "watch"}

\* l has sent the beat of this tick.
Beaten(l) == hb[l] = "beat" /\ hbSleep[l] = 1

\* Beats go to the members and answers to the leader, and what has been sent
\* in a tick is handled in that tick.
CalmInboxes(l) ==
  /\ \A n \in Members \ {l} : In(inbox[n]) \subseteq {Pkt("H0_", l)}
  /\ In(inbox[l]) \subseteq {Pkt("H0A", m) : m \in Members \ {l}}
  /\ Beaten(l) \/ \A n \in Members : In(inbox[n]) = {}

\* The beat of this round is on its way to m, or its answer to l, or counted.
Reached(l, m) ==
  m \in heartBeatMap[l] \/ Pkt("H0_", l) \in In(inbox[m]) \/ Pkt("H0A", m) \in In(inbox[l])

\* A round m misses has cost a packet.
RoundsCost(l) ==
  \A m \in Members \ {l} :
    /\ responseCount[l][m] <= lost
    /\ hb[l] = "beat" => Reached(l, m) \/ responseCount[l][m] + 1 <= lost

\* So has every tick of a watch without a beat, except for the first and the
\* one that is not over.
WatchCost(l) ==
  \A n \in Members \ {l} :
    hb[n] = "watch" /\ ~isLeaderAlive[n] =>
      /\ Second <= lost + hbSleep[n] + 1
      /\ Beaten(l) /\ In(inbox[n]) = {} => Second <= lost + hbSleep[n]

CalmAt(l) == CalmMembers(l) /\ CalmInboxes(l) /\ RoundsCost(l) /\ WatchCost(l)
Calm == lost <= MaxLost /\ (up = Members => \E l \in Members : CalmAt(l))

LEMMA CalmInit == ElectionInit => Calm
<1> SUFFICES ASSUME ElectionInit PROVE Calm
  OBVIOUS
<1>1. lost = 0 /\ lost <= MaxLost /\ Second \in Nat \ {0}
  BY ElectionAssumption DEF ElectionInit
<1>2. PICK l \in Members : leader = [n \in Members |-> l] /\ isLeader = [n \in Members |-> n = l]
  BY DEF ElectionInit
<1>3. \A n \in Members : In(inbox[n]) = {}
  BY DEF ElectionInit, In
<1>4. hbSleep \in [Members -> 0..Second] /\ \A n \in Members : isLeader[n] <=> hbSleep[n] = 0
  BY DEF ElectionInit
<1>5. CalmMembers(l)
  BY <1>2, <1>4 DEF ElectionInit, CalmMembers
<1>6. hb[l] = "top"
  BY <1>2 DEF ElectionInit
<1>7. CalmInboxes(l)
  BY <1>3 DEF CalmInboxes
<1>8. RoundsCost(l)
  BY <1>1, <1>6 DEF RoundsCost, ElectionInit
<1>9. WatchCost(l)
  <2>1. ASSUME NEW n \in Members, ~isLeaderAlive[n] PROVE hbSleep[n] = Second
    <3>1. isLeaderAlive = [k \in Members |-> hbSleep[k] # Second]
      BY DEF ElectionInit
    <3> QED BY Zenon, <2>1, <3>1
  <2> QED BY <1>1, <1>4, <2>1 DEF WatchCost
<1> QED BY <1>1, <1>5, <1>7, <1>8, <1>9 DEF Calm, CalmAt

LEMMA TwoMembers ==
  ASSUME NEW l \in Members, NEW n \in Members, n # l
  PROVE  Cardinality(Members) > 1
<1>1. IsFiniteSet(Members) /\ {l} \in SUBSET Members /\ {l} # Members
  BY ElectionAssumption
<1>2. Cardinality({l}) = 1 /\ Cardinality(Members) \in Nat
  BY <1>1, FS_Singleton, FS_CardinalityType
<1>3. Cardinality({l}) <= Cardinality(Members) /\ Cardinality({l}) # Cardinality(Members)
  BY <1>1, FS_Subset
<1> QED BY <1>2, <1>3

\* While all is calm there is nothing for a thread to do but this.
CalmMove(l) ==
  \/ HbBeat(l) \/ HbCount(l) \/ OnBeatAnswer(l)
  \/ \E n \in Members \ {l} : HbWatch(n) \/ HbCalm(n) \/ OnBeat(n)

\* The kinds of packets in the inboxes.
LEMMA CalmMail ==
  ASSUME ElectionTypeOK, NEW l \in Members, CalmInboxes(l), NEW n \in Members,
         inbox[n] # <<>>
  PROVE  /\ Beaten(l)
         /\ n # l => Head(inbox[n]) = Pkt("H0_", l)
         /\ n = l => \E m \in Members \ {l} : Head(inbox[n]) = Pkt("H0A", m)
<1>1. inbox[n] \in Seq(ElectionPacket)
  BY DEF ElectionTypeOK
<1>2. Head(inbox[n]) \in In(inbox[n])
  BY <1>1, HeadIn
<1> QED BY <1>2 DEF CalmInboxes

LEMMA CalmMoves ==
  ASSUME ElectionTypeOK, Patience, lost <= MaxLost, up = Members,
         NEW l \in Members, CalmAt(l), NEW n \in Members, Runs(n)
  PROVE  CalmMove(l)
<1>1. /\ el[n] = "wait" /\ net[n] = "idle" /\ (isLeader[n] <=> n = l)
      /\ n = l => hb[n] \in {"top", "beat"}
      /\ n # l => hb[n] \in {"top", "watch"}
  BY DEF CalmAt, CalmMembers
<1>2. ~Election(n)
  BY <1>1 DEF Election, ElWait, ElWake, ElOver, ElAsk, ElWin, ElTakeOver, ElBow, ElRested
<1>3. CASE HeartBeat(n)
  <2>1. ~HbSignal(n) /\ ~HbRemove(n) /\ ~HbDecide(n) /\ ~HbTakeOver(n)
    BY <1>1 DEF HbSignal, HbRemove, HbDecide, HbTakeOver
  <2>2. ~HbAlarm(n)
    <3>1. SUFFICES ASSUME HbAlarm(n) PROVE FALSE
      OBVIOUS
    <3>2. hb[n] = "watch" /\ hbSleep[n] = 0 /\ ~isLeaderAlive[n] /\ n # l
      BY <3>1, <1>1 DEF HbAlarm, WatchOver
    <3>3. Second <= lost + hbSleep[n] + 1
      BY <3>2 DEF CalmAt, WatchCost
    <3>4. lost \in Nat /\ MaxLost \in Nat /\ Second \in Nat
      BY ElectionAssumption DEF ElectionTypeOK
    <3> QED BY <3>2, <3>3, <3>4 DEF Patience
  <2>3. HbBeat(n) => n = l
    BY <1>1 DEF HbBeat
  <2>4. HbCount(n) => n = l
    BY <1>1 DEF HbCount
  <2>5. HbWatch(n) \/ HbCalm(n) => n # l
    BY <1>1 DEF HbWatch, HbCalm, WatchOver
  <2> QED BY <1>3, <2>1, <2>2, <2>3, <2>4, <2>5 DEF HeartBeat, CalmMove
<1>4. CASE Network(n)
  <2>1. ~NetSignal(n)
    BY <1>1 DEF NetSignal
  <2>2. inbox[n] # <<>>
    BY <1>4, <2>1 DEF Network, OnBeat, OnBeatAnswer, OnElection, OnElectionAnswer, OnLeader,
       OnList, Take
  <2>h. /\ n # l => Head(inbox[n]) = Pkt("H0_", l)
        /\ n = l => \E m \in Members \ {l} : Head(inbox[n]) = Pkt("H0A", m)
    <3>1. CalmInboxes(l)
      BY DEF CalmAt
    <3> QED BY <2>2, <3>1, CalmMail
  <2>3. (n = l => Head(inbox[n]).tag = "H0A") /\ (n # l => Head(inbox[n]).tag = "H0_")
    <3>1. \A m \in Members : Pkt("H0A", m).tag = "H0A" /\ Pkt("H0_", m).tag = "H0_"
      BY DEF Pkt
    <3> QED BY <2>h, <3>1
  <2> QED BY <1>4, <2>1, <2>3 DEF Network, OnBeat, OnBeatAnswer, OnElection, OnElectionAnswer,
             OnLeader, OnList, Take, CalmMove
<1> QED BY <1>2, <1>3, <1>4 DEF Runs

\* What the moves below have in common.
CalmFacts(l) ==
  /\ ElectionTypeOK /\ ElectionTypeOK' /\ Patience /\ lost <= MaxLost /\ up = Members
  /\ l \in Members /\ CalmAt(l)

LEMMA CalmNumbers ==
  ASSUME NEW l, CalmFacts(l)
  PROVE  /\ lost \in Nat /\ MaxLost \in Nat /\ Second \in Nat /\ MissLimit \in Nat
         /\ \A n \in Members : hbSleep[n] \in 0..Second /\ hbSleep'[n] \in 0..Second
         /\ \A n \in Members : responseCount[l][n] \in Nat
         /\ lost < MissLimit /\ lost + 1 < Second
BY ElectionAssumption DEF CalmFacts, ElectionTypeOK, Patience

LEMMA CalmBeat ==
  ASSUME NEW l, CalmFacts(l), HbBeat(l)
  PROVE  CalmAt(l)'
<1>a. /\ l \in Members /\ inbox \in Boxes /\ Pkt("H0_", l) \in ElectionPacket
      /\ participantList[l] = Members /\ up = Members
  BY InboxTyped, PacketKinds DEF CalmFacts, CalmAt, CalmMembers
<1>b. /\ hb[l] = "top" /\ ~Beaten(l) /\ \A n \in Members : In(inbox[n]) = {}
  BY DEF HbBeat, Beaten, CalmFacts, CalmAt, CalmInboxes
<1>c. /\ In(inbox'[l]) = {}
      /\ \A n \in Members \ {l} : In(inbox'[n]) = {Pkt("H0_", l)}
  <2>1. inbox' = Deliver(inbox, Members \ {l}, Pkt("H0_", l))
    BY <1>a DEF HbBeat
  <2>2. \A m \in Members : In(inbox'[m])
          = In(inbox[m]) \cup (IF m \in (Members \ {l}) \cap up THEN {Pkt("H0_", l)} ELSE {})
    BY <1>a, <2>1, DeliverAdds
  <2> QED BY <1>a, <1>b, <2>2
<1>d. /\ hb' = [hb EXCEPT ![l] = "beat"] /\ hbSleep' = [hbSleep EXCEPT ![l] = 1]
      /\ heartBeatMap' = [heartBeatMap EXCEPT ![l] = {}]
      /\ UNCHANGED <<lost, participantList, leader, isLeader, isLeaderAlive, electionOnGoing,
                     responseCount, el, net>>
  BY DEF HbBeat, HbSleeps, flags
<1>e. /\ hb'[l] = "beat" /\ hbSleep'[l] = 1
      /\ \A n \in Members \ {l} : hb'[n] = hb[n] /\ hbSleep'[n] = hbSleep[n]
  BY <1>a, <1>d DEF CalmFacts, ElectionTypeOK
<1>1. CalmMembers(l)'
  BY <1>d, <1>e DEF CalmMembers, CalmFacts, CalmAt
<1>2. Beaten(l)'
  BY <1>e DEF Beaten
<1>3. CalmInboxes(l)'
  BY <1>c, <1>2 DEF CalmInboxes, Pkt
<1>4. RoundsCost(l)'
  BY <1>c, <1>d DEF RoundsCost, Reached, CalmFacts, CalmAt, Pkt
<1>5. WatchCost(l)'
  BY <1>c, <1>d, <1>e DEF WatchCost, CalmFacts, CalmAt
<1> QED BY <1>1, <1>3, <1>4, <1>5 DEF CalmAt

LEMMA CalmCount ==
  ASSUME NEW l, CalmFacts(l), HbCount(l)
  PROVE  CalmAt(l)'
<1>a. /\ l \in Members /\ participantList[l] = Members /\ leader[l] = l
      /\ hb[l] = "beat" /\ ~Beaten(l) /\ \A n \in Members : In(inbox[n]) = {}
  BY DEF HbCount, Beaten, CalmFacts, CalmAt, CalmInboxes, CalmMembers
<1>b. \A m \in Silent(l) : m \in Members \ {l} /\ responseCount[l][m] + 1 <= lost
  BY <1>a DEF Silent, CalmFacts, CalmAt, RoundsCost, Reached
<1>c. {m \in Silent(l) : Overdue(l, m)} = {}
  BY <1>b, CalmNumbers DEF Overdue
<1>d. /\ responseCount' = [responseCount EXCEPT ![l] =
             [m \in Members |-> IF m \in Silent(l) THEN @[m] + 1 ELSE @[m]]]
      /\ participantList' = [participantList EXCEPT ![l] = Members]
      /\ inbox' = inbox
  BY <1>a, <1>c DEF HbCount
<1>e. /\ hb' = [hb EXCEPT ![l] = "top"]
      /\ UNCHANGED <<lost, leader, isLeader, isLeaderAlive, electionOnGoing, el, net, hbSleep>>
  BY DEF HbCount, flags, sleeps
<1>f. /\ participantList' = participantList
      /\ hb'[l] = "top" /\ \A n \in Members \ {l} : hb'[n] = hb[n]
      /\ \A m \in Members : responseCount'[l][m]
            = IF m \in Silent(l) THEN responseCount[l][m] + 1 ELSE responseCount[l][m]
  BY <1>a, <1>d, <1>e DEF CalmFacts, ElectionTypeOK
<1>1. CalmMembers(l)'
  BY <1>e, <1>f DEF CalmMembers, CalmFacts, CalmAt
<1>2. CalmInboxes(l)'
  BY <1>a, <1>d DEF CalmInboxes, CalmFacts, CalmAt
<1>3. RoundsCost(l)'
  BY <1>b, <1>e, <1>f, CalmNumbers DEF RoundsCost, CalmFacts, CalmAt
<1>4. WatchCost(l)'
  BY <1>e, <1>f, <1>d DEF WatchCost, CalmFacts, CalmAt, Beaten
<1> QED BY <1>1, <1>2, <1>3, <1>4 DEF CalmAt

LEMMA CalmAnswer ==
  ASSUME NEW l, CalmFacts(l), OnBeatAnswer(l)
  PROVE  CalmAt(l)'
<1>a. /\ l \in Members /\ inbox \in Boxes /\ inbox[l] # <<>> /\ isLeader[l] /\ CalmInboxes(l)
  BY InboxTyped DEF CalmFacts, CalmAt, CalmMembers, OnBeatAnswer, Take
<1>b. PICK s \in Members \ {l} : Head(inbox[l]) = Pkt("H0A", s)
  BY <1>a, CalmMail DEF CalmFacts
<1>c. Beaten(l)
  BY <1>a, CalmMail DEF CalmFacts
<1>d. /\ heartBeatMap' = [heartBeatMap EXCEPT ![l] = @ \cup {s}]
      /\ responseCount' = [responseCount EXCEPT ![l][s] = 0]
      /\ inbox' = Taken(l)
      /\ UNCHANGED <<lost, participantList, leader, isLeader, isLeaderAlive, electionOnGoing,
                     hb, el, net, hbSleep>>
  BY <1>a, <1>b DEF OnBeatAnswer, Sender, Pkt, flags, sleeps
<1>e. /\ In(inbox'[l]) \subseteq In(inbox[l])
      /\ In(inbox[l]) \subseteq In(inbox'[l]) \cup {Pkt("H0A", s)}
      /\ \A n \in Members \ {l} : inbox'[n] = inbox[n]
  BY <1>a, <1>b, <1>d, TakenBoxes, HeadIn DEF Boxes
<1>f. /\ heartBeatMap'[l] = heartBeatMap[l] \cup {s}
      /\ responseCount'[l][s] = 0
      /\ \A m \in Members \ {s} : responseCount'[l][m] = responseCount[l][m]
  BY <1>a, <1>d DEF CalmFacts, ElectionTypeOK
<1>1. CalmMembers(l)'
  BY <1>d DEF CalmMembers, CalmFacts, CalmAt
<1>2. CalmInboxes(l)'
  BY <1>c, <1>d, <1>e DEF CalmInboxes, CalmFacts, CalmAt, Beaten
<1>3. RoundsCost(l)'
  <2>1. ASSUME NEW m \in Members \ {l}, m # s, Reached(l, m)
        PROVE  Reached(l, m)'
    <3>1. Pkt("H0A", m) # Pkt("H0A", s)
      BY <2>1 DEF Pkt
    <3> QED BY <1>e, <1>f, <2>1, <3>1 DEF Reached, Pkt
  <2>2. Reached(l, s)'
    BY <1>f DEF Reached
  <2> QED BY <1>d, <1>f, <2>1, <2>2, CalmNumbers DEF RoundsCost, CalmFacts, CalmAt
<1>4. WatchCost(l)'
  BY <1>c, <1>d, <1>e DEF WatchCost, CalmFacts, CalmAt, Beaten
<1> QED BY <1>1, <1>2, <1>3, <1>4 DEF CalmAt

LEMMA CalmOnBeat ==
  ASSUME NEW l, CalmFacts(l), NEW n \in Members \ {l}, OnBeat(n)
  PROVE  CalmAt(l)'
<1>a. /\ l \in Members /\ inbox \in Boxes /\ inbox[n] # <<>> /\ CalmInboxes(l) /\ up = Members
  BY InboxTyped DEF CalmFacts, CalmAt, OnBeat, Take
<1>b. Head(inbox[n]) = Pkt("H0_", l) /\ Beaten(l)
  BY <1>a, CalmMail DEF CalmFacts
<1>c. /\ inbox' = Deliver(Taken(n), {l}, Pkt("H0A", n))
      /\ isLeaderAlive' = [isLeaderAlive EXCEPT ![n] = TRUE]
      /\ UNCHANGED <<lost, participantList, leader, isLeader, electionOnGoing,
                     heartBeatMap, responseCount, hb, el, net, hbSleep>>
  BY <1>b DEF OnBeat, Sender, Pkt, count, sleeps
<1>d. /\ Taken(n) \in Boxes /\ Pkt("H0A", n) \in ElectionPacket
      /\ In(Taken(n)[n]) \subseteq In(inbox[n])
      /\ \A m \in Members \ {n} : Taken(n)[m] = inbox[m]
  BY <1>a, TakenBoxes, PacketKinds, HeadIn DEF Boxes
<1>e. /\ In(inbox'[l]) = In(inbox[l]) \cup {Pkt("H0A", n)}
      /\ \A m \in Members \ {l, n} : In(inbox'[m]) = In(inbox[m])
      /\ In(inbox'[n]) \subseteq In(inbox[n])
  <2>1. \A m \in Members : In(inbox'[m])
          = In(Taken(n)[m]) \cup (IF m \in {l} \cap up THEN {Pkt("H0A", n)} ELSE {})
    BY <1>c, <1>d, DeliverAdds
  <2> QED BY <1>a, <1>d, <2>1
<1>1. CalmMembers(l)'
  BY <1>c DEF CalmMembers, CalmFacts, CalmAt
<1>2. CalmInboxes(l)'
  BY <1>a, <1>b, <1>c, <1>e DEF CalmInboxes, Beaten
<1>3. RoundsCost(l)'
  <2>1. ASSUME NEW m \in Members \ {l}, Reached(l, m) PROVE Reached(l, m)'
    BY <1>c, <1>e, <2>1 DEF Reached
  <2> QED BY <1>c, <2>1 DEF RoundsCost, CalmFacts, CalmAt
<1>4. WatchCost(l)'
  <2>1. isLeaderAlive'[n] /\ \A m \in Members \ {n} : isLeaderAlive'[m] = isLeaderAlive[m]
    BY <1>c DEF CalmFacts, ElectionTypeOK
  <2> QED BY <1>c, <1>e, <2>1 DEF WatchCost, CalmFacts, CalmAt, Beaten
<1> QED BY <1>1, <1>2, <1>3, <1>4 DEF CalmAt

LEMMA CalmWatch ==
  ASSUME NEW l, CalmFacts(l), NEW n \in Members \ {l}, HbWatch(n) \/ HbCalm(n)
  PROVE  CalmAt(l)'
<1>a. /\ l \in Members
      /\ UNCHANGED <<lost, participantList, leader, isLeader, electionOnGoing,
                     heartBeatMap, responseCount, el, net, inbox>>
  BY DEF CalmFacts, HbWatch, HbCalm, flags, count, sleeps
<1>t. /\ hb \in [Members -> HbPlaces]
      /\ hbSleep \in [Members -> 0..Second] /\ isLeaderAlive \in [Members -> BOOLEAN]
  BY DEF CalmFacts, ElectionTypeOK, HbPlaces
<1>b. \A m \in Members \ {n} : /\ hb'[m] = hb[m] /\ hbSleep'[m] = hbSleep[m]
                               /\ isLeaderAlive'[m] = isLeaderAlive[m]
  <2>1. CASE HbWatch(n)
    BY <1>t, <2>1 DEF HbWatch, HbSleeps
  <2>2. CASE HbCalm(n)
    BY <1>t, <2>2 DEF HbCalm, flags, sleeps
  <2> QED BY <2>1, <2>2
<1>c. hb'[n] = "top" \/ (hb'[n] = "watch" /\ hbSleep'[n] = Second)
  BY DEF HbWatch, HbCalm, HbSleeps, CalmFacts, ElectionTypeOK
<1>1. CalmMembers(l)'
  BY <1>a, <1>b, <1>c DEF CalmMembers, CalmFacts, CalmAt
<1>2. CalmInboxes(l)'
  BY <1>a, <1>b DEF CalmInboxes, CalmFacts, CalmAt, Beaten
<1>3. RoundsCost(l)'
  BY <1>a, <1>b DEF RoundsCost, CalmFacts, CalmAt, Reached
<1>4. WatchCost(l)'
  <2>1. hb'[n] = "watch" => Second <= lost' + hbSleep'[n]
    BY <1>a, <1>c, CalmNumbers
  <2>2. hb'[n] = "watch" => Second <= lost' + hbSleep'[n] + 1
    BY <1>a, <1>c, CalmNumbers
  <2> QED BY <1>a, <1>b, <2>1, <2>2 DEF WatchCost, CalmFacts, CalmAt, Beaten
<1> QED BY <1>1, <1>2, <1>3, <1>4 DEF CalmAt

\* A tick ends when the leader has sent its beat and every packet is handled.
LEMMA CalmTick ==
  ASSUME NEW l, CalmFacts(l), Tick
  PROVE  CalmAt(l)'
<1>a. /\ l \in Members /\ ~Busy /\ up = Members /\ CalmMembers(l)
      /\ UNCHANGED <<lost, participantList, leader, isLeader, isLeaderAlive, electionOnGoing,
                     heartBeatMap, responseCount, hb, el, net, inbox>>
      /\ \A n \in Members : hbSleep'[n] = IF hbSleep[n] = 0 THEN 0 ELSE hbSleep[n] - 1
  BY DEF CalmFacts, CalmAt, Tick, Less, flags, count
<1>b. \A n \in Members : inbox[n] = <<>> /\ In(inbox[n]) = {}
  <2>1. \A n \in Members : inbox[n] = <<>>
    BY <1>a DEF Busy, CalmMembers
  <2> QED BY <2>1 DEF In
<1>c. hbSleep'[l] = 0 /\ (hb[l] = "beat" => hbSleep[l] = 1)
  BY <1>a DEF Busy, CalmMembers
<1>d. ASSUME NEW n \in Members \ {l} PROVE Beaten(l) /\ (hb[n] = "watch" => hbSleep[n] # 0)
  <2>1. Cardinality(Members) > 1
    BY <1>a, <1>d, TwoMembers
  <2>2. hb[l] # "top"
    BY <1>a, <2>1 DEF Busy, CalmMembers
  <2>3. hb[n] = "watch" => hbSleep[n] # 0
    BY <1>a, <1>d DEF Busy
  <2> QED BY <1>a, <1>c, <2>2, <2>3 DEF CalmMembers, Beaten
<1>e. ~Beaten(l)'
  BY <1>c DEF Beaten
<1>1. CalmMembers(l)'
  BY <1>a, <1>c DEF CalmMembers
<1>2. CalmInboxes(l)'
  BY <1>a, <1>b DEF CalmInboxes
<1>3. RoundsCost(l)'
  BY <1>a DEF RoundsCost, Reached, CalmFacts, CalmAt
<1>4. WatchCost(l)'
  <2>1. ASSUME NEW n \in Members \ {l}, hb[n] = "watch", ~isLeaderAlive[n]
        PROVE  Second <= lost + hbSleep'[n] + 1
    <3>1. Second <= lost + hbSleep[n] /\ hbSleep[n] # 0
      BY <1>b, <1>d, <2>1 DEF WatchCost, CalmFacts, CalmAt
    <3>2. hbSleep'[n] = hbSleep[n] - 1
      BY <1>a, <3>1
    <3> QED BY <3>1, <3>2, CalmNumbers
  <2> QED BY <1>a, <1>e, <2>1 DEF WatchCost
<1> QED BY <1>1, <1>2, <1>3, <1>4 DEF CalmAt

\* A packet lost is one that the rounds and watches may count.
LEMMA CalmLose ==
  ASSUME NEW l, CalmFacts(l), NEW n \in Members, LosePacket(n)
  PROVE  CalmAt(l)' /\ lost' <= MaxLost
<1>a. /\ l \in Members /\ inbox \in Boxes /\ inbox[n] # <<>> /\ CalmInboxes(l)
      /\ lost' = lost + 1 /\ lost < MaxLost /\ inbox' = Taken(n)
      /\ UNCHANGED <<participantList, leader, isLeader, isLeaderAlive, electionOnGoing,
                     heartBeatMap, responseCount, hb, el, net, hbSleep>>
  BY InboxTyped DEF CalmFacts, CalmAt, LosePacket, Taken, flags, count, sleeps
<1>b. Beaten(l)
  BY <1>a, CalmMail DEF CalmFacts
<1>c. \A m \in Members : In(inbox'[m]) \subseteq In(inbox[m])
  BY <1>a, TakenBoxes, HeadIn DEF Boxes
<1>1. CalmMembers(l)'
  BY <1>a DEF CalmMembers, CalmFacts, CalmAt
<1>2. CalmInboxes(l)'
  BY <1>a, <1>b, <1>c DEF CalmInboxes, Beaten
<1>3. RoundsCost(l)'
  BY <1>a, CalmNumbers DEF RoundsCost, CalmFacts, CalmAt
<1>4. WatchCost(l)'
  <2>1. ASSUME NEW m \in Members \ {l}, hb[m] = "watch", ~isLeaderAlive[m]
        PROVE  Second <= lost' + hbSleep'[m]
    <3>1. Second <= lost + hbSleep[m] + 1
      BY <2>1 DEF WatchCost, CalmFacts, CalmAt
    <3> QED BY <1>a, <3>1, CalmNumbers
  <2>2. ASSUME NEW m \in Members \ {l}, hb[m] = "watch", ~isLeaderAlive[m]
        PROVE  Second <= lost' + hbSleep'[m] + 1
    BY <1>a, <2>1, <2>2, CalmNumbers
  <2> QED BY <1>a, <2>1, <2>2 DEF WatchCost
<1> QED BY <1>a, <1>1, <1>2, <1>3, <1>4, CalmNumbers DEF CalmAt

LEMMA CalmStep ==
  ASSUME Patience, ElectionTypeOK, ElectionTypeOK', Calm, [ElectionNext]_electionVars
  PROVE  Calm'
<1>1. CASE UNCHANGED electionVars
  <2>1. UNCHANGED <<lost, up, participantList, leader, isLeader, isLeaderAlive, electionOnGoing,
                    heartBeatMap, responseCount, hb, el, net, hbSleep, inbox>>
    BY <1>1 DEF electionVars, flags, count, sleeps
  <2>2. ASSUME NEW l \in Members, CalmAt(l) PROVE CalmAt(l)'
    <3>1. CalmMembers(l)'
      BY <2>1, <2>2 DEF CalmAt, CalmMembers
    <3>2. CalmInboxes(l)'
      BY <2>1, <2>2 DEF CalmAt, CalmInboxes, Beaten
    <3>3. RoundsCost(l)'
      BY <2>1, <2>2 DEF CalmAt, RoundsCost, Reached
    <3>4. WatchCost(l)'
      BY <2>1, <2>2 DEF CalmAt, WatchCost, Beaten
    <3> QED BY <3>1, <3>2, <3>3, <3>4 DEF CalmAt
  <2> QED BY <2>1, <2>2 DEF Calm
<1>2. ASSUME ElectionNext, up' = up, up = Members PROVE Calm'
  <2>1. PICK l \in Members : CalmAt(l)
    BY <1>2 DEF Calm
  <2>2. CalmFacts(l)
    BY <1>2, <2>1 DEF CalmFacts, Calm
  <2>3. CASE \E n \in Members : Runs(n)
    <3>1. CalmMove(l)
      BY <1>2, <2>1, <2>3, CalmMoves DEF Calm
    <3>2. CalmAt(l)'
      BY <2>2, <3>1, CalmBeat, CalmCount, CalmAnswer, CalmOnBeat, CalmWatch DEF CalmMove
    <3>3. lost' = lost
      BY <3>1 DEF CalmMove, HbBeat, HbCount, OnBeatAnswer, HbWatch, HbCalm, OnBeat
    <3> QED BY <3>2, <3>3 DEF Calm
  <2>4. CASE Tick
    BY <2>2, <2>4, CalmTick DEF Calm, Tick
  <2>5. CASE \E n \in Members : LosePacket(n)
    BY <2>2, <2>5, CalmLose DEF Calm
  <2>6. ASSUME NEW n \in Members, Crash(n) PROVE FALSE
    BY <1>2, <2>6 DEF Crash
  <2> QED BY <1>2, <2>3, <2>4, <2>5, <2>6 DEF ElectionNext
<1>3. ASSUME ElectionNext, up' # Members PROVE Calm'
  <2>1. lost' = lost \/ (lost < MaxLost /\ lost' = lost + 1)
    <3>1. CASE Tick
      BY <3>1 DEF Tick
    <3>2. CASE \E n \in Members : Crash(n)
      BY <3>2 DEF Crash
    <3>3. CASE \E n \in Members : LosePacket(n)
      BY <3>3 DEF LosePacket
    <3>4. ASSUME NEW n \in Members, HeartBeat(n) PROVE lost' = lost
      BY <3>4 DEF HeartBeat, HbBeat, HbCount, HbWatch, HbCalm, HbAlarm, HbRemove,
         HbDecide, HbTakeOver, HbSignal
    <3>5. ASSUME NEW n \in Members, Election(n) PROVE lost' = lost
      BY <3>5 DEF Election, ElWait, ElWake, ElOver, ElAsk, ElWin, ElTakeOver, ElBow,
         ElRested
    <3>6. ASSUME NEW n \in Members, Network(n) PROVE lost' = lost
      BY <3>6 DEF Network, OnBeat, OnBeatAnswer, OnElection, NetSignal, OnElectionAnswer,
         OnLeader, OnList
    <3> QED BY <1>3, <3>1, <3>2, <3>3, <3>4, <3>5, <3>6 DEF ElectionNext, Runs
  <2>2. lost \in Nat /\ MaxLost \in Nat
    BY ElectionAssumption DEF ElectionTypeOK
  <2> QED BY <1>3, <2>1, <2>2 DEF Calm
<1>4. ElectionNext => up' = up \/ up' # Members
  <2>1. CASE Tick
    BY <2>1 DEF Tick
  <2>2. CASE \E n \in Members : Crash(n)
    BY <2>2 DEF Crash
  <2>3. CASE \E n \in Members : LosePacket(n)
    BY <2>3 DEF LosePacket
  <2>4. ASSUME NEW n \in Members, HeartBeat(n) PROVE up' = up
    BY <2>4 DEF HeartBeat, HbBeat, HbCount, HbWatch, HbCalm, HbAlarm, HbRemove,
         HbDecide, HbTakeOver, HbSignal
  <2>5. ASSUME NEW n \in Members, Election(n) PROVE up' = up
    BY <2>5 DEF Election, ElWait, ElWake, ElOver, ElAsk, ElWin, ElTakeOver, ElBow,
         ElRested
  <2>6. ASSUME NEW n \in Members, Network(n) PROVE up' = up
    BY <2>6 DEF Network, OnBeat, OnBeatAnswer, OnElection, NetSignal, OnElectionAnswer,
       OnLeader, OnList
  <2> QED BY <2>1, <2>2, <2>3, <2>4, <2>5, <2>6 DEF ElectionNext, Runs
<1> QED BY <1>1, <1>2, <1>3, <1>4

\* As long as every program runs, no member drops another or starts an
\* election (heartBeatThread), provided fewer packets are lost than a member
\* has rounds to miss and a watch has beats to wait for.
THEOREM NobodyIsSuspected == Patience => (ElectionSpec => []NobodySuspected)
<1> SUFFICES ASSUME Patience PROVE ElectionSpec => []NobodySuspected
  OBVIOUS
<1>1. ElectionInit => Calm
  BY CalmInit
<1>2. ElectionTypeOK /\ ElectionTypeOK' /\ Calm /\ [ElectionNext]_electionVars => Calm'
  BY CalmStep
<1>3. Calm => NobodySuspected
  BY DEF Calm, CalmAt, CalmMembers, NobodySuspected
<1> QED BY <1>1, <1>2, <1>3, ElectionTypeCorrect, PTL DEF ElectionSpec

\* Until somebody crashes the members agree on the first leader: each follows
\* it, it alone leads, and every list is complete (heartBeatThread).
THEOREM LeaderStays == Patience => (ElectionSpec => [](up = Members => Agreed))
<1> SUFFICES ASSUME Patience PROVE ElectionSpec => [](up = Members => Agreed)
  OBVIOUS
<1>1. ElectionInit => Calm
  BY CalmInit
<1>2. ElectionTypeOK /\ ElectionTypeOK' /\ Calm /\ [ElectionNext]_electionVars => Calm'
  BY CalmStep
<1>3. Calm => (up = Members => Agreed)
  BY DEF Calm, CalmAt, CalmMembers, Agreed
<1> QED BY <1>1, <1>2, <1>3, ElectionTypeCorrect, PTL DEF ElectionSpec
=============================================================================
