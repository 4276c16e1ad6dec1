---------------------------- MODULE ChatDecentral ----------------------------
(***************************************************************************)
(* The decentralised variant of DistributedChat (src/extra): no sequencer   *)
(* gives out the numbers.  A member asks every member, itself included, for *)
(* a proposal (S2_, S2A), takes the largest and sends the line with it      *)
(* (C0_).  Delivery by number and the search for missing numbers (S3_, S3A, *)
(* S3N) are those of the regular program, see ChatOrder.                    *)
(*                                                                         *)
(* The members are fixed: joins, heartbeats and elections are those of the  *)
(* regular program.  They have all joined by way of the founder, one after  *)
(* the other.  Packets between two members stay in order (a local network)  *)
(* but for a few, which are lost.                                           *)
(***************************************************************************)
EXTENDS Integers, Sequences, FiniteSets, FiniteSetsExt, Functions

CONSTANTS
  Member,       \* the keys, a set of positive numbers
  Founder,
  Budgets       \* the bounds of a behaviour: the lines each member types, the
                \* packets lost, the requests and the lines sent again

ASSUME DecentralAssumption ==
  /\ Member \subseteq Nat \ {0} /\ IsFiniteSet(Member) /\ Founder \in Member
  /\ Budgets \subseteq [lines : [Member -> Nat], losses : Nat, requests : Nat,
                         retransmissions : Nat]

VARIABLES
  localSeq, chatMsg, seqBuffer,            \* a member's requests
  generatedGlobalSeq, hold_back_queue,     \* its proposals
  txBuffer,                                \* its lines sent, by its own counter
  globalSeq, holdBackQ, globalSeqLost,     \* its display
  chan,          \* chan[m][n]: the packets from m to n
  budget, used,  \* the budget of this behaviour and what has been used of it
  typedAfter,    \* history: the largest number sent when a line was typed, in
                 \* behaviours without losses
  sent,          \* history: <<line, number>> of every C0_ multicast
  forgotten,     \* history: the lines whose requests an expiry has erased
                 \* before they were sent
  proposed,      \* history: <<proposer, line, number>> of every proposal
  shown,         \* history: what each member has displayed, <<number, line>>
  givenUp        \* history: the numbers each member has declared lost

requestVars == <<localSeq, chatMsg, seqBuffer>>
proposalVars == <<generatedGlobalSeq, hold_back_queue, proposed>>
sendVars == <<txBuffer, sent, forgotten>>
displayVars == <<globalSeq, holdBackQ, globalSeqLost, shown, givenUp>>
runVars == <<budget, used, typedAfter>>
decentralVars == <<requestVars, proposalVars, sendVars, displayVars, chan, runVars>>

Empty == <<>>
Erase(f, k) == Restrict(f, DOMAIN f \ {k})
\* std::map: insert keeps the entry that is there.
Insert(f, k, v) ==
  [x \in DOMAIN f \cup {k} |-> IF x \in DOMAIN f THEN f[x] ELSE v]
Largest_Last(a, b) == a
Largest(a, b) == IF a > b THEN a ELSE b

\* Each join was one list, with a number of the founder's.
Joins == Cardinality(Member) - 1
notificationGlobalSeq == Joins

S2_(l)   == [tag |-> "S2_", l |-> l]
S2A(g, l) == [tag |-> "S2A", g |-> g, l |-> l]
C0_(g, line) == [tag |-> "C0_", g |-> g, line |-> line]
S3_(g)   == [tag |-> "S3_", g |-> g]
S3N(g)   == [tag |-> "S3N", g |-> g]
S4_(l)   == [tag |-> "S4_", l |-> l]
S4A(l)   == [tag |-> "S4A", l |-> l]
\* An answer for number g that holds a line with a number of its own.
S3A(g, num, line) == [tag |-> "S3A", g |-> g, num |-> num, line |-> line]

DecentralInit ==
  /\ localSeq = [m \in Member |-> IF m = Founder THEN 0 ELSE 1]
  /\ chatMsg = [m \in Member |-> 0]
  /\ seqBuffer = [m \in Member |-> Empty]
  /\ generatedGlobalSeq = [m \in Member |-> IF m = Founder THEN Joins ELSE 0]
  /\ hold_back_queue = [m \in Member |-> Empty]
  /\ txBuffer = [m \in Member |-> Empty]
  /\ globalSeq = [m \in Member |-> 0]
  /\ holdBackQ = [m \in Member |-> Empty]
  /\ globalSeqLost = [m \in Member |-> Empty]
  /\ chan = [m \in Member |-> [n \in Member |-> <<>>]]
  /\ budget \in Budgets
  /\ used = [lines |-> [m \in Member |-> 0], losses |-> 0, requests |-> 0,
             retransmissions |-> 0]
  /\ sent = {} /\ forgotten = {} /\ proposed = {} /\ typedAfter = Empty
  /\ shown = [m \in Member |-> <<>>]
  /\ givenUp = [m \in Member |-> {}]

\* One more of what the budget bounds.
Spend(what) ==
  /\ used[what] < budget[what]
  /\ used' = [used EXCEPT ![what] = @ + 1]
  /\ UNCHANGED <<budget, typedAfter>>

-----------------------------------------------------------------------------
(* Packets *)

Got(m, n, tag) == chan[m][n] # <<>> /\ Head(chan[m][n]).tag = tag

\* The packet from m is taken by n, which answers every r with the packets
\* out[r].
Handled(m, n, out) ==
  chan' = [s \in Member |-> [r \in Member |->
    (IF s = m /\ r = n THEN Tail(chan[s][r]) ELSE chan[s][r])
      \o IF s = n THEN out[r] ELSE <<>>]]
Answered(m, n, ps) == Handled(m, n, [r \in Member |-> IF r = m THEN ps ELSE <<>>])
Multicast(m, p) ==
  chan' = [chan EXCEPT ![m] = [r \in Member |-> Append(@[r], p)]]

-----------------------------------------------------------------------------
(* The sender *)

\* userThread.
Type(m) ==
  LET l == localSeq[m] + 1 IN
  /\ used.lines[m] < budget.lines[m]
  /\ used' = [used EXCEPT !.lines[m] = @ + 1] /\ budget' = budget
  /\ typedAfter' = IF budget.losses > 0 THEN typedAfter
                   ELSE Insert(typedAfter, <<m, l>>, Max({0} \cup {s[2] : s \in sent}))
  /\ localSeq' = [localSeq EXCEPT ![m] = l]
  /\ chatMsg' = [chatMsg EXCEPT ![m] = l]
  /\ seqBuffer' = [seqBuffer EXCEPT ![m] =
       Insert(@, l, [globalSeq |-> 0, ackCount |-> 0, tries |-> 0])]
  /\ Multicast(m, S2_(l))
  /\ UNCHANGED <<proposalVars, sendVars, displayVars>>

\* All members have answered.  Nothing stops a further answer from sending the
\* line again.
AllAnswered_OneMissing(e) == e.ackCount >= Cardinality(Member) - 1
AllAnswered(e) == e.ackCount >= Cardinality(Member)

\* A proposal: the largest so far is kept, and with the last one the line is
\* sent.  txBuffer gets it under the member's own counter.
ReceiveS2A(m, n) ==
  LET p == Head(chan[m][n])
      old == seqBuffer[n][p.l]
      new == [old EXCEPT !.globalSeq = Largest(p.g, @), !.ackCount = @ + 1]
      line == <<n, p.l>>
  IN /\ Got(m, n, "S2A")
     /\ IF p.l \notin DOMAIN seqBuffer[n]
        THEN /\ Answered(m, n, <<>>)
             /\ UNCHANGED <<seqBuffer, sendVars>>
        ELSE /\ seqBuffer' = [seqBuffer EXCEPT ![n][p.l] = new]
             /\ IF AllAnswered(new)
                THEN /\ Handled(m, n, [r \in Member |-> <<C0_(new.globalSeq, line)>>])
                     /\ txBuffer' = [txBuffer EXCEPT ![n] =
                          Insert(@, generatedGlobalSeq[n],
                                 [l |-> p.l, num |-> new.globalSeq, tries |-> 0])]
                     /\ sent' = sent \cup {<<line, new.globalSeq>>}
                     /\ UNCHANGED forgotten
                ELSE Answered(m, n, <<>>) /\ UNCHANGED sendVars
     /\ UNCHANGED <<localSeq, chatMsg, proposalVars, displayVars, runVars>>

\* reliabilityThread: a request nobody has answered is multicast again, twice,
\* in the form of the line typed last; then it is forgotten.
Resend(m, l) ==
  /\ l \in DOMAIN seqBuffer[m]
  /\ seqBuffer[m][l].globalSeq = 0 /\ seqBuffer[m][l].tries < 2
  /\ Spend("requests")
  /\ seqBuffer' = [seqBuffer EXCEPT ![m][l].tries = @ + 1]
  /\ Multicast(m, S2_(chatMsg[m]))
  /\ UNCHANGED <<localSeq, chatMsg, proposalVars, sendVars, displayVars>>

GiveUp(m, l) ==
  /\ l \in DOMAIN seqBuffer[m]
  /\ seqBuffer[m][l].globalSeq = 0 /\ seqBuffer[m][l].tries = 2
  /\ seqBuffer' = [seqBuffer EXCEPT ![m] = Erase(@, l)]
  /\ UNCHANGED <<localSeq, chatMsg, proposalVars, sendVars, displayVars, chan,
                 runVars>>

\* Nobody acknowledges a line, so that every one in txBuffer is sent again, twice,
\* as the answer for the number it is kept under, and then forgotten together
\* with the request that has that number so far, whether it was sent or not.
Retransmit(m, k) ==
  /\ k \in DOMAIN txBuffer[m] /\ txBuffer[m][k].tries < 2
  /\ Spend("retransmissions")
  /\ txBuffer' = [txBuffer EXCEPT ![m][k].tries = @ + 1]
  /\ Multicast(m, S3A(k, txBuffer[m][k].num, <<m, txBuffer[m][k].l>>))
  /\ UNCHANGED <<requestVars, proposalVars, sent, forgotten, displayVars>>

TxExpire(m, k) ==
  /\ k \in DOMAIN txBuffer[m] /\ txBuffer[m][k].tries = 2
  /\ txBuffer' = [txBuffer EXCEPT ![m] = Erase(@, k)]
  /\ LET own == {l \in DOMAIN seqBuffer[m] : seqBuffer[m][l].globalSeq = k}
     IN IF own = {} THEN UNCHANGED <<seqBuffer, forgotten>>
        ELSE /\ seqBuffer' = [seqBuffer EXCEPT ![m] = Erase(@, Min(own))]
             /\ forgotten' = forgotten \cup ({<<m, Min(own)>>} \ {s[1] : s \in sent})
  /\ UNCHANGED <<localSeq, chatMsg, proposalVars, sent, displayVars, chan, runVars>>

-----------------------------------------------------------------------------
(* The proposer: sequencer() and sendSequenced() *)

\* n gives m's request in hand, number l, its next count numbers.
Proposals(n, l, count) == [i \in 1..count |-> S2A(generatedGlobalSeq[n] + i, l)]

Propose(n, line, count) ==
  /\ generatedGlobalSeq' = [generatedGlobalSeq EXCEPT ![n] = @ + count]
  /\ proposed' = proposed \cup {<<n, line, generatedGlobalSeq[n] + i>> : i \in 1..count}

\* The requests between the last one in order and those held back, one for
\* each that is held back: the loop moves on to the next of those with every
\* number, and ends when that is not above it.
Missing(q) ==
  LET asked == {i \in 1..Cardinality(q.msgs) : \A j \in 1..i :
                  Cardinality({x \in q.msgs : x <= q.last + j}) < j}
  IN [i \in 1..Cardinality(asked) |-> S4_(q.last + i)]

\* The held back requests that follow the last one in order.
Due(q) == {x \in q.msgs : \A y \in (q.last + 1)..x : y \in q.msgs} \ (0..q.last)

InOrder(q, l) == q.msgs = {} /\ q.last = l - 1

\* A request in order gets a proposal; another is held back.  A held back
\* request whose turn comes gets one as well, which is sent for the request in
\* hand: responseLocalSeq is still that one's.
ReceiveS2_(m, n) ==
  LET l == Head(chan[m][n]).l
      known == m \in DOMAIN hold_back_queue[n]
      q == hold_back_queue[n][m]
      held == [q EXCEPT !.msgs = @ \cup {l}]
      due == Due(held)
  IN /\ Got(m, n, "S2_")
     /\ IF ~known \/ InOrder(q, l)
        THEN /\ hold_back_queue' = [hold_back_queue EXCEPT ![n] =
                  [x \in DOMAIN @ \cup {m} |->
                     IF x = m THEN [last |-> l, msgs |-> {}] ELSE @[x]]]
             /\ Propose(n, <<m, l>>, 1)
             /\ Answered(m, n, Proposals(n, l, 1))
        ELSE /\ hold_back_queue' = [hold_back_queue EXCEPT ![n][m] =
                  [last |-> q.last + Cardinality(due), msgs |-> held.msgs \ due]]
             /\ Propose(n, <<m, l>>, Cardinality(due))
             /\ Answered(m, n, Missing(held) \o Proposals(n, l, Cardinality(due)))
     /\ UNCHANGED <<requestVars, sendVars, displayVars, runVars>>

ReceiveS4_(m, n) ==
  LET l == Head(chan[m][n]).l IN
  /\ Got(m, n, "S4_")
  /\ Answered(m, n, IF l \in DOMAIN seqBuffer[n] THEN <<S2_(l)>> ELSE <<S4A(l)>>)
  /\ UNCHANGED <<requestVars, proposalVars, sendVars, displayVars, runVars>>

ReceiveS4A(m, n) ==
  LET l == Head(chan[m][n]).l IN
  /\ Got(m, n, "S4A")
  /\ Answered(m, n, <<>>)
  /\ hold_back_queue' = IF m \notin DOMAIN hold_back_queue[n] THEN hold_back_queue
                        ELSE [hold_back_queue EXCEPT ![n][m].last = Largest(@, l)]
  /\ UNCHANGED <<requestVars, generatedGlobalSeq, proposed, sendVars, displayVars,
                 runVars>>

-----------------------------------------------------------------------------
(* Display, as in the regular program *)

Entry(q, d, k) ==
  IF d.ask # 0 THEN d
  ELSE CASE k = d.g + 1 \/ (k = notificationGlobalSeq + 1 /\ k > d.g + 1) ->
              [d EXCEPT !.g = k, !.lines = Append(@, <<k, q[k]>>)]
         [] k > d.g + 1 /\ k > notificationGlobalSeq + 1 -> [d EXCEPT !.ask = d.g + 1]
         [] OTHER -> d

Deliverable(n, q) ==
  LET start == [g |-> globalSeq[n], lines |-> <<>>, ask |-> 0]
      walk[k \in 0..Max(DOMAIN q)] ==
        IF k = 0 THEN start
        ELSE IF k >= globalSeq[n] /\ k \in DOMAIN q
        THEN Entry(q, walk[k - 1], k)
        ELSE walk[k - 1]
  IN IF globalSeq[n] \notin DOMAIN q THEN start ELSE walk[Max(DOMAIN q)]

First(n) == globalSeq[n] = 0

\* A line that takes its place under g: an earlier one of that number stays.
Place(q, g, line) == Insert(q, g, line)

\* case 'C' of identify.
Chat(m, n, g, line) ==
  LET q == Place(holdBackQ[n], g, line)
      d == IF First(n) THEN [g |-> g, lines |-> <<<<g, line>>>>, ask |-> 0]
           ELSE Deliverable(n, q)
      own == {d.lines[i][2][2] : i \in {j \in DOMAIN d.lines : d.lines[j][2][1] = n}}
  IN /\ holdBackQ' = [holdBackQ EXCEPT ![n] = q]
     /\ globalSeq' = [globalSeq EXCEPT ![n] = d.g]
     /\ shown' = [shown EXCEPT ![n] = @ \o d.lines]
     /\ seqBuffer' = [seqBuffer EXCEPT ![n] = Restrict(@, DOMAIN @ \ own)]
     /\ globalSeqLost' = IF d.ask = 0 THEN globalSeqLost
                         ELSE [globalSeqLost EXCEPT ![n] = Insert(@, d.ask, 0)]
     /\ IF d.ask = 0 THEN Answered(m, n, <<>>)
        ELSE Handled(m, n, [r \in Member |-> <<S3_(d.ask)>>])
     /\ UNCHANGED <<localSeq, chatMsg, proposalVars, sendVars, givenUp, runVars>>

ReceiveC0_(m, n) ==
  /\ Got(m, n, "C0_")
  /\ Chat(m, n, Head(chan[m][n]).g, Head(chan[m][n]).line)

ReceiveS3A(m, n) ==
  LET p == Head(chan[m][n])
      due == \/ p.g = globalSeq[n] + 1
             \/ p.g = notificationGlobalSeq + 1 /\ p.g > globalSeq[n] + 1
  IN /\ Got(m, n, "S3A")
     /\ IF due THEN Chat(m, n, p.num, p.line)
        ELSE /\ Answered(m, n, <<>>)
             /\ UNCHANGED <<requestVars, proposalVars, sendVars, displayVars, runVars>>

\* From txBuffer the answer goes to the line's sender, which is n itself, with
\* the line under the number that was asked for; from seqBuffer it is in a
\* form nobody understands.
ReceiveS3_(m, n) ==
  LET g == Head(chan[m][n]).g IN
  /\ Got(m, n, "S3_")
  /\ IF g \in DOMAIN holdBackQ[n]
     THEN Answered(m, n, <<S3A(g, g, holdBackQ[n][g])>>)
     ELSE IF g \in DOMAIN txBuffer[n]
     THEN Handled(m, n, [r \in Member |->
                          IF r = n THEN <<S3A(g, g, <<n, txBuffer[n][g].l>>)>>
                          ELSE <<>>])
     ELSE IF \E l \in DOMAIN seqBuffer[n] : seqBuffer[n][l].globalSeq = g
     THEN Answered(m, n, <<>>)
     ELSE Answered(m, n, <<S3N(g)>>)
  /\ UNCHANGED <<requestVars, proposalVars, sendVars, displayVars, runVars>>

ReceiveS3N(m, n) ==
  LET g == Head(chan[m][n]).g
      count == globalSeqLost[n][g] + 1
  IN /\ Got(m, n, "S3N")
     /\ IF g \notin DOMAIN globalSeqLost[n]
        THEN UNCHANGED <<globalSeqLost, globalSeq, givenUp>>
        ELSE IF count < Cardinality(Member)
        THEN /\ globalSeqLost' = [globalSeqLost EXCEPT ![n][g] = count]
             /\ UNCHANGED <<globalSeq, givenUp>>
        ELSE /\ globalSeqLost' = [globalSeqLost EXCEPT ![n] = Erase(@, g)]
             /\ globalSeq' = [globalSeq EXCEPT ![n] = g + 1]
             /\ givenUp' = [givenUp EXCEPT ![n] = @ \cup {g}]
     /\ Answered(m, n, <<>>)
     /\ UNCHANGED <<requestVars, proposalVars, sendVars, holdBackQ, shown, runVars>>

-----------------------------------------------------------------------------

Lose(m, n) ==
  /\ Spend("losses")
  /\ chan[m][n] # <<>>
  /\ chan' = [chan EXCEPT ![m][n] = Tail(@)]
  /\ UNCHANGED <<requestVars, proposalVars, sendVars, displayVars>>

\* networkThread of n.
Handle(m, n) ==
  \/ ReceiveS2_(m, n) \/ ReceiveS2A(m, n) \/ ReceiveC0_(m, n)
  \/ ReceiveS3_(m, n) \/ ReceiveS3A(m, n) \/ ReceiveS3N(m, n)
  \/ ReceiveS4_(m, n) \/ ReceiveS4A(m, n)

\* reliabilityThread of m.
Timers(m) ==
  \/ \E l \in DOMAIN seqBuffer[m] : Resend(m, l) \/ GiveUp(m, l)
  \/ \E k \in DOMAIN txBuffer[m] : Retransmit(m, k) \/ TxExpire(m, k)

DecentralNext ==
  \/ \E m, n \in Member : Handle(m, n) \/ Lose(m, n)
  \/ \E m \in Member : Type(m) \/ Timers(m)

DecentralSpec == DecentralInit /\ [][DecentralNext]_decentralVars

-----------------------------------------------------------------------------
(* Properties *)

\* The lines of one member carry increasing numbers, whatever is sent again: what
\* each member proposes grows in the order of the requests, which a proposer
\* keeps, so that the largest of them does.  Only without losses: see NumberAgreed.
SenderOrderKept == used.losses = 0 =>
  \A a, b \in sent : (a[1][1] = b[1][1] /\ a[1][2] < b[1][2]) => a[2] < b[2]

\* A line is sent when every member has proposed a number for it, under the
\* largest of them; hence one that is typed when another has been sent gets a
\* larger number, each member having proposed for both in this order.  Two lines
\* under way together may get the same number, of which every member displays the
\* line it receives first.  Only without losses: a held back request is answered
\* once for itself and once for each that was held back behind it, all under its
\* own local number, and two answers of one member then count as two members.
NumberAgreed == used.losses = 0 =>
  \A s \in sent :
    LET asked == {q \in proposed : q[2] = s[1]}
    IN /\ {q[1] : q \in asked} = Member /\ s[2] = Max({q[3] : q \in asked})
       /\ (budget.losses = 0 => typedAfter[s[1]] < s[2])

\* While only one member talks, nothing is lost and no request repeated, each of
\* its lines has been displayed once by every member when nothing is under way,
\* although each has been sent three times, as long as no expiry has erased a
\* request that was still collecting proposals (reliabilityThread: those it has
\* may be the number an earlier line is kept under): such a line is never sent.
Undisturbed ==
  /\ budget.losses = 0 /\ budget.requests = 0 /\ forgotten = {}
  /\ \E m \in Member : \A n \in Member \ {m} : budget.lines[n] = 0
Quiet == \A m, n \in Member : chan[m][n] = <<>>
LinesOf(m) == {<<m, l>> : l \in (IF m = Founder THEN 1 ELSE 2)..localSeq[m]}
DeliveredWhenQuiet ==
  (Undisturbed /\ Quiet) =>
    \A m, n \in Member : \A line \in LinesOf(m) :
      \E i \in DOMAIN shown[n] :
        /\ shown[n][i][2] = line
        /\ \A j \in DOMAIN shown[n] \ {i} : shown[n][j][2] # line

=============================================================================
