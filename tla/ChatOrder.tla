------------------------------ MODULE ChatOrder ------------------------------
(***************************************************************************)
(* DistributedChat, ordering: how a line typed by one member gets a global *)
(* number from the sequencer (the leader) and is displayed by all members. *)
(*                                                                         *)
(* Every member runs the same program, so each has the client's buffers    *)
(* (seqBuffer, holdBackQ) and the sequencer's (hold_back_queue, txBuffer). *)
(* Members are numbered in the order of their IP:PORT keys, the order of   *)
(* the C++ maps.  UDP loses, duplicates and reorders packets.              *)
(*                                                                         *)
(* Left out: C0A packets.  A C0A makes the leader forget a transmitted     *)
(* message (its ackList is always empty), which the reliability thread may *)
(* do at any moment as well: TxExpire stands for both.  The participant    *)
(* list, a header and one packet per participant in the code, is one       *)
(* packet.                                                                 *)
(***************************************************************************)
EXTENDS Integers, Sequences, SequencesExt, FiniteSets, FiniteSetsExt, Functions

CONSTANTS
  Member,      \* the keys, a set of positive numbers
  Initial,     \* the members of the chat at the start, the founder included
  Founder,
  Budgets      \* the bounds of a behaviour: the lines each member types, the
               \* packets lost and received twice, the requests sent again, the
               \* members that may join and those that may leave or crash

ASSUME MembersAssumption ==
  /\ Member \subseteq Nat \ {0} /\ IsFiniteSet(Member)
  /\ Founder \in Initial /\ Initial \subseteq Member
ASSUME BoundsAssumption ==
  Budgets \subseteq [lines : [Member -> Nat], losses : Nat, duplicates : Nat,
                      resends : Nat, joins : SUBSET (Member \ Initial),
                      crashes : SUBSET Initial]

VARIABLES
  up,            \* up[m] \in {"out", "joining", "in", "gone"}
  leader, participants, seqNumber,           \* a member's view of the chat
  localSeq, chatMsg, seqBuffer,              \* its requests
  generatedGlobalSeq, hold_back_queue, txBuffer,   \* it as a sequencer
  globalSeq, notificationGlobalSeq, holdBackQ, globalSeqLost, \* its display
  net,           \* the packets on their way
  losses, duplicates, resends, budget,
  typed,         \* how many lines each member has typed
  shown,         \* history: what each member has displayed, <<number, line>>
  givenUp,       \* history: the numbers each member has declared lost
  forgotten,     \* history: the requests each member has given up
  sequenced      \* history: the requests given a number, in order

viewVars == <<up, leader, participants, seqNumber>>
requestVars == <<localSeq, chatMsg, seqBuffer, typed, forgotten>>
sequencerVars == <<generatedGlobalSeq, hold_back_queue, txBuffer, sequenced>>
displayVars == <<globalSeq, holdBackQ, globalSeqLost, shown, givenUp>>
faultVars == <<losses, duplicates, resends, budget>>
vars == <<viewVars, requestVars, sequencerVars, displayVars,
          notificationGlobalSeq, net, faultVars>>

NoOne == 0       \* "nobody joins": the request is a chat line
Empty == <<>>    \* the map without entries

\* std::map: insert keeps the entry that is there.
Insert(f, k, v) ==
  [x \in DOMAIN f \cup {k} |-> IF x \in DOMAIN f THEN f[x] ELSE v]
Erase(f, k) == Restrict(f, DOMAIN f \ {k})
Largest(a, b) == IF a > b THEN a ELSE b

\* A request waiting in seqBuffer under its local number; a join is a request of
\* the member that was asked, for the one that asked.
NewRequest(joins) == [globalSeq |-> 0, tries |-> 0, joins |-> joins]

S0_(from, to, l, joins) ==
  [tag |-> "S0_", from |-> from, to |-> to, l |-> l, joins |-> joins]
S0A(to, g, l) == [tag |-> "S0A", to |-> to, g |-> g, l |-> l]
C0_(to, g, line) == [tag |-> "C0_", to |-> to, g |-> g, line |-> line]
S3A(to, g, line) == [tag |-> "S3A", to |-> to, g |-> g, line |-> line]
S3_(from, to, g) == [tag |-> "S3_", from |-> from, to |-> to, g |-> g]
S3N(to, g) == [tag |-> "S3N", to |-> to, g |-> g]
S4_(from, to, l) == [tag |-> "S4_", from |-> from, to |-> to, l |-> l]
S4A(from, to, l) == [tag |-> "S4A", from |-> from, to |-> to, l |-> l]
N0_(from, to) == [tag |-> "N0_", from |-> from, to |-> to]
N0A(ld, to, g, list, seqs) ==
  [tag |-> "N0A", leader |-> ld, to |-> to, g |-> g, list |-> list,
   seqs |-> seqs]

\* The chat the initial members are in: all joined by way of the founder, one
\* after the other, and each join took two global numbers.
Joins == Cardinality(Initial) - 1

Init ==
  /\ up = [m \in Member |-> IF m \in Initial THEN "in" ELSE "out"]
  /\ leader = [m \in Member |-> Founder]
  /\ participants = [m \in Member |-> IF m \in Initial THEN Initial ELSE {}]
  /\ seqNumber = [m \in Member |-> [p \in Member |-> 0]]
  /\ localSeq = [m \in Member |-> IF m = Founder THEN Joins
                                  ELSE IF m \in Initial THEN 1 ELSE 0]
  /\ chatMsg = [m \in Member |-> 0]
  /\ seqBuffer = [m \in Member |->
       IF m = Founder
       THEN [i \in 1..Joins |-> [NewRequest(Founder) EXCEPT
                                   !.globalSeq = 2 * i - 1]]
       ELSE Empty]
  /\ typed = [m \in Member |-> 0]
  /\ generatedGlobalSeq = [m \in Member |-> IF m = Founder THEN 2 * Joins
                                            ELSE 0]
  /\ hold_back_queue = [m \in Member |->
       IF m = Founder /\ Joins > 0
       THEN [c \in {Founder} |-> [last |-> Joins, msgs |-> Empty]] ELSE Empty]
  /\ txBuffer = [m \in Member |-> Empty]
  /\ globalSeq = [m \in Member |-> 0]
  /\ notificationGlobalSeq = [m \in Member |->
       IF m \in Initial THEN 2 * Joins ELSE 0]
  /\ holdBackQ = [m \in Member |-> Empty]
  /\ globalSeqLost = [m \in Member |-> Empty]
  /\ net = {}
  /\ losses = 0
  /\ duplicates = 0
  /\ resends = 0
  /\ budget \in Budgets
  /\ shown = [m \in Member |-> <<>>]
  /\ givenUp = [m \in Member |-> {}]
  /\ forgotten = [m \in Member |-> {}]
  /\ sequenced = <<>>

\* Packet p, which is consumed, or stays because the network has duplicated it.
\* What is sent to a member that is not there is lost at once.
Receive(p, sent) ==
  LET kept == {q \in sent : up[q.to] \in {"joining", "in"}} IN
  \/ net' = (net \ {p}) \cup kept /\ UNCHANGED faultVars
  \/ /\ duplicates < budget.duplicates
     /\ duplicates' = duplicates + 1
     /\ net' = net \cup kept
     /\ UNCHANGED <<losses, resends, budget>>

Sent(sent) == net' = net \cup {q \in sent : up[q.to] \in {"joining", "in"}}
Send(sent) == Sent(sent) /\ UNCHANGED faultVars

-----------------------------------------------------------------------------
\* The sequencer.  s is what one call of the network thread has done so far at
\* member m: the numbers given, the participants, the packets to send, and the
\* address clientAddress holds.

ChatLine_StaleNumber(s, from, l) ==
  LET g == s.generated + 1
  IN [s EXCEPT !.generated = g,
               !.log = Append(@, [g |-> g, from |-> from, l |-> l]),
               !.out = @ \cup {C0_(p, s.generated, <<from, l>>) : p \in s.ps}]

ChatLine(s, from, l) ==
  LET g == s.generated + 1
  IN [s EXCEPT !.generated = g,
               !.tx = Insert(@, g, <<from, l>>),
               !.log = Append(@, [g |-> g, from |-> from, l |-> l]),
               !.out = @ \cup {S0A(s.addr, g, l)}
                         \cup {C0_(p, g, <<from, l>>) : p \in s.ps},
               !.addr = from]

\* sendParticipantList(MULTICAST): clientAddress is left at the last addressee.
Announce(m, ld, s) ==
  LET g == s.generated + 1
      others == s.ps \ {m}
  IN [s EXCEPT !.generated = g,
               !.notification = g,
               !.out = @ \cup {N0A(ld, p, g, s.ps, seqNumber[m]) : p \in others},
               !.addr = IF others = {} THEN @ ELSE Max(others)]

Join(m, s, from, l, joins) ==
  LET g == s.generated + 1
  IN Announce(m, leader[m],
              [s EXCEPT !.generated = g,
                        !.log = Append(@, [g |-> g, from |-> from, l |-> l]),
                        !.ps = @ \cup {joins},
                        !.out = @ \cup {S0A(s.addr, g, l)}])

SendSequenced(m, s, from, l, joins) ==
  IF joins = NoOne THEN ChatLine(s, from, l) ELSE Join(m, s, from, l, joins)

Before(m, from) ==
  [generated |-> generatedGlobalSeq[m], ps |-> participants[m],
   notification |-> notificationGlobalSeq[m], tx |-> txBuffer[m],
   log |-> sequenced, out |-> {}, addr |-> from]

\* The effect of s on member m, and of queue q as its hold_back_queue.
Apply(m, s, q, p) ==
  /\ generatedGlobalSeq' = [generatedGlobalSeq EXCEPT ![m] = s.generated]
  /\ participants' = [participants EXCEPT ![m] = s.ps]
  /\ notificationGlobalSeq' =
       [notificationGlobalSeq EXCEPT ![m] = s.notification]
  /\ txBuffer' = [txBuffer EXCEPT ![m] = s.tx]
  /\ sequenced' = s.log
  /\ hold_back_queue' = [hold_back_queue EXCEPT ![m] = q]
  /\ Receive(p, s.out)
  /\ UNCHANGED <<up, leader, seqNumber, requestVars, displayVars>>

\* The numbers asked for again: as many as requests are held back at most, the
\* loop moves on to the next held request with every number, and ends when it
\* is not below it: when as many requests are held up to it.
Missing(q) ==
  {q.last + i : i \in {j \in 1..Cardinality(DOMAIN q.msgs) : \A k \in 1..j :
                         Cardinality({l \in DOMAIN q.msgs : l <= q.last + k}) < k}}

\* The held requests that are due: a run of numbers that follows the last.
Due(q) == {n \in 0..Cardinality(DOMAIN q.msgs) :
             \A i \in 1..n : q.last + i \in DOMAIN q.msgs}

\* The first n of them sent, one after the other.
SendHeld(m, s, from, q, n) ==
  LET sent[i \in 0..n] ==
        IF i = 0 THEN s
        ELSE SendSequenced(m, sent[i - 1], from, q.last + i, q.msgs[q.last + i])
  IN sent[n]

\* A request that is the next of its sender, with none held back.
InOrder_TakesRepeats(q, l) == q.msgs = Empty /\ q.last >= l - 1
InOrder_TakesAnything(q, l) == q.msgs = Empty

InOrder(q, l) == q.msgs = Empty /\ q.last = l - 1

ReceiveS0_(p) ==
  LET m == p.to
      hbq == hold_back_queue[m]
      s == Before(m, p.from)
      sendOne == SendSequenced(m, s, p.from, p.l, p.joins)
  IN /\ p.tag = "S0_"
     /\ \/ \* the first request of this member
           /\ p.from \notin DOMAIN hbq
           /\ Apply(m, sendOne,
                    Insert(hbq, p.from, [last |-> p.l, msgs |-> Empty]), p)
        \/ /\ p.from \in DOMAIN hbq
           /\ LET q == hbq[p.from] IN
              \/ \* the next one, and none is held back
                 /\ InOrder(q, p.l)
                 /\ Apply(m, sendOne, [hbq EXCEPT ![p.from].last = p.l], p)
              \/ \* an old one: answered with the number 1
                 /\ q.last >= p.l /\ ~InOrder(q, p.l)
                 /\ Apply(m, [s EXCEPT !.out = {S0A(p.from, 1, p.l)}], hbq, p)
              \/ \* hold it back, ask for the missing ones, send what is due:
                 \* the loop erases the entry its iterator is at, so it may end
                 \* after any of them
                 /\ q.last < p.l /\ ~InOrder(q, p.l)
                 /\ LET held == [q EXCEPT !.msgs = Insert(@, p.l, p.joins)]
                        asked == {S4_(m, p.from, l) : l \in Missing(held)}
                        most == Max(Due(held))
                    IN \E n \in (IF most = 0 THEN {0} ELSE 1..most) :
                       LET sent == SendHeld(m, [s EXCEPT !.out = asked], p.from,
                                            held, n)
                           rest == [last |-> held.last + n,
                                    msgs |-> Restrict(held.msgs, DOMAIN held.msgs
                                               \ (held.last + 1 .. held.last + n))]
                       IN Apply(m, sent, [hbq EXCEPT ![p.from] = rest], p)

\* The sender no longer has the request: it is not waited for any more.
ReceiveS4A(p) ==
  /\ p.tag = "S4A"
  /\ hold_back_queue' =
       IF p.from \in DOMAIN hold_back_queue[p.to]
       THEN [hold_back_queue EXCEPT ![p.to][p.from].last = Largest(@, p.l)]
       ELSE hold_back_queue
  /\ Receive(p, {})
  /\ UNCHANGED <<viewVars, requestVars, displayVars, notificationGlobalSeq,
                 generatedGlobalSeq, txBuffer, sequenced>>

\* A transmitted message is forgotten, with the leader's own request for it.
TxExpire(m, g) ==
  /\ up[m] = "in"
  /\ g \in DOMAIN txBuffer[m]
  /\ txBuffer' = [txBuffer EXCEPT ![m] = Erase(@, g)]
  /\ LET own == {l \in DOMAIN seqBuffer[m] : seqBuffer[m][l].globalSeq = g}
     IN seqBuffer' = IF own = {} THEN seqBuffer
                     ELSE [seqBuffer EXCEPT ![m] = Erase(@, Min(own))]
  /\ UNCHANGED <<viewVars, localSeq, chatMsg, typed, forgotten, displayVars, net, faultVars,
                 notificationGlobalSeq, generatedGlobalSeq, hold_back_queue,
                 sequenced>>

-----------------------------------------------------------------------------
\* A member's own requests

\* userThread: a line is typed.
Type(m) ==
  LET l == localSeq[m] + 1 IN
  /\ up[m] = "in" /\ typed[m] < budget.lines[m]
  /\ typed' = [typed EXCEPT ![m] = @ + 1]
  /\ localSeq' = [localSeq EXCEPT ![m] = l]
  /\ chatMsg' = [chatMsg EXCEPT ![m] = l]
  /\ seqBuffer' = [seqBuffer EXCEPT ![m] = Insert(@, l, NewRequest(NoOne))]
  /\ Send({S0_(m, leader[m], l, NoOne)})
  /\ UNCHANGED <<viewVars, forgotten, sequencerVars, displayVars,
                 notificationGlobalSeq>>

\* main: "dchat user ADDR:PORT", with the address of any member.
AskToJoin(m, c) ==
  /\ up[m] = "out" /\ m \in budget.joins /\ up[c] = "in"
  /\ up' = [up EXCEPT ![m] = "joining"]
  /\ localSeq' = [localSeq EXCEPT ![m] = @ + 1]
  /\ Send({N0_(m, c)})
  /\ UNCHANGED <<leader, participants, seqNumber, chatMsg, seqBuffer, typed,
                 forgotten, sequencerVars, displayVars, notificationGlobalSeq>>

\* It gives up after two seconds.
JoinTimeout(m) ==
  /\ up[m] = "joining"
  /\ up' = [up EXCEPT ![m] = "gone"]
  /\ net' = {q \in net : q.to # m}
  /\ UNCHANGED <<leader, participants, seqNumber, requestVars, sequencerVars,
                 displayVars, notificationGlobalSeq, faultVars>>

\* The member that was asked passes the join on to the leader.
ReceiveN0_(p) ==
  LET m == p.to
      l == localSeq[m] + 1
  IN /\ p.tag = "N0_"
     /\ localSeq' = [localSeq EXCEPT ![m] = l]
     /\ seqBuffer' = [seqBuffer EXCEPT ![m] = Insert(@, l, NewRequest(p.from))]
     /\ Receive(p, {S0_(m, leader[m], l, p.from)})
     /\ UNCHANGED <<viewVars, chatMsg, typed, forgotten, sequencerVars, displayVars,
                    notificationGlobalSeq>>

ReceiveS0A(p) ==
  /\ p.tag = "S0A"
  /\ seqBuffer' = IF p.l \in DOMAIN seqBuffer[p.to]
                  THEN [seqBuffer EXCEPT ![p.to][p.l].globalSeq = Largest(@, p.g)]
                  ELSE seqBuffer
  /\ Receive(p, {})
  /\ UNCHANGED <<viewVars, localSeq, chatMsg, typed, forgotten, sequencerVars,
                 displayVars, notificationGlobalSeq>>

\* reliabilityThread: for a request without a number it sends chatMsg, which is
\* the line typed last, in its third and fourth round.
Resend(m, l) ==
  /\ up[m] = "in"
  /\ l \in DOMAIN seqBuffer[m]
  /\ seqBuffer[m][l].globalSeq = 0 /\ seqBuffer[m][l].tries < 2
  /\ seqBuffer' = [seqBuffer EXCEPT ![m][l].tries = @ + 1]
  /\ resends < budget.resends
  /\ resends' = resends + 1
  /\ Sent(IF chatMsg[m] = 0 THEN {}
          ELSE {S0_(m, leader[m], chatMsg[m], NoOne)})
  /\ UNCHANGED <<losses, duplicates, budget>>
  /\ UNCHANGED <<viewVars, localSeq, chatMsg, typed, forgotten, sequencerVars,
                 displayVars, notificationGlobalSeq>>

\* After its fifth round the request is forgotten.
GiveUp(m, l) ==
  /\ up[m] = "in"
  /\ l \in DOMAIN seqBuffer[m]
  /\ seqBuffer[m][l].globalSeq = 0 /\ seqBuffer[m][l].tries = 2
  /\ seqBuffer' = [seqBuffer EXCEPT ![m] = Erase(@, l)]
  /\ forgotten' = [forgotten EXCEPT ![m] = @ \cup {l}]
  /\ UNCHANGED <<viewVars, localSeq, chatMsg, typed, sequencerVars, displayVars,
                 notificationGlobalSeq, net, faultVars>>

ReceiveS4_(p) ==
  LET m == p.to IN
  /\ p.tag = "S4_"
  /\ Receive(p, IF p.l \in DOMAIN seqBuffer[m]
                THEN {S0_(m, p.from, p.l, seqBuffer[m][p.l].joins)}
                ELSE {S4A(m, p.from, p.l)})
  /\ UNCHANGED <<viewVars, requestVars, sequencerVars, displayVars,
                 notificationGlobalSeq>>

-----------------------------------------------------------------------------
\* What a member displays

Entry_NoRequest(m, q, n, d, k) ==
  IF k = d.g + 1 \/ (k = n + 1 /\ k > d.g + 1)
  THEN [d EXCEPT !.g = k, !.lines = Append(@, <<k, q[k]>>)] ELSE d
Entry_SkipsGaps(m, q, n, d, k) ==
  IF k > d.g THEN [d EXCEPT !.g = k, !.lines = Append(@, <<k, q[k]>>)] ELSE d

\* One entry of holdBackQ, in the order of the numbers: d.g is globalSeq so far,
\* d.lines what has been displayed, d.ask the number asked for, which ends the
\* loop.  A line of somebody not in the list is passed over.
Entry(m, q, n, d, k) ==
  IF d.ask # 0 THEN d
  ELSE CASE k = d.g + 1 \/ (k = n + 1 /\ k > d.g + 1) ->
              [d EXCEPT !.g = k,
                        !.lines = IF q[k][1] \in participants[m]
                                  THEN Append(@, <<k, q[k]>>) ELSE @]
         [] k > d.g + 1 /\ k > n + 1 -> [d EXCEPT !.ask = d.g + 1]
         [] OTHER -> d

\* The loop starts at the entry of the line displayed last, if there is one.
Deliverable(m, q) ==
  LET g == globalSeq[m]
      start == [g |-> g, lines |-> <<>>, ask |-> 0]
      walk[k \in 0..Max(DOMAIN q)] ==
        IF k = 0 THEN start
        ELSE IF k >= g /\ k \in DOMAIN q
        THEN Entry(m, q, notificationGlobalSeq[m], walk[k - 1], k)
        ELSE walk[k - 1]
  IN IF g \notin DOMAIN q THEN start ELSE walk[Max(DOMAIN q)]

\* Displaying a sequence of lines: the last line of every sender is noted, and
\* requests of m itself that came back are done.
Display(m, lines) ==
  LET of(p) == {i \in DOMAIN lines : lines[i][2][1] = p} IN
  /\ shown' = [shown EXCEPT ![m] = @ \o lines]
  /\ seqNumber' = [seqNumber EXCEPT ![m] = [p \in Member |->
       IF of(p) = {} THEN seqNumber[m][p] ELSE lines[Max(of(p))][2][2]]]
  /\ seqBuffer' = [seqBuffer EXCEPT ![m] =
       Restrict(@, DOMAIN @ \ {lines[i][2][2] : i \in of(m)})]

\* The member has displayed nothing yet.
First(m) == globalSeq[m] = 0

\* case 'C' of identify, for packet p with line p.line and number p.g.
Chat(p) ==
  LET m == p.to
      q == Insert(holdBackQ[m], p.g, p.line)
      d == IF First(m) THEN [g |-> p.g, lines |-> <<<<p.g, p.line>>>>, ask |-> 0]
           ELSE Deliverable(m, q)
  IN /\ holdBackQ' = [holdBackQ EXCEPT ![m] = q]
     /\ globalSeq' = [globalSeq EXCEPT ![m] = d.g]
     /\ Display(m, d.lines)
     /\ globalSeqLost' = IF d.ask = 0 THEN globalSeqLost
                         ELSE [globalSeqLost EXCEPT ![m] = Insert(@, d.ask, 0)]
     /\ Receive(p, IF d.ask = 0 THEN {}
                   ELSE {S3_(m, r, d.ask) : r \in participants[m]})
     /\ UNCHANGED <<up, leader, participants, localSeq, chatMsg, typed, forgotten,
                    sequencerVars, notificationGlobalSeq, givenUp>>

ReceiveC0_(p) == p.tag = "C0_" /\ Chat(p)

\* The answer to a request for a lost number is used only if it is due.
ReceiveS3A(p) ==
  LET m == p.to
      due == \/ p.g = globalSeq[m] + 1
             \/ p.g = notificationGlobalSeq[m] + 1 /\ p.g > globalSeq[m] + 1
  IN /\ p.tag = "S3A"
     /\ IF due THEN Chat(p)
        ELSE /\ Receive(p, {})
             /\ UNCHANGED <<viewVars, requestVars, sequencerVars, displayVars,
                            notificationGlobalSeq>>

\* Does anybody know number g?  From txBuffer the answer goes to the sender of
\* the line, not to the one who asked; from seqBuffer it is in a form nobody
\* understands.
Answer(m, to, g) ==
  IF g \in DOMAIN holdBackQ[m] THEN {S3A(to, g, holdBackQ[m][g])}
  ELSE IF g \in DOMAIN txBuffer[m]
  THEN {S3A(txBuffer[m][g][1], g, txBuffer[m][g])}
  ELSE IF \E l \in DOMAIN seqBuffer[m] : seqBuffer[m][l].globalSeq = g THEN {}
  ELSE {S3N(to, g)}

ReceiveS3_(p) ==
  /\ p.tag = "S3_"
  /\ Receive(p, Answer(p.to, p.from, p.g))
  /\ UNCHANGED <<viewVars, requestVars, sequencerVars, displayVars,
                 notificationGlobalSeq>>

\* As many "not found" as there are participants: the number is lost, and the
\* next one is skipped as well.
ReceiveS3N(p) ==
  LET m == p.to
      count == globalSeqLost[m][p.g] + 1
  IN /\ p.tag = "S3N"
     /\ IF p.g \notin DOMAIN globalSeqLost[m]
        THEN UNCHANGED <<globalSeqLost, globalSeq, givenUp>>
        ELSE IF count < Cardinality(participants[m])
        THEN /\ globalSeqLost' = [globalSeqLost EXCEPT ![m][p.g] = count]
             /\ UNCHANGED <<globalSeq, givenUp>>
        ELSE /\ globalSeqLost' = [globalSeqLost EXCEPT ![m] = Erase(@, p.g)]
             /\ globalSeq' = [globalSeq EXCEPT ![m] = p.g + 1]
             /\ givenUp' = [givenUp EXCEPT ![m] = @ \cup {p.g}]
     /\ Receive(p, {})
     /\ UNCHANGED <<viewVars, requestVars, sequencerVars, notificationGlobalSeq,
                    holdBackQ, shown>>

\* The participant list, with the number of the notification; the first one a
\* member gets admits it to the chat.  (A list of fewer than two is not taken,
\* base.h:535; none is sent, as it goes to a member on it that is not the leader.)
ReceiveN0A(p) ==
  LET m == p.to
      known == participants[m]
  IN /\ p.tag = "N0A"
     /\ notificationGlobalSeq' =
          [notificationGlobalSeq EXCEPT ![m] = Largest(@, p.g)]
     /\ up' = [up EXCEPT ![m] = "in"]
     /\ participants' = [participants EXCEPT ![m] = p.list]
     /\ seqNumber' = [seqNumber EXCEPT ![m] = [r \in Member |->
          IF r \in p.list \ known THEN p.seqs[r] ELSE @[r]]]
     /\ leader' = [leader EXCEPT ![m] = p.leader]
     /\ Receive(p, {})
     /\ UNCHANGED <<requestVars, sequencerVars, displayVars>>

-----------------------------------------------------------------------------
\* Members that go, the leader that follows, and the network

\* The end of member m: end of input, a crash, or a failed join.
Gone(m) ==
  /\ up' = [up EXCEPT ![m] = "gone"]
  /\ net' = {q \in net : q.to # m}
  /\ UNCHANGED <<leader, participants, seqNumber, requestVars, sequencerVars,
                 displayVars, notificationGlobalSeq, faultVars>>

Crash(m) ==
  /\ up[m] = "in" /\ m \in budget.crashes
  /\ Gone(m)

\* A joining member expects the list and exits on any other packet; a first
\* line from a member it does not know dereferences participantList.end().
BadPacket(p) ==
  LET m == p.to IN
  /\ \/ up[m] = "joining" /\ p.tag # "N0A"
     \/ /\ up[m] = "in" /\ p.tag = "C0_" /\ First(m)
        /\ p.line[1] \notin participants[m]
  /\ Gone(m)

\* heartBeatThread of the leader: a member that has stopped answering is taken
\* off the list, which is announced, and transmitted messages are forgotten (their
\* ackList is empty), but not the leader's own requests for them.  The loop over
\* txBuffer erases the entry its iterator is at: it may end after any of them.
RemoveMember(m, c) ==
  LET s == Announce(m, leader[m], [Before(m, m) EXCEPT !.ps = @ \ {c}]) IN
  /\ up[m] = "in" /\ leader[m] = m
  /\ c \in participants[m] /\ up[c] = "gone"
  /\ generatedGlobalSeq' = [generatedGlobalSeq EXCEPT ![m] = s.generated]
  /\ notificationGlobalSeq' =
       [notificationGlobalSeq EXCEPT ![m] = s.notification]
  /\ participants' = [participants EXCEPT ![m] = s.ps]
  /\ hold_back_queue' = [hold_back_queue EXCEPT ![m] = Erase(@, c)]
  /\ \E last \in DOMAIN txBuffer[m] \cup {0} :
       /\ last = 0 => DOMAIN txBuffer[m] = {}
       /\ txBuffer' = [txBuffer EXCEPT ![m] =
                         Restrict(@, {g \in DOMAIN @ : g > last})]
  /\ Send(s.out)
  /\ UNCHANGED <<up, leader, seqNumber, requestVars, sequenced, displayVars>>

\* Member m has won the election: initializeSequencer, and the new list.  (The
\* E2_ broadcast sets nothing here that the list does not set.)
TakeOver(m) ==
  LET start == IF generatedGlobalSeq[m] = 0 THEN globalSeq[m]
               ELSE generatedGlobalSeq[m]
      ps == participants[m] \ {leader[m]}
      s == Announce(m, m, [Before(m, m) EXCEPT !.generated = start, !.ps = ps])
      seen == {p \in ps : seqNumber[m][p] > 0}
  IN /\ up[m] = "in" /\ up[leader[m]] = "gone"
     /\ \A c \in ps : c > m => up[c] = "gone"
     /\ leader' = [leader EXCEPT ![m] = m]
     /\ participants' = [participants EXCEPT ![m] = ps]
     /\ generatedGlobalSeq' = [generatedGlobalSeq EXCEPT ![m] = s.generated]
     /\ notificationGlobalSeq' =
          [notificationGlobalSeq EXCEPT ![m] = s.notification]
     /\ hold_back_queue' = [hold_back_queue EXCEPT ![m] =
          [p \in seen |-> [last |-> seqNumber[m][p], msgs |-> Empty]]]
     /\ Send(s.out)
     /\ UNCHANGED <<up, seqNumber, requestVars, txBuffer, sequenced, displayVars>>

Lose(p) ==
  /\ losses < budget.losses
  /\ losses' = losses + 1
  /\ net' = net \ {p}
  /\ UNCHANGED <<viewVars, requestVars, sequencerVars, displayVars,
                 notificationGlobalSeq, duplicates, resends, budget>>

-----------------------------------------------------------------------------
\* networkThread
Handle(p) ==
  \/ /\ up[p.to] = "in"
     /\ \/ ReceiveS0_(p) \/ ReceiveS4A(p)
        \/ ReceiveN0_(p) \/ ReceiveS0A(p) \/ ReceiveS4_(p)
        \/ ReceiveC0_(p) \/ ReceiveS3_(p) \/ ReceiveS3A(p) \/ ReceiveS3N(p)
  \/ ReceiveN0A(p)
  \/ BadPacket(p)

Timers(m) ==
  \/ \E l \in DOMAIN seqBuffer[m] : Resend(m, l) \/ GiveUp(m, l)
  \/ \E g \in DOMAIN txBuffer[m] : TxExpire(m, g)
  \/ JoinTimeout(m)
  \/ TakeOver(m)
  \/ \E c \in participants[m] : RemoveMember(m, c)

Next ==
  \/ \E p \in net : Handle(p) \/ Lose(p)
  \/ \E m \in Member : \/ Type(m) \/ Timers(m) \/ Crash(m)
                       \/ \E c \in Member : AskToJoin(m, c)

Spec == Init /\ [][Next]_vars

-----------------------------------------------------------------------------
Known(m) == {shown[m][i][1] : i \in DOMAIN shown[m]}

\* The requests of members that are still there, numbered by the founder.  (A
\* member that is removed is forgotten by the sequencer: a late request of it
\* counts as its first.  A new sequencer goes on from the number it has displayed
\* itself, base.h:809, and may give out numbers the founder has used.)
Given(c) == {k \in DOMAIN sequenced : sequenced[k].from = c}
Orderly(c) == up[c] = "in" /\ up[Founder] = "in"

\* The sequencer gives a request at most one number and a number to at most one
\* request, however often requests are repeated, delayed or asked for again
\* (Project Report, 1: duplicates; S0_ in base.h:896).
OneNumberPerRequest ==
  \A i, j \in DOMAIN sequenced :
    i # j /\ Orderly(sequenced[i].from) =>
      /\ sequenced[i].g # sequenced[j].g
      /\ <<sequenced[i].from, sequenced[i].l>>
           # <<sequenced[j].from, sequenced[j].l>>

\* A sender's requests get their numbers in the order in which it made them,
\* whatever order they arrive in (base.h:896, the held back requests); and from
\* the first the sequencer has seen on, none is overtaken by a later one while its
\* sender still has it to send again (base.h:943-975, dchat.cpp:665: S4_ and S4A).
\* The exception: when the sender has given up a request, the sequencer passes
\* over all that are missing before it as well (dchat.cpp:692).
SenderOrderKept ==
  \A c \in Member : Orderly(c) => \A i, j \in Given(c) :
    /\ sequenced[i].l < sequenced[j].l => sequenced[i].g < sequenced[j].g
    /\ \A l \in sequenced[i].l .. sequenced[j].l :
         (l \in DOMAIN seqBuffer[c] /\ \A k \in forgotten[c] : k < l) =>
           \E k \in Given(c) : sequenced[k].l = l

\* What a member displays under a number is a line that a sequencer gave it to,
\* by whichever way (C0_, S3A) the line came; and as long as the founder is
\* there, no two members display different lines under one number, of members
\* that have left as well (dchat.cpp:79-245, 493-645).  After a takeover they
\* may: the new sequencer gives numbers again that it has not displayed
\* (base.h:809), and a line of the founder's may have been seen under one.
ShownAsSequenced ==
  /\ \A m \in Member : \A i \in DOMAIN shown[m] : \E k \in DOMAIN sequenced :
       /\ sequenced[k].g = shown[m][i][1]
       /\ <<sequenced[k].from, sequenced[k].l>> = shown[m][i][2]
  /\ up[Founder] = "in" =>
       \A m, n \in Member : \A i \in DOMAIN shown[m], j \in DOMAIN shown[n] :
         shown[m][i][1] = shown[n][j][1] => shown[m][i][2] = shown[n][j][2]

\* A member that has won an election and numbered something itself.
TookOver(m) == m # Founder /\ generatedGlobalSeq[m] > 0

\* Unless a number was declared lost, a line that is passed over between two
\* displayed ones has a number below that of a notification, or came from
\* somebody the member did not know (dchat.cpp:186-187).  (A member that takes
\* over, loses the lead to another and takes over again sets its notification
\* number back, base.h:809.)
GapsAreNotifications ==
  \A m \in Member : givenUp[m] = {} /\ ~TookOver(m) =>
    \A k \in DOMAIN sequenced :
      (/\ sequenced[k].g \notin Known(m)
       /\ \E g \in Known(m) : g < sequenced[k].g
       /\ sequenced[k].g < globalSeq[m])
      => \/ sequenced[k].g <= notificationGlobalSeq[m]
         \/ sequenced[k].g \in DOMAIN holdBackQ[m]

\* A member that holds back a line because of a gap has asked for the missing
\* number, unless it has declared one lost (dchat.cpp:222-234).  (A new leader
\* may set its notification number back, and looks at the gap only when the
\* next line comes.)
GapIsAskedFor ==
  up[Founder] = "in" => \A m \in Member :
    (/\ givenUp[m] = {} /\ globalSeq[m] > 0
     /\ \E k \in DOMAIN holdBackQ[m] :
          k > globalSeq[m] + 1 /\ k > notificationGlobalSeq[m] + 1)
    => globalSeq[m] + 1 \in DOMAIN globalSeqLost[m]

-----------------------------------------------------------------------------
\* What the report and the comments promise and the code does not keep

\* All members see the lines in the exact same order (Project Report, 3): of
\* two members of the chat from the start, one shows what the other does, or
\* the beginning of it.
SameOrder ==
  \A m, n \in Initial :
    IsPrefix(shown[m], shown[n]) \/ IsPrefix(shown[n], shown[m])
=============================================================================
