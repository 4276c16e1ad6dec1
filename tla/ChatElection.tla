---------------------------- MODULE ChatElection ----------------------------
(***************************************************************************)
(* Failure detection and leader election of the regular DistributedChat    *)
(* (src/regular/dchat.cpp and base.h).  Each member runs three threads that *)
(* matter here and share its flags:                                        *)
(*   heartBeatThread  the leader beats (H0_) every 20 ms and drops a member *)
(*                    after MissLimit silent rounds; the others watch for a *)
(*                    second whether a beat came, and if none did remove    *)
(*                    the leader and take over or signal the election       *)
(*   electionThread   a bully election: E1_ to the members with a higher    *)
(*                    key, 20 ms for an answer (E1A), then leader (E2_ and  *)
(*                    the list of members) or a second of rest; it holds    *)
(*                    electionMutex all that time                           *)
(*   networkThread    handles one packet at a time                          *)
(* Members are numbered in the order of their keys, which is the order of   *)
(* participantList.                                                         *)
(*                                                                         *)
(* Abstractions.  A list of members travels as one packet, the ordering     *)
(* state that initializeSequencer sets up is ChatOrder's, and a packet that *)
(* still waits in an inbox is not queued a second time.  An inbox is in     *)
(* order of sending.  Time passes in ticks of 20 ms, when no thread has     *)
(* anything left to do: packets and steps are quick beside the sleeps, which *)
(* is what the code relies on.  Up to MaxLost packets are lost.             *)
(*                                                                         *)
(* No lock lasts from a test of the flags to what follows from it: the test, *)
(* the removal of the leader, the decision and each message of a takeover    *)
(* are steps of their own, and networkThread may handle a packet between.    *)
(***************************************************************************)
EXTENDS Naturals, Sequences, FiniteSets, FiniteSetsExt

CONSTANTS
  Members,     \* the numbers of the members, in the order of their keys
  MissLimit,   \* rounds without an answer after which a member is dropped: 5
  Second,      \* ticks in a sleep of one second: 50
  MaxCrashes,  \* bound: members that crash
  MaxLost      \* bound: packets that are lost

ASSUME ElectionAssumption ==
  /\ Members \subseteq Nat /\ IsFiniteSet(Members)
  /\ MissLimit \in Nat \ {0, 1}
  /\ Second \in Nat \ {0}
  /\ {MaxCrashes, MaxLost} \subseteq Nat

Nobody == 0

VARIABLES
  lost,             \* packets lost so far
  up,               \* the members whose program runs
  participantList,  \* [member -> the members it knows]
  leader,           \* [member -> the member its leader pointer describes]
  isLeader, isLeaderAlive, electionOnGoing, electionBowOut,
  heartBeatMap,     \* [leader -> members that answered this round]
  responseCount,    \* [leader -> [member -> rounds missed in a row]]
  hb,               \* heartBeatThread: "top", "beat", "watch", "alarm",
                    \*   "decide", "signal" or taking over
  el,               \* electionThread: "start", "wait", "woken", "loop",
                    \*   "asked", "rest" or taking over
  net,              \* networkThread: "idle", "signal"
  hbSleep, elSleep, \* ticks left of the two threads' sleeps
  inbox,            \* [member -> packets its socket holds]
  overtaken         \* history: a member was told of a leader while a thread of
                    \*   its own was about to remove the old one or take over

\* A member may lose its own entry: OnElection and HbRemove take the leader out
\* of the list even where that is the member itself, which has just taken over.
\* find(self)++ then steps past the end of the map: the model ends there.
InOwnList == \A n \in up : n \in participantList[n]

flags == <<isLeader, isLeaderAlive, electionOnGoing, electionBowOut>>
count == <<heartBeatMap, responseCount>>
sleeps == <<hbSleep, elSleep>>
electionVars == <<lost, up, participantList, leader, flags, count, hb, el, net,
                  sleeps, inbox, overtaken>>

ElectionPacket == [tag : {"H0_", "H0A", "E1_", "E1A", "E2_"}, from : Members]
          \cup [tag : {"N0A"}, from : Members,
                list : SUBSET Members, flagged : Members \cup {Nobody}]

Pkt(t, n) == [tag |-> t, from |-> n]

\* sendParticipantList: the sender marks the entry its leader pointer is.
ListOf(n, list, lead) ==
  [tag |-> "N0A", from |-> n, list |-> list,
   flagged |-> IF lead \in list THEN lead ELSE Nobody]

\* Packet p to each member of to whose program runs.
Enqueue(q, p) == IF \E i \in 1..Len(q) : q[i] = p THEN q ELSE Append(q, p)
Deliver(box, to, p) ==
  [m \in Members |-> IF m \in to \cap up THEN Enqueue(box[m], p) ELSE box[m]]

-----------------------------------------------------------------------------

ElectionInit ==
  /\ lost = 0
  /\ up = Members
  /\ participantList = [n \in Members |-> Members]
  /\ \E first \in Members :
       /\ leader = [n \in Members |-> first]
       /\ isLeader = [n \in Members |-> n = first]
  /\ electionOnGoing = [n \in Members |-> FALSE]
  /\ electionBowOut = [n \in Members |-> FALSE]
  /\ heartBeatMap = [n \in Members |-> {}]
  /\ responseCount = [n \in Members |-> [m \in Members |-> 0]]
  /\ hb = [n \in Members |-> IF isLeader[n] THEN "top" ELSE "watch"]
  /\ hbSleep \in {f \in [Members -> 0..Second] :
                   \A n \in Members : isLeader[n] <=> f[n] = 0}
  /\ isLeaderAlive = [n \in Members |-> hbSleep[n] # Second]
  /\ el = [n \in Members |-> "wait"]
  /\ elSleep = [n \in Members |-> 0]
  /\ net = [n \in Members |-> "idle"]
  /\ inbox = [n \in Members |-> <<>>]
  /\ overtaken = FALSE

-----------------------------------------------------------------------------
(* Time.                                                                    *)

\* electionMutex is held by the election thread, asleep or not.
TakingOver == {"claim", "announce", "publish"}
Electing(n) == el[n] \in {"loop", "asked", "rest"} \cup TakingOver

\* A thread of a running member has something to do at once.
Busy ==
  \E n \in up :
    \/ inbox[n] # <<>> /\ net[n] = "idle"
    \/ "signal" \in {net[n], hb[n]} /\ ~Electing(n)
    \/ el[n] \in {"start", "woken", "loop"} \cup TakingOver
    \/ hb[n] \in {"alarm", "decide"} \cup TakingOver
    \/ el[n] \in {"asked", "rest"} /\ elSleep[n] = 0
    \/ hb[n] \in {"beat", "watch"} /\ hbSleep[n] = 0
    \/ hb[n] = "top" /\ Cardinality(participantList[n]) > 1
                     /\ (isLeader[n] \/ ~electionOnGoing[n])

Less(f) == [n \in Members |-> IF f[n] = 0 THEN 0 ELSE f[n] - 1]

Tick ==
  /\ \E n \in up : hbSleep[n] + elSleep[n] > 0
  /\ ~Busy
  /\ hbSleep' = Less(hbSleep) /\ elSleep' = Less(elSleep)
  /\ UNCHANGED <<lost, up, participantList, leader, flags, count, hb, el, net,
                 inbox, overtaken>>

HbSleeps(n, ticks) == hbSleep' = [hbSleep EXCEPT ![n] = ticks]
ElSleeps(n, ticks) == elSleep' = [elSleep EXCEPT ![n] = ticks]

-----------------------------------------------------------------------------
(* Taking over: the block that electionThread and heartBeatThread (twice)   *)
(* share.  No lock keeps networkThread out while it runs.                   *)

Claim(n) ==
  /\ isLeaderAlive' = [isLeaderAlive EXCEPT ![n] = TRUE]
  /\ isLeader' = [isLeader EXCEPT ![n] = TRUE]
  /\ electionOnGoing' = [electionOnGoing EXCEPT ![n] = FALSE]
  /\ electionBowOut' = [electionBowOut EXCEPT ![n] = FALSE]
  /\ UNCHANGED <<leader, inbox>>

\* leader=self, and the new leader is made known.
Announce(n) ==
  /\ leader' = [leader EXCEPT ![n] = n]
  /\ inbox' = Deliver(inbox, participantList[n] \ {n}, Pkt("E2_", n))
  /\ UNCHANGED flags

Publish_Nothing(n) == UNCHANGED <<leader, flags, inbox>>

Publish(n) ==
  /\ inbox' = Deliver(inbox, participantList[n] \ {n},
                      ListOf(n, participantList[n], leader[n]))
  /\ UNCHANGED <<leader, flags>>

-----------------------------------------------------------------------------
(* heartBeatThread *)

HbBeat(n) ==
  /\ hb[n] = "top" /\ isLeader[n] /\ Cardinality(participantList[n]) > 1
  /\ heartBeatMap' = [heartBeatMap EXCEPT ![n] = {}]
  /\ inbox' = Deliver(inbox, participantList[n] \ {n}, Pkt("H0_", n))
  /\ hb' = [hb EXCEPT ![n] = "beat"] /\ HbSleeps(n, 1)
  /\ UNCHANGED <<lost, up, participantList, leader, flags, responseCount, el, net,
                 elSleep, overtaken>>

\* The members a round without answers is counted against: all but the one
\* the leader pointer names.
Silent(n) == (participantList[n] \ heartBeatMap[n]) \ {leader[n]}

Overdue_OneEarly(n, m) == responseCount[n][m] + 2 >= MissLimit
\* The round that has just passed is the last one m may miss.
Overdue(n, m) == responseCount[n][m] + 1 >= MissLimit

HbCount(n) ==
  /\ hb[n] = "beat" /\ hbSleep[n] = 0
  /\ LET gone == {m \in Silent(n) : Overdue(n, m)}
         left == participantList[n] \ gone
     IN /\ responseCount' = [responseCount EXCEPT ![n] =
             [m \in Members |-> IF m \in gone THEN 0
                                ELSE IF m \in Silent(n) THEN @[m] + 1 ELSE @[m]]]
        /\ participantList' = [participantList EXCEPT ![n] = left]
        /\ inbox' = IF gone = {} THEN inbox
                    ELSE Deliver(inbox, left \ {n}, ListOf(n, left, leader[n]))
  /\ heartBeatMap' = [heartBeatMap EXCEPT ![n] = {}]
  /\ hb' = [hb EXCEPT ![n] = "top"]
  /\ UNCHANGED <<lost, up, leader, flags, el, net, sleeps, overtaken>>

HbWatch(n) ==
  /\ hb[n] = "top" /\ ~isLeader[n] /\ Cardinality(participantList[n]) > 1
  /\ ~electionOnGoing[n]
  /\ isLeaderAlive' = [isLeaderAlive EXCEPT ![n] = FALSE]
  /\ hb' = [hb EXCEPT ![n] = "watch"] /\ HbSleeps(n, Second)
  /\ UNCHANGED <<lost, up, participantList, leader, isLeader, electionOnGoing,
                 electionBowOut, count, el, net, elSleep, inbox, overtaken>>

WatchOver(n) == hb[n] = "watch" /\ hbSleep[n] = 0

HbCalm(n) ==
  /\ WatchOver(n) /\ (isLeaderAlive[n] \/ electionOnGoing[n])
  /\ hb' = [hb EXCEPT ![n] = "top"]
  /\ UNCHANGED <<lost, up, participantList, leader, flags, count, el, net, sleeps,
                 inbox, overtaken>>

HbAlarm(n) ==
  /\ WatchOver(n) /\ ~isLeaderAlive[n] /\ ~electionOnGoing[n]
  /\ hb' = [hb EXCEPT ![n] = "alarm"]
  /\ UNCHANGED <<lost, up, participantList, leader, flags, count, el, net, sleeps,
                 inbox,
                 overtaken>>

\* No beat came: the leader is removed, whoever that is by now.
HbRemove(n) ==
  /\ hb[n] = "alarm"
  /\ participantList' = [participantList EXCEPT ![n] = @ \ {leader[n]}]
  /\ hb' = [hb EXCEPT ![n] = "decide"]
  /\ UNCHANGED <<lost, up, leader, flags, count, el, net, sleeps, inbox, overtaken>>

\* n is alone, or the entry after its own is the end of the list.
Highest(n, list) == \A m \in list : m <= n

\* Whoever is alone or has the highest key takes over, the others signal the
\* election unless it has begun by now.
HbDecide(n) ==
  /\ hb[n] = "decide"
  /\ hb' = [hb EXCEPT ![n] = IF Highest(n, participantList[n]) THEN "claim"
                            ELSE IF electionOnGoing[n] THEN "top" ELSE "signal"]
  /\ UNCHANGED <<lost, up, participantList, leader, flags, count, el, net, sleeps,
                 inbox,
                 overtaken>>

HbTakeOver(n) ==
  /\ \/ hb[n] = "claim" /\ Claim(n) /\ hb' = [hb EXCEPT ![n] = "announce"]
     \/ hb[n] = "announce" /\ Announce(n) /\ hb' = [hb EXCEPT ![n] = "publish"]
     \/ hb[n] = "publish" /\ Publish(n) /\ hb' = [hb EXCEPT ![n] = "top"]
  /\ UNCHANGED <<lost, up, participantList, count, el, net, sleeps, overtaken>>

\* pthread_cond_signal: it wakes the election thread or is lost.
Signal(n) ==
  /\ ~Electing(n)
  /\ el' = [el EXCEPT ![n] = IF @ = "wait" THEN "woken" ELSE @]

HbSignal(n) ==
  /\ hb[n] = "signal" /\ Signal(n)
  /\ hb' = [hb EXCEPT ![n] = "top"]
  /\ UNCHANGED <<lost, up, participantList, leader, flags, count, net, sleeps,
                 inbox, overtaken>>

HeartBeat(n) == HbBeat(n) \/ HbCount(n) \/ HbWatch(n) \/ HbCalm(n) \/ HbAlarm(n)
                \/ HbRemove(n) \/ HbDecide(n) \/ HbTakeOver(n) \/ HbSignal(n)

-----------------------------------------------------------------------------
(* electionThread *)

ElWait(n) ==
  /\ el[n] = "start"
  /\ el' = [el EXCEPT ![n] = "wait"]
  /\ UNCHANGED <<lost, up, participantList, leader, flags, count, hb, net, sleeps,
                 inbox, overtaken>>

ElWake(n) ==
  /\ el[n] = "woken"
  /\ electionOnGoing' = [electionOnGoing EXCEPT ![n] = TRUE]
  /\ el' = [el EXCEPT ![n] = IF electionOnGoing[n] THEN "start" ELSE "loop"]
  /\ UNCHANGED <<lost, up, participantList, leader, isLeader, isLeaderAlive,
                 electionBowOut, count, hb, net, sleeps, inbox, overtaken>>

ElOver(n) ==
  /\ el[n] = "loop" /\ isLeaderAlive[n]
  /\ el' = [el EXCEPT ![n] = "start"]
  /\ UNCHANGED <<lost, up, participantList, leader, flags, count, hb, net, sleeps,
                 inbox, overtaken>>

Asked_Everybody(n) == participantList[n] \ {n}

\* multicast(ELECTION) starts behind the member's own entry.
Asked(n) == {m \in participantList[n] : m > n}

ElAsk(n) ==
  /\ el[n] = "loop" /\ ~isLeaderAlive[n]
  /\ electionBowOut' = [electionBowOut EXCEPT ![n] = FALSE]
  /\ el' = [el EXCEPT ![n] = "asked"] /\ ElSleeps(n, 1)
  /\ inbox' = Deliver(inbox, Asked(n), Pkt("E1_", n))
  /\ UNCHANGED <<lost, up, participantList, leader, isLeader, isLeaderAlive,
                 electionOnGoing, count, hb, net, hbSleep, overtaken>>

ElWin_Deaf(n) ==
  /\ el[n] = "asked" /\ elSleep[n] = 0
  /\ ~isLeaderAlive[n]
  /\ el' = [el EXCEPT ![n] = "claim"]
  /\ UNCHANGED <<lost, up, participantList, leader, flags, count, hb, net, sleeps,
                 inbox,
                 overtaken>>

ElWin(n) ==
  /\ el[n] = "asked" /\ elSleep[n] = 0
  /\ ~electionBowOut[n] /\ ~isLeaderAlive[n]
  /\ el' = [el EXCEPT ![n] = "claim"]
  /\ UNCHANGED <<lost, up, participantList, leader, flags, count, hb, net, sleeps,
                 inbox,
                 overtaken>>

ElTakeOver(n) ==
  /\ \/ el[n] = "claim" /\ Claim(n) /\ el' = [el EXCEPT ![n] = "announce"]
     \/ el[n] = "announce" /\ Announce(n) /\ el' = [el EXCEPT ![n] = "publish"]
     \/ el[n] = "publish" /\ Publish(n) /\ el' = [el EXCEPT ![n] = "loop"]
  /\ UNCHANGED <<lost, up, participantList, count, hb, net, sleeps, overtaken>>

ElBow(n) ==
  /\ el[n] = "asked" /\ elSleep[n] = 0
  /\ electionBowOut[n] \/ isLeaderAlive[n]
  /\ el' = [el EXCEPT ![n] = "rest"] /\ ElSleeps(n, Second)
  /\ UNCHANGED <<lost, up, participantList, leader, flags, count, hb, net, hbSleep,
                 inbox, overtaken>>

ElRested(n) ==
  /\ el[n] = "rest" /\ elSleep[n] = 0
  /\ el' = [el EXCEPT ![n] = "loop"]
  /\ UNCHANGED <<lost, up, participantList, leader, flags, count, hb, net, sleeps,
                 inbox, overtaken>>

Election(n) ==
  ElWait(n) \/ ElWake(n) \/ ElOver(n) \/ ElAsk(n) \/ ElWin(n) \/ ElTakeOver(n)
  \/ ElBow(n) \/ ElRested(n)

-----------------------------------------------------------------------------
(* networkThread: one packet, taken by its handler in identify().           *)

Take(n, t) == net[n] = "idle" /\ inbox[n] # <<>> /\ Head(inbox[n]).tag = t
Sender(n)  == Head(inbox[n]).from
Taken(n)   == [inbox EXCEPT ![n] = Tail(@)]

OnBeat(n) ==
  /\ Take(n, "H0_")
  /\ isLeaderAlive' = [isLeaderAlive EXCEPT ![n] = TRUE]
  /\ inbox' = Deliver(Taken(n), {Sender(n)}, Pkt("H0A", n))
  /\ UNCHANGED <<lost, up, participantList, leader, isLeader, electionOnGoing,
                 electionBowOut, count, hb, el, net, sleeps, overtaken>>

OnBeatAnswer(n) ==
  /\ Take(n, "H0A")
  /\ IF isLeader[n]
     THEN /\ heartBeatMap' = [heartBeatMap EXCEPT ![n] = @ \cup {Sender(n)}]
          /\ responseCount' = [responseCount EXCEPT ![n][Sender(n)] = 0]
     ELSE UNCHANGED count
  /\ inbox' = Taken(n)
  /\ UNCHANGED <<lost, up, participantList, leader, flags, hb, el, net, sleeps,
                 overtaken>>

\* E1_ is always answered; without an election of its own the member takes
\* the sender's word that its leader has gone.
OnElection(n) ==
  /\ Take(n, "E1_")
  /\ inbox' = Deliver(Taken(n), {Sender(n)}, Pkt("E1A", n))
  /\ IF electionOnGoing[n]
     THEN UNCHANGED <<participantList, isLeaderAlive, net>>
     ELSE /\ participantList' = [participantList EXCEPT ![n] = @ \ {leader[n]}]
          /\ isLeaderAlive' = [isLeaderAlive EXCEPT ![n] = FALSE]
          /\ net' = [net EXCEPT ![n] = "signal"]
  /\ UNCHANGED <<lost, up, leader, isLeader, electionOnGoing, electionBowOut,
                 count, hb, el, sleeps, overtaken>>

\* The signal needs electionMutex: until the election thread lets go of it
\* the member handles no packet.
NetSignal(n) ==
  /\ net[n] = "signal" /\ Signal(n)
  /\ net' = [net EXCEPT ![n] = "idle"]
  /\ UNCHANGED <<lost, up, participantList, leader, flags, count, hb, sleeps,
                 inbox, overtaken>>

OnElectionAnswer(n) ==
  /\ Take(n, "E1A")
  /\ electionBowOut' = [electionBowOut EXCEPT ![n] =
       @ \/ (electionOnGoing[n] /\ Sender(n) \in participantList[n])]
  /\ inbox' = Taken(n)
  /\ UNCHANGED <<lost, up, participantList, leader, isLeader, isLeaderAlive,
                 electionOnGoing, count, hb, el, net, sleeps, overtaken>>

\* A thread of n has looked at the flags and not yet done what follows from them.
Midway(n) == hb[n] \in {"alarm", "decide"} \cup TakingOver \/ el[n] \in TakingOver

\* E2_ does not touch isLeader: a leader that hears of another goes on
\* beating until a list arrives.
OnLeader(n) ==
  /\ Take(n, "E2_")
  /\ isLeaderAlive' = [isLeaderAlive EXCEPT ![n] = TRUE]
  /\ electionOnGoing' = [electionOnGoing EXCEPT ![n] = FALSE]
  /\ electionBowOut' = [electionBowOut EXCEPT ![n] = TRUE]
  /\ leader' = [leader EXCEPT ![n] =
                  IF Sender(n) \in participantList[n] THEN Sender(n) ELSE @]
  /\ inbox' = Taken(n)
  /\ overtaken' = (overtaken \/ Midway(n))
  /\ UNCHANGED <<lost, up, participantList, isLeader, count, hb, el, net, sleeps>>

\* receiveParticipantList: known members keep their entry, while the leader
\* pointer is set to a new object, so that self == leader fails for a member
\* that was in its own list.
OnList(n) ==
  /\ Take(n, "N0A")
  /\ LET p == Head(inbox[n])
     IN IF Cardinality(p.list) < 2
        THEN UNCHANGED <<participantList, leader, isLeader>>
        ELSE /\ participantList' = [participantList EXCEPT ![n] = p.list]
             /\ leader' = [leader EXCEPT ![n] =
                              IF p.flagged = Nobody THEN @ ELSE p.flagged]
             /\ isLeader' = [isLeader EXCEPT ![n] =
                  IF p.flagged = Nobody THEN @ /\ leader[n] = n
                  ELSE FALSE]
  /\ inbox' = Taken(n)
  /\ overtaken' = (overtaken \/ Midway(n))
  /\ UNCHANGED <<lost, up, isLeaderAlive, electionOnGoing, electionBowOut,
                 count, hb, el, net, sleeps>>

Network(n) == OnBeat(n) \/ OnBeatAnswer(n) \/ OnElection(n) \/ NetSignal(n)
              \/ OnElectionAnswer(n) \/ OnLeader(n) \/ OnList(n)

-----------------------------------------------------------------------------
(* A member's program ends, by a crash or at the end of its input.  What    *)
(* the others know of it does not change, and its own state is left at a    *)
(* fixed value, which nothing reads.                                        *)

Crash(n) ==
  /\ n \in up /\ Cardinality(Members \ up) < MaxCrashes
  /\ up' = up \ {n}
  /\ participantList' = [participantList EXCEPT ![n] = {}]
  /\ leader' = [leader EXCEPT ![n] = n]
  /\ isLeader' = [isLeader EXCEPT ![n] = FALSE]
  /\ isLeaderAlive' = [isLeaderAlive EXCEPT ![n] = FALSE]
  /\ electionOnGoing' = [electionOnGoing EXCEPT ![n] = FALSE]
  /\ electionBowOut' = [electionBowOut EXCEPT ![n] = FALSE]
  /\ heartBeatMap' = [heartBeatMap EXCEPT ![n] = {}]
  /\ responseCount' = [responseCount EXCEPT ![n] = [m \in Members |-> 0]]
  /\ hb' = [hb EXCEPT ![n] = "top"]
  /\ el' = [el EXCEPT ![n] = "wait"]
  /\ net' = [net EXCEPT ![n] = "idle"]
  /\ inbox' = [inbox EXCEPT ![n] = <<>>]
  /\ HbSleeps(n, 0) /\ ElSleeps(n, 0)
  /\ UNCHANGED <<lost, overtaken>>

\* A packet is lost before it reaches the socket.
LosePacket(n) ==
  /\ lost < MaxLost /\ inbox[n] # <<>>
  /\ lost' = lost + 1
  /\ inbox' = [inbox EXCEPT ![n] = Tail(@)]
  /\ UNCHANGED <<up, participantList, leader, flags, count, hb, el, net, sleeps,
                 overtaken>>

Runs(n) == n \in up /\ (HeartBeat(n) \/ Election(n) \/ Network(n))
ElectionNext ==
  InOwnList /\ (Tick \/ \E n \in Members : Runs(n) \/ Crash(n) \/ LosePacket(n))

\* The threads of a running member are scheduled and time passes; nothing
\* has to crash or be lost.
ElectionFairness ==
  /\ WF_electionVars(InOwnList /\ Tick)
  /\ \A n \in Members : /\ WF_electionVars(InOwnList /\ n \in up /\ HeartBeat(n))
                        /\ WF_electionVars(InOwnList /\ n \in up /\ Election(n))
                        /\ WF_electionVars(InOwnList /\ n \in up /\ Network(n))

ElectionSpec == ElectionInit /\ [][ElectionNext]_electionVars /\ ElectionFairness

-----------------------------------------------------------------------------

\* Types of what the three threads of a member share (base.h:54), of their
\* places and sleeps, and of the packets under way.
ElectionTypeOK ==
  /\ lost \in Nat /\ up \in SUBSET Members
  /\ participantList \in [Members -> SUBSET Members]
  /\ leader \in [Members -> Members]
  /\ isLeader \in [Members -> BOOLEAN] /\ isLeaderAlive \in [Members -> BOOLEAN]
  /\ electionOnGoing \in [Members -> BOOLEAN]
  /\ electionBowOut \in [Members -> BOOLEAN]
  /\ heartBeatMap \in [Members -> SUBSET Members]
  /\ responseCount \in [Members -> [Members -> Nat]]
  /\ hb \in [Members -> {"top", "beat", "watch", "alarm", "decide", "signal"}
                          \cup TakingOver]
  /\ el \in [Members -> {"start", "wait", "woken", "loop", "asked", "rest"}
                          \cup TakingOver]
  /\ net \in [Members -> {"idle", "signal"}]
  /\ hbSleep \in [Members -> 0..Second] /\ elSleep \in [Members -> 0..Second]
  /\ inbox \in [Members -> Seq(ElectionPacket)]
  /\ overtaken \in BOOLEAN

Smooth == lost = 0 /\ InOwnList /\ ~overtaken

\* While every program runs nobody is suspected of having crashed, for want of
\* one beat, of one answer, or of one second that ends between two beats; the
\* losses it takes are bounded by MissLimit and Second (heartBeatThread).
NobodySuspected ==
  up = Members =>
    \A n \in up : participantList[n] = Members /\ ~electionOnGoing[n]

\* There are never two leaders at a time among three members as long as no packet
\* is lost, nobody has removed itself, and no member is told of a new leader
\* between its own test of the flags and its takeover.  In that gap (dchat.cpp:989-1000)
\* it removes the new leader, and two lead for good.  Among four there may be two
\* anyway: a member does not read the answer of a higher one while its
\* networkThread waits for electionMutex (dchat.cpp:344).
OneLeader ==
  Smooth => \A n, m \in up : (isLeader[n] /\ isLeader[m]) => n = m

\* All members that run follow one of them, which knows it, and their lists
\* hold exactly the members that run.
Agreed ==
  \E l \in up : \A n \in up : /\ leader[n] = l /\ (isLeader[n] <=> n = l)
                             /\ participantList[n] = up

\* After a crash the members that are left agree again, on the same
\* conditions.
Settled == []Smooth => <>[]Agreed

\* After one crash, nobody follows a member that does not run for good, even
\* when a packet is lost, and when a member is told of a new leader in the gap,
\* unless somebody has removed itself.
CrashNoticed == []InOwnList => <>[](\A n \in up : leader[n] \in up)

=============================================================================
