--------------------------- MODULE ChatOrder_proofs ---------------------------
(***************************************************************************)
(* Proofs about ChatOrder, for any members, whoever is in the chat at      *)
(* first, and any budgets of lines, losses, duplicates, resends, joins and *)
(* crashes.                                                                *)
(*                                                                         *)
(* The model's two recursive functions, the run of held back requests      *)
(* (SendHeld) and the walk along holdBackQ (Deliverable), are reasoned     *)
(* about by their steps: each is the function its equation describes       *)
(* (SendHeldIs, DeliverableIs), and what every step keeps holds at the end *)
(* (Climb).  From these come one fact about a request (Handled: which      *)
(* numbers it is given, what is asked for, what stays held) and one about  *)
(* a line that arrives (ChatStep: what is displayed, and up to where), and *)
(* the invariants use only those two.                                      *)
(*                                                                         *)
(* The invariants, each on top of the types: LinesAreNumbered (a line      *)
(* anywhere has the number it was given), FounderLeads (there is no second *)
(* leader while the founder is in), ShowsInOrder and AsksForGap (the       *)
(* display of one member), LogInOrder and RequestsInOrder (the numbers the *)
(* founder gives, and every request's way to one).                         *)
(***************************************************************************)
EXTENDS ChatOrder, FiniteSetTheorems, WellFoundedInduction, TLAPS

-----------------------------------------------------------------------------
\* Maps, least numbers and recursion

\* The maps with finitely many entries: keys in K, values in V.
Map(K, V) == UNION {[S -> V] : S \in {T \in SUBSET K : IsFiniteSet(T)}}

LEMMA MapDef ==
  \A K, V, f : f \in Map(K, V) <=> /\ f \in [DOMAIN f -> V] /\ DOMAIN f \subseteq K
                                   /\ IsFiniteSet(DOMAIN f)
<1> SUFFICES ASSUME NEW K, NEW V, NEW f
             PROVE  f \in Map(K, V) <=> /\ f \in [DOMAIN f -> V] /\ DOMAIN f \subseteq K
                                        /\ IsFiniteSet(DOMAIN f)
  OBVIOUS
<1>1. ASSUME f \in Map(K, V)
      PROVE  /\ f \in [DOMAIN f -> V] /\ DOMAIN f \subseteq K /\ IsFiniteSet(DOMAIN f)
  <2>1. PICK S \in {T \in SUBSET K : IsFiniteSet(T)} : f \in [S -> V]
    BY <1>1 DEF Map
  <2>2. DOMAIN f = S
    BY <2>1
  <2> QED BY <2>1, <2>2
<1>2. ASSUME f \in [DOMAIN f -> V], DOMAIN f \subseteq K, IsFiniteSet(DOMAIN f)
      PROVE  f \in Map(K, V)
  BY <1>2 DEF Map
<1> QED BY <1>1, <1>2

LEMMA EmptyMap == \A K, V : Empty \in Map(K, V) /\ DOMAIN Empty = {}
<1>1. DOMAIN Empty = {}
  BY DEF Empty
<1>2. IsFiniteSet({})
  BY FS_EmptySet
<1>3. \A V : Empty \in [{} -> V]
  BY DEF Empty
<1> QED BY <1>1, <1>2, <1>3, MapDef

LEMMA InsertDef ==
  \A f, k, v : /\ DOMAIN Insert(f, k, v) = DOMAIN f \cup {k}
               /\ \A x \in DOMAIN f : Insert(f, k, v)[x] = f[x]
               /\ k \notin DOMAIN f => Insert(f, k, v)[k] = v
BY DEF Insert

LEMMA InsertMap ==
  ASSUME NEW K, NEW V, NEW f \in Map(K, V), NEW k \in K, NEW v \in V
  PROVE  Insert(f, k, v) \in Map(K, V)
<1>1. f \in [DOMAIN f -> V] /\ DOMAIN f \subseteq K /\ IsFiniteSet(DOMAIN f)
  BY MapDef
<1>2. DOMAIN Insert(f, k, v) = DOMAIN f \cup {k}
  BY DEF Insert
<1>3. IsFiniteSet(DOMAIN f \cup {k})
  BY <1>1, FS_AddElement
<1>4. Insert(f, k, v) \in [DOMAIN f \cup {k} -> V]
  BY <1>1 DEF Insert
<1>5. Insert(f, k, v) \in Map(K, V)
  BY <1>1, <1>2, <1>3, <1>4, MapDef
<1> QED BY <1>5

LEMMA RestrictMap ==
  ASSUME NEW K, NEW V, NEW f \in Map(K, V), NEW S, S \subseteq DOMAIN f
  PROVE  /\ Restrict(f, S) \in Map(K, V) /\ DOMAIN Restrict(f, S) = S
         /\ \A x \in S : Restrict(f, S)[x] = f[x]
<1>1. f \in [DOMAIN f -> V] /\ DOMAIN f \subseteq K /\ IsFiniteSet(DOMAIN f)
  BY MapDef
<1>2. IsFiniteSet(S)
  BY <1>1, FS_Subset
<1>3. DOMAIN Restrict(f, S) = S /\ Restrict(f, S) \in [S -> V]
  BY <1>1 DEF Restrict
<1>4. Restrict(f, S) \in Map(K, V)
  BY <1>1, <1>2, <1>3, MapDef
<1> QED BY <1>3, <1>4 DEF Restrict

LEMMA EraseMap ==
  ASSUME NEW K, NEW V, NEW f \in Map(K, V), NEW k
  PROVE  Erase(f, k) \in Map(K, V)
BY RestrictMap DEF Erase

LEMMA EraseDef ==
  \A f, k : /\ DOMAIN Erase(f, k) = DOMAIN f \ {k}
            /\ \A x \in DOMAIN f \ {k} : Erase(f, k)[x] = f[x]
BY DEF Erase, Restrict

LEMMA Least ==
  ASSUME NEW S, S \subseteq Nat, S # {}
  PROVE  \E x \in S : \A y \in S : x <= y
<1>1. PICK x \in S : \A y \in S : ~(<<y, x>> \in OpToRel(<, Nat))
  BY WFMin, NatLessThanWellFounded
<1>2. \A y \in S : ~(y < x)
  BY <1>1 DEF OpToRel
<1> QED BY <1>2

\* Induction over a set of numbers.
LEMMA Climb ==
  ASSUME NEW n \in Nat, NEW S, 0 \in S, \A i \in 1..n : i - 1 \in S => i \in S
  PROVE  n \in S
<1> DEFINE T == {i \in 0..n : i \notin S}
<1> SUFFICES ASSUME T # {} PROVE FALSE
  OBVIOUS
<1>1. PICK j \in T : \A y \in T : j <= y
  <2>1. T \subseteq Nat
    OBVIOUS
  <2> HIDE DEF T
  <2> QED BY <2>1, Least
<1>2. j \in 1..n
  BY <1>1
<1>3. j - 1 \in 0..n /\ ~(j <= j - 1)
  BY <1>2
<1>4. j - 1 \notin T
  BY <1>1, <1>3
<1> QED BY <1>1, <1>2, <1>3, <1>4

\* The largest member of a finite set of numbers.
LEMMA LargestOf ==
  ASSUME NEW S, S \subseteq Nat, IsFiniteSet(S), S # {}
  PROVE  Max(S) \in S /\ \A y \in S : y <= Max(S)
<1>1. PICK n \in Nat : \A y \in S : y <= n
  <2>1. PICK n \in Nat : \E f \in Surjection(1..n, S) : TRUE
    BY FS_NatSurjection DEF ExistsSurjection
  <2>0. PICK f \in Surjection(1..n, S) : TRUE
    BY <2>1
  <2>2. f \in [1..n -> S] /\ \A y \in S : \E i \in 1..n : f[i] = y
    BY <2>0 DEF Surjection
  <2> DEFINE T == {i \in 0..n : \E b \in Nat : \A j \in 1..i : f[j] <= b}
  <2>3. 0 \in T
    OBVIOUS
  <2>4. ASSUME NEW i \in 1..n, i - 1 \in T
        PROVE  i \in T
    <3>1. PICK b \in Nat : \A j \in 1..(i - 1) : f[j] <= b
      BY <2>4
    <3>2. f[i] \in Nat
      BY <2>2
    <3>3. PICK c \in Nat : b <= c /\ f[i] <= c
      BY <3>2
    <3>4. \A j \in 1..i : f[j] <= c
      <4> TAKE j \in 1..i
      <4>1. CASE j = i
        BY <4>1, <3>3
      <4>2. CASE j # i
        <5>1. j \in 1..(i - 1) /\ j \in 1..n
          BY <4>2
        <5>2. f[j] \in Nat
          BY <5>1, <2>2
        <5> QED BY <5>1, <5>2, <3>1, <3>3
      <4> QED BY <4>1, <4>2
    <3> QED BY <3>4
  <2>5. n \in T
    <3> HIDE DEF T
    <3> QED BY <2>3, <2>4, Climb
  <2>6. PICK b \in Nat : \A j \in 1..n : f[j] <= b
    BY <2>5
  <2> QED BY <2>2, <2>6
<1> DEFINE T == {b \in Nat : \A y \in S : y <= b}
<1>2. PICK b \in T : \A c \in T : b <= c
  <2>1. T \subseteq Nat /\ n \in T
    BY <1>1
  <2> HIDE DEF T
  <2> QED BY <2>1, Least
<1>3. b \in S
  <2> SUFFICES ASSUME b \notin S PROVE FALSE
    OBVIOUS
  <2>1. PICK x \in S : TRUE
    OBVIOUS
  <2>2. \A y \in S : y < b
    BY <1>2
  <2>3. b - 1 \in T
    BY <2>1, <2>2, <1>2
  <2> QED BY <2>3, <1>2
<1>4. \E x \in S : \A y \in S : x >= y
  BY <1>2, <1>3
<1>5. Max(S) \in S /\ \A y \in S : Max(S) >= y
  BY <1>4 DEF Max
<1> QED BY <1>5

LEMMA SmallestOf ==
  ASSUME NEW S, S \subseteq Nat, S # {}
  PROVE  Min(S) \in S /\ \A y \in S : Min(S) <= y
<1>1. \E x \in S : \A y \in S : x =< y
  BY Least
<1> QED BY <1>1 DEF Min

\* The recursive definitions of the model have a value: the requests sent one
\* after the other, and the walk along holdBackQ.
Sends(t, m, s, from, q, n) ==
  t = [i \in 0..n |->
        IF i = 0 THEN s
        ELSE SendSequenced(m, t[i - 1], from, q.last + i, q.msgs[q.last + i])]

LEMMA SendsExist ==
  ASSUME NEW m, NEW s, NEW from, NEW q, NEW n \in Nat
  PROVE  \E t : Sends(t, m, s, from, q, n)
<1> DEFINE Next1(x, i) == SendSequenced(m, x, from, q.last + i, q.msgs[q.last + i])
           Has(i) == \E t : t = [j \in 0..i |-> IF j = 0 THEN s ELSE Next1(t[j - 1], j)]
           S == {i \in 0..n : Has(i)}
<1>1. 0 \in S
  <2> DEFINE t == [j \in 0..0 |-> s]
  <2>1. t = [j \in 0..0 |-> IF j = 0 THEN s ELSE Next1(t[j - 1], j)]
    <3> HIDE DEF Next1
    <3> QED OBVIOUS
  <2> HIDE DEF t, Next1
  <2> QED BY <2>1
<1>2. ASSUME NEW i \in 1..n, i - 1 \in S
      PROVE  i \in S
  <2> HIDE DEF Next1
  <2>1. PICK t : t = [j \in 0..(i - 1) |-> IF j = 0 THEN s ELSE Next1(t[j - 1], j)]
    BY <1>2
  <2> DEFINE u == [j \in 0..i |-> IF j = i THEN Next1(t[i - 1], i) ELSE t[j]]
  <2>2. u = [j \in 0..i |-> IF j = 0 THEN s ELSE Next1(u[j - 1], j)]
    <3> SUFFICES ASSUME NEW j \in 0..i
                 PROVE  u[j] = IF j = 0 THEN s ELSE Next1(u[j - 1], j)
      OBVIOUS
    <3>1. CASE j = 0
      BY <3>1, <2>1
    <3>2. CASE j # 0 /\ j # i
      <4>1. j \in 0..(i - 1) /\ j - 1 \in 0..i /\ j - 1 # i
        BY <3>2
      <4> QED BY <3>2, <4>1, <2>1
    <3>3. CASE j # 0 /\ j = i
      <4>1. u[j - 1] = t[i - 1] /\ u[j] = Next1(t[i - 1], i)
        BY <3>3
      <4> QED BY <3>3, <4>1
    <3> QED BY <3>1, <3>2, <3>3
  <2>3. Has(i)
    <3> HIDE DEF u
    <3> QED BY <2>2
  <2> QED BY <2>3
<1>3. Has(n)
  <2>1. n \in S
    <3> HIDE DEF S
    <3> QED BY <1>1, <1>2, Climb
  <2> QED BY <2>1
<1> QED BY <1>3, Zenon DEF Sends

LEMMA SendHeldIs ==
  ASSUME NEW m, NEW s, NEW from, NEW q, NEW n \in Nat
  PROVE  \E t : Sends(t, m, s, from, q, n) /\ SendHeld(m, s, from, q, n) = t[n]
<1> DEFINE t == CHOOSE x : Sends(x, m, s, from, q, n)
<1>1. Sends(t, m, s, from, q, n)
  BY SendsExist, Zenon
<1>2. SendHeld(m, s, from, q, n) = t[n]
  BY Zenon DEF SendHeld, Sends
<1> HIDE DEF t
<1> QED BY <1>1, <1>2

Walks(w, m, q, start, last) ==
  w = [k \in 0..last |->
        IF k = 0 THEN start
        ELSE IF k >= globalSeq[m] /\ k \in DOMAIN q
        THEN Entry(m, q, notificationGlobalSeq[m], w[k - 1], k)
        ELSE w[k - 1]]

LEMMA WalksExist ==
  ASSUME NEW m, NEW q, NEW start, NEW n \in Nat
  PROVE  \E w : Walks(w, m, q, start, n)
<1> DEFINE Next1(x, k) == IF k >= globalSeq[m] /\ k \in DOMAIN q
                          THEN Entry(m, q, notificationGlobalSeq[m], x, k) ELSE x
           Has(i) == \E t : t = [j \in 0..i |-> IF j = 0 THEN start ELSE Next1(t[j - 1], j)]
           S == {i \in 0..n : Has(i)}
<1>1. 0 \in S
  <2> DEFINE t == [j \in 0..0 |-> start]
  <2>1. t = [j \in 0..0 |-> IF j = 0 THEN start ELSE Next1(t[j - 1], j)]
    <3> HIDE DEF Next1
    <3> QED OBVIOUS
  <2> HIDE DEF t, Next1
  <2> QED BY <2>1
<1>2. ASSUME NEW i \in 1..n, i - 1 \in S
      PROVE  i \in S
  <2> HIDE DEF Next1
  <2>1. PICK t : t = [j \in 0..(i - 1) |-> IF j = 0 THEN start ELSE Next1(t[j - 1], j)]
    BY <1>2
  <2> DEFINE u == [j \in 0..i |-> IF j = i THEN Next1(t[i - 1], i) ELSE t[j]]
  <2>2. u = [j \in 0..i |-> IF j = 0 THEN start ELSE Next1(u[j - 1], j)]
    <3> SUFFICES ASSUME NEW j \in 0..i
                 PROVE  u[j] = IF j = 0 THEN start ELSE Next1(u[j - 1], j)
      OBVIOUS
    <3>1. CASE j = 0
      BY <3>1, <2>1
    <3>2. CASE j # 0 /\ j # i
      <4>1. j \in 0..(i - 1) /\ j - 1 \in 0..i /\ j - 1 # i
        BY <3>2
      <4> QED BY <3>2, <4>1, <2>1
    <3>3. CASE j # 0 /\ j = i
      <4>1. u[j - 1] = t[i - 1] /\ u[j] = Next1(t[i - 1], i)
        BY <3>3
      <4> QED BY <3>3, <4>1
    <3> QED BY <3>1, <3>2, <3>3
  <2>3. Has(i)
    <3> HIDE DEF u
    <3> QED BY <2>2
  <2> QED BY <2>3
<1>3. Has(n)
  <2>1. n \in S
    <3> HIDE DEF S
    <3> QED BY <1>1, <1>2, Climb
  <2> QED BY <2>1
<1> QED BY <1>3, Zenon DEF Walks

LEMMA DeliverableIs ==
  ASSUME NEW m, NEW q, globalSeq[m] \in DOMAIN q, Max(DOMAIN q) \in Nat
  PROVE  \E w : /\ Walks(w, m, q, [g |-> globalSeq[m], lines |-> <<>>, ask |-> 0], Max(DOMAIN q))
                /\ Deliverable(m, q) = w[Max(DOMAIN q)]
<1> DEFINE start == [g |-> globalSeq[m], lines |-> <<>>, ask |-> 0]
           w == CHOOSE x : Walks(x, m, q, start, Max(DOMAIN q))
<1>1. Walks(w, m, q, start, Max(DOMAIN q))
  <2> HIDE DEF start
  <2>1. \E x : Walks(x, m, q, start, Max(DOMAIN q))
    BY WalksExist
  <2> QED BY <2>1, Zenon
<1>2. Deliverable(m, q) = w[Max(DOMAIN q)]
  BY Zenon DEF Deliverable, Walks
<1> HIDE DEF w
<1> QED BY <1>1, <1>2

-----------------------------------------------------------------------------
\* Types

Number == Nat \ {0}
Line == Member \X Nat
Request == [globalSeq : Nat, tries : Nat, joins : Member \cup {NoOne}]
Queue == [last : Nat, msgs : Map(Nat, Member \cup {NoOne})]
Log == Seq([g : Number, from : Member, l : Nat])
Shown == Seq(Number \X Line)

PacketOK(p) ==
  /\ p.to \in Member
  /\ p.tag = "S0_" => p.from \in Member /\ p.l \in Number /\ p.joins \in Member \cup {NoOne}
  /\ p.tag = "S0A" => p.g \in Nat /\ p.l \in Nat
  /\ p.tag \in {"C0_", "S3A"} => p.g \in Number /\ p.line \in Line
  /\ p.tag \in {"S3_", "S4_", "S4A", "N0_"} => p.from \in Member
  /\ p.tag \in {"S3_", "S3N", "N0A"} => p.g \in Nat
  /\ p.tag \in {"S4_", "S4A"} => p.l \in Number
  /\ p.tag = "N0A" => /\ p.leader \in Member /\ p.list \in SUBSET Member
                      /\ p.seqs \in [Member -> Nat]

ViewOK ==
  /\ up \in [Member -> {"out", "joining", "in", "gone"}]
  /\ leader \in [Member -> Member]
  /\ participants \in [Member -> SUBSET Member]
  /\ seqNumber \in [Member -> [Member -> Nat]]

RequestOK ==
  /\ localSeq \in [Member -> Nat] /\ chatMsg \in [Member -> Nat]
  /\ typed \in [Member -> Nat] /\ forgotten \in [Member -> SUBSET Nat]
  /\ seqBuffer \in [Member -> Map(Nat, Request)]

SequencerOK ==
  /\ generatedGlobalSeq \in [Member -> Nat]
  /\ hold_back_queue \in [Member -> Map(Member, Queue)]
  /\ txBuffer \in [Member -> Map(Number, Line)]
  /\ sequenced \in Log

DisplayOK ==
  /\ globalSeq \in [Member -> Nat] /\ notificationGlobalSeq \in [Member -> Nat]
  /\ holdBackQ \in [Member -> Map(Number, Line)]
  /\ globalSeqLost \in [Member -> Map(Nat, Nat)]
  /\ shown \in [Member -> Shown] /\ givenUp \in [Member -> SUBSET Nat]

FaultOK ==
  /\ losses \in Nat /\ duplicates \in Nat /\ resends \in Nat
  /\ budget \in Budgets

NetOK == \A p \in net : PacketOK(p)

TypeOK == ViewOK /\ RequestOK /\ SequencerOK /\ DisplayOK /\ FaultOK /\ NetOK

\* What one call of the network thread has done so far.
WorkOK(s) ==
  /\ s = [generated |-> s.generated, ps |-> s.ps, notification |-> s.notification,
          tx |-> s.tx, log |-> s.log, out |-> s.out, addr |-> s.addr]
  /\ s.generated \in Nat /\ s.notification \in Nat /\ s.ps \in SUBSET Member
  /\ s.tx \in Map(Number, Line) /\ s.log \in Log /\ s.addr \in Member
  /\ \A p \in s.out : PacketOK(p)

LEMMA MemberFacts ==
  /\ Member \subseteq Number /\ Number \subseteq Nat /\ Founder \in Member
  /\ Initial \subseteq Member /\ IsFiniteSet(Member) /\ Joins \in Nat
<1>1. IsFiniteSet(Initial) /\ Founder \in Initial
  BY MembersAssumption, FS_Subset
<1>2. Cardinality(Initial) \in Nat /\ Cardinality(Initial) # 0
  BY <1>1, FS_CardinalityType, FS_EmptySet
<1>3. Joins \in Nat
  BY <1>2 DEF Joins
<1> QED BY <1>3, MembersAssumption DEF Number

LEMMA MapUse ==
  ASSUME NEW K, NEW V, NEW f \in Map(K, V)
  PROVE  /\ DOMAIN f \subseteq K /\ IsFiniteSet(DOMAIN f)
         /\ \A k \in DOMAIN f : k \in K /\ f[k] \in V
<1>1. f \in [DOMAIN f -> V] /\ DOMAIN f \subseteq K /\ IsFiniteSet(DOMAIN f)
  BY MapDef
<1> QED BY <1>1

\* The participant list is announced with the next number, to all others.
LEMMA AnnounceOK ==
  ASSUME ViewOK, NEW m \in Member, NEW ld \in Member, NEW s, WorkOK(s), NEW t,
         t = Announce(m, ld, s)
  PROVE  /\ WorkOK(t)
         /\ t.generated = s.generated + 1 /\ t.notification = s.generated + 1
         /\ t.log = s.log /\ t.tx = s.tx /\ t.ps = s.ps
         /\ t.addr = s.addr \/ t.addr # m
         /\ s.out \subseteq t.out
         /\ \A p \in t.out \ s.out : /\ p.tag = "N0A" /\ p.leader = ld /\ p.to # m
                                     /\ p.g = t.notification
<1> DEFINE g == s.generated + 1
           others == s.ps \ {m}
           new == {N0A(ld, p, g, s.ps, seqNumber[m]) : p \in others}
           addr == IF others = {} THEN s.addr ELSE Max(others)
<1>1. t = [generated |-> g, ps |-> s.ps, notification |-> g, tx |-> s.tx,
           log |-> s.log, out |-> s.out \cup new, addr |-> addr]
  BY Zenon DEF WorkOK, Announce
<1>2. addr \in Member /\ (addr = s.addr \/ addr # m)
  <2>1. CASE others = {}
    BY <2>1 DEF WorkOK
  <2>2. CASE others # {}
    <3>1. others \subseteq Member /\ others \subseteq Nat /\ IsFiniteSet(others)
      BY MemberFacts, FS_Subset DEF WorkOK
    <3>2. Max(others) \in others
      BY <2>2, <3>1, LargestOf
    <3> QED BY <2>2, <3>1, <3>2
  <2> QED BY <2>1, <2>2
<1>3. ASSUME NEW p \in new
      PROVE  PacketOK(p) /\ p.tag = "N0A" /\ p.leader = ld /\ p.to # m /\ p.g = g
  BY DEF N0A, PacketOK, ViewOK, WorkOK
<1> HIDE DEF new, addr
<1>4. /\ t.generated = g /\ t.ps = s.ps /\ t.notification = g /\ t.tx = s.tx
      /\ t.log = s.log /\ t.out = s.out \cup new /\ t.addr = addr
  BY <1>1
<1>5. WorkOK(t)
  BY <1>1, <1>2, <1>3, <1>4 DEF WorkOK
<1> QED BY <1>2, <1>3, <1>4, <1>5

-----------------------------------------------------------------------------
\* The sequencer at work

\* The numbers of a log, with the line each was given to.
Numbered(log) == {<<log[k].g, <<log[k].from, log[k].l>>>> : k \in DOMAIN log}

LEMMA LogFacts ==
  ASSUME NEW log \in Log
  PROVE  /\ Len(log) \in Nat /\ DOMAIN log = 1..Len(log)
         /\ \A k \in 1..Len(log) : log[k].g \in Number /\ log[k].g \in Nat
                                   /\ log[k].from \in Member /\ log[k].l \in Nat
<1>1. Len(log) \in Nat /\ DOMAIN log = 1..Len(log)
  BY DEF Log
<1>2. ASSUME NEW k \in 1..Len(log)
      PROVE  log[k] \in [g : Number, from : Member, l : Nat]
  <2> DEFINE E == [g : Number, from : Member, l : Nat]
  <2>1. log \in Seq(E)
    BY DEF Log
  <2> HIDE DEF E
  <2>2. log[k] \in E
    BY <2>1
  <2> QED BY <2>2 DEF E
<1> QED BY <1>1, <1>2 DEF Number

LEMMA LogAppend ==
  ASSUME NEW log \in Log, NEW e \in [g : Number, from : Member, l : Nat]
  PROVE  /\ Append(log, e) \in Log /\ Len(Append(log, e)) = Len(log) + 1
         /\ Append(log, e)[Len(log) + 1] = e
         /\ \A k \in 1..Len(log) : Append(log, e)[k] = log[k]
<1> DEFINE E == [g : Number, from : Member, l : Nat]
<1>1. log \in Seq(E) /\ e \in E
  BY DEF Log
<1> HIDE DEF E
<1>2. /\ Append(log, e) \in Seq(E) /\ Len(Append(log, e)) = Len(log) + 1
      /\ Append(log, e)[Len(log) + 1] = e
      /\ \A k \in 1..Len(log) : Append(log, e)[k] = log[k]
  BY <1>1
<1> QED BY <1>2 DEF E, Log

\* One request of from, its l-th, is sent on under the next number: s becomes t.
OneSent(m, s, t, from, l) ==
  /\ WorkOK(t) /\ t.generated > s.generated
  /\ t.log = Append(s.log, [g |-> s.generated + 1, from |-> from, l |-> l])
  /\ \/ t.notification = s.notification
     \/ s.generated < t.notification /\ t.notification <= t.generated
  /\ \A k \in DOMAIN t.tx : \/ k \in DOMAIN s.tx /\ t.tx[k] = s.tx[k]
                            \/ k = s.generated + 1 /\ t.tx[k] = <<from, l>>
  /\ \A q \in t.out \ s.out :
       \/ q = S0A(s.addr, s.generated + 1, l)
       \/ \E x \in Member : q = C0_(x, s.generated + 1, <<from, l>>)
       \/ q.tag = "N0A" /\ q.leader = leader[m] /\ q.to # m
  /\ t.addr = from \/ t.addr = s.addr \/ t.addr # m

LEMMA SendOK ==
  ASSUME ViewOK, NEW m \in Member, NEW s, WorkOK(s), NEW from \in Member, NEW l \in Nat,
         NEW joins \in Member \cup {NoOne}, NEW t, t = SendSequenced(m, s, from, l, joins)
  PROVE  OneSent(m, s, t, from, l)
<1> DEFINE g == s.generated + 1
           log == Append(s.log, [g |-> g, from |-> from, l |-> l])
           answer == S0A(s.addr, g, l)
<1>1. log \in Log /\ g \in Number /\ g \in Nat
  BY DEF WorkOK, Log, Number
<1>2. PacketOK(answer)
  BY <1>1 DEF WorkOK, PacketOK, S0A
<1>3. CASE joins = NoOne
  <2> DEFINE new == {C0_(p, g, <<from, l>>) : p \in s.ps}
             tx == Insert(s.tx, g, <<from, l>>)
             out == s.out \cup {answer} \cup new
  <2>1. t = [generated |-> g, ps |-> s.ps, notification |-> s.notification, tx |-> tx,
             log |-> log, out |-> out, addr |-> from]
    BY <1>3, Zenon DEF WorkOK, SendSequenced, ChatLine
  <2>2. ASSUME NEW p \in new
        PROVE  PacketOK(p) /\ \E x \in Member : p = C0_(x, g, <<from, l>>)
    BY <1>1 DEF C0_, PacketOK, WorkOK, Line
  <2>3. <<from, l>> \in Line
    BY DEF Line
  <2>4. /\ tx \in Map(Number, Line)
        /\ \A k \in DOMAIN tx : \/ k \in DOMAIN s.tx /\ tx[k] = s.tx[k]
                                \/ k = g /\ tx[k] = <<from, l>>
    <3>1. s.tx \in Map(Number, Line)
      BY DEF WorkOK
    <3>2. /\ tx \in Map(Number, Line) /\ DOMAIN tx = DOMAIN s.tx \cup {g}
          /\ \A x \in DOMAIN s.tx : tx[x] = s.tx[x]
          /\ g \notin DOMAIN s.tx => tx[g] = <<from, l>>
      <4> DEFINE line == <<from, l>>
      <4>1. line \in Line /\ g \in Number /\ tx = Insert(s.tx, g, line)
        BY <1>1, <2>3
      <4> HIDE DEF line, g, tx
      <4>2. /\ tx \in Map(Number, Line) /\ DOMAIN tx = DOMAIN s.tx \cup {g}
            /\ \A x \in DOMAIN s.tx : tx[x] = s.tx[x]
            /\ g \notin DOMAIN s.tx => tx[g] = line
          <5>1. tx \in Map(Number, Line)
            BY <3>1, <4>1, InsertMap
          <5>2. /\ DOMAIN tx = DOMAIN s.tx \cup {g}
                /\ \A x \in DOMAIN s.tx : tx[x] = s.tx[x]
                /\ g \notin DOMAIN s.tx => tx[g] = line
            BY <4>1, <1>1 DEF Insert
          <5> QED BY <5>1, <5>2
      <4> QED BY <4>2 DEF line
    <3> HIDE DEF tx
    <3> QED BY <3>2
  <2>5. \A p \in out : p \in s.out \/ p = answer \/ p \in new
    OBVIOUS
  <2> HIDE DEF new, tx, out
  <2>6. /\ t.generated = g /\ t.ps = s.ps /\ t.notification = s.notification /\ t.tx = tx
        /\ t.log = log /\ t.out = out /\ t.addr = from
    BY <2>1
  <2>7. \A p \in out : PacketOK(p)
    BY <1>2, <2>2, <2>5 DEF WorkOK
  <2>8. WorkOK(t)
    BY <1>1, <2>1, <2>4, <2>6, <2>7 DEF WorkOK
  <2>9. t.generated > s.generated
    BY <2>6 DEF WorkOK
  <2> QED BY <2>2, <2>4, <2>5, <2>6, <2>8, <2>9 DEF OneSent
<1>4. CASE joins # NoOne
  <2>0. PICK s1 : s1 = [s EXCEPT !.generated = g, !.log = log, !.ps = @ \cup {joins},
                                !.out = @ \cup {answer}]
    OBVIOUS
  <2>1. t = Announce(m, leader[m], s1)
    BY <1>4, <2>0, Zenon DEF SendSequenced, Join
  <2>2. s1 = [generated |-> g, ps |-> s.ps \cup {joins}, notification |-> s.notification,
              tx |-> s.tx, log |-> log, out |-> s.out \cup {answer}, addr |-> s.addr]
    <3> HIDE DEF log, answer, g
    <3>1. s = [generated |-> s.generated, ps |-> s.ps, notification |-> s.notification,
               tx |-> s.tx, log |-> s.log, out |-> s.out, addr |-> s.addr]
      BY DEF WorkOK
    <3> QED BY <2>0, <3>1, Zenon
  <2> HIDE DEF log
  <2>3. /\ s1.generated = g /\ s1.ps = s.ps \cup {joins} /\ s1.tx = s.tx /\ s1.log = log
        /\ s1.notification = s.notification /\ s1.out = s.out \cup {answer}
        /\ s1.addr = s.addr
    BY <2>2
  <2>4. WorkOK(s1)
    BY <1>1, <1>2, <1>4, <2>2, <2>3 DEF WorkOK
  <2>5. leader[m] \in Member
    BY DEF ViewOK
  <2>6. /\ WorkOK(t)
        /\ t.generated = s1.generated + 1 /\ t.notification = s1.generated + 1
        /\ t.log = s1.log /\ t.tx = s1.tx
        /\ t.addr = s1.addr \/ t.addr # m
        /\ \A p \in t.out \ s1.out : p.tag = "N0A" /\ p.leader = leader[m] /\ p.to # m
    BY <2>1, <2>4, <2>5, AnnounceOK
  <2>7. t.generated > s.generated /\ s.generated < t.notification /\ t.notification <= t.generated
    BY <2>3, <2>6 DEF WorkOK
  <2>8. \A q \in t.out \ s.out : q = answer \/ q \in t.out \ s1.out
    BY <2>3
  <2>9. t.log = log /\ t.tx = s.tx /\ (t.addr = s.addr \/ t.addr # m)
    BY <2>3, <2>6
  <2> QED BY <2>6, <2>7, <2>8, <2>9 DEF log, OneSent
<1> QED BY <1>3, <1>4

\* What n requests of one sender, from number a of it on, make of s.
Numbers(m, s, t, from, a, n) ==
  /\ WorkOK(t) /\ t.generated >= s.generated
  /\ Len(t.log) = Len(s.log) + n
  /\ \A k \in 1..Len(s.log) : t.log[k] = s.log[k]
  /\ \A k \in Len(s.log) + 1 .. Len(t.log) :
       /\ t.log[k].from = from /\ t.log[k].l = a + (k - Len(s.log))
       /\ s.generated < t.log[k].g /\ t.log[k].g <= t.generated
       /\ \A j \in Len(s.log) + 1 .. k - 1 : t.log[j].g < t.log[k].g
  /\ (\/ t.notification = s.notification
      \/ s.generated < t.notification /\ t.notification <= t.generated)
  /\ \A k \in DOMAIN t.tx : \/ k \in DOMAIN s.tx /\ t.tx[k] = s.tx[k]
                            \/ <<k, t.tx[k]>> \in Numbered(t.log)
  /\ \A q \in t.out \ s.out :
       \/ q.tag = "S0A" /\ (q.to = m => from = m /\ q.l \in a + 1 .. a + n)
       \/ q.tag = "C0_" /\ <<q.g, q.line>> \in Numbered(t.log)
       \/ q.tag = "N0A" /\ q.leader = leader[m] /\ q.to # m
  /\ t.addr = from \/ t.addr # m

LEMMA NumbersNone ==
  ASSUME NEW m, NEW s, WorkOK(s), NEW from, s.addr = from \/ s.addr # m, NEW a
  PROVE  Numbers(m, s, s, from, a, 0)
<1>1. Len(s.log) \in Nat /\ s.generated \in Nat
  BY DEF WorkOK, Log
<1> QED BY <1>1 DEF Numbers

LEMMA NumbersOneMore ==
  ASSUME ViewOK, NEW m \in Member, NEW s, WorkOK(s), NEW from \in Member, NEW a \in Nat,
         NEW n \in Nat, NEW t, Numbers(m, s, t, from, a, n),
         NEW joins \in Member \cup {NoOne}, NEW u,
         u = SendSequenced(m, t, from, a + (n + 1), joins)
  PROVE  Numbers(m, s, u, from, a, n + 1)
<1>0. PICK l \in Nat : l = a + (n + 1)
  OBVIOUS
<1> DEFINE g == t.generated + 1
           entry == [g |-> g, from |-> from, l |-> l]
<1>1. WorkOK(t) /\ l \in Nat
  BY DEF Numbers
<1>2. /\ WorkOK(u) /\ u.generated > t.generated
      /\ u.log = Append(t.log, entry)
      /\ \/ u.notification = t.notification
         \/ t.generated < u.notification /\ u.notification <= u.generated
      /\ \A k \in DOMAIN u.tx : \/ k \in DOMAIN t.tx /\ u.tx[k] = t.tx[k]
                                \/ k = g /\ u.tx[k] = <<from, l>>
      /\ \A q \in u.out \ t.out : \/ q = S0A(t.addr, g, l)
                                  \/ \E x \in Member : q = C0_(x, g, <<from, l>>)
                                  \/ q.tag = "N0A" /\ q.leader = leader[m] /\ q.to # m
      /\ u.addr = from \/ u.addr = t.addr \/ u.addr # m
  <2>1. u = SendSequenced(m, t, from, l, joins)
    BY <1>0
  <2>2. OneSent(m, t, u, from, l)
    BY <1>1, <2>1, SendOK
  <2> QED BY <2>2 DEF OneSent
<1> DEFINE ls == Len(s.log)  lt == Len(t.log)  lu == Len(u.log)
<1>3. /\ s.generated \in Nat /\ t.generated \in Nat /\ u.generated \in Nat
      /\ u.notification \in Nat /\ t.notification \in Nat
      /\ ls \in Nat /\ lt \in Nat /\ lu \in Nat
  BY <1>1, <1>2, LogFacts DEF WorkOK
<1>4. /\ lt = ls + n /\ t.generated >= s.generated
      /\ \A k \in 1..ls : t.log[k] = s.log[k]
      /\ \A k \in ls + 1 .. lt :
           /\ t.log[k].from = from /\ t.log[k].l = a + (k - ls)
           /\ s.generated < t.log[k].g /\ t.log[k].g <= t.generated
           /\ \A j \in ls + 1 .. k - 1 : t.log[j].g < t.log[k].g
  BY DEF Numbers
<1>5. /\ lu = lt + 1 /\ u.log[lt + 1] = entry
      /\ \A k \in 1..lt : u.log[k] = t.log[k]
  <2>1. t.log \in Log /\ entry \in [g : Number, from : Member, l : Nat]
    BY <1>1, <1>3 DEF WorkOK, Number
  <2> HIDE DEF entry
  <2> QED BY <1>2, <2>1, LogAppend
<1>6. entry.g = g /\ entry.from = from /\ entry.l = l
  OBVIOUS
<1> HIDE DEF entry
<1>7. Numbered(u.log) = Numbered(t.log) \cup {<<g, <<from, l>>>>}
  <2>1. DOMAIN u.log = 1..lu /\ DOMAIN t.log = 1..lt
    BY <1>1, <1>2, LogFacts DEF WorkOK
  <2> HIDE DEF lu, lt
  <2>2. \A k \in DOMAIN u.log : k \in DOMAIN t.log \/ k = lt + 1
    BY <1>3, <1>5, <2>1
  <2>3. lt + 1 \in DOMAIN u.log /\ \A k \in DOMAIN t.log : k \in DOMAIN u.log
    BY <1>3, <1>5, <2>1
  <2> QED BY <1>5, <1>6, <2>1, <2>2, <2>3 DEF Numbered
<1>16. \A k \in 1..lt : t.log[k].g \in Nat
  BY <1>1, LogFacts DEF WorkOK
<1>17. t.generated < u.generated
  BY <1>2, <1>3
<1> HIDE DEF ls, lt, lu
<1>8. lu = ls + (n + 1)
  BY <1>3, <1>4, <1>5
<1>9. \A k \in 1..ls : u.log[k] = s.log[k]
  <2> TAKE k \in 1..ls
  <2>1. k \in 1..lt
    BY <1>3, <1>4
  <2> QED BY <1>4, <1>5, <2>1
<1>10. \A k \in ls + 1 .. lu :
         /\ u.log[k].from = from /\ u.log[k].l = a + (k - ls)
         /\ s.generated < u.log[k].g /\ u.log[k].g <= u.generated
         /\ \A j \in ls + 1 .. k - 1 : u.log[j].g < u.log[k].g
  <2> TAKE k \in ls + 1 .. lu
  <2>1. CASE k = lt + 1
    <3>1. u.log[k] = entry /\ l = a + (k - ls)
      BY <1>0, <1>3, <1>4, <1>5, <2>1
    <3>2. s.generated < g /\ g <= u.generated
      BY <1>2, <1>3, <1>4
    <3>3. ASSUME NEW j \in ls + 1 .. k - 1
          PROVE  u.log[j].g < g
      <4>1. j \in ls + 1 .. lt /\ j \in 1..lt
        BY <1>3, <2>1
      <4>2. t.log[j].g <= t.generated /\ u.log[j] = t.log[j]
        BY <1>4, <1>5, <4>1
      <4>3. t.log[j].g \in Nat
        BY <1>16, <4>1
      <4> QED BY <1>3, <4>2, <4>3
    <3> QED BY <1>6, <3>1, <3>2, <3>3
  <2>2. CASE k # lt + 1
    <3>1. k \in ls + 1 .. lt /\ k \in 1..lt
      BY <1>3, <1>4, <1>5, <2>2
    <3>2. u.log[k] = t.log[k] /\ \A j \in ls + 1 .. k - 1 : u.log[j] = t.log[j]
      <4>1. \A j \in ls + 1 .. k - 1 : j \in 1..lt
        BY <1>3, <3>1
      <4> QED BY <1>5, <3>1, <4>1
    <3>3. /\ t.log[k].from = from /\ t.log[k].l = a + (k - ls)
          /\ s.generated < t.log[k].g /\ t.log[k].g <= t.generated
          /\ \A j \in ls + 1 .. k - 1 : t.log[j].g < t.log[k].g
      BY <1>4, <3>1
    <3>4. t.log[k].g \in Nat
      BY <1>16, <3>1
    <3>5. t.log[k].g <= u.generated
      BY <1>3, <1>17, <3>3, <3>4
    <3> QED BY <3>2, <3>3, <3>5
  <2> QED BY <2>1, <2>2
<1>11. \/ u.notification = s.notification
       \/ s.generated < u.notification /\ u.notification <= u.generated
  <2>1. \/ t.notification = s.notification
        \/ s.generated < t.notification /\ t.notification <= t.generated
    BY DEF Numbers
  <2> QED BY <1>2, <1>3, <1>4, <2>1
<1>12. \A k \in DOMAIN u.tx : \/ k \in DOMAIN s.tx /\ u.tx[k] = s.tx[k]
                              \/ <<k, u.tx[k]>> \in Numbered(u.log)
  BY <1>2, <1>7 DEF Numbers
<1>13. \A q \in u.out \ s.out :
         \/ q.tag = "S0A" /\ (q.to = m => from = m /\ q.l \in a + 1 .. a + (n + 1))
         \/ q.tag = "C0_" /\ <<q.g, q.line>> \in Numbered(u.log)
         \/ q.tag = "N0A" /\ q.leader = leader[m] /\ q.to # m
  <2> TAKE q \in u.out \ s.out
  <2>1. CASE q \in t.out
    <3>1. \A x \in a + 1 .. a + n : x \in a + 1 .. a + (n + 1)
      OBVIOUS
    <3>2. \/ q.tag = "S0A" /\ (q.to = m => from = m /\ q.l \in a + 1 .. a + n)
          \/ q.tag = "C0_" /\ <<q.g, q.line>> \in Numbered(t.log)
          \/ q.tag = "N0A" /\ q.leader = leader[m] /\ q.to # m
      BY <2>1 DEF Numbers
    <3> QED BY <1>7, <3>1, <3>2
  <2>2. CASE q = S0A(t.addr, g, l)
    <3>1. q.tag = "S0A" /\ q.to = t.addr /\ q.l = l
      BY <2>2 DEF S0A
    <3>2. l \in a + 1 .. a + (n + 1)
      BY <1>0
    <3>3. t.addr = from \/ t.addr # m
      BY DEF Numbers
    <3> QED BY <3>1, <3>2, <3>3
  <2>3. CASE \E x \in Member : q = C0_(x, g, <<from, l>>)
    BY <1>7, <2>3 DEF C0_
  <2> QED BY <1>2, <2>1, <2>2, <2>3
<1>14. u.addr = from \/ u.addr # m
  BY <1>2 DEF Numbers
<1>15. u.generated >= s.generated
  BY <1>2, <1>3, <1>4
<1> QED BY <1>2, <1>8, <1>9, <1>10, <1>11, <1>12, <1>13, <1>14, <1>15 DEF Numbers, ls, lu

LEMMA SendHeldOK ==
  ASSUME ViewOK, NEW m \in Member, NEW s, WorkOK(s), NEW from \in Member,
         s.addr = from \/ s.addr # m, NEW q \in Queue, NEW n \in Nat,
         \A i \in 1..n : q.last + i \in DOMAIN q.msgs,
         NEW t, t = SendHeld(m, s, from, q, n)
  PROVE  Numbers(m, s, t, from, q.last, n)
<1>1. PICK w : Sends(w, m, s, from, q, n) /\ t = w[n]
  BY SendHeldIs
<1>2. q.last \in Nat /\ q.msgs \in Map(Nat, Member \cup {NoOne})
  BY DEF Queue
<1> DEFINE S == {i \in 0..n : Numbers(m, s, w[i], from, q.last, i)}
<1>3. 0 \in S
  <2>1. w[0] = s
    BY <1>1 DEF Sends
  <2> QED BY <2>1, NumbersNone
<1>4. ASSUME NEW i \in 1..n, i - 1 \in S
      PROVE  i \in S
  <2>1. PICK j \in Nat : j = i - 1 /\ j + 1 = i
    OBVIOUS
  <2>2. w[i] = SendSequenced(m, w[i - 1], from, q.last + i, q.msgs[q.last + i])
    BY <1>1 DEF Sends
  <2>3. w[i] = SendSequenced(m, w[j], from, q.last + (j + 1), q.msgs[q.last + i])
    BY <2>1, <2>2
  <2>4. q.msgs[q.last + i] \in Member \cup {NoOne}
    BY <1>2, MapUse
  <2>5. Numbers(m, s, w[j], from, q.last, j)
    BY <1>4, <2>1
  <2>6. Numbers(m, s, w[i], from, q.last, j + 1)
    BY <1>2, <2>3, <2>4, <2>5, NumbersOneMore
  <2> QED BY <2>1, <2>6
<1>5. n \in S
  <2> HIDE DEF S
  <2> QED BY <1>3, <1>4, Climb
<1> QED BY <1>1, <1>5

\* The number in a queue is replaced.
SetLast(f, c, v) == [f EXCEPT ![c].last = v]

LEMMA LastSet ==
  ASSUME NEW f \in Map(Member, Queue), NEW c \in DOMAIN f, NEW v \in Nat, NEW g,
         g = SetLast(f, c, v)
  PROVE  /\ g \in Map(Member, Queue) /\ DOMAIN g = DOMAIN f
         /\ g[c] = [last |-> v, msgs |-> f[c].msgs]
         /\ \A d \in DOMAIN f \ {c} : g[d] = f[d]
<1>1. f \in [DOMAIN f -> Queue] /\ DOMAIN f \subseteq Member /\ IsFiniteSet(DOMAIN f)
  BY MapDef
<1>0. g = [f EXCEPT ![c].last = v]
  BY DEF SetLast
<1>2. f[c] \in Queue /\ f[c] = [last |-> f[c].last, msgs |-> f[c].msgs]
  BY <1>1 DEF Queue
<1>3. DOMAIN g = DOMAIN f /\ \A d \in DOMAIN f \ {c} : g[d] = f[d]
  BY <1>0, <1>1
<1>4. PICK r : r = [f[c] EXCEPT !.last = v]
  OBVIOUS
<1>5. g[c] = r
  BY <1>0, <1>1, <1>4
<1>6. r = [last |-> v, msgs |-> f[c].msgs]
  BY <1>2, <1>4, Zenon
<1>7. g[c] \in Queue
  BY <1>2, <1>5, <1>6 DEF Queue
<1>8. g = [d \in DOMAIN f |-> g[d]]
  BY <1>0, <1>1, <1>3
<1>9. \A d \in DOMAIN f : g[d] \in Queue
  BY <1>1, <1>3, <1>7
<1>10. g \in [DOMAIN f -> Queue]
  BY <1>8, <1>9
<1>11. g \in Map(Member, Queue)
  BY <1>1, <1>3, <1>10, MapDef
<1> QED BY <1>3, <1>5, <1>6, <1>11

\* A number that is asked for again is below that of a request held back.
LEMMA MissingIsBelow ==
  ASSUME NEW q \in Queue, NEW l \in Missing(q)
  PROVE  l \in Number /\ \E k \in DOMAIN q.msgs : l <= k
<1> DEFINE D == DOMAIN q.msgs
           below(k) == {x \in D : x <= q.last + k}
<1>1. D \subseteq Nat /\ IsFiniteSet(D) /\ q.last \in Nat
  <2>1. q.msgs \in Map(Nat, Member \cup {NoOne}) /\ q.last \in Nat
    BY DEF Queue
  <2> QED BY <2>1, MapUse
<1>2. PICK i \in 1..Cardinality(D) : l = q.last + i /\ Cardinality(below(i)) < i
  BY DEF Missing
<1>3. Cardinality(D) \in Nat
  BY <1>1, FS_CardinalityType
<1>4. below(i) # D
  BY <1>2, <1>3
<1>5. PICK k \in D : ~(k <= q.last + i)
  BY <1>4
<1> QED BY <1>1, <1>2, <1>3, <1>5 DEF Number

\* The requests that are due follow the last one, without a gap.
LEMMA DueIsHeld ==
  ASSUME NEW q \in Queue, NEW n \in (IF Max(Due(q)) = 0 THEN {0} ELSE 1..Max(Due(q)))
  PROVE  n \in Nat /\ \A i \in 1..n : q.last + i \in DOMAIN q.msgs
<1>1. Due(q) \subseteq Nat /\ IsFiniteSet(Due(q)) /\ 0 \in Due(q)
  <2>1. IsFiniteSet(DOMAIN q.msgs)
    BY MapUse DEF Queue
  <2>2. Cardinality(DOMAIN q.msgs) \in Nat
    BY <2>1, FS_CardinalityType
  <2>3. Due(q) \subseteq 0..Cardinality(DOMAIN q.msgs) /\ 0 \in Due(q)
    BY <2>2 DEF Due
  <2>4. IsFiniteSet(0..Cardinality(DOMAIN q.msgs))
    BY <2>2, FS_Interval
  <2> QED BY <2>2, <2>3, <2>4, FS_Subset
<1>2. Max(Due(q)) \in Due(q)
  BY <1>1, LargestOf
<1>3. Max(Due(q)) \in Nat /\ \A i \in 1..Max(Due(q)) : q.last + i \in DOMAIN q.msgs
  BY <1>2 DEF Due
<1> QED BY <1>3

\* What a call of the network thread for an S0_ packet p has done: the answers
\* and questions in asked, and the n requests of p.from that follow its a-th.
Asking(m, from, asked) ==
  [generated |-> generatedGlobalSeq[m], ps |-> participants[m],
   notification |-> notificationGlobalSeq[m], tx |-> txBuffer[m],
   log |-> sequenced, out |-> asked, addr |-> from]

Waiting(p) ==
  {p.l} \cup (IF p.from \in DOMAIN hold_back_queue[p.to]
              THEN DOMAIN hold_back_queue[p.to][p.from].msgs ELSE {})

Asked(p, x) ==
  /\ x.to = p.from
  /\ \/ x.tag = "S4_" /\ x.from = p.to /\ x.l \in Number /\ (\E k \in Waiting(p) : x.l <= k)
     \/ /\ x.tag = "S0A" /\ x.g = 1 /\ x.l = p.l
        /\ p.from \in DOMAIN hold_back_queue[p.to]
        /\ p.l <= hold_back_queue[p.to][p.from].last

Moved(p, q, last, msgs) ==
  /\ q \in Map(Member, Queue)
  /\ DOMAIN q = DOMAIN hold_back_queue[p.to] \cup {p.from}
  /\ q[p.from] = [last |-> last, msgs |-> msgs]
  /\ \A c \in DOMAIN hold_back_queue[p.to] \ {p.from} : q[c] = hold_back_queue[p.to][c]

Handled(p, t, q, a, n, asked, msgs) ==
  /\ a \in Nat /\ n \in Nat
  /\ Numbers(p.to, Asking(p.to, p.from, asked), t, p.from, a, n)
  /\ \A x \in asked : Asked(p, x)
  /\ (p.from \in DOMAIN hold_back_queue[p.to] => a = hold_back_queue[p.to][p.from].last)
  /\ (p.from \notin DOMAIN hold_back_queue[p.to] => n = 1)
  /\ \A i \in 1..n : a + i \in Waiting(p)
  /\ DOMAIN msgs \subseteq Waiting(p)
  /\ Moved(p, q, a + n, msgs)

LEMMA AskingOK ==
  ASSUME TypeOK, NEW m \in Member, NEW from \in Member, NEW asked, \A x \in asked : PacketOK(x)
  PROVE  WorkOK(Asking(m, from, asked))
BY DEF TypeOK, ViewOK, SequencerOK, DisplayOK, WorkOK, Asking

LEMMA SendNumbers ==
  ASSUME TypeOK, NEW m \in Member, NEW s, WorkOK(s), NEW from \in Member, s.addr = from,
         NEW a \in Nat, NEW l \in Nat, l = a + 1, NEW joins \in Member \cup {NoOne},
         NEW t, t = SendSequenced(m, s, from, l, joins)
  PROVE  Numbers(m, s, t, from, a, 1)
<1>1. Numbers(m, s, s, from, a, 0)
  BY NumbersNone
<1>2. t = SendSequenced(m, s, from, a + (0 + 1), joins)
  <2>1. l = a + (0 + 1)
    OBVIOUS
  <2> QED BY <2>1, Zenon
<1>3. ViewOK
  BY DEF TypeOK
<1>4. 0 \in Nat /\ 0 + 1 = 1
  OBVIOUS
<1>5. Numbers(m, s, t, from, a, 0 + 1)
  BY <1>1, <1>2, <1>3, NumbersOneMore
<1> QED BY <1>4, <1>5

LEMMA ReceiveS0_Handled ==
  ASSUME TypeOK, NEW p, p \in net, ReceiveS0_(p)
  PROVE  \E t, q, a, n, asked, msgs : Handled(p, t, q, a, n, asked, msgs) /\ Apply(p.to, t, q, p)
<1> DEFINE hbq == hold_back_queue[p.to]
           m == p.to
           s == Before(m, p.from)
<1>1. /\ m \in Member /\ p.from \in Member /\ p.l \in Number /\ p.l \in Nat /\ p.l - 1 \in Nat
      /\ p.joins \in Member \cup {NoOne}
  <2>1. p.tag = "S0_" /\ PacketOK(p)
    BY DEF TypeOK, NetOK, ReceiveS0_
  <2>2. /\ m \in Member /\ p.from \in Member /\ p.l \in Number
        /\ p.joins \in Member \cup {NoOne}
    BY <2>1 DEF PacketOK
  <2> QED BY <2>2 DEF Number
<1>2. hbq \in Map(Member, Queue) /\ \A c \in DOMAIN hbq : c \in Member /\ hbq[c] \in Queue
  <2>1. hbq \in Map(Member, Queue)
    BY <1>1 DEF TypeOK, SequencerOK
  <2> HIDE DEF hbq
  <2> QED BY <2>1, MapUse
<1> HIDE DEF hbq
<1>3. \A c \in DOMAIN hbq : hbq[c].last \in Nat /\ hbq[c].msgs \in Map(Nat, Member \cup {NoOne})
  BY <1>2 DEF Queue
<1>13. \A c \in DOMAIN hbq : hbq[c] = [last |-> hbq[c].last, msgs |-> hbq[c].msgs]
  BY <1>2 DEF Queue
<1> USE DEF hbq
<1>4. s = Asking(m, p.from, {}) /\ WorkOK(s) /\ s.addr = p.from
  <2>1. s = Asking(m, p.from, {})
    BY DEF Before, Asking
  <2> HIDE DEF s
  <2> QED BY <1>1, <2>1, AskingOK DEF Asking
<1>5. ViewOK
  BY DEF TypeOK
<1>6. ASSUME p.from \notin DOMAIN hbq,
             Apply(m, SendSequenced(m, s, p.from, p.l, p.joins),
                   Insert(hbq, p.from, [last |-> p.l, msgs |-> Empty]), p)
      PROVE  \E t, q, a, n, asked, msgs : Handled(p, t, q, a, n, asked, msgs) /\ Apply(m, t, q, p)
  <2>1. PICK t, q, r : /\ t = SendSequenced(m, s, p.from, p.l, p.joins)
                       /\ r = [last |-> p.l, msgs |-> Empty] /\ q = Insert(hbq, p.from, r)
    OBVIOUS
  <2>2. PICK a \in Nat : a = p.l - 1 /\ p.l = a + 1
    BY <1>1
  <2> HIDE DEF s
  <2>3. Numbers(m, s, t, p.from, a, 1)
    BY <1>1, <1>4, <2>1, <2>2, SendNumbers
  <2>4. r \in Queue
    BY <1>1, <2>1, EmptyMap DEF Queue
  <2>5. q \in Map(Member, Queue)
    <3> HIDE DEF hbq
    <3> QED BY <1>1, <1>2, <2>1, <2>4, InsertMap
  <2>6. DOMAIN q = DOMAIN hbq \cup {p.from} /\ \A c \in DOMAIN hbq : q[c] = hbq[c]
    BY <2>1 DEF Insert
  <2>7. q[p.from] = r
    BY <1>6, <2>1 DEF Insert
  <2>8. Moved(p, q, a + 1, Empty)
    BY <2>1, <2>2, <2>5, <2>6, <2>7 DEF Moved
  <2>9. \A i \in 1..1 : a + i \in Waiting(p)
    BY <2>2 DEF Waiting
  <2>10. DOMAIN Empty \subseteq Waiting(p)
    BY EmptyMap
  <2>11. Handled(p, t, q, a, 1, {}, Empty)
    BY <1>4, <1>6, <2>3, <2>8, <2>9, <2>10 DEF Handled
  <2>12. Apply(m, t, q, p)
    BY <1>6, <2>1
  <2> QED BY <2>11, <2>12
<1>7. ASSUME p.from \in DOMAIN hbq, InOrder(hbq[p.from], p.l),
             Apply(m, SendSequenced(m, s, p.from, p.l, p.joins),
                   [hbq EXCEPT ![p.from].last = p.l], p)
      PROVE  \E t, q, a, n, asked, msgs : Handled(p, t, q, a, n, asked, msgs) /\ Apply(m, t, q, p)
  <2>1. PICK t, q : /\ t = SendSequenced(m, s, p.from, p.l, p.joins)
                    /\ q = [hbq EXCEPT ![p.from].last = p.l]
    OBVIOUS
  <2>2. PICK a \in Nat : a = hbq[p.from].last /\ p.l = a + 1
    BY <1>1, <1>3, <1>7 DEF InOrder
  <2> HIDE DEF s
  <2>3. Numbers(m, s, t, p.from, a, 1)
    BY <1>1, <1>4, <2>1, <2>2, SendNumbers
  <2>4. /\ q \in Map(Member, Queue) /\ DOMAIN q = DOMAIN hbq
        /\ q[p.from] = [last |-> p.l, msgs |-> hbq[p.from].msgs]
        /\ \A c \in DOMAIN hbq \ {p.from} : q[c] = hbq[c]
    <3>1. q = SetLast(hbq, p.from, p.l)
      BY <2>1 DEF SetLast
    <3> HIDE DEF hbq
    <3> QED BY <1>1, <1>2, <1>7, <3>1, LastSet
  <2>5. Moved(p, q, a + 1, hbq[p.from].msgs)
    BY <1>7, <2>2, <2>4 DEF Moved
  <2>6. \A i \in 1..1 : a + i \in Waiting(p)
    BY <2>2 DEF Waiting
  <2>7. DOMAIN hbq[p.from].msgs \subseteq Waiting(p)
    BY <1>7 DEF Waiting
  <2>8. Handled(p, t, q, a, 1, {}, hbq[p.from].msgs)
    BY <1>4, <1>7, <2>2, <2>3, <2>5, <2>6, <2>7 DEF Handled
  <2> QED BY <1>7, <2>1, <2>8
<1>8. ASSUME p.from \in DOMAIN hbq, hbq[p.from].last >= p.l,
             Apply(m, [s EXCEPT !.out = {S0A(p.from, 1, p.l)}], hbq, p)
      PROVE  \E t, q, a, n, asked, msgs : Handled(p, t, q, a, n, asked, msgs) /\ Apply(m, t, q, p)
  <2> DEFINE answer == S0A(p.from, 1, p.l)
  <2>1. PICK t : t = [s EXCEPT !.out = {answer}]
    OBVIOUS
  <2>2. t = Asking(m, p.from, {answer})
    BY <2>1, Zenon DEF Before, Asking
  <2>3. PacketOK(answer)
    BY <1>1 DEF PacketOK, S0A
  <2>4. WorkOK(t) /\ t.addr = p.from
    <3> HIDE DEF answer
    <3> QED BY <1>1, <2>2, <2>3, AskingOK DEF Asking
  <2>5. PICK a \in Nat : a = hbq[p.from].last /\ a + 0 = a
    <3> HIDE DEF hbq
    <3>1. hbq[p.from].last \in Nat
      BY <1>3, <1>8
    <3> QED BY <3>1
  <2>6. Numbers(m, t, t, p.from, a, 0)
    BY <2>4, NumbersNone
  <2>7. Asked(p, answer)
    BY <1>8 DEF Asked, S0A
  <2>8. Moved(p, hbq, a + 0, hbq[p.from].msgs)
    BY <1>2, <1>13, <1>8, <2>5 DEF Moved
  <2>9. DOMAIN hbq[p.from].msgs \subseteq Waiting(p)
    BY <1>8 DEF Waiting
  <2> HIDE DEF answer
  <2>10. Handled(p, t, hbq, a, 0, {answer}, hbq[p.from].msgs)
    BY <1>8, <2>2, <2>5, <2>6, <2>7, <2>8, <2>9 DEF Handled
  <2>11. Apply(m, t, hbq, p)
    BY <1>8, <2>1 DEF answer
  <2> QED BY <2>10, <2>11
<1>9. ASSUME p.from \in DOMAIN hbq,
             NEW held, held = [hbq[p.from] EXCEPT !.msgs = Insert(@, p.l, p.joins)],
             NEW asked, asked = {S4_(m, p.from, l) : l \in Missing(held)},
             NEW n \in (IF Max(Due(held)) = 0 THEN {0} ELSE 1..Max(Due(held))),
             NEW rest, rest = [last |-> held.last + n,
                               msgs |-> Restrict(held.msgs, DOMAIN held.msgs
                                          \ (held.last + 1 .. held.last + n))],
             Apply(m, SendHeld(m, [s EXCEPT !.out = asked], p.from, held, n),
                   [hbq EXCEPT ![p.from] = rest], p)
      PROVE  \E t, q, a, k, x, msgs : Handled(p, t, q, a, k, x, msgs) /\ Apply(m, t, q, p)
  <2>1. PICK ms : ms = Insert(hbq[p.from].msgs, p.l, p.joins)
    OBVIOUS
  <2>2. held = [last |-> hbq[p.from].last, msgs |-> ms]
    <3>1. hbq[p.from] = [last |-> hbq[p.from].last, msgs |-> hbq[p.from].msgs]
      BY <1>13, <1>9
    <3>2. PICK r : r = hbq[p.from]
      OBVIOUS
    <3>3. r = [last |-> r.last, msgs |-> r.msgs]
      BY <3>1, <3>2
    <3>4. held = [r EXCEPT !.msgs = Insert(@, p.l, p.joins)] /\ ms = Insert(r.msgs, p.l, p.joins)
      BY <1>9, <2>1, <3>2
    <3>5. held = [r EXCEPT !.msgs = ms]
      BY <3>3, <3>4, Zenon
    <3>6. held = [last |-> r.last, msgs |-> ms]
      BY <3>3, <3>5, Zenon
    <3> QED BY <3>2, <3>6
  <2>3. ms \in Map(Nat, Member \cup {NoOne}) /\ DOMAIN ms = DOMAIN hbq[p.from].msgs \cup {p.l}
    <3>1. ms \in Map(Nat, Member \cup {NoOne})
      BY <1>1, <1>3, <1>9, <2>1, InsertMap
    <3>2. DOMAIN ms = DOMAIN hbq[p.from].msgs \cup {p.l}
      BY <2>1, InsertDef
    <3> QED BY <3>1, <3>2
  <2>4. held \in Queue /\ held.last = hbq[p.from].last /\ held.msgs = ms /\ held.last \in Nat
    <3>1. hbq[p.from].last \in Nat
      <4> HIDE DEF hbq
      <4> QED BY <1>3, <1>9
    <3> QED BY <2>2, <2>3, <3>1 DEF Queue
  <2>5. n \in Nat /\ \A i \in 1..n : held.last + i \in DOMAIN held.msgs
    BY <1>9, <2>4, DueIsHeld
  <2>6. Waiting(p) = DOMAIN ms
    BY <1>9, <2>3 DEF Waiting
  <2>7. \A x \in asked : Asked(p, x) /\ PacketOK(x)
    <3> SUFFICES ASSUME NEW l \in Missing(held) PROVE Asked(p, S4_(m, p.from, l)) /\ PacketOK(S4_(m, p.from, l))
      BY <1>9
    <3>1. l \in Number /\ \E k \in DOMAIN ms : l <= k
      BY <2>4, MissingIsBelow
    <3> QED BY <1>1, <2>6, <3>1 DEF Asked, S4_, PacketOK
  <2>8. PICK w : w = [s EXCEPT !.out = asked]
    OBVIOUS
  <2>9. w = Asking(m, p.from, asked)
    BY <2>8, Zenon DEF Before, Asking
  <2>10. WorkOK(w) /\ w.addr = p.from
    BY <1>1, <2>7, <2>9, AskingOK DEF Asking
  <2>11. PICK t : t = SendHeld(m, w, p.from, held, n)
    OBVIOUS
  <2>12. Numbers(m, w, t, p.from, held.last, n)
    BY <1>1, <1>5, <2>4, <2>5, <2>10, <2>11, SendHeldOK
  <2>13. /\ rest.msgs \in Map(Nat, Member \cup {NoOne}) /\ DOMAIN rest.msgs \subseteq DOMAIN ms
         /\ rest = [last |-> held.last + n, msgs |-> rest.msgs]
    <3> DEFINE S == DOMAIN ms \ (held.last + 1 .. held.last + n)
    <3>1. rest = [last |-> held.last + n, msgs |-> Restrict(ms, S)]
      BY <1>9, <2>4
    <3>2. Restrict(ms, S) \in Map(Nat, Member \cup {NoOne}) /\ DOMAIN Restrict(ms, S) = S
      BY <2>3, RestrictMap
    <3> QED BY <3>1, <3>2
  <2>14. rest \in Queue
    BY <2>4, <2>5, <2>13 DEF Queue
  <2>15. PICK q : q = [hbq EXCEPT ![p.from] = rest]
    OBVIOUS
  <2>16. /\ q \in Map(Member, Queue) /\ DOMAIN q = DOMAIN hbq /\ q[p.from] = rest
         /\ \A c \in DOMAIN hbq \ {p.from} : q[c] = hbq[c]
    <3>1. hbq \in [DOMAIN hbq -> Queue] /\ DOMAIN hbq \subseteq Member /\ IsFiniteSet(DOMAIN hbq)
      BY <1>2, MapDef
    <3> HIDE DEF hbq
    <3>2. q \in [DOMAIN hbq -> Queue] /\ DOMAIN q = DOMAIN hbq
      BY <2>14, <2>15, <3>1
    <3>3. q \in Map(Member, Queue)
      BY <3>1, <3>2, MapDef
    <3> QED BY <1>9, <2>15, <3>2, <3>3
  <2>17. Moved(p, q, held.last + n, rest.msgs)
    BY <1>9, <2>13, <2>16 DEF Moved
  <2>18. Handled(p, t, q, held.last, n, asked, rest.msgs)
    BY <1>9, <2>4, <2>5, <2>6, <2>7, <2>9, <2>12, <2>13, <2>17 DEF Handled
  <2>19. Apply(m, t, q, p)
    BY <1>9, <2>8, <2>11, <2>15
  <2> QED BY <2>18, <2>19
<1>10. \/ /\ p.from \notin DOMAIN hbq
          /\ Apply(m, SendSequenced(m, s, p.from, p.l, p.joins),
                   Insert(hbq, p.from, [last |-> p.l, msgs |-> Empty]), p)
       \/ /\ p.from \in DOMAIN hbq /\ InOrder(hbq[p.from], p.l)
          /\ Apply(m, SendSequenced(m, s, p.from, p.l, p.joins),
                   [hbq EXCEPT ![p.from].last = p.l], p)
       \/ /\ p.from \in DOMAIN hbq /\ hbq[p.from].last >= p.l
          /\ Apply(m, [s EXCEPT !.out = {S0A(p.from, 1, p.l)}], hbq, p)
       \/ \E held, asked, rest :
            /\ p.from \in DOMAIN hbq
            /\ held = [hbq[p.from] EXCEPT !.msgs = Insert(@, p.l, p.joins)]
            /\ asked = {S4_(m, p.from, l) : l \in Missing(held)}
            /\ \E n \in (IF Max(Due(held)) = 0 THEN {0} ELSE 1..Max(Due(held))) :
                 /\ rest = [last |-> held.last + n,
                            msgs |-> Restrict(held.msgs, DOMAIN held.msgs
                                       \ (held.last + 1 .. held.last + n))]
                 /\ Apply(m, SendHeld(m, [s EXCEPT !.out = asked], p.from, held, n),
                          [hbq EXCEPT ![p.from] = rest], p)
  BY Zenon DEF ReceiveS0_
<1> HIDE DEF hbq, m, s
<1>11. ASSUME NEW held, NEW asked, NEW rest, p.from \in DOMAIN hbq,
              held = [hbq[p.from] EXCEPT !.msgs = Insert(@, p.l, p.joins)],
              asked = {S4_(m, p.from, l) : l \in Missing(held)},
              NEW n \in (IF Max(Due(held)) = 0 THEN {0} ELSE 1..Max(Due(held))),
              rest = [last |-> held.last + n,
                      msgs |-> Restrict(held.msgs, DOMAIN held.msgs
                                 \ (held.last + 1 .. held.last + n))],
              Apply(m, SendHeld(m, [s EXCEPT !.out = asked], p.from, held, n),
                          [hbq EXCEPT ![p.from] = rest], p)
       PROVE  \E t, q, a, k, x, msgs : Handled(p, t, q, a, k, x, msgs) /\ Apply(m, t, q, p)
  BY <1>9, <1>11, Zenon
<1>12. \E t, q, a, n, asked, msgs : Handled(p, t, q, a, n, asked, msgs) /\ Apply(m, t, q, p)
  <2> DEFINE Goal == \E t, q, a, n, asked, msgs : Handled(p, t, q, a, n, asked, msgs) /\ Apply(m, t, q, p)
             C1 == /\ p.from \notin DOMAIN hbq
                   /\ Apply(m, SendSequenced(m, s, p.from, p.l, p.joins),
                            Insert(hbq, p.from, [last |-> p.l, msgs |-> Empty]), p)
             C2 == /\ p.from \in DOMAIN hbq /\ InOrder(hbq[p.from], p.l)
                   /\ Apply(m, SendSequenced(m, s, p.from, p.l, p.joins),
                            [hbq EXCEPT ![p.from].last = p.l], p)
             C3 == /\ p.from \in DOMAIN hbq /\ hbq[p.from].last >= p.l
                   /\ Apply(m, [s EXCEPT !.out = {S0A(p.from, 1, p.l)}], hbq, p)
             C4 == \E held, asked, rest :
            /\ p.from \in DOMAIN hbq
            /\ held = [hbq[p.from] EXCEPT !.msgs = Insert(@, p.l, p.joins)]
            /\ asked = {S4_(m, p.from, l) : l \in Missing(held)}
            /\ \E n \in (IF Max(Due(held)) = 0 THEN {0} ELSE 1..Max(Due(held))) :
                 /\ rest = [last |-> held.last + n,
                            msgs |-> Restrict(held.msgs, DOMAIN held.msgs
                                       \ (held.last + 1 .. held.last + n))]
                 /\ Apply(m, SendHeld(m, [s EXCEPT !.out = asked], p.from, held, n),
                          [hbq EXCEPT ![p.from] = rest], p)
  <2>1. C1 => Goal
    BY <1>6, Zenon
  <2>2. C2 => Goal
    BY <1>7, Zenon
  <2>3. C3 => Goal
    BY <1>8, Zenon
  <2>4. C4 => Goal
    BY <1>11, Zenon
  <2>5. C1 \/ C2 \/ C3 \/ C4
    BY <1>10, Zenon
  <2> QED BY <2>1, <2>2, <2>3, <2>4, <2>5, Zenon
<1> QED BY <1>12 DEF m

-----------------------------------------------------------------------------
\* Types are kept

LEMMA MapIs ==
  ASSUME NEW K, NEW V, NEW f, f \in [DOMAIN f -> V], DOMAIN f \subseteq K, IsFiniteSet(DOMAIN f)
  PROVE  f \in Map(K, V)
BY MapDef

LEMMA InitType == Init => TypeOK
<1> SUFFICES ASSUME Init PROVE TypeOK
  OBVIOUS
<1>1. ViewOK
  BY MemberFacts DEF Init, ViewOK
<1>2. RequestOK
  <2>1. \A m \in Member : seqBuffer[m] \in Map(Nat, Request)
    <3> SUFFICES ASSUME NEW m \in Member PROVE seqBuffer[m] \in Map(Nat, Request)
      OBVIOUS
    <3>1. CASE m # Founder
      BY <3>1, EmptyMap DEF Init
    <3>2. CASE m = Founder
      <4> DEFINE first(i) == [NewRequest(Founder) EXCEPT !.globalSeq = 2 * i - 1]
                 f == [i \in 1..Joins |-> first(i)]
      <4>1. \A i \in 1..Joins : first(i) \in Request
        BY MemberFacts DEF NewRequest, Request
      <4>2. seqBuffer[m] = f
        BY <3>2 DEF Init
      <4> HIDE DEF first
      <4>3. DOMAIN f = 1..Joins /\ f \in [1..Joins -> Request] /\ 1..Joins \subseteq Nat
        BY <4>1, MemberFacts
      <4>4. IsFiniteSet(1..Joins)
        BY MemberFacts, FS_Interval
      <4> HIDE DEF f
      <4>5. f \in Map(Nat, Request)
        BY <4>3, <4>4, MapDef
      <4> QED BY <4>2, <4>5
    <3> QED BY <3>1, <3>2
  <2>2. seqBuffer = [m \in Member |-> seqBuffer[m]]
    BY DEF Init
  <2>3. seqBuffer \in [Member -> Map(Nat, Request)]
    BY <2>1, <2>2
  <2>4. /\ localSeq \in [Member -> Nat] /\ chatMsg \in [Member -> Nat]
        /\ typed \in [Member -> Nat] /\ forgotten \in [Member -> SUBSET Nat]
    BY MemberFacts DEF Init
  <2> QED BY <2>3, <2>4 DEF RequestOK
<1>3. SequencerOK
  <2>1. \A m \in Member : hold_back_queue[m] \in Map(Member, Queue)
    <3> SUFFICES ASSUME NEW m \in Member PROVE hold_back_queue[m] \in Map(Member, Queue)
      OBVIOUS
    <3>1. CASE ~(m = Founder /\ Joins > 0)
      BY <3>1, EmptyMap DEF Init
    <3>2. CASE m = Founder /\ Joins > 0
      <4> DEFINE r == [last |-> Joins, msgs |-> Empty]
                 f == [c \in {Founder} |-> r]
      <4>1. r \in Queue
        BY EmptyMap, MemberFacts DEF Queue
      <4>2. hold_back_queue[m] = f
        BY <3>2 DEF Init
      <4> HIDE DEF r
      <4>3. DOMAIN f = {Founder} /\ f \in [{Founder} -> Queue] /\ {Founder} \subseteq Member
        BY <4>1, MemberFacts
      <4>4. IsFiniteSet({Founder})
        BY FS_Singleton
      <4> HIDE DEF f
      <4>5. f \in Map(Member, Queue)
        BY <4>3, <4>4, MapDef
      <4> QED BY <4>2, <4>5
    <3> QED BY <3>1, <3>2
  <2>2. hold_back_queue = [m \in Member |-> hold_back_queue[m]]
    BY DEF Init
  <2>3. hold_back_queue \in [Member -> Map(Member, Queue)]
    BY <2>1, <2>2
  <2>4. generatedGlobalSeq \in [Member -> Nat]
    BY MemberFacts DEF Init
  <2>5. txBuffer \in [Member -> Map(Number, Line)]
    BY EmptyMap DEF Init
  <2>6. sequenced \in Log
    BY DEF Init, Log
  <2> QED BY <2>3, <2>4, <2>5, <2>6 DEF SequencerOK
<1>4. DisplayOK
  <2>1. /\ globalSeq \in [Member -> Nat] /\ notificationGlobalSeq \in [Member -> Nat]
        /\ givenUp \in [Member -> SUBSET Nat]
    BY MemberFacts DEF Init
  <2>2. holdBackQ \in [Member -> Map(Number, Line)] /\ globalSeqLost \in [Member -> Map(Nat, Nat)]
    BY EmptyMap DEF Init
  <2>3. shown \in [Member -> Shown]
    BY DEF Init, Shown
  <2> QED BY <2>1, <2>2, <2>3 DEF DisplayOK
<1>5. FaultOK /\ NetOK
  BY DEF Init, FaultOK, NetOK
<1> QED BY <1>1, <1>2, <1>3, <1>4, <1>5 DEF TypeOK

\* What is left alone keeps its type.
LEMMA SameView == ViewOK /\ UNCHANGED viewVars => ViewOK'
BY DEF ViewOK, viewVars

LEMMA SameRequest == RequestOK /\ UNCHANGED requestVars => RequestOK'
BY DEF RequestOK, requestVars

LEMMA SameSequencer == SequencerOK /\ UNCHANGED sequencerVars => SequencerOK'
BY DEF SequencerOK, sequencerVars

LEMMA SameDisplay ==
  DisplayOK /\ UNCHANGED <<displayVars, notificationGlobalSeq>> => DisplayOK'
BY DEF DisplayOK, displayVars

LEMMA SameFault == FaultOK /\ UNCHANGED faultVars => FaultOK'
BY DEF FaultOK, faultVars

LEMMA SameNet == NetOK /\ net' \subseteq net => NetOK'
BY DEF NetOK, PacketOK

\* A packet is received, or sent.
LEMMA ReceiveOK ==
  ASSUME TypeOK, NEW p, NEW sent, \A q \in sent : PacketOK(q), Receive(p, sent)
  PROVE  /\ FaultOK' /\ NetOK'
         /\ \A q \in net' : q \in net \/ (q \in sent /\ up[q.to] \in {"joining", "in"})
<1>1. \A q \in net' : q \in net \/ (q \in sent /\ up[q.to] \in {"joining", "in"})
  BY DEF Receive
<1>2. NetOK'
  BY <1>1 DEF TypeOK, NetOK, PacketOK
<1>3. FaultOK'
  BY DEF TypeOK, FaultOK, Receive, faultVars
<1> QED BY <1>1, <1>2, <1>3

LEMMA SentOK ==
  ASSUME TypeOK, NEW sent, \A q \in sent : PacketOK(q), Sent(sent)
  PROVE  /\ NetOK'
         /\ \A q \in net' : q \in net \/ (q \in sent /\ up[q.to] \in {"joining", "in"})
<1>1. \A q \in net' : q \in net \/ (q \in sent /\ up[q.to] \in {"joining", "in"})
  BY DEF Sent
<1>2. NetOK'
  BY <1>1 DEF TypeOK, NetOK, PacketOK
<1> QED BY <1>1, <1>2

\* One number of one request is replaced.
LEMMA RequestSet ==
  ASSUME NEW f \in Map(Nat, Request), NEW l \in DOMAIN f, NEW r \in Request, NEW g,
         g = [f EXCEPT ![l] = r]
  PROVE  /\ g \in Map(Nat, Request) /\ DOMAIN g = DOMAIN f /\ g[l] = r
         /\ \A k \in DOMAIN f \ {l} : g[k] = f[k]
<1>1. f \in [DOMAIN f -> Request] /\ DOMAIN f \subseteq Nat /\ IsFiniteSet(DOMAIN f)
  BY MapDef
<1> HIDE DEF Request
<1>2. g \in [DOMAIN f -> Request] /\ DOMAIN g = DOMAIN f
  BY <1>1
<1>3. g \in Map(Nat, Request)
  BY <1>1, <1>2, MapDef
<1> QED BY <1>1, <1>3

LEMMA RequestIs ==
  ASSUME RequestOK, NEW m \in Member, NEW l \in DOMAIN seqBuffer[m]
  PROVE  /\ seqBuffer[m] \in Map(Nat, Request) /\ seqBuffer[m][l] \in Request
         /\ seqBuffer[m][l] = [globalSeq |-> seqBuffer[m][l].globalSeq,
                               tries |-> seqBuffer[m][l].tries,
                               joins |-> seqBuffer[m][l].joins]
<1>1. seqBuffer[m] \in Map(Nat, Request)
  BY DEF RequestOK
<1>2. seqBuffer[m][l] \in Request
  BY <1>1, MapUse
<1> QED BY <1>1, <1>2 DEF Request

LEMMA ReceiveS0A_Does ==
  ASSUME TypeOK, NEW p, p \in net, ReceiveS0A(p)
  PROVE  \E b : /\ seqBuffer' = [seqBuffer EXCEPT ![p.to] = b]
                /\ b \in Map(Nat, Request) /\ DOMAIN b = DOMAIN seqBuffer[p.to]
                /\ \A l \in DOMAIN b : \/ l = p.l
                                       \/ b[l] = seqBuffer[p.to][l]
<1> DEFINE m == p.to  l == p.l
<1>1. m \in Member /\ p.g \in Nat
  BY DEF TypeOK, NetOK, PacketOK, ReceiveS0A
<1>0. seqBuffer \in [Member -> Map(Nat, Request)]
  BY DEF TypeOK, RequestOK
<1>2. CASE l \notin DOMAIN seqBuffer[m]
  <2>1. seqBuffer' = [seqBuffer EXCEPT ![m] = seqBuffer[m]]
    BY <1>0, <1>2 DEF ReceiveS0A
  <2> QED BY <1>0, <1>1, <2>1
<1>3. CASE l \in DOMAIN seqBuffer[m]
  <2>1. PICK r : r = seqBuffer[m][l]
    OBVIOUS
  <2>2. /\ seqBuffer[m] \in Map(Nat, Request) /\ r \in Request
        /\ r = [globalSeq |-> r.globalSeq, tries |-> r.tries, joins |-> r.joins]
    BY <1>1, <1>3, <2>1, RequestIs DEF TypeOK
  <2>3. PICK s : s = [r EXCEPT !.globalSeq = Largest(@, p.g)]
    OBVIOUS
  <2>4. s = [globalSeq |-> Largest(r.globalSeq, p.g), tries |-> r.tries, joins |-> r.joins]
    BY <2>2, <2>3, Zenon
  <2>5. s \in Request
    BY <1>1, <2>2, <2>4 DEF Request, Largest
  <2>6. PICK b : b = [seqBuffer[m] EXCEPT ![l] = s]
    OBVIOUS
  <2>7. /\ b \in Map(Nat, Request) /\ DOMAIN b = DOMAIN seqBuffer[m]
        /\ \A k \in DOMAIN seqBuffer[m] \ {l} : b[k] = seqBuffer[m][k]
    BY <1>3, <2>2, <2>5, <2>6, RequestSet
  <2>8. seqBuffer' = [seqBuffer EXCEPT ![m] = b]
    <3>1. seqBuffer' = [seqBuffer EXCEPT ![m][l].globalSeq = Largest(@, p.g)]
      BY <1>3 DEF ReceiveS0A
    <3> QED BY <2>1, <2>3, <2>6, <3>1, Zenon
  <2> QED BY <2>7, <2>8
<1> QED BY <1>2, <1>3

LEMMA Resend_Does ==
  ASSUME TypeOK, NEW m \in Member, NEW l \in DOMAIN seqBuffer[m], Resend(m, l)
  PROVE  \E b : /\ seqBuffer' = [seqBuffer EXCEPT ![m] = b]
                /\ b \in Map(Nat, Request) /\ DOMAIN b = DOMAIN seqBuffer[m]
                /\ \A k \in DOMAIN b : b[k].globalSeq = seqBuffer[m][k].globalSeq
<1>1. PICK r : r = seqBuffer[m][l]
  OBVIOUS
<1>2. /\ seqBuffer[m] \in Map(Nat, Request) /\ r \in Request
      /\ r = [globalSeq |-> r.globalSeq, tries |-> r.tries, joins |-> r.joins]
  BY <1>1, RequestIs DEF TypeOK
<1>3. PICK s : s = [r EXCEPT !.tries = @ + 1]
  OBVIOUS
<1>4. s = [globalSeq |-> r.globalSeq, tries |-> r.tries + 1, joins |-> r.joins]
  BY <1>2, <1>3, Zenon
<1>5. s \in Request /\ s.globalSeq = r.globalSeq
  BY <1>2, <1>4 DEF Request
<1>6. PICK b : b = [seqBuffer[m] EXCEPT ![l] = s]
  OBVIOUS
<1>7. /\ b \in Map(Nat, Request) /\ DOMAIN b = DOMAIN seqBuffer[m] /\ b[l] = s
      /\ \A k \in DOMAIN seqBuffer[m] \ {l} : b[k] = seqBuffer[m][k]
  BY <1>2, <1>5, <1>6, RequestSet
<1>8. seqBuffer' = [seqBuffer EXCEPT ![m] = b]
  <2>1. seqBuffer' = [seqBuffer EXCEPT ![m][l].tries = @ + 1]
    BY DEF Resend
  <2> QED BY <1>1, <1>3, <1>6, <2>1, Zenon
<1>9. \A k \in DOMAIN b : b[k].globalSeq = seqBuffer[m][k].globalSeq
  BY <1>1, <1>5, <1>7
<1> QED BY <1>7, <1>8, <1>9

\* The sender no longer has the request: one number moves on.
LEMMA ReceiveS4A_Does ==
  ASSUME TypeOK, NEW p, p \in net, ReceiveS4A(p)
  PROVE  \E q : /\ hold_back_queue' = [hold_back_queue EXCEPT ![p.to] = q]
                /\ q \in Map(Member, Queue) /\ DOMAIN q = DOMAIN hold_back_queue[p.to]
                /\ \A c \in DOMAIN q : c # p.from => q[c] = hold_back_queue[p.to][c]
                /\ p.from \in DOMAIN q =>
                     /\ q[p.from].last = Largest(hold_back_queue[p.to][p.from].last, p.l)
                     /\ q[p.from].msgs = hold_back_queue[p.to][p.from].msgs
<1> DEFINE m == p.to  c == p.from
<1>1. m \in Member /\ c \in Member /\ p.l \in Nat
  BY MemberFacts DEF TypeOK, NetOK, PacketOK, ReceiveS4A
<1>0. hold_back_queue \in [Member -> Map(Member, Queue)]
  BY DEF TypeOK, SequencerOK
<1>2. CASE c \notin DOMAIN hold_back_queue[m]
  <2>1. hold_back_queue' = [hold_back_queue EXCEPT ![m] = hold_back_queue[m]]
    BY <1>0, <1>2 DEF ReceiveS4A
  <2> QED BY <1>0, <1>1, <1>2, <2>1
<1>3. CASE c \in DOMAIN hold_back_queue[m]
  <2>1. PICK f : f = hold_back_queue[m] /\ f \in Map(Member, Queue)
    BY <1>0, <1>1
  <2>2. f[c] \in Queue
    BY <1>3, <2>1, MapUse
  <2>3. PICK v \in Nat : v = Largest(f[c].last, p.l)
    BY <1>1, <2>2 DEF Queue, Largest
  <2>4. PICK q : q = SetLast(f, c, v)
    OBVIOUS
  <2>5. /\ q \in Map(Member, Queue) /\ DOMAIN q = DOMAIN f
        /\ q[c] = [last |-> v, msgs |-> f[c].msgs]
        /\ \A d \in DOMAIN f \ {c} : q[d] = f[d]
    BY <1>3, <2>1, <2>4, LastSet
  <2>6. hold_back_queue' = [hold_back_queue EXCEPT ![m] = q]
    <3>1. hold_back_queue' = [hold_back_queue EXCEPT ![m][c].last = Largest(@, p.l)]
      BY <1>3 DEF ReceiveS4A
    <3> QED BY <2>1, <2>3, <2>4, <3>1, Zenon DEF SetLast
  <2>7. q[c].last = v /\ q[c].msgs = f[c].msgs
    BY <2>5
  <2> QED BY <2>1, <2>3, <2>5, <2>6, <2>7
<1> QED BY <1>2, <1>3

-----------------------------------------------------------------------------
\* What a member displays

LEMMA ShownFacts ==
  ASSUME NEW s \in Shown
  PROVE  /\ Len(s) \in Nat /\ DOMAIN s = 1..Len(s)
         /\ \A i \in 1..Len(s) : s[i] \in Number \X Line
<1> DEFINE E == Number \X Line
<1>1. s \in Seq(E)
  BY DEF Shown
<1> HIDE DEF E
<1>2. /\ Len(s) \in Nat /\ DOMAIN s = 1..Len(s)
      /\ \A i \in 1..Len(s) : s[i] \in E
  BY <1>1
<1> QED BY <1>2 DEF E

LEMMA ShownAppend ==
  ASSUME NEW s \in Shown, NEW e \in Number \X Line
  PROVE  /\ Append(s, e) \in Shown /\ Len(Append(s, e)) = Len(s) + 1
         /\ Append(s, e)[Len(s) + 1] = e
         /\ \A i \in 1..Len(s) : Append(s, e)[i] = s[i]
<1> DEFINE E == Number \X Line
<1>1. s \in Seq(E) /\ e \in E
  BY DEF Shown
<1> HIDE DEF E
<1>2. /\ Append(s, e) \in Seq(E) /\ Len(Append(s, e)) = Len(s) + 1
      /\ Append(s, e)[Len(s) + 1] = e
      /\ \A i \in 1..Len(s) : Append(s, e)[i] = s[i]
  BY <1>1
<1> QED BY <1>2 DEF E, Shown

LEMMA ShownConcat ==
  ASSUME NEW s \in Shown, NEW t \in Shown
  PROVE  /\ s \o t \in Shown /\ Len(s \o t) = Len(s) + Len(t)
         /\ \A i \in 1..Len(s) : (s \o t)[i] = s[i]
         /\ \A i \in 1..(Len(s) + Len(t)) :
              i \in 1..Len(s) \/ (i - Len(s) \in 1..Len(t) /\ (s \o t)[i] = t[i - Len(s)])
<1> DEFINE E == Number \X Line
<1>1. s \in Seq(E) /\ t \in Seq(E)
  BY DEF Shown
<1> HIDE DEF E
<1>2. s \o t \in Seq(E) /\ Len(s \o t) = Len(s) + Len(t)
  BY <1>1
<1>3. Len(s) \in Nat /\ Len(t) \in Nat
  BY <1>1
<1>4. \A i \in 1..(Len(s) + Len(t)) :
        (s \o t)[i] = IF i <= Len(s) THEN s[i] ELSE t[i - Len(s)]
  BY <1>1
<1>5. \A i \in 1..Len(s) : (s \o t)[i] = s[i]
  BY <1>3, <1>4
<1>6. \A i \in 1..(Len(s) + Len(t)) :
              i \in 1..Len(s) \/ (i - Len(s) \in 1..Len(t) /\ (s \o t)[i] = t[i - Len(s)])
  BY <1>3, <1>4
<1> QED BY <1>2, <1>5, <1>6 DEF E, Shown

\* d is what is displayed of q after the entries up to k: all lines have numbers
\* above the one displayed last; a number passed over is that of a notification;
\* and an entry beyond a gap has stopped the loop.
Walked(m, q, d, k) ==
  /\ d = [g |-> d.g, lines |-> d.lines, ask |-> d.ask]
  /\ d.g \in Nat /\ globalSeq[m] <= d.g /\ d.ask \in Nat /\ d.lines \in Shown
  /\ d.g = globalSeq[m] \/ d.g \in DOMAIN q
  /\ \A i \in 1..Len(d.lines) :
       \E x \in DOMAIN q : d.lines[i] = <<x, q[x]>> /\ globalSeq[m] < x /\ x <= d.g
  /\ \A x \in Nat : globalSeq[m] < x /\ x <= d.g =>
       x \in DOMAIN q \/ x <= notificationGlobalSeq[m]
  /\ d.ask = 0 => \A x \in DOMAIN q : x <= k => x <= d.g \/ x <= notificationGlobalSeq[m]
  /\ d.ask # 0 => d.ask = d.g + 1

LEMMA EntryWalked ==
  ASSUME DisplayOK, NEW m \in Member, NEW q \in Map(Number, Line), NEW d, NEW k \in DOMAIN q,
         Walked(m, q, d, k - 1), NEW e, e = Entry(m, q, notificationGlobalSeq[m], d, k)
  PROVE  Walked(m, q, e, k)
<1> DEFINE G == globalSeq[m]
           n == notificationGlobalSeq[m]
           lines == IF q[k][1] \in participants[m] THEN Append(d.lines, <<k, q[k]>>) ELSE d.lines
<1>1. G \in Nat /\ n \in Nat
  BY DEF DisplayOK
<1>2. DOMAIN q \subseteq Number /\ k \in Number /\ k \in Nat /\ q[k] \in Line
  BY MapUse DEF Number
<1>3. \A x \in DOMAIN q : x \in Nat
  BY <1>2 DEF Number
<1>4. /\ d = [g |-> d.g, lines |-> d.lines, ask |-> d.ask]
      /\ d.g \in Nat /\ G <= d.g /\ d.ask \in Nat /\ d.lines \in Shown
      /\ (d.g = G \/ d.g \in DOMAIN q)
      /\ \A i \in 1..Len(d.lines) :
           \E x \in DOMAIN q : d.lines[i] = <<x, q[x]>> /\ G < x /\ x <= d.g
      /\ \A x \in Nat : G < x /\ x <= d.g => x \in DOMAIN q \/ x <= n
      /\ (d.ask = 0 => \A x \in DOMAIN q : x <= k - 1 => x <= d.g \/ x <= n)
      /\ (d.ask # 0 => d.ask = d.g + 1)
  BY DEF Walked
<1>5. CASE d.ask # 0
  <2>1. e = d
    BY <1>5, Zenon DEF Entry
  <2> QED BY <1>4, <1>5, <2>1 DEF Walked
<1>6. CASE d.ask = 0 /\ (k = d.g + 1 \/ (k = n + 1 /\ k > d.g + 1))
  <2>0. ~(k > d.g + 1 /\ k > n + 1)
    BY <1>1, <1>2, <1>4, <1>6
  <2>1. e = [d EXCEPT !.g = k, !.lines = lines]
    BY <1>6, <2>0, Zenon DEF Entry
  <2> HIDE DEF lines
  <2>2. e = [g |-> k, lines |-> lines, ask |-> d.ask]
    BY <1>4, <2>1, Zenon
  <2>3. e.g = k /\ e.lines = lines /\ e.ask = 0
    BY <1>6, <2>2
  <2>4. e = [g |-> e.g, lines |-> e.lines, ask |-> e.ask]
    BY <2>2, <2>3
  <2>5. d.g < k
    BY <1>1, <1>2, <1>4, <1>6
  <2>6. <<k, q[k]>> \in Number \X Line
    BY <1>2
  <2>7. /\ lines \in Shown
        /\ \A i \in 1..Len(lines) :
             \E x \in DOMAIN q : lines[i] = <<x, q[x]>> /\ G < x /\ x <= k
    <3>1. \A i \in 1..Len(d.lines) :
             \E x \in DOMAIN q : d.lines[i] = <<x, q[x]>> /\ G < x /\ x <= k
      <4> TAKE i \in 1..Len(d.lines)
      <4>1. PICK x \in DOMAIN q : d.lines[i] = <<x, q[x]>> /\ G < x /\ x <= d.g
        BY <1>4
      <4>2. x <= k
        BY <1>2, <1>3, <1>4, <2>5, <4>1
      <4> QED BY <4>1, <4>2
    <3>2. CASE lines = d.lines
      BY <1>4, <3>1, <3>2
    <3>3. CASE lines = Append(d.lines, <<k, q[k]>>)
      <4>1. PICK entry : entry = <<k, q[k]>>
        OBVIOUS
      <4>2. PICK ls : ls = d.lines /\ ls \in Shown
        BY <1>4
      <4>3. lines = Append(ls, entry) /\ entry \in Number \X Line
        BY <2>6, <3>3, <4>1, <4>2
      <4>4. /\ lines \in Shown /\ Len(lines) = Len(ls) + 1 /\ lines[Len(ls) + 1] = entry
            /\ \A i \in 1..Len(ls) : lines[i] = ls[i]
        BY <4>2, <4>3, ShownAppend
      <4>5. Len(ls) \in Nat
        BY <4>2, ShownFacts
      <4>6. ASSUME NEW i \in 1..Len(lines)
            PROVE  \E x \in DOMAIN q : lines[i] = <<x, q[x]>> /\ G < x /\ x <= k
        <5>1. CASE i \in 1..Len(ls)
          BY <3>1, <4>2, <4>4, <5>1
        <5>2. CASE i \notin 1..Len(ls)
          <6>1. i = Len(ls) + 1
            BY <4>4, <4>5, <5>2
          <6>2. G < k
            BY <1>1, <1>2, <1>4, <2>5
          <6> QED BY <1>2, <4>1, <4>4, <6>1, <6>2
        <5> QED BY <5>1, <5>2
      <4> QED BY <4>4, <4>6
    <3> QED BY <3>2, <3>3 DEF lines
  <2>8. G <= k
    BY <1>1, <1>2, <1>4, <2>5
  <2>9. \A x \in Nat : G < x /\ x <= k => x \in DOMAIN q \/ x <= n
    <3> TAKE x \in Nat
    <3>1. CASE x <= d.g
      BY <1>4, <3>1
    <3>2. CASE ~(x <= d.g)
      BY <1>1, <1>2, <1>4, <1>6, <3>2
    <3> QED BY <3>1, <3>2
  <2>10. \A x \in DOMAIN q : x <= k => x <= k \/ x <= n
    OBVIOUS
  <2> QED BY <1>2, <2>3, <2>4, <2>7, <2>8, <2>9, <2>10 DEF Walked
<1>7. CASE d.ask = 0 /\ k > d.g + 1 /\ k > n + 1
  <2>0. ~(k = d.g + 1 \/ (k = n + 1 /\ k > d.g + 1))
    BY <1>1, <1>2, <1>4, <1>7
  <2>1. e = [d EXCEPT !.ask = d.g + 1]
    BY <1>7, <2>0, Zenon DEF Entry
  <2>2. e = [g |-> d.g, lines |-> d.lines, ask |-> d.g + 1]
    BY <1>4, <2>1, Zenon
  <2>3. e.g = d.g /\ e.lines = d.lines /\ e.ask = d.g + 1
    BY <2>2
  <2>4. e = [g |-> e.g, lines |-> e.lines, ask |-> e.ask]
    BY <2>2, <2>3
  <2>5. e.ask \in Nat /\ e.ask # 0
    BY <1>4, <2>3
  <2> QED BY <1>4, <2>3, <2>4, <2>5 DEF Walked
<1>8. CASE /\ d.ask = 0 /\ ~(k = d.g + 1 \/ (k = n + 1 /\ k > d.g + 1))
           /\ ~(k > d.g + 1 /\ k > n + 1)
  <2>1. e = d
    BY <1>8, Zenon DEF Entry
  <2>2. k <= d.g \/ k <= n
    BY <1>1, <1>2, <1>4, <1>8
  <2>3. \A x \in DOMAIN q : x <= k => x <= d.g \/ x <= n
    <3> TAKE x \in DOMAIN q
    <3>1. x <= k => x <= k - 1 \/ x = k
      BY <1>2, <1>3
    <3> QED BY <1>4, <1>8, <2>2, <3>1
  <2> QED BY <1>4, <1>8, <2>1, <2>3 DEF Walked
<1> QED BY <1>5, <1>6, <1>7, <1>8

LEMMA DeliverableWalked ==
  ASSUME DisplayOK, NEW m \in Member, NEW q \in Map(Number, Line), NEW d, d = Deliverable(m, q)
  PROVE  /\ \E k \in Nat : Walked(m, q, d, k)
         /\ globalSeq[m] \in DOMAIN q => Walked(m, q, d, Max(DOMAIN q))
<1> DEFINE G == globalSeq[m]
           n == notificationGlobalSeq[m]
           start == [g |-> G, lines |-> <<>>, ask |-> 0]
           last == Max(DOMAIN q)
<1>1. G \in Nat /\ n \in Nat
  BY DEF DisplayOK
<1>2. DOMAIN q \subseteq Number /\ IsFiniteSet(DOMAIN q) /\ DOMAIN q \subseteq Nat
  BY MapUse DEF Number
<1>3. ASSUME NEW k \in Nat, \A x \in DOMAIN q : x <= k => x <= G
      PROVE  Walked(m, q, start, k)
  <2>1. start.g = G /\ start.lines = <<>> /\ start.ask = 0
    OBVIOUS
  <2>2. <<>> \in Shown /\ Len(<<>>) = 0
    BY DEF Shown
  <2> HIDE DEF start
  <2>3. start = [g |-> start.g, lines |-> start.lines, ask |-> start.ask]
    BY <2>1 DEF start
  <2>4. \A x \in Nat : ~(G < x /\ x <= G)
    BY <1>1
  <2>5. 1..0 = {}
    OBVIOUS
  <2> QED BY <1>1, <1>3, <2>1, <2>2, <2>3, <2>4, <2>5 DEF Walked
<1>4. CASE G \notin DOMAIN q
  <2>1. d = start
    BY <1>4, Zenon DEF Deliverable
  <2>2. \A x \in DOMAIN q : x <= 0 => x <= G
    BY <1>1, <1>2
  <2> QED BY <1>3, <1>4, <2>1, <2>2
<1>5. CASE G \in DOMAIN q
  <2>1. last \in DOMAIN q /\ last \in Nat /\ \A x \in DOMAIN q : x <= last
    BY <1>2, <1>5, LargestOf
  <2>2. PICK w : Walks(w, m, q, start, last) /\ d = w[last]
    BY <1>5, <2>1, DeliverableIs
  <2> DEFINE S == {k \in 0..last : Walked(m, q, w[k], k)}
  <2>3. 0 \in S
    <3>1. w[0] = start
      BY <2>1, <2>2 DEF Walks
    <3>2. \A x \in DOMAIN q : x <= 0 => x <= G
      BY <1>1, <1>2
    <3> HIDE DEF start
    <3>3. Walked(m, q, w[0], 0)
      BY <1>3, <3>1, <3>2
    <3> QED BY <2>1, <3>3
  <2>4. ASSUME NEW k \in 1..last, k - 1 \in S
        PROVE  k \in S
    <3> HIDE DEF start
    <3>1. w[k] = IF k >= G /\ k \in DOMAIN q THEN Entry(m, q, n, w[k - 1], k) ELSE w[k - 1]
      BY <2>1, <2>2 DEF Walks
    <3>2. Walked(m, q, w[k - 1], k - 1)
      BY <2>4
    <3>3. CASE k >= G /\ k \in DOMAIN q
      <4>1. w[k] = Entry(m, q, n, w[k - 1], k)
        BY <3>1, <3>3
      <4>2. Walked(m, q, w[k], k)
        BY <3>2, <3>3, <4>1, EntryWalked
      <4> QED BY <4>2
    <3>4. CASE ~(k >= G /\ k \in DOMAIN q)
      <4>1. w[k] = w[k - 1]
        BY <3>1, <3>4
      <4>2. Walked(m, q, w[k], k)
        <5>1. PICK e : e = w[k - 1]
          OBVIOUS
        <5>2. \A x \in DOMAIN q : x <= k => x <= k - 1 \/ x <= G
          BY <1>1, <1>2, <3>4
        <5>3. \A x \in DOMAIN q : x <= G => x <= e.g
          BY <1>1, <1>2, <3>2, <5>1 DEF Walked
        <5>4. Walked(m, q, e, k - 1)
          BY <3>2, <5>1
        <5>5. e.ask = 0 => \A x \in DOMAIN q : x <= k => x <= e.g \/ x <= n
          BY <5>2, <5>3, <5>4 DEF Walked
        <5>6. Walked(m, q, e, k)
          BY <5>4, <5>5 DEF Walked
        <5> QED BY <4>1, <5>1, <5>6
      <4> QED BY <4>2
    <3> QED BY <3>3, <3>4
  <2>5. last \in S
    <3> HIDE DEF S
    <3> QED BY <2>1, <2>3, <2>4, Climb
  <2> QED BY <2>1, <2>2, <2>5
<1> QED BY <1>4, <1>5

\* What the handling of a line does: q is the new holdBackQ, d what is displayed.
Displayed(p, q, d) ==
  LET m == p.to IN
  /\ m \in Member /\ p.g \in Number /\ p.line \in Line
  /\ q = Insert(holdBackQ[m], p.g, p.line) /\ q \in Map(Number, Line)
  /\ d.g \in Nat /\ d.ask \in Nat /\ d.lines \in Shown
  /\ First(m) => /\ d.g = p.g /\ d.ask = 0
                 /\ Len(d.lines) = 1 /\ d.lines[1] = <<p.g, p.line>>
  /\ ~First(m) => /\ \E k \in Nat : Walked(m, q, d, k)
                  /\ globalSeq[m] \in DOMAIN q => Walked(m, q, d, Max(DOMAIN q))

ChatStep(p, q, d) ==
  LET m == p.to IN
  /\ holdBackQ' = [holdBackQ EXCEPT ![m] = q]
  /\ globalSeq' = [globalSeq EXCEPT ![m] = d.g]
  /\ Display(m, d.lines)
  /\ globalSeqLost' = IF d.ask = 0 THEN globalSeqLost
                      ELSE [globalSeqLost EXCEPT ![m] = Insert(@, d.ask, 0)]
  /\ Receive(p, IF d.ask = 0 THEN {} ELSE {S3_(m, r, d.ask) : r \in participants[m]})
  /\ UNCHANGED <<up, leader, participants, localSeq, chatMsg, typed, forgotten,
                 sequencerVars, notificationGlobalSeq, givenUp>>

LEMMA Chat_Does ==
  ASSUME TypeOK, NEW p, p \in net, p.tag \in {"C0_", "S3A"}, Chat(p)
  PROVE  \E q, d : Displayed(p, q, d) /\ ChatStep(p, q, d)
<1> DEFINE m == p.to
           first == [g |-> p.g, lines |-> <<<<p.g, p.line>>>>, ask |-> 0]
<1>1. PICK q, d : /\ q = Insert(holdBackQ[m], p.g, p.line)
                  /\ d = IF First(m) THEN first ELSE Deliverable(m, q)
                  /\ ChatStep(p, q, d)
  BY Zenon DEF Chat, ChatStep
<1>2. m \in Member /\ p.g \in Number /\ p.g \in Nat /\ p.line \in Line
  BY DEF TypeOK, NetOK, PacketOK, Number
<1>3. q \in Map(Number, Line)
  <2>1. holdBackQ[m] \in Map(Number, Line)
    BY <1>2 DEF TypeOK, DisplayOK
  <2> QED BY <1>1, <1>2, <2>1, InsertMap
<1>4. CASE First(m)
  <2>1. d.g = p.g /\ d.ask = 0 /\ d.lines = <<<<p.g, p.line>>>>
    BY <1>1, <1>4
  <2>2. PICK e \in Number \X Line : e = <<p.g, p.line>>
    BY <1>2
  <2>3. <<e>> \in Shown /\ Len(<<e>>) = 1 /\ <<e>>[1] = e
    <3> DEFINE E == Number \X Line
    <3>1. e \in E
      OBVIOUS
    <3> HIDE DEF E
    <3>2. <<e>> \in Seq(E) /\ Len(<<e>>) = 1 /\ <<e>>[1] = e
      BY <3>1
    <3> QED BY <3>2 DEF E, Shown
  <2>4. d.lines \in Shown /\ Len(d.lines) = 1 /\ d.lines[1] = <<p.g, p.line>>
    BY <2>1, <2>2, <2>3
  <2>5. Displayed(p, q, d)
    BY <1>1, <1>2, <1>3, <1>4, <2>1, <2>4 DEF Displayed
  <2> QED BY <1>1, <2>5
<1>5. CASE ~First(m)
  <2>1. d = Deliverable(m, q)
    BY <1>1, <1>5
  <2>2. /\ \E k \in Nat : Walked(m, q, d, k)
        /\ globalSeq[m] \in DOMAIN q => Walked(m, q, d, Max(DOMAIN q))
    BY <1>2, <1>3, <2>1, DeliverableWalked DEF TypeOK
  <2>3. d.g \in Nat /\ d.ask \in Nat /\ d.lines \in Shown
    BY <2>2 DEF Walked
  <2>4. Displayed(p, q, d)
    BY <1>1, <1>2, <1>3, <1>5, <2>2, <2>3 DEF Displayed
  <2> QED BY <1>1, <2>4
<1> QED BY <1>4, <1>5

\* A request that leaves the buffer was displayed.
Drops(m, b, lines) ==
  /\ seqBuffer' = [seqBuffer EXCEPT ![m] = b]
  /\ b \in Map(Nat, Request) /\ DOMAIN b \subseteq DOMAIN seqBuffer[m]
  /\ \A l \in DOMAIN b : b[l] = seqBuffer[m][l]
  /\ \A l \in DOMAIN seqBuffer[m] \ DOMAIN b : \E i \in 1..Len(lines) : lines[i][2] = <<m, l>>

LEMMA Display_Does ==
  ASSUME TypeOK, NEW m \in Member, NEW lines \in Shown, Display(m, lines)
  PROVE  /\ shown' = [shown EXCEPT ![m] = @ \o lines] /\ shown' \in [Member -> Shown]
         /\ seqNumber' \in [Member -> [Member -> Nat]]
         /\ \E b : Drops(m, b, lines)
<1> DEFINE of(p) == {i \in DOMAIN lines : lines[i][2][1] = p}
<1>1. Len(lines) \in Nat /\ DOMAIN lines = 1..Len(lines)
      /\ \A i \in 1..Len(lines) : lines[i] \in Number \X Line
  BY ShownFacts
<1>2. \A i \in DOMAIN lines : lines[i][2] \in Line
  BY <1>1
<1>3. \A i \in DOMAIN lines : /\ lines[i][2][2] \in Nat
                              /\ lines[i][2] = <<lines[i][2][1], lines[i][2][2]>>
  BY <1>2 DEF Line
<1>4. shown' = [shown EXCEPT ![m] = @ \o lines]
  BY DEF Display
<1>5. shown' \in [Member -> Shown]
  <2>1. shown \in [Member -> Shown]
    BY DEF TypeOK, DisplayOK
  <2>2. shown[m] \o lines \in Shown
    BY <2>1, ShownConcat
  <2> QED BY <1>4, <2>1, <2>2
<1>6. seqNumber' \in [Member -> [Member -> Nat]]
  <2>1. seqNumber \in [Member -> [Member -> Nat]]
    BY DEF TypeOK, ViewOK
  <2> DEFINE new(p) == IF of(p) = {} THEN seqNumber[m][p] ELSE lines[Max(of(p))][2][2]
  <2>2. ASSUME NEW p \in Member
        PROVE  new(p) \in Nat
    <3>1. CASE of(p) = {}
      BY <2>1, <3>1
    <3>2. CASE of(p) # {}
      <4>1. of(p) \subseteq 1..Len(lines) /\ IsFiniteSet(1..Len(lines)) /\ of(p) \subseteq Nat
        BY <1>1, FS_Interval
      <4>2. IsFiniteSet(of(p))
        BY <4>1, FS_Subset
      <4>3. Max(of(p)) \in of(p)
        <5> HIDE DEF of
        <5> QED BY <3>2, <4>1, <4>2, LargestOf
      <4> QED BY <1>3, <3>2, <4>3
    <3> QED BY <3>1, <3>2
  <2>3. seqNumber' = [seqNumber EXCEPT ![m] = [p \in Member |-> new(p)]]
    BY DEF Display
  <2> HIDE DEF new
  <2>4. [p \in Member |-> new(p)] \in [Member -> Nat]
    BY <2>2
  <2> QED BY <2>1, <2>3, <2>4
<1>7. \E b : Drops(m, b, lines)
  <2> DEFINE back == {lines[i][2][2] : i \in of(m)}
  <2>1. PICK S : S = DOMAIN seqBuffer[m] \ back
    OBVIOUS
  <2>2. PICK b : b = Restrict(seqBuffer[m], S)
    OBVIOUS
  <2>3. seqBuffer[m] \in Map(Nat, Request)
    BY DEF TypeOK, RequestOK
  <2>4. b \in Map(Nat, Request) /\ DOMAIN b = S /\ \A l \in S : b[l] = seqBuffer[m][l]
    BY <2>1, <2>2, <2>3, RestrictMap
  <2>5. seqBuffer' = [seqBuffer EXCEPT ![m] = b]
    BY <2>1, <2>2, Zenon DEF Display
  <2>6. \A l \in DOMAIN seqBuffer[m] \ S : \E i \in 1..Len(lines) : lines[i][2] = <<m, l>>
    BY <1>1, <1>3, <2>1
  <2>7. S \subseteq DOMAIN seqBuffer[m]
    BY <2>1
  <2>8. Drops(m, b, lines)
    BY <2>4, <2>5, <2>6, <2>7 DEF Drops
  <2> QED BY <2>8
<1> QED BY <1>4, <1>5, <1>6, <1>7

\* A member is taken off the list, or a new leader announces its own.
LEMMA RemoveMember_Does ==
  ASSUME TypeOK, NEW m \in Member, NEW c \in Member, RemoveMember(m, c)
  PROVE  \E t : /\ WorkOK(t) /\ t.generated = generatedGlobalSeq[m] + 1
                /\ t.notification = t.generated
                /\ \A p \in t.out : p.tag = "N0A" /\ p.leader = leader[m] /\ p.to # m
                /\ generatedGlobalSeq' = [generatedGlobalSeq EXCEPT ![m] = t.generated]
                /\ notificationGlobalSeq' = [notificationGlobalSeq EXCEPT ![m] = t.notification]
                /\ participants' = [participants EXCEPT ![m] = t.ps]
                /\ Sent(t.out)
<1>1. PICK r : r = [Before(m, m) EXCEPT !.ps = @ \ {c}]
  OBVIOUS
<1>2. r = [generated |-> generatedGlobalSeq[m], ps |-> participants[m] \ {c},
           notification |-> notificationGlobalSeq[m], tx |-> txBuffer[m],
           log |-> sequenced, out |-> {}, addr |-> m]
  BY <1>1, Zenon DEF Before
<1>3. /\ r.generated = generatedGlobalSeq[m] /\ r.ps = participants[m] \ {c}
      /\ r.notification = notificationGlobalSeq[m] /\ r.tx = txBuffer[m]
      /\ r.log = sequenced /\ r.out = {} /\ r.addr = m
  BY <1>2
<1>4. WorkOK(r)
  BY <1>2, <1>3 DEF TypeOK, ViewOK, SequencerOK, DisplayOK, WorkOK
<1>5. PICK t : t = Announce(m, leader[m], r)
  OBVIOUS
<1>6. /\ WorkOK(t) /\ t.generated = r.generated + 1 /\ t.notification = r.generated + 1
      /\ \A p \in t.out \ r.out : /\ p.tag = "N0A" /\ p.leader = leader[m] /\ p.to # m
  <2>1. ViewOK /\ leader[m] \in Member
    BY DEF TypeOK, ViewOK
  <2> QED BY <1>4, <1>5, <2>1, AnnounceOK
<1>7. /\ generatedGlobalSeq' = [generatedGlobalSeq EXCEPT ![m] = t.generated]
      /\ notificationGlobalSeq' = [notificationGlobalSeq EXCEPT ![m] = t.notification]
      /\ participants' = [participants EXCEPT ![m] = t.ps]
      /\ Sent(t.out)
  BY <1>1, <1>5, Zenon DEF RemoveMember, Send
<1> QED BY <1>3, <1>6, <1>7

\* What is left of the transmitted messages.
LEMMA RemoveMember_Forgets ==
  ASSUME TypeOK, NEW m \in Member, NEW c \in Member, RemoveMember(m, c)
  PROVE  \E x : /\ txBuffer' = [txBuffer EXCEPT ![m] = x] /\ x \in Map(Number, Line)
                /\ DOMAIN x \subseteq DOMAIN txBuffer[m]
                /\ \A k \in DOMAIN x : x[k] = txBuffer[m][k]
<1>1. PICK f : f = txBuffer[m]
  OBVIOUS
<1>2. f \in Map(Number, Line)
  BY <1>1 DEF TypeOK, SequencerOK
<1>3. PICK last : txBuffer' = [txBuffer EXCEPT ![m] = Restrict(@, {g \in DOMAIN @ : g > last})]
  BY Zenon DEF RemoveMember
<1>4. PICK S : S = {g \in DOMAIN f : g > last}
  OBVIOUS
<1>5. S \subseteq DOMAIN f
  BY <1>4
<1>6. PICK x : x = Restrict(f, S)
  OBVIOUS
<1>7. x \in Map(Number, Line) /\ DOMAIN x = S /\ \A k \in S : x[k] = f[k]
  BY <1>2, <1>5, <1>6, RestrictMap
<1>8. txBuffer' = [txBuffer EXCEPT ![m] = x]
  BY <1>1, <1>3, <1>4, <1>6, Zenon
<1> QED BY <1>1, <1>5, <1>7, <1>8

LEMMA TakeOver_Does ==
  ASSUME TypeOK, NEW m \in Member, TakeOver(m)
  PROVE  \E t, q : /\ WorkOK(t) /\ t.generated > 0
                   /\ \A p \in t.out : p.tag = "N0A" /\ p.leader = m /\ p.to # m
                   /\ generatedGlobalSeq' = [generatedGlobalSeq EXCEPT ![m] = t.generated]
                   /\ notificationGlobalSeq' = [notificationGlobalSeq EXCEPT ![m] = t.notification]
                   /\ participants' = [participants EXCEPT ![m] = t.ps]
                   /\ q \in Map(Member, Queue)
                   /\ hold_back_queue' = [hold_back_queue EXCEPT ![m] = q]
                   /\ Sent(t.out)
<1> DEFINE start == IF generatedGlobalSeq[m] = 0 THEN globalSeq[m] ELSE generatedGlobalSeq[m]
           ps == participants[m] \ {leader[m]}
<1>1. PICK r : r = [Before(m, m) EXCEPT !.generated = start, !.ps = ps]
  OBVIOUS
<1>2. r = [generated |-> start, ps |-> ps,
           notification |-> notificationGlobalSeq[m], tx |-> txBuffer[m],
           log |-> sequenced, out |-> {}, addr |-> m]
  BY <1>1, Zenon DEF Before
<1>8. start \in Nat /\ ps \in SUBSET Member
  BY DEF TypeOK, ViewOK, SequencerOK, DisplayOK
<1> HIDE DEF start, ps
<1>3. /\ r.generated = start /\ r.ps = ps
      /\ r.notification = notificationGlobalSeq[m] /\ r.tx = txBuffer[m]
      /\ r.log = sequenced /\ r.out = {} /\ r.addr = m
  BY <1>2
<1>4. WorkOK(r)
  BY <1>2, <1>3, <1>8 DEF TypeOK, ViewOK, SequencerOK, DisplayOK, WorkOK
<1>5. PICK t : t = Announce(m, m, r)
  OBVIOUS
<1>6. /\ WorkOK(t) /\ t.generated = r.generated + 1
      /\ \A p \in t.out \ r.out : /\ p.tag = "N0A" /\ p.leader = m /\ p.to # m
  <2>1. ViewOK
    BY DEF TypeOK
  <2> QED BY <1>4, <1>5, <2>1, AnnounceOK
<1>7. /\ generatedGlobalSeq' = [generatedGlobalSeq EXCEPT ![m] = t.generated]
      /\ notificationGlobalSeq' = [notificationGlobalSeq EXCEPT ![m] = t.notification]
      /\ Sent(t.out)
      /\ participants' = [participants EXCEPT ![m] = t.ps]
  <2>1. t.ps = ps
    BY <1>3, <1>4, <1>5, AnnounceOK DEF TypeOK
  <2>2. /\ generatedGlobalSeq' = [generatedGlobalSeq EXCEPT ![m] = t.generated]
        /\ notificationGlobalSeq' = [notificationGlobalSeq EXCEPT ![m] = t.notification]
        /\ Sent(t.out)
    BY <1>1, <1>5, Zenon DEF TakeOver, Send, start, ps
  <2>3. participants' = [participants EXCEPT ![m] = ps]
    BY DEF TakeOver, ps
  <2> QED BY <2>1, <2>2, <2>3
<1>9. t.generated > 0
  BY <1>3, <1>6, <1>8
<1>10. PICK seen, q : /\ seen = {p \in ps : seqNumber[m][p] > 0}
                      /\ q = [p \in seen |-> [last |-> seqNumber[m][p], msgs |-> Empty]]
                      /\ hold_back_queue' = [hold_back_queue EXCEPT ![m] = q]
  BY Zenon DEF TakeOver, ps
<1>11. q \in Map(Member, Queue)
  <2>1. seen \subseteq Member /\ IsFiniteSet(seen)
    BY <1>8, <1>10, MemberFacts, FS_Subset
  <2>2. \A p \in Member : seqNumber[m][p] \in Nat
    BY DEF TypeOK, ViewOK
  <2>3. \A p \in seen : [last |-> seqNumber[m][p], msgs |-> Empty] \in Queue
    BY <2>1, <2>2, EmptyMap DEF Queue
  <2>4. q \in [seen -> Queue] /\ DOMAIN q = seen
    BY <1>10, <2>3
  <2> QED BY <2>1, <2>4, MapDef
<1> QED BY <1>3, <1>6, <1>7, <1>9, <1>10, <1>11

-----------------------------------------------------------------------------
\* Every step keeps the types

LEMMA ReceiveS0_Type ==
  ASSUME TypeOK, NEW p, p \in net, ReceiveS0_(p)
  PROVE  TypeOK'
<1>1. PICK t, q, a, n, asked, msgs : Handled(p, t, q, a, n, asked, msgs) /\ Apply(p.to, t, q, p)
  BY ReceiveS0_Handled
<1>2. p.to \in Member
  BY DEF TypeOK, NetOK, PacketOK
<1>3. WorkOK(t) /\ q \in Map(Member, Queue)
  BY <1>1 DEF Handled, Numbers, Moved
<1>4. /\ t.generated \in Nat /\ t.notification \in Nat /\ t.ps \in SUBSET Member
      /\ t.tx \in Map(Number, Line) /\ t.log \in Log /\ \A x \in t.out : PacketOK(x)
  BY <1>3 DEF WorkOK
<1>5. /\ generatedGlobalSeq' = [generatedGlobalSeq EXCEPT ![p.to] = t.generated]
      /\ participants' = [participants EXCEPT ![p.to] = t.ps]
      /\ notificationGlobalSeq' = [notificationGlobalSeq EXCEPT ![p.to] = t.notification]
      /\ txBuffer' = [txBuffer EXCEPT ![p.to] = t.tx]
      /\ sequenced' = t.log
      /\ hold_back_queue' = [hold_back_queue EXCEPT ![p.to] = q]
      /\ Receive(p, t.out)
      /\ UNCHANGED <<up, leader, seqNumber, requestVars, displayVars>>
  BY <1>1 DEF Apply
<1>6. FaultOK' /\ NetOK'
  BY <1>4, <1>5, ReceiveOK
<1>7. RequestOK'
  BY <1>5, SameRequest DEF TypeOK
<1>8. ViewOK'
  BY <1>2, <1>4, <1>5 DEF TypeOK, ViewOK
<1>9. SequencerOK'
  <2>1. SequencerOK
    BY DEF TypeOK
  <2> QED BY <1>2, <1>3, <1>4, <1>5, <2>1 DEF SequencerOK
<1>10. DisplayOK'
  BY <1>2, <1>4, <1>5 DEF TypeOK, DisplayOK, displayVars
<1> QED BY <1>6, <1>7, <1>8, <1>9, <1>10 DEF TypeOK

LEMMA ReceiveS4A_Type ==
  ASSUME TypeOK, NEW p, p \in net, ReceiveS4A(p)
  PROVE  TypeOK'
<1>1. PICK q : hold_back_queue' = [hold_back_queue EXCEPT ![p.to] = q] /\ q \in Map(Member, Queue)
  BY ReceiveS4A_Does
<1>2. /\ Receive(p, {})
      /\ UNCHANGED <<viewVars, requestVars, displayVars, notificationGlobalSeq,
                     generatedGlobalSeq, txBuffer, sequenced>>
  BY DEF ReceiveS4A
<1>3. FaultOK' /\ NetOK'
  BY <1>2, ReceiveOK
<1>4. ViewOK' /\ RequestOK' /\ DisplayOK'
  BY <1>2, SameView, SameRequest, SameDisplay DEF TypeOK
<1>5. SequencerOK'
  BY <1>1, <1>2 DEF TypeOK, SequencerOK
<1> QED BY <1>3, <1>4, <1>5 DEF TypeOK

\* The own request that goes with a transmitted message.
LEMMA TxExpire_Does ==
  ASSUME TypeOK, NEW m \in Member, NEW g \in DOMAIN txBuffer[m], TxExpire(m, g)
  PROVE  /\ \E x : /\ txBuffer' = [txBuffer EXCEPT ![m] = x] /\ x \in Map(Number, Line)
                   /\ DOMAIN x \subseteq DOMAIN txBuffer[m]
                   /\ \A k \in DOMAIN x : x[k] = txBuffer[m][k]
         /\ \E b : /\ seqBuffer' = [seqBuffer EXCEPT ![m] = b] /\ b \in Map(Nat, Request)
                   /\ DOMAIN b \subseteq DOMAIN seqBuffer[m]
                   /\ \A l \in DOMAIN b : b[l] = seqBuffer[m][l]
                   /\ \A l \in DOMAIN seqBuffer[m] \ DOMAIN b :
                        seqBuffer[m][l].globalSeq # 0
<1> DEFINE own == {l \in DOMAIN seqBuffer[m] : seqBuffer[m][l].globalSeq = g}
<1>1. txBuffer[m] \in Map(Number, Line) /\ seqBuffer \in [Member -> Map(Nat, Request)]
  BY DEF TypeOK, SequencerOK, RequestOK
<1>2. g \in Number /\ DOMAIN seqBuffer[m] \subseteq Nat
  BY <1>1, MapUse
<1>3. \E x : /\ txBuffer' = [txBuffer EXCEPT ![m] = x] /\ x \in Map(Number, Line)
             /\ DOMAIN x \subseteq DOMAIN txBuffer[m]
             /\ \A k \in DOMAIN x : x[k] = txBuffer[m][k]
  <2>1. PICK x : x = Erase(txBuffer[m], g)
    OBVIOUS
  <2>2. txBuffer' = [txBuffer EXCEPT ![m] = x]
    BY <2>1 DEF TxExpire
  <2>3. x \in Map(Number, Line)
    BY <1>1, <2>1, EraseMap
  <2>4. /\ DOMAIN x = DOMAIN txBuffer[m] \ {g}
        /\ \A k \in DOMAIN txBuffer[m] \ {g} : x[k] = txBuffer[m][k]
    BY <2>1, EraseDef
  <2> QED BY <2>2, <2>3, <2>4
<1>4. CASE own = {}
  <2>1. seqBuffer' = seqBuffer
    BY <1>4, Zenon DEF TxExpire
  <2>2. seqBuffer' = [seqBuffer EXCEPT ![m] = seqBuffer[m]]
    BY <1>1, <2>1
  <2> QED BY <1>1, <1>3, <2>2
<1>5. CASE own # {}
  <2>1. Min(own) \in own
    <3>1. own \subseteq Nat
      BY <1>2
    <3> HIDE DEF own
    <3> QED BY <1>5, <3>1, SmallestOf
  <2>2. PICK l \in own : l = Min(own)
    BY <2>1
  <2>3. PICK b : b = Erase(seqBuffer[m], l)
    OBVIOUS
  <2>4. seqBuffer' = [seqBuffer EXCEPT ![m] = b]
    BY <1>5, <2>2, <2>3, Zenon DEF TxExpire
  <2>5. seqBuffer[m] \in Map(Nat, Request)
    BY <1>1
  <2>8. b \in Map(Nat, Request)
    BY <2>3, <2>5, EraseMap
  <2>6. /\ DOMAIN b = DOMAIN seqBuffer[m] \ {l}
        /\ \A k \in DOMAIN seqBuffer[m] \ {l} : b[k] = seqBuffer[m][k]
    BY <2>3, EraseDef
  <2>7. \A k \in DOMAIN seqBuffer[m] \ DOMAIN b : seqBuffer[m][k].globalSeq # 0
    <3>1. seqBuffer[m][l].globalSeq = g /\ g # 0
      BY <1>2, <2>2 DEF Number
    <3> QED BY <2>6, <3>1
  <2> QED BY <1>3, <2>4, <2>6, <2>7, <2>8
<1> QED BY <1>4, <1>5

LEMMA TxExpire_Type ==
  ASSUME TypeOK, NEW m \in Member, NEW g \in DOMAIN txBuffer[m], TxExpire(m, g)
  PROVE  TypeOK'
<1>1. PICK x : txBuffer' = [txBuffer EXCEPT ![m] = x] /\ x \in Map(Number, Line)
  BY TxExpire_Does
<1>2. PICK b : seqBuffer' = [seqBuffer EXCEPT ![m] = b] /\ b \in Map(Nat, Request)
  BY TxExpire_Does
<1>3. UNCHANGED <<viewVars, localSeq, chatMsg, typed, forgotten, displayVars, net, faultVars,
                  notificationGlobalSeq, generatedGlobalSeq, hold_back_queue, sequenced>>
  BY DEF TxExpire
<1>4. ViewOK' /\ DisplayOK' /\ FaultOK' /\ NetOK'
  BY <1>3, SameView, SameDisplay, SameFault, SameNet DEF TypeOK
<1>5. RequestOK'
  BY <1>2, <1>3 DEF TypeOK, RequestOK
<1>6. SequencerOK'
  BY <1>1, <1>3 DEF TypeOK, SequencerOK
<1> QED BY <1>4, <1>5, <1>6 DEF TypeOK

\* A new request waits.
LEMMA NewRequestKept ==
  ASSUME RequestOK, NEW m \in Member, NEW l \in Nat, NEW joins \in Member \cup {NoOne},
         NEW b, b = Insert(seqBuffer[m], l, NewRequest(joins))
  PROVE  /\ b \in Map(Nat, Request) /\ DOMAIN b = DOMAIN seqBuffer[m] \cup {l}
         /\ \A k \in DOMAIN seqBuffer[m] : b[k] = seqBuffer[m][k]
         /\ l \notin DOMAIN seqBuffer[m] => b[l].globalSeq = 0
<1>1. seqBuffer[m] \in Map(Nat, Request)
  BY DEF RequestOK
<1>2. PICK r : r = NewRequest(joins)
  OBVIOUS
<1>3. r \in Request /\ r.globalSeq = 0
  BY <1>2 DEF NewRequest, Request
<1>4. b \in Map(Nat, Request)
  BY <1>1, <1>2, <1>3, InsertMap
<1>5. /\ DOMAIN b = DOMAIN seqBuffer[m] \cup {l}
      /\ \A k \in DOMAIN seqBuffer[m] : b[k] = seqBuffer[m][k]
      /\ l \notin DOMAIN seqBuffer[m] => b[l] = r
  BY <1>2 DEF Insert
<1> QED BY <1>3, <1>4, <1>5

LEMMA Type_Type ==
  ASSUME TypeOK, NEW m \in Member, Type(m)
  PROVE  TypeOK'
<1>1. PICK l \in Number : l = localSeq[m] + 1
  BY DEF TypeOK, RequestOK, Number
<1>2. PICK b : b = Insert(seqBuffer[m], l, NewRequest(NoOne))
  OBVIOUS
<1>3. /\ typed' = [typed EXCEPT ![m] = @ + 1] /\ localSeq' = [localSeq EXCEPT ![m] = l]
      /\ chatMsg' = [chatMsg EXCEPT ![m] = l] /\ seqBuffer' = [seqBuffer EXCEPT ![m] = b]
      /\ Send({S0_(m, leader[m], l, NoOne)})
      /\ UNCHANGED <<viewVars, forgotten, sequencerVars, displayVars, notificationGlobalSeq>>
  BY <1>1, <1>2, Zenon DEF Type
<1>4. b \in Map(Nat, Request)
  BY <1>1, <1>2, NewRequestKept DEF TypeOK, Number
<1>5. RequestOK'
  BY <1>1, <1>3, <1>4 DEF TypeOK, RequestOK, Number
<1>6. PacketOK(S0_(m, leader[m], l, NoOne))
  BY <1>1 DEF PacketOK, S0_, TypeOK, ViewOK
<1>7. NetOK' /\ FaultOK'
  <2>1. \A q \in {S0_(m, leader[m], l, NoOne)} : PacketOK(q)
    BY <1>6
  <2>2. Sent({S0_(m, leader[m], l, NoOne)}) /\ UNCHANGED faultVars
    BY <1>3 DEF Send
  <2> QED BY <2>1, <2>2, SentOK, SameFault DEF TypeOK
<1>8. ViewOK' /\ SequencerOK' /\ DisplayOK'
  BY <1>3, SameView, SameSequencer, SameDisplay DEF TypeOK
<1> QED BY <1>5, <1>7, <1>8 DEF TypeOK

LEMMA AskToJoin_Type ==
  ASSUME TypeOK, NEW m \in Member, NEW c \in Member, AskToJoin(m, c)
  PROVE  TypeOK'
<1>1. /\ up' = [up EXCEPT ![m] = "joining"] /\ localSeq' = [localSeq EXCEPT ![m] = @ + 1]
      /\ Sent({N0_(m, c)}) /\ UNCHANGED faultVars
      /\ UNCHANGED <<leader, participants, seqNumber, chatMsg, seqBuffer, typed,
                     forgotten, sequencerVars, displayVars, notificationGlobalSeq>>
  BY DEF AskToJoin, Send
<1>2. \A q \in {N0_(m, c)} : PacketOK(q)
  BY DEF PacketOK, N0_
<1>3. NetOK' /\ FaultOK'
  BY <1>1, <1>2, SentOK, SameFault DEF TypeOK
<1>4. ViewOK' /\ RequestOK'
  BY <1>1 DEF TypeOK, ViewOK, RequestOK
<1>5. SequencerOK' /\ DisplayOK'
  BY <1>1, SameSequencer, SameDisplay DEF TypeOK
<1> QED BY <1>3, <1>4, <1>5 DEF TypeOK

LEMMA Gone_Type ==
  ASSUME TypeOK, NEW m \in Member, Gone(m)
  PROVE  TypeOK'
<1>1. /\ up' = [up EXCEPT ![m] = "gone"] /\ net' \subseteq net
      /\ UNCHANGED <<leader, participants, seqNumber, requestVars, sequencerVars,
                     displayVars, notificationGlobalSeq, faultVars>>
  BY DEF Gone
<1>2. ViewOK'
  BY <1>1 DEF TypeOK, ViewOK
<1> QED BY <1>1, <1>2, SameRequest, SameSequencer, SameDisplay, SameFault, SameNet DEF TypeOK

LEMMA JoinTimeoutGoes ==
  ASSUME NEW m \in Member, JoinTimeout(m)
  PROVE  Gone(m)
BY DEF JoinTimeout, Gone

LEMMA ReceiveN0_Type ==
  ASSUME TypeOK, NEW p, p \in net, ReceiveN0_(p)
  PROVE  TypeOK'
<1> DEFINE m == p.to
<1>0. m \in Member /\ p.from \in Member
  BY DEF TypeOK, NetOK, PacketOK, ReceiveN0_
<1>1. PICK l \in Number : l = localSeq[m] + 1
  BY <1>0 DEF TypeOK, RequestOK, Number
<1>2. PICK b : b = Insert(seqBuffer[m], l, NewRequest(p.from))
  OBVIOUS
<1>3. /\ localSeq' = [localSeq EXCEPT ![m] = l]
      /\ seqBuffer' = [seqBuffer EXCEPT ![m] = b]
      /\ Receive(p, {S0_(m, leader[m], l, p.from)})
      /\ UNCHANGED <<viewVars, chatMsg, typed, forgotten, sequencerVars, displayVars,
                     notificationGlobalSeq>>
  BY <1>1, <1>2, Zenon DEF ReceiveN0_
<1>4. b \in Map(Nat, Request)
  BY <1>0, <1>1, <1>2, NewRequestKept DEF TypeOK, Number
<1>5. RequestOK'
  BY <1>0, <1>1, <1>3, <1>4 DEF TypeOK, RequestOK, Number
<1>6. \A q \in {S0_(m, leader[m], l, p.from)} : PacketOK(q)
  BY <1>0, <1>1 DEF PacketOK, S0_, TypeOK, ViewOK
<1>7. NetOK' /\ FaultOK'
  BY <1>3, <1>6, ReceiveOK
<1>8. ViewOK' /\ SequencerOK' /\ DisplayOK'
  BY <1>3, SameView, SameSequencer, SameDisplay DEF TypeOK
<1> QED BY <1>5, <1>7, <1>8 DEF TypeOK

LEMMA ReceiveS0A_Type ==
  ASSUME TypeOK, NEW p, p \in net, ReceiveS0A(p)
  PROVE  TypeOK'
<1>1. PICK b : seqBuffer' = [seqBuffer EXCEPT ![p.to] = b] /\ b \in Map(Nat, Request)
  BY ReceiveS0A_Does
<1>2. /\ Receive(p, {})
      /\ UNCHANGED <<viewVars, localSeq, chatMsg, typed, forgotten, sequencerVars,
                     displayVars, notificationGlobalSeq>>
  BY DEF ReceiveS0A
<1>3. RequestOK'
  BY <1>1, <1>2 DEF TypeOK, RequestOK
<1>4. NetOK' /\ FaultOK'
  BY <1>2, ReceiveOK
<1>5. ViewOK' /\ SequencerOK' /\ DisplayOK'
  BY <1>2, SameView, SameSequencer, SameDisplay DEF TypeOK
<1> QED BY <1>3, <1>4, <1>5 DEF TypeOK

LEMMA Resend_Type ==
  ASSUME TypeOK, NEW m \in Member, NEW l \in DOMAIN seqBuffer[m], Resend(m, l)
  PROVE  TypeOK'
<1>1. PICK b : seqBuffer' = [seqBuffer EXCEPT ![m] = b] /\ b \in Map(Nat, Request)
  BY Resend_Does
<1>2. /\ Sent(IF chatMsg[m] = 0 THEN {} ELSE {S0_(m, leader[m], chatMsg[m], NoOne)})
      /\ resends' = resends + 1 /\ UNCHANGED <<losses, duplicates, budget>>
      /\ UNCHANGED <<viewVars, localSeq, chatMsg, typed, forgotten, sequencerVars,
                     displayVars, notificationGlobalSeq>>
  BY DEF Resend
<1>3. RequestOK'
  BY <1>1, <1>2 DEF TypeOK, RequestOK
<1>4. NetOK'
  <2>1. \A q \in (IF chatMsg[m] = 0 THEN {} ELSE {S0_(m, leader[m], chatMsg[m], NoOne)}) : PacketOK(q)
    BY DEF TypeOK, ViewOK, RequestOK, PacketOK, S0_, Number
  <2> QED BY <1>2, <2>1, SentOK
<1>5. FaultOK'
  BY <1>2 DEF TypeOK, FaultOK
<1>6. ViewOK' /\ SequencerOK' /\ DisplayOK'
  BY <1>2, SameView, SameSequencer, SameDisplay DEF TypeOK
<1> QED BY <1>3, <1>4, <1>5, <1>6 DEF TypeOK

LEMMA GiveUp_Does ==
  ASSUME TypeOK, NEW m \in Member, NEW l \in DOMAIN seqBuffer[m], GiveUp(m, l)
  PROVE  \E b : /\ seqBuffer' = [seqBuffer EXCEPT ![m] = b] /\ b \in Map(Nat, Request)
                /\ DOMAIN b = DOMAIN seqBuffer[m] \ {l}
                /\ \A k \in DOMAIN b : b[k] = seqBuffer[m][k]
<1>1. seqBuffer[m] \in Map(Nat, Request)
  BY DEF TypeOK, RequestOK
<1>2. PICK b : b = Erase(seqBuffer[m], l)
  OBVIOUS
<1>3. seqBuffer' = [seqBuffer EXCEPT ![m] = b]
  BY <1>2 DEF GiveUp
<1>4. b \in Map(Nat, Request)
  BY <1>1, <1>2, EraseMap
<1>5. /\ DOMAIN b = DOMAIN seqBuffer[m] \ {l}
      /\ \A k \in DOMAIN seqBuffer[m] \ {l} : b[k] = seqBuffer[m][k]
  BY <1>2, EraseDef
<1> QED BY <1>3, <1>4, <1>5

LEMMA GiveUp_Type ==
  ASSUME TypeOK, NEW m \in Member, NEW l \in DOMAIN seqBuffer[m], GiveUp(m, l)
  PROVE  TypeOK'
<1>1. PICK b : seqBuffer' = [seqBuffer EXCEPT ![m] = b] /\ b \in Map(Nat, Request)
  BY GiveUp_Does
<1>2. /\ forgotten' = [forgotten EXCEPT ![m] = @ \cup {l}]
      /\ UNCHANGED <<viewVars, localSeq, chatMsg, typed, sequencerVars, displayVars,
                     notificationGlobalSeq, net, faultVars>>
  BY DEF GiveUp
<1>3. l \in Nat
  BY RequestIs, MapUse DEF TypeOK
<1>4. RequestOK'
  BY <1>1, <1>2, <1>3 DEF TypeOK, RequestOK
<1>5. ViewOK' /\ SequencerOK' /\ DisplayOK' /\ FaultOK' /\ NetOK'
  BY <1>2, SameView, SameSequencer, SameDisplay, SameFault, SameNet DEF TypeOK
<1> QED BY <1>4, <1>5 DEF TypeOK

LEMMA ReceiveS4_Type ==
  ASSUME TypeOK, NEW p, p \in net, ReceiveS4_(p)
  PROVE  TypeOK'
<1> DEFINE m == p.to
           out == IF p.l \in DOMAIN seqBuffer[m]
                  THEN {S0_(m, p.from, p.l, seqBuffer[m][p.l].joins)}
                  ELSE {S4A(m, p.from, p.l)}
<1>0. m \in Member /\ p.from \in Member /\ p.l \in Number
  BY DEF TypeOK, NetOK, PacketOK, ReceiveS4_
<1>1. Receive(p, out) /\ UNCHANGED <<viewVars, requestVars, sequencerVars, displayVars,
                                     notificationGlobalSeq>>
  BY DEF ReceiveS4_
<1>2. \A q \in out : PacketOK(q)
  <2>1. p.l \in DOMAIN seqBuffer[m] => seqBuffer[m][p.l].joins \in Member \cup {NoOne}
    BY <1>0, RequestIs DEF TypeOK, Request
  <2> QED BY <1>0, <2>1 DEF PacketOK, S0_, S4A
<1> HIDE DEF out
<1>3. NetOK' /\ FaultOK'
  BY <1>1, <1>2, ReceiveOK
<1> QED BY <1>1, <1>3, SameView, SameRequest, SameSequencer, SameDisplay DEF TypeOK

LEMMA Chat_Type ==
  ASSUME TypeOK, NEW p, p \in net, p.tag \in {"C0_", "S3A"}, Chat(p)
  PROVE  TypeOK'
<1> DEFINE m == p.to
<1>1. PICK q, d : Displayed(p, q, d) /\ ChatStep(p, q, d)
  BY Chat_Does
<1>2. /\ m \in Member /\ q \in Map(Number, Line) /\ d.g \in Nat /\ d.ask \in Nat
      /\ d.lines \in Shown
  BY <1>1 DEF Displayed
<1> DEFINE out == IF d.ask = 0 THEN {} ELSE {S3_(m, r, d.ask) : r \in participants[m]}
<1>3. /\ holdBackQ' = [holdBackQ EXCEPT ![m] = q]
      /\ globalSeq' = [globalSeq EXCEPT ![m] = d.g]
      /\ Display(m, d.lines)
      /\ globalSeqLost' = IF d.ask = 0 THEN globalSeqLost
                          ELSE [globalSeqLost EXCEPT ![m] = Insert(@, d.ask, 0)]
      /\ Receive(p, out)
      /\ UNCHANGED <<up, leader, participants, localSeq, chatMsg, typed, forgotten,
                     sequencerVars, notificationGlobalSeq, givenUp>>
  BY <1>1 DEF ChatStep
<1>4. /\ shown' \in [Member -> Shown] /\ seqNumber' \in [Member -> [Member -> Nat]]
      /\ \E b : seqBuffer' = [seqBuffer EXCEPT ![m] = b] /\ b \in Map(Nat, Request)
  BY <1>2, <1>3, Display_Does DEF Drops
<1>5. \A x \in out : PacketOK(x)
  BY <1>2 DEF TypeOK, ViewOK, PacketOK, S3_
<1> HIDE DEF out
<1>6. NetOK' /\ FaultOK'
  BY <1>3, <1>5, ReceiveOK
<1>7. globalSeqLost' \in [Member -> Map(Nat, Nat)]
  <2>1. globalSeqLost \in [Member -> Map(Nat, Nat)]
    BY DEF TypeOK, DisplayOK
  <2>2. PICK f : f = Insert(globalSeqLost[m], d.ask, 0)
    OBVIOUS
  <2>3. f \in Map(Nat, Nat)
    BY <1>2, <2>1, <2>2, InsertMap
  <2>4. globalSeqLost' = globalSeqLost \/ globalSeqLost' = [globalSeqLost EXCEPT ![m] = f]
    BY <1>3, <2>2
  <2> QED BY <1>2, <2>1, <2>3, <2>4
<1>8. DisplayOK'
  BY <1>2, <1>3, <1>4, <1>7 DEF TypeOK, DisplayOK
<1>9. RequestOK' /\ ViewOK'
  <2>1. PICK b \in Map(Nat, Request) : seqBuffer' = [seqBuffer EXCEPT ![m] = b]
    BY <1>4
  <2>2. seqBuffer \in [Member -> Map(Nat, Request)]
    BY DEF TypeOK, RequestOK
  <2>3. seqBuffer' \in [Member -> Map(Nat, Request)]
    BY <1>2, <2>1, <2>2
  <2>4. RequestOK'
    BY <1>3, <2>3 DEF TypeOK, RequestOK
  <2>5. ViewOK'
    BY <1>3, <1>4 DEF TypeOK, ViewOK
  <2> QED BY <2>4, <2>5
<1>10. SequencerOK'
  BY <1>3, SameSequencer DEF TypeOK
<1> QED BY <1>6, <1>8, <1>9, <1>10 DEF TypeOK

\* A known line is sent with its number.
LEMMA AnswerOK ==
  ASSUME TypeOK, NEW m \in Member, NEW to \in Member, NEW g \in Nat, NEW q \in Answer(m, to, g)
  PROVE  /\ PacketOK(q)
         /\ \/ q.tag = "S3N"
            \/ q.tag = "S3A" /\ q.g = g /\ g \in DOMAIN holdBackQ[m] /\ q.line = holdBackQ[m][g]
            \/ q.tag = "S3A" /\ q.g = g /\ g \in DOMAIN txBuffer[m] /\ q.line = txBuffer[m][g]
<1>1. holdBackQ[m] \in Map(Number, Line) /\ txBuffer[m] \in Map(Number, Line)
  BY DEF TypeOK, DisplayOK, SequencerOK
<1>2. \A k \in DOMAIN holdBackQ[m] : k \in Number /\ holdBackQ[m][k] \in Line
  BY <1>1, MapUse
<1>3. \A k \in DOMAIN txBuffer[m] : k \in Number /\ txBuffer[m][k] \in Line
  BY <1>1, MapUse
<1>4. CASE g \in DOMAIN holdBackQ[m]
  <2>1. q = S3A(to, g, holdBackQ[m][g])
    BY <1>4 DEF Answer
  <2> QED BY <1>2, <1>4, <2>1 DEF S3A, PacketOK
<1>5. CASE g \notin DOMAIN holdBackQ[m] /\ g \in DOMAIN txBuffer[m]
  <2>1. q = S3A(txBuffer[m][g][1], g, txBuffer[m][g])
    BY <1>5 DEF Answer
  <2>2. txBuffer[m][g][1] \in Member
    BY <1>3, <1>5 DEF Line
  <2> QED BY <1>3, <1>5, <2>1, <2>2 DEF S3A, PacketOK
<1>6. CASE g \notin DOMAIN holdBackQ[m] /\ g \notin DOMAIN txBuffer[m]
  <2>1. q = S3N(to, g)
    BY <1>6 DEF Answer
  <2> QED BY <2>1 DEF S3N, PacketOK
<1> QED BY <1>4, <1>5, <1>6

LEMMA ReceiveS3_Type ==
  ASSUME TypeOK, NEW p, p \in net, ReceiveS3_(p)
  PROVE  TypeOK'
<1>1. /\ Receive(p, Answer(p.to, p.from, p.g))
      /\ UNCHANGED <<viewVars, requestVars, sequencerVars, displayVars, notificationGlobalSeq>>
  BY DEF ReceiveS3_
<1>2. p.to \in Member /\ p.from \in Member /\ p.g \in Nat
  BY DEF TypeOK, NetOK, PacketOK, ReceiveS3_
<1>3. \A q \in Answer(p.to, p.from, p.g) : PacketOK(q)
  BY <1>2, AnswerOK
<1>4. NetOK' /\ FaultOK'
  BY <1>1, <1>3, ReceiveOK
<1> QED BY <1>1, <1>4, SameView, SameRequest, SameSequencer, SameDisplay DEF TypeOK

\* What a number that nobody knows changes.
LEMMA ReceiveS3N_Does ==
  ASSUME TypeOK, NEW p, p \in net, ReceiveS3N(p)
  PROVE  \/ UNCHANGED <<globalSeqLost, globalSeq, givenUp>>
         \/ /\ UNCHANGED <<globalSeq, givenUp>>
            /\ p.g \in DOMAIN globalSeqLost[p.to]
            /\ \E f : /\ globalSeqLost' = [globalSeqLost EXCEPT ![p.to] = f]
                      /\ f \in Map(Nat, Nat) /\ DOMAIN f = DOMAIN globalSeqLost[p.to]
         \/ /\ globalSeq' = [globalSeq EXCEPT ![p.to] = p.g + 1]
            /\ givenUp' = [givenUp EXCEPT ![p.to] = @ \cup {p.g}]
            /\ \E f : /\ globalSeqLost' = [globalSeqLost EXCEPT ![p.to] = f]
                      /\ f \in Map(Nat, Nat)
<1> DEFINE m == p.to
<1>0. m \in Member /\ globalSeqLost \in [Member -> Map(Nat, Nat)]
  BY DEF TypeOK, NetOK, PacketOK, DisplayOK
<1>1. PICK f : f = globalSeqLost[m] /\ f \in Map(Nat, Nat)
  BY <1>0
<1>2. f \in [DOMAIN f -> Nat] /\ DOMAIN f \subseteq Nat /\ IsFiniteSet(DOMAIN f)
  BY <1>1, MapDef
<1>3. CASE p.g \notin DOMAIN f
  BY <1>1, <1>3 DEF ReceiveS3N
<1>4. CASE p.g \in DOMAIN f /\ f[p.g] + 1 < Cardinality(participants[m])
  <2>1. PICK h : h = [f EXCEPT ![p.g] = f[p.g] + 1]
    OBVIOUS
  <2>2. h \in [DOMAIN f -> Nat] /\ DOMAIN h = DOMAIN f
    BY <1>2, <1>4, <2>1
  <2>3. h \in Map(Nat, Nat)
    BY <1>2, <2>2, MapDef
  <2>4. globalSeqLost' = [globalSeqLost EXCEPT ![m] = h] /\ UNCHANGED <<globalSeq, givenUp>>
    <3>1. /\ globalSeqLost' = [globalSeqLost EXCEPT ![m][p.g] = f[p.g] + 1]
          /\ UNCHANGED <<globalSeq, givenUp>>
      BY <1>1, <1>4, Zenon DEF ReceiveS3N
    <3> QED BY <1>1, <2>1, <3>1, Zenon
  <2> QED BY <1>1, <1>4, <2>2, <2>3, <2>4
<1>5. CASE p.g \in DOMAIN f /\ ~(f[p.g] + 1 < Cardinality(participants[m]))
  <2>1. PICK h : h = Erase(f, p.g)
    OBVIOUS
  <2>2. h \in Map(Nat, Nat)
    BY <1>1, <2>1, EraseMap
  <2>3. /\ globalSeqLost' = [globalSeqLost EXCEPT ![m] = h]
        /\ globalSeq' = [globalSeq EXCEPT ![m] = p.g + 1]
        /\ givenUp' = [givenUp EXCEPT ![m] = @ \cup {p.g}]
    BY <1>1, <1>5, <2>1, Zenon DEF ReceiveS3N
  <2> QED BY <2>2, <2>3
<1> QED BY <1>3, <1>4, <1>5

LEMMA ReceiveS3N_Type ==
  ASSUME TypeOK, NEW p, p \in net, ReceiveS3N(p)
  PROVE  TypeOK'
<1>1. /\ Receive(p, {})
      /\ UNCHANGED <<viewVars, requestVars, sequencerVars, notificationGlobalSeq, holdBackQ, shown>>
  BY DEF ReceiveS3N
<1>2. p.to \in Member /\ p.g \in Nat
  BY DEF TypeOK, NetOK, PacketOK, ReceiveS3N
<1>3. /\ globalSeqLost' \in [Member -> Map(Nat, Nat)] /\ globalSeq' \in [Member -> Nat]
      /\ givenUp' \in [Member -> SUBSET Nat]
  <2>1. /\ globalSeqLost \in [Member -> Map(Nat, Nat)] /\ globalSeq \in [Member -> Nat]
        /\ givenUp \in [Member -> SUBSET Nat]
    BY DEF TypeOK, DisplayOK
  <2> QED BY <1>2, <2>1, ReceiveS3N_Does
<1>4. DisplayOK'
  BY <1>1, <1>3 DEF TypeOK, DisplayOK
<1>5. NetOK' /\ FaultOK'
  BY <1>1, ReceiveOK
<1> QED BY <1>1, <1>4, <1>5, SameView, SameRequest, SameSequencer DEF TypeOK

LEMMA ReceiveN0A_Type ==
  ASSUME TypeOK, NEW p, p \in net, ReceiveN0A(p)
  PROVE  TypeOK'
<1>1. /\ notificationGlobalSeq' = [notificationGlobalSeq EXCEPT ![p.to] = Largest(@, p.g)]
      /\ up' = [up EXCEPT ![p.to] = "in"]
      /\ participants' = [participants EXCEPT ![p.to] = p.list]
      /\ seqNumber' = [seqNumber EXCEPT ![p.to] = [r \in Member |->
           IF r \in p.list \ participants[p.to] THEN p.seqs[r] ELSE @[r]]]
      /\ leader' = [leader EXCEPT ![p.to] = p.leader]
      /\ Receive(p, {})
      /\ UNCHANGED <<requestVars, sequencerVars, displayVars>>
  BY DEF ReceiveN0A
<1>2. /\ p.to \in Member /\ p.g \in Nat /\ p.leader \in Member /\ p.list \in SUBSET Member
      /\ p.seqs \in [Member -> Nat]
  BY DEF TypeOK, NetOK, PacketOK, ReceiveN0A
<1>3. ViewOK'
  <2>1. seqNumber' \in [Member -> [Member -> Nat]]
    <3>1. seqNumber \in [Member -> [Member -> Nat]]
      BY DEF TypeOK, ViewOK
    <3> DEFINE new == [r \in Member |-> IF r \in p.list \ participants[p.to]
                                        THEN p.seqs[r] ELSE seqNumber[p.to][r]]
    <3>2. new \in [Member -> Nat]
      BY <1>2, <3>1
    <3>3. seqNumber' = [seqNumber EXCEPT ![p.to] = new]
      BY <1>1
    <3> HIDE DEF new
    <3> QED BY <3>1, <3>2, <3>3
  <2> QED BY <1>1, <1>2, <2>1 DEF TypeOK, ViewOK
<1>4. DisplayOK'
  BY <1>1, <1>2 DEF TypeOK, DisplayOK, displayVars, Largest
<1>5. NetOK' /\ FaultOK'
  BY <1>1, ReceiveOK
<1> QED BY <1>1, <1>3, <1>4, <1>5, SameRequest, SameSequencer DEF TypeOK

LEMMA RemoveMember_Type ==
  ASSUME TypeOK, NEW m \in Member, NEW c \in Member, RemoveMember(m, c)
  PROVE  TypeOK'
<1>1. PICK t : /\ WorkOK(t) /\ t.notification = t.generated
               /\ generatedGlobalSeq' = [generatedGlobalSeq EXCEPT ![m] = t.generated]
               /\ notificationGlobalSeq' = [notificationGlobalSeq EXCEPT ![m] = t.notification]
               /\ participants' = [participants EXCEPT ![m] = t.ps]
               /\ Sent(t.out)
  BY RemoveMember_Does
<1>2. /\ hold_back_queue' = [hold_back_queue EXCEPT ![m] = Erase(@, c)]
      /\ UNCHANGED <<up, leader, seqNumber, requestVars, sequenced, displayVars>>
      /\ UNCHANGED faultVars
  BY DEF RemoveMember, Send
<1>3. /\ t.generated \in Nat /\ t.notification \in Nat /\ t.ps \in SUBSET Member
      /\ \A p \in t.out : PacketOK(p)
  BY <1>1 DEF WorkOK
<1>4. ViewOK' /\ DisplayOK'
  BY <1>1, <1>2, <1>3 DEF TypeOK, ViewOK, DisplayOK, displayVars
<1>5. SequencerOK'
  <2>1. hold_back_queue \in [Member -> Map(Member, Queue)]
    BY DEF TypeOK, SequencerOK
  <2>2. PICK f : f = hold_back_queue[m] /\ f \in Map(Member, Queue)
    BY <2>1
  <2>3. Erase(f, c) \in Map(Member, Queue)
    BY <2>2, EraseMap
  <2>4. hold_back_queue' \in [Member -> Map(Member, Queue)]
    BY <1>2, <2>1, <2>2, <2>3
  <2>5. PICK x : txBuffer' = [txBuffer EXCEPT ![m] = x] /\ x \in Map(Number, Line)
    BY RemoveMember_Forgets
  <2>6. txBuffer' \in [Member -> Map(Number, Line)]
    BY <2>5 DEF TypeOK, SequencerOK
  <2> QED BY <1>1, <1>2, <1>3, <2>4, <2>6 DEF TypeOK, SequencerOK
<1>6. NetOK'
  BY <1>1, <1>3, SentOK
<1> QED BY <1>2, <1>4, <1>5, <1>6, SameRequest, SameFault DEF TypeOK

LEMMA TakeOver_Type ==
  ASSUME TypeOK, NEW m \in Member, TakeOver(m)
  PROVE  TypeOK'
<1>1. PICK t, q : /\ WorkOK(t)
                  /\ generatedGlobalSeq' = [generatedGlobalSeq EXCEPT ![m] = t.generated]
                  /\ notificationGlobalSeq' = [notificationGlobalSeq EXCEPT ![m] = t.notification]
                  /\ participants' = [participants EXCEPT ![m] = t.ps]
                  /\ q \in Map(Member, Queue)
                  /\ hold_back_queue' = [hold_back_queue EXCEPT ![m] = q]
                  /\ Sent(t.out)
  BY TakeOver_Does
<1>2. /\ leader' = [leader EXCEPT ![m] = m]
      /\ UNCHANGED <<up, seqNumber, requestVars, txBuffer, sequenced, displayVars>>
      /\ UNCHANGED faultVars
  BY DEF TakeOver, Send
<1>3. /\ t.generated \in Nat /\ t.notification \in Nat /\ t.ps \in SUBSET Member
      /\ \A p \in t.out : PacketOK(p)
  BY <1>1 DEF WorkOK
<1>4. ViewOK' /\ DisplayOK'
  BY <1>1, <1>2, <1>3 DEF TypeOK, ViewOK, DisplayOK, displayVars
<1>5. SequencerOK'
  BY <1>1, <1>2, <1>3 DEF TypeOK, SequencerOK
<1>6. NetOK'
  BY <1>1, <1>3, SentOK
<1> QED BY <1>2, <1>4, <1>5, <1>6, SameRequest, SameFault DEF TypeOK

LEMMA Lose_Type ==
  ASSUME TypeOK, NEW p, p \in net, Lose(p)
  PROVE  TypeOK'
<1>1. /\ losses' = losses + 1 /\ net' \subseteq net
      /\ UNCHANGED <<viewVars, requestVars, sequencerVars, displayVars,
                     notificationGlobalSeq, duplicates, resends, budget>>
  BY DEF Lose
<1>2. FaultOK'
  BY <1>1 DEF TypeOK, FaultOK
<1> QED BY <1>1, <1>2, SameView, SameRequest, SameSequencer, SameDisplay, SameNet DEF TypeOK

\* The steps, one by one.
LEMMA Steps ==
  ASSUME TypeOK, [Next]_vars
  PROVE  \/ \E p \in net :
              \/ up[p.to] = "in" /\ ReceiveS0_(p)
              \/ up[p.to] = "in" /\ ReceiveS4A(p)
              \/ up[p.to] = "in" /\ ReceiveN0_(p)
              \/ up[p.to] = "in" /\ ReceiveS0A(p)
              \/ up[p.to] = "in" /\ ReceiveS4_(p)
              \/ up[p.to] = "in" /\ p.tag \in {"C0_", "S3A"} /\ Chat(p)
              \/ up[p.to] = "in" /\ ReceiveS3_(p)
              \/ up[p.to] = "in" /\ ReceiveS3N(p)
              \/ ReceiveN0A(p)
              \/ Lose(p)
              \/ up[p.to] = "in" /\ p.tag = "S3A" /\ Receive(p, {})
                 /\ UNCHANGED <<viewVars, requestVars, sequencerVars, displayVars,
                                notificationGlobalSeq>>
         \/ \E m \in Member :
              \/ Type(m)
              \/ \E l \in DOMAIN seqBuffer[m] : Resend(m, l)
              \/ \E l \in DOMAIN seqBuffer[m] : GiveUp(m, l)
              \/ \E g \in DOMAIN txBuffer[m] : TxExpire(m, g)
              \/ TakeOver(m)
              \/ \E c \in Member : RemoveMember(m, c)
              \/ \E c \in Member : AskToJoin(m, c)
              \/ Gone(m)
         \/ UNCHANGED vars
<1>1. CASE UNCHANGED vars
  BY <1>1
<1>2. ASSUME NEW p \in net, Handle(p) \/ Lose(p)
      PROVE  \/ up[p.to] = "in" /\ ReceiveS0_(p)
             \/ up[p.to] = "in" /\ ReceiveS4A(p)
             \/ up[p.to] = "in" /\ ReceiveN0_(p)
             \/ up[p.to] = "in" /\ ReceiveS0A(p)
             \/ up[p.to] = "in" /\ ReceiveS4_(p)
             \/ up[p.to] = "in" /\ p.tag \in {"C0_", "S3A"} /\ Chat(p)
             \/ up[p.to] = "in" /\ ReceiveS3_(p)
             \/ up[p.to] = "in" /\ ReceiveS3N(p)
             \/ ReceiveN0A(p)
             \/ Lose(p)
             \/ up[p.to] = "in" /\ p.tag = "S3A" /\ Receive(p, {})
                /\ UNCHANGED <<viewVars, requestVars, sequencerVars, displayVars,
                               notificationGlobalSeq>>
             \/ \E m \in Member : Gone(m)
  <2>1. ReceiveC0_(p) => p.tag \in {"C0_", "S3A"} /\ Chat(p)
    BY DEF ReceiveC0_
  <2>2. ReceiveS3A(p) => \/ p.tag \in {"C0_", "S3A"} /\ Chat(p)
                         \/ p.tag = "S3A" /\ Receive(p, {})
                            /\ UNCHANGED <<viewVars, requestVars, sequencerVars, displayVars,
                                           notificationGlobalSeq>>
    BY Zenon DEF ReceiveS3A
  <2>3. p.to \in Member
    BY DEF TypeOK, NetOK, PacketOK
  <2>4. BadPacket(p) => \E m \in Member : Gone(m)
    BY <2>3 DEF BadPacket
  <2> QED BY <1>2, <2>1, <2>2, <2>4, Zenon DEF Handle
<1>3. ASSUME NEW m \in Member, Timers(m)
      PROVE  \/ \E l \in DOMAIN seqBuffer[m] : Resend(m, l)
             \/ \E l \in DOMAIN seqBuffer[m] : GiveUp(m, l)
             \/ \E g \in DOMAIN txBuffer[m] : TxExpire(m, g)
             \/ TakeOver(m)
             \/ \E c \in Member : RemoveMember(m, c)
             \/ Gone(m)
  <2>1. participants[m] \subseteq Member
    BY DEF TypeOK, ViewOK
  <2> QED BY <1>3, <2>1, JoinTimeoutGoes, Zenon DEF Timers
<1>4. ASSUME NEW m \in Member, Crash(m)
      PROVE  Gone(m)
  BY <1>4 DEF Crash
<1>5. CASE \E p \in net : Handle(p) \/ Lose(p)
  BY <1>2, <1>5, Zenon
<1>6. CASE \E m \in Member : \/ Type(m) \/ Timers(m) \/ Crash(m)
                             \/ \E c \in Member : AskToJoin(m, c)
  BY <1>3, <1>4, <1>6, Zenon
<1> QED BY <1>1, <1>5, <1>6 DEF Next

LEMMA TypeStep == TypeOK /\ [Next]_vars => TypeOK'
<1> SUFFICES ASSUME TypeOK, [Next]_vars PROVE TypeOK'
  OBVIOUS
<1>1. ASSUME UNCHANGED vars
      PROVE  TypeOK'
  <2>1. /\ UNCHANGED viewVars /\ UNCHANGED requestVars /\ UNCHANGED sequencerVars
        /\ UNCHANGED <<displayVars, notificationGlobalSeq>> /\ UNCHANGED faultVars /\ net' = net
    BY <1>1 DEF vars
  <2> QED BY <2>1, SameView, SameRequest, SameSequencer, SameDisplay, SameFault, SameNet DEF TypeOK
<1>2. ASSUME NEW p \in net, p.tag = "S3A", Receive(p, {}),
             UNCHANGED <<viewVars, requestVars, sequencerVars, displayVars, notificationGlobalSeq>>
      PROVE  TypeOK'
  <2>1. NetOK' /\ FaultOK'
    BY <1>2, ReceiveOK
  <2> QED BY <1>2, <2>1, SameView, SameRequest, SameSequencer, SameDisplay DEF TypeOK
<1> QED BY <1>1, <1>2, Steps, ReceiveS0_Type, ReceiveS4A_Type, ReceiveN0_Type, ReceiveS0A_Type,
           ReceiveS4_Type, Chat_Type, ReceiveS3_Type, ReceiveS3N_Type, ReceiveN0A_Type, Lose_Type,
           Type_Type, Resend_Type, GiveUp_Type, TxExpire_Type, TakeOver_Type, RemoveMember_Type,
           AskToJoin_Type, Gone_Type

-----------------------------------------------------------------------------
\* The parts of the inductive invariant

\* A line on its way, held back, kept for sending again or displayed has the
\* number it was given.
LinesAreNumbered ==
  /\ \A p \in net : p.tag \in {"C0_", "S3A"} => <<p.g, p.line>> \in Numbered(sequenced)
  /\ \A m \in Member :
       /\ \A k \in DOMAIN txBuffer[m] : <<k, txBuffer[m][k]>> \in Numbered(sequenced)
       /\ \A k \in DOMAIN holdBackQ[m] : <<k, holdBackQ[m][k]>> \in Numbered(sequenced)
       /\ \A i \in 1..Len(shown[m]) : shown[m][i] \in Numbered(sequenced)

\* As long as the founder is there, it is the only leader.
FounderLeads ==
  /\ \A p \in net : up[p.to] \in {"joining", "in"}
  /\ up[Founder] \in {"in", "gone"} /\ leader[Founder] = Founder
  /\ notificationGlobalSeq[Founder] <= generatedGlobalSeq[Founder]
  /\ up[Founder] = "in" =>
       /\ \A m \in Member : leader[m] = Founder
       /\ \A m \in Member : m # Founder => txBuffer[m] = Empty
       /\ \A p \in net : /\ p.tag = "N0A" => p.leader = Founder /\ p.to # Founder
                         /\ p.tag = "S0_" => p.to = Founder
                         /\ p.tag = "S4_" => p.from = Founder

\* What a member that has displayed nothing has.
NothingYet(m) ==
  globalSeq[m] = 0 => /\ shown[m] = <<>> /\ givenUp[m] = {}
                      /\ DOMAIN holdBackQ[m] = {} /\ DOMAIN globalSeqLost[m] = {}

-----------------------------------------------------------------------------
\* Every line displayed has the number it was given

LEMMA NumberedGrows ==
  ASSUME NEW m, NEW s, NEW t, NEW from, NEW a, NEW n \in Nat, Numbers(m, s, t, from, a, n), WorkOK(s)
  PROVE  Numbered(s.log) \subseteq Numbered(t.log)
<1>1. s.log \in Log /\ t.log \in Log
  BY DEF Numbers, WorkOK
<1>2. /\ Len(s.log) \in Nat /\ DOMAIN s.log = 1..Len(s.log) /\ DOMAIN t.log = 1..Len(t.log)
      /\ Len(t.log) = Len(s.log) + n
      /\ \A k \in 1..Len(s.log) : t.log[k] = s.log[k]
  BY <1>1, LogFacts DEF Numbers
<1>3. \A k \in DOMAIN s.log : k \in DOMAIN t.log /\ t.log[k] = s.log[k]
  BY <1>2
<1> QED BY <1>3 DEF Numbered

\* What a step that displays nothing and numbers nothing leaves alone.
Quiet ==
  /\ \A q \in net' : q \in net \/ q.tag \notin {"C0_", "S3A"}
  /\ \A m \in Member : /\ DOMAIN txBuffer'[m] \subseteq DOMAIN txBuffer[m]
                       /\ \A k \in DOMAIN txBuffer'[m] : txBuffer'[m][k] = txBuffer[m][k]
  /\ UNCHANGED <<sequenced, holdBackQ, shown>>

LEMMA QuietIf ==
  ASSUME \A q \in net' : q \in net \/ q.tag \notin {"C0_", "S3A"},
         UNCHANGED <<sequencerVars, displayVars>>
  PROVE  Quiet
BY DEF Quiet, sequencerVars, displayVars

LEMMA QuietSteps ==
  ASSUME TypeOK,
         \/ \E p \in net :
              \/ ReceiveS4A(p) \/ ReceiveN0_(p) \/ ReceiveS0A(p) \/ ReceiveS4_(p)
              \/ ReceiveS3N(p) \/ ReceiveN0A(p) \/ Lose(p)
              \/ Receive(p, {})
                 /\ UNCHANGED <<viewVars, requestVars, sequencerVars, displayVars,
                                notificationGlobalSeq>>
         \/ \E m \in Member :
              \/ Type(m)
              \/ \E l \in DOMAIN seqBuffer[m] : Resend(m, l)
              \/ \E l \in DOMAIN seqBuffer[m] : GiveUp(m, l)
              \/ \E g \in DOMAIN txBuffer[m] : TxExpire(m, g)
              \/ TakeOver(m)
              \/ \E c \in Member : RemoveMember(m, c)
              \/ \E c \in Member : AskToJoin(m, c)
              \/ Gone(m)
         \/ UNCHANGED vars
  PROVE  Quiet
<1>1. ASSUME NEW p, Receive(p, {})
      PROVE  \A q \in net' : q \in net
  BY <1>1 DEF Receive
<1>2. ASSUME NEW p \in net, ReceiveS4A(p) PROVE Quiet
  BY <1>1, <1>2 DEF ReceiveS4A, Quiet, displayVars
<1>3. ASSUME NEW p \in net, ReceiveN0_(p) PROVE Quiet
  <2>1. \A q \in net' : q \in net \/ q.tag = "S0_"
    BY <1>3 DEF ReceiveN0_, Receive, S0_
  <2> QED BY <1>3, <2>1, QuietIf DEF ReceiveN0_
<1>4. ASSUME NEW p \in net, ReceiveS0A(p) PROVE Quiet
  BY <1>1, <1>4, QuietIf DEF ReceiveS0A
<1>5. ASSUME NEW p \in net, ReceiveS4_(p) PROVE Quiet
  <2>1. \A q \in net' : q \in net \/ q.tag \in {"S0_", "S4A"}
    BY <1>5 DEF ReceiveS4_, Receive, S0_, S4A
  <2> QED BY <1>5, <2>1, QuietIf DEF ReceiveS4_
<1>6. ASSUME NEW p \in net, ReceiveS3N(p) PROVE Quiet
  BY <1>1, <1>6 DEF ReceiveS3N, Quiet, sequencerVars
<1>7. ASSUME NEW p \in net, ReceiveN0A(p) PROVE Quiet
  BY <1>1, <1>7, QuietIf DEF ReceiveN0A
<1>8. ASSUME NEW p \in net, Lose(p) PROVE Quiet
  BY <1>8, QuietIf DEF Lose
<1>9. ASSUME NEW p \in net, Receive(p, {}),
             UNCHANGED <<viewVars, requestVars, sequencerVars, displayVars, notificationGlobalSeq>>
      PROVE  Quiet
  BY <1>1, <1>9, QuietIf
<1>10. ASSUME NEW m \in Member, Type(m) PROVE Quiet
  <2>1. \A q \in net' : q \in net \/ q.tag = "S0_"
    BY <1>10 DEF Type, Send, Sent, S0_
  <2> QED BY <1>10, <2>1, QuietIf DEF Type
<1>11. ASSUME NEW m \in Member, NEW l \in DOMAIN seqBuffer[m], Resend(m, l) PROVE Quiet
  <2>1. \A q \in net' : q \in net \/ q.tag = "S0_"
    BY <1>11 DEF Resend, Sent, S0_
  <2> QED BY <1>11, <2>1, QuietIf DEF Resend
<1>12. ASSUME NEW m \in Member, NEW l \in DOMAIN seqBuffer[m], GiveUp(m, l) PROVE Quiet
  BY <1>12, QuietIf DEF GiveUp
<1>13. ASSUME NEW m \in Member, NEW g \in DOMAIN txBuffer[m], TxExpire(m, g) PROVE Quiet
  <2>1. PICK x : /\ txBuffer' = [txBuffer EXCEPT ![m] = x]
                 /\ DOMAIN x \subseteq DOMAIN txBuffer[m]
                 /\ \A k \in DOMAIN x : x[k] = txBuffer[m][k]
    BY <1>13, TxExpire_Does
  <2>2. txBuffer \in [Member -> Map(Number, Line)]
    BY DEF TypeOK, SequencerOK
  <2>3. net' = net /\ UNCHANGED <<sequenced, holdBackQ, shown>>
    BY <1>13 DEF TxExpire, displayVars
  <2> QED BY <2>1, <2>2, <2>3 DEF Quiet
<1>14. ASSUME NEW m \in Member, TakeOver(m) PROVE Quiet
  <2>1. PICK t : Sent(t.out) /\ \A q \in t.out : q.tag = "N0A"
    BY <1>14, TakeOver_Does
  <2>2. \A q \in net' : q \in net \/ q.tag = "N0A"
    BY <2>1 DEF Sent
  <2>3. UNCHANGED <<txBuffer, sequenced, displayVars>>
    BY <1>14 DEF TakeOver
  <2> QED BY <2>2, <2>3 DEF Quiet, displayVars
<1>15. ASSUME NEW m \in Member, NEW c \in Member, RemoveMember(m, c) PROVE Quiet
  <2>1. PICK t : Sent(t.out) /\ \A q \in t.out : q.tag = "N0A"
    BY <1>15, RemoveMember_Does
  <2>2. \A q \in net' : q \in net \/ q.tag = "N0A"
    BY <2>1 DEF Sent
  <2>3. UNCHANGED <<sequenced, displayVars>>
    BY <1>15 DEF RemoveMember
  <2>4. PICK x : /\ txBuffer' = [txBuffer EXCEPT ![m] = x]
                 /\ DOMAIN x \subseteq DOMAIN txBuffer[m]
                 /\ \A k \in DOMAIN x : x[k] = txBuffer[m][k]
    BY <1>15, RemoveMember_Forgets
  <2>5. txBuffer \in [Member -> Map(Number, Line)]
    BY DEF TypeOK, SequencerOK
  <2> QED BY <2>2, <2>3, <2>4, <2>5 DEF Quiet, displayVars
<1>16. ASSUME NEW m \in Member, NEW c \in Member, AskToJoin(m, c) PROVE Quiet
  <2>1. \A q \in net' : q \in net \/ q.tag = "N0_"
    BY <1>16 DEF AskToJoin, Send, Sent, N0_
  <2> QED BY <1>16, <2>1, QuietIf DEF AskToJoin
<1>17. ASSUME NEW m \in Member, Gone(m) PROVE Quiet
  BY <1>17, QuietIf DEF Gone
<1>18. ASSUME UNCHANGED vars PROVE Quiet
  BY <1>18, QuietIf DEF vars
<1> QED BY <1>2, <1>3, <1>4, <1>5, <1>6, <1>7, <1>8, <1>9, <1>10, <1>11, <1>12, <1>13, <1>14,
           <1>15, <1>16, <1>17, <1>18

LEMMA LinesAfterQuiet ==
  ASSUME LinesAreNumbered, Quiet
  PROVE  LinesAreNumbered'
BY DEF LinesAreNumbered, Quiet

\* What a call for an S0_ packet does to the variables.
S0Step(p, t, q) ==
  /\ generatedGlobalSeq' = [generatedGlobalSeq EXCEPT ![p.to] = t.generated]
  /\ participants' = [participants EXCEPT ![p.to] = t.ps]
  /\ notificationGlobalSeq' = [notificationGlobalSeq EXCEPT ![p.to] = t.notification]
  /\ txBuffer' = [txBuffer EXCEPT ![p.to] = t.tx]
  /\ sequenced' = t.log
  /\ hold_back_queue' = [hold_back_queue EXCEPT ![p.to] = q]
  /\ \A x \in net' : x \in net \/ (x \in t.out /\ up[x.to] \in {"joining", "in"})
  /\ UNCHANGED <<up, leader, seqNumber, requestVars, displayVars>>

LEMMA ReceiveS0_Does ==
  ASSUME TypeOK, NEW p, p \in net, ReceiveS0_(p)
  PROVE  \E t, q, a, n, asked, msgs :
           /\ Handled(p, t, q, a, n, asked, msgs) /\ S0Step(p, t, q)
           /\ WorkOK(Asking(p.to, p.from, asked)) /\ WorkOK(t)
<1>1. PICK t, q, a, n, asked, msgs : Handled(p, t, q, a, n, asked, msgs) /\ Apply(p.to, t, q, p)
  BY ReceiveS0_Handled
<1>2. S0Step(p, t, q)
  BY <1>1 DEF Apply, S0Step, Receive
<1>3. WorkOK(t)
  BY <1>1 DEF Handled, Numbers
<1>4. p.to \in Member /\ p.from \in Member
  BY DEF TypeOK, NetOK, PacketOK, ReceiveS0_
<1>5. \A x \in asked : PacketOK(x)
  <2>1. \A x \in asked : Asked(p, x)
    BY <1>1 DEF Handled
  <2>2. p.l \in Nat
    BY DEF TypeOK, NetOK, PacketOK, ReceiveS0_, Number
  <2> QED BY <1>4, <2>1, <2>2 DEF Asked, PacketOK
<1>6. WorkOK(Asking(p.to, p.from, asked))
  BY <1>4, <1>5, AskingOK
<1> QED BY <1>1, <1>2, <1>3, <1>6

LEMMA LinesAfterS0 ==
  ASSUME TypeOK, LinesAreNumbered, NEW p \in net, ReceiveS0_(p)
  PROVE  LinesAreNumbered'
<1>1. PICK t, q, a, n, asked, msgs : /\ Handled(p, t, q, a, n, asked, msgs) /\ S0Step(p, t, q)
                                     /\ WorkOK(Asking(p.to, p.from, asked)) /\ WorkOK(t)
  BY ReceiveS0_Does
<1> DEFINE m == p.to
           s == Asking(p.to, p.from, asked)
<1>2. s.log = sequenced /\ s.tx = txBuffer[m] /\ s.out = asked
  BY DEF Asking
<1>3. Numbers(m, s, t, p.from, a, n) /\ n \in Nat
  BY <1>1 DEF Handled
<1>4. WorkOK(s)
  BY <1>1
<1> HIDE DEF s
<1>5. Numbered(sequenced) \subseteq Numbered(sequenced')
  <2>1. Numbered(s.log) \subseteq Numbered(t.log)
    BY <1>3, <1>4, NumberedGrows
  <2>2. sequenced' = t.log
    BY <1>1 DEF S0Step
  <2> QED BY <1>2, <2>1, <2>2
<1>6. m \in Member /\ txBuffer \in [Member -> Map(Number, Line)]
  BY DEF TypeOK, NetOK, PacketOK, SequencerOK
<1>7. \A k \in DOMAIN t.tx : <<k, t.tx[k]>> \in Numbered(sequenced')
  <2>1. \A k \in DOMAIN t.tx : \/ k \in DOMAIN s.tx /\ t.tx[k] = s.tx[k]
                               \/ <<k, t.tx[k]>> \in Numbered(t.log)
    BY <1>3 DEF Numbers
  <2>2. sequenced' = t.log
    BY <1>1 DEF S0Step
  <2>3. \A k \in DOMAIN txBuffer[m] : <<k, txBuffer[m][k]>> \in Numbered(sequenced)
    BY <1>6 DEF LinesAreNumbered
  <2> QED BY <1>2, <1>5, <2>1, <2>2, <2>3
<1>8. \A x \in t.out : x.tag \in {"C0_", "S3A"} => <<x.g, x.line>> \in Numbered(sequenced')
  <2> TAKE x \in t.out
  <2>1. CASE x \in s.out
    BY <1>1, <1>2, <2>1 DEF Handled, Asked
  <2>2. CASE x \notin s.out
    <3>1. \/ x.tag = "S0A" \/ x.tag = "N0A"
          \/ x.tag = "C0_" /\ <<x.g, x.line>> \in Numbered(t.log)
      BY <1>3, <2>2 DEF Numbers
    <3>2. sequenced' = t.log
      BY <1>1 DEF S0Step
    <3> QED BY <3>1, <3>2
  <2> QED BY <2>1, <2>2
<1>9. /\ \A x \in net' : x \in net \/ x \in t.out
      /\ \A c \in Member : txBuffer'[c] = IF c = m THEN t.tx ELSE txBuffer[c]
      /\ UNCHANGED <<holdBackQ, shown>>
  BY <1>1, <1>6 DEF S0Step, displayVars
<1>10. \A x \in net' : x.tag \in {"C0_", "S3A"} => <<x.g, x.line>> \in Numbered(sequenced')
  BY <1>5, <1>8, <1>9 DEF LinesAreNumbered
<1>11. ASSUME NEW c \in Member
       PROVE  /\ \A k \in DOMAIN txBuffer'[c] : <<k, txBuffer'[c][k]>> \in Numbered(sequenced')
              /\ \A k \in DOMAIN holdBackQ'[c] : <<k, holdBackQ'[c][k]>> \in Numbered(sequenced')
              /\ \A i \in 1..Len(shown'[c]) : shown'[c][i] \in Numbered(sequenced')
  BY <1>5, <1>7, <1>9 DEF LinesAreNumbered
<1> QED BY <1>10, <1>11 DEF LinesAreNumbered, Numbered

LEMMA LinesAfterChat ==
  ASSUME TypeOK, LinesAreNumbered, NEW p \in net, p.tag \in {"C0_", "S3A"}, Chat(p)
  PROVE  LinesAreNumbered'
<1>1. PICK q, d : Displayed(p, q, d) /\ ChatStep(p, q, d)
  BY Chat_Does
<1> DEFINE m == p.to
           N == Numbered(sequenced)
<1>2. /\ m \in Member /\ p.g \in Number /\ q = Insert(holdBackQ[m], p.g, p.line)
      /\ d.lines \in Shown
  BY <1>1 DEF Displayed
<1>3. \A k \in DOMAIN q : <<k, q[k]>> \in N
  <2>1. <<p.g, p.line>> \in N
    BY DEF LinesAreNumbered
  <2>2. \A k \in DOMAIN holdBackQ[m] : <<k, holdBackQ[m][k]>> \in N
    BY <1>2 DEF LinesAreNumbered
  <2>3. /\ DOMAIN q = DOMAIN holdBackQ[m] \cup {p.g}
        /\ \A x \in DOMAIN holdBackQ[m] : q[x] = holdBackQ[m][x]
        /\ p.g \notin DOMAIN holdBackQ[m] => q[p.g] = p.line
    BY <1>2 DEF Insert
  <2> HIDE DEF N
  <2> QED BY <2>1, <2>2, <2>3
<1>4. \A i \in 1..Len(d.lines) : d.lines[i] \in N
  <2>1. CASE First(m)
    <3>1. Len(d.lines) = 1 /\ d.lines[1] = <<p.g, p.line>>
      BY <1>1, <2>1 DEF Displayed
    <3>2. <<p.g, p.line>> \in N
      BY DEF LinesAreNumbered
    <3> HIDE DEF N
    <3> QED BY <3>1, <3>2
  <2>2. CASE ~First(m)
    <3>1. PICK k \in Nat : Walked(m, q, d, k)
      BY <1>1, <2>2 DEF Displayed
    <3>2. \A i \in 1..Len(d.lines) : \E x \in DOMAIN q : d.lines[i] = <<x, q[x]>>
      BY <3>1 DEF Walked
    <3> HIDE DEF N
    <3> QED BY <1>3, <3>2
  <2> QED BY <2>1, <2>2
<1>5. /\ holdBackQ' = [holdBackQ EXCEPT ![m] = q]
      /\ UNCHANGED sequencerVars
      /\ Receive(p, IF d.ask = 0 THEN {} ELSE {S3_(m, r, d.ask) : r \in participants[m]})
      /\ Display(m, d.lines)
  BY <1>1 DEF ChatStep
<1>6. shown' = [shown EXCEPT ![m] = @ \o d.lines]
  BY <1>5 DEF Display
<1>7. \A x \in net' : x \in net \/ x.tag = "S3_"
  BY <1>5 DEF Receive, S3_
<1>8. holdBackQ \in [Member -> Map(Number, Line)] /\ shown \in [Member -> Shown]
  BY DEF TypeOK, DisplayOK
<1>9. \A i \in 1..Len(shown'[m]) : shown'[m][i] \in N
  <2>1. PICK s \in Shown : s = shown[m]
    BY <1>2, <1>8
  <2>2. PICK e \in Shown : e = d.lines
    BY <1>2
  <2>3. PICK f : f = s \o e /\ shown'[m] = f
    BY <1>2, <1>6, <1>8, <2>1, <2>2
  <2>4. /\ Len(f) = Len(s) + Len(e)
        /\ \A i \in 1..Len(s) : f[i] = s[i]
        /\ \A i \in 1..(Len(s) + Len(e)) :
              i \in 1..Len(s) \/ (i - Len(s) \in 1..Len(e) /\ f[i] = e[i - Len(s)])
    BY <2>3, ShownConcat
  <2>5. \A i \in 1..Len(s) : s[i] \in N
    BY <1>2, <2>1 DEF LinesAreNumbered
  <2>6. \A i \in 1..Len(e) : e[i] \in N
    BY <1>4, <2>2
  <2> HIDE DEF N
  <2> QED BY <2>3, <2>4, <2>5, <2>6
<1>10. UNCHANGED <<sequenced, txBuffer>>
  BY <1>5 DEF sequencerVars
<1>11. \A x \in net' : x.tag \in {"C0_", "S3A"} => <<x.g, x.line>> \in N
  BY <1>7 DEF LinesAreNumbered
<1>12. ASSUME NEW c \in Member
       PROVE  /\ \A k \in DOMAIN txBuffer'[c] : <<k, txBuffer'[c][k]>> \in N
              /\ \A k \in DOMAIN holdBackQ'[c] : <<k, holdBackQ'[c][k]>> \in N
              /\ \A i \in 1..Len(shown'[c]) : shown'[c][i] \in N
  <2>1. \A k \in DOMAIN txBuffer'[c] : <<k, txBuffer'[c][k]>> \in N
    BY <1>10 DEF LinesAreNumbered
  <2>2. CASE c = m
    <3>1. holdBackQ'[c] = q
      BY <1>2, <1>5, <1>8, <2>2
    <3> HIDE DEF N
    <3> QED BY <1>3, <1>9, <2>1, <2>2, <3>1
  <2>3. CASE c # m
    <3>1. holdBackQ'[c] = holdBackQ[c] /\ shown'[c] = shown[c]
      BY <1>5, <1>6, <1>8, <2>3
    <3> QED BY <2>1, <3>1 DEF LinesAreNumbered
  <2> QED BY <2>2, <2>3
<1> QED BY <1>10, <1>11, <1>12 DEF LinesAreNumbered

LEMMA LinesAfterS3 ==
  ASSUME TypeOK, LinesAreNumbered, NEW p \in net, ReceiveS3_(p)
  PROVE  LinesAreNumbered'
<1>1. p.to \in Member /\ p.from \in Member /\ p.g \in Nat
  BY DEF TypeOK, NetOK, PacketOK, ReceiveS3_
<1>2. \A x \in net' : x \in net \/ x \in Answer(p.to, p.from, p.g)
  BY DEF ReceiveS3_, Receive
<1>3. \A x \in Answer(p.to, p.from, p.g) :
        x.tag \in {"C0_", "S3A"} => <<x.g, x.line>> \in Numbered(sequenced)
  <2> TAKE x \in Answer(p.to, p.from, p.g)
  <2>1. \/ x.tag = "S3N"
        \/ x.g \in DOMAIN holdBackQ[p.to] /\ x.line = holdBackQ[p.to][x.g]
        \/ x.g \in DOMAIN txBuffer[p.to] /\ x.line = txBuffer[p.to][x.g]
    BY <1>1, AnswerOK
  <2> QED BY <1>1, <2>1 DEF LinesAreNumbered
<1>4. UNCHANGED <<sequencerVars, displayVars>>
  BY DEF ReceiveS3_
<1> QED BY <1>2, <1>3, <1>4 DEF LinesAreNumbered, sequencerVars, displayVars

LEMMA LinesStep == TypeOK /\ LinesAreNumbered /\ [Next]_vars => LinesAreNumbered'
<1> SUFFICES ASSUME TypeOK, LinesAreNumbered, [Next]_vars PROVE LinesAreNumbered'
  OBVIOUS
<1>1. \/ Quiet
      \/ \E p \in net : \/ ReceiveS0_(p)
                        \/ p.tag \in {"C0_", "S3A"} /\ Chat(p)
                        \/ ReceiveS3_(p)
  BY Steps, QuietSteps
<1> QED BY <1>1, LinesAfterQuiet, LinesAfterS0, LinesAfterChat, LinesAfterS3

LEMMA LinesInit == Init => LinesAreNumbered
BY EmptyMap DEF Init, LinesAreNumbered

-----------------------------------------------------------------------------
\* The founder leads

\* A new packet that agrees with the founder being the leader.
Loyal(q) ==
  /\ up[q.to] \in {"joining", "in"}
  /\ up[Founder] = "in" => /\ q.tag = "N0A" => q.leader = Founder /\ q.to # Founder
                           /\ q.tag = "S0_" => q.to = Founder
                           /\ q.tag = "S4_" => q.from = Founder

LEMMA LeadsIf ==
  ASSUME FounderLeads, UNCHANGED <<up, leader>>, \A q \in net' : q \in net \/ Loyal(q),
         notificationGlobalSeq'[Founder] <= generatedGlobalSeq'[Founder],
         up[Founder] = "in" => \A m \in Member : m # Founder => txBuffer'[m] = Empty
  PROVE  FounderLeads'
<1>1. /\ up[Founder] \in {"in", "gone"} /\ leader[Founder] = Founder
      /\ \A p \in net : up[p.to] \in {"joining", "in"}
  BY DEF FounderLeads
<1>2. \A q \in net' : up'[q.to] \in {"joining", "in"}
  BY <1>1 DEF Loyal
<1>3. ASSUME up[Founder] = "in"
      PROVE  /\ \A m \in Member : leader'[m] = Founder
             /\ \A p \in net' : /\ p.tag = "N0A" => p.leader = Founder /\ p.to # Founder
                                /\ p.tag = "S0_" => p.to = Founder
                                /\ p.tag = "S4_" => p.from = Founder
  <2>1. /\ \A m \in Member : leader[m] = Founder
        /\ \A p \in net : /\ p.tag = "N0A" => p.leader = Founder /\ p.to # Founder
                          /\ p.tag = "S0_" => p.to = Founder
                          /\ p.tag = "S4_" => p.from = Founder
    BY <1>3 DEF FounderLeads
  <2> QED BY <1>3, <2>1 DEF Loyal
<1> QED BY <1>1, <1>2, <1>3 DEF FounderLeads

LEMMA LeadsIfLoyal ==
  ASSUME FounderLeads, UNCHANGED <<viewVars, sequencerVars, notificationGlobalSeq>>,
         \A q \in net' : q \in net \/ Loyal(q)
  PROVE  FounderLeads'
<1>1. /\ UNCHANGED <<up, leader>> /\ UNCHANGED <<notificationGlobalSeq, generatedGlobalSeq, txBuffer>>
  BY DEF viewVars, sequencerVars
<1>2. /\ notificationGlobalSeq[Founder] <= generatedGlobalSeq[Founder]
      /\ up[Founder] = "in" => \A m \in Member : m # Founder => txBuffer[m] = Empty
  BY DEF FounderLeads
<1>3. /\ notificationGlobalSeq'[Founder] <= generatedGlobalSeq'[Founder]
      /\ up[Founder] = "in" => \A m \in Member : m # Founder => txBuffer'[m] = Empty
  BY <1>1, <1>2
<1> QED BY <1>1, <1>3, LeadsIf

LEMMA LeadsAfterS0 ==
  ASSUME TypeOK, FounderLeads, NEW p \in net, up[p.to] = "in", ReceiveS0_(p)
  PROVE  FounderLeads'
<1>1. PICK t, q, a, n, asked, msgs : /\ Handled(p, t, q, a, n, asked, msgs) /\ S0Step(p, t, q)
                                     /\ WorkOK(Asking(p.to, p.from, asked)) /\ WorkOK(t)
  BY ReceiveS0_Does
<1> DEFINE m == p.to
           s == Asking(p.to, p.from, asked)
<1>2. /\ s.out = asked /\ s.notification = notificationGlobalSeq[m]
      /\ s.generated = generatedGlobalSeq[m]
  BY DEF Asking
<1>3. Numbers(m, s, t, p.from, a, n)
  BY <1>1 DEF Handled
<1> HIDE DEF s
<1>4. m \in Member /\ up[Founder] \in {"in", "gone"} /\ p.tag = "S0_"
  BY DEF TypeOK, NetOK, PacketOK, FounderLeads, ReceiveS0_
<1>5. up[Founder] = "in" => m = Founder
  BY <1>4 DEF FounderLeads
<1>6. up[Founder] # "in" => m # Founder
  BY <1>4
<1>7. UNCHANGED <<up, leader>>
  BY <1>1 DEF S0Step
<1>8. notificationGlobalSeq'[Founder] <= generatedGlobalSeq'[Founder]
  <2>1. /\ notificationGlobalSeq \in [Member -> Nat] /\ generatedGlobalSeq \in [Member -> Nat]
        /\ Founder \in Member
    BY MemberFacts DEF TypeOK, DisplayOK, SequencerOK
  <2>2. notificationGlobalSeq[Founder] <= generatedGlobalSeq[Founder]
    BY DEF FounderLeads
  <2>3. CASE m # Founder
    BY <1>1, <2>1, <2>2, <2>3 DEF S0Step
  <2>4. CASE m = Founder
    <3>1. /\ notificationGlobalSeq'[Founder] = t.notification
          /\ generatedGlobalSeq'[Founder] = t.generated
      BY <1>1, <2>1, <2>4 DEF S0Step
    <3>2. t.notification \in Nat /\ t.generated \in Nat
      BY <1>1 DEF WorkOK
    <3>3. /\ t.generated >= s.generated
          /\ (t.notification = s.notification \/ t.notification <= t.generated)
      BY <1>3 DEF Numbers
    <3> QED BY <1>2, <2>1, <2>2, <2>4, <3>1, <3>2, <3>3
  <2> QED BY <2>3, <2>4
<1>9. up[Founder] = "in" => \A c \in Member : c # Founder => txBuffer'[c] = Empty
  <2>1. txBuffer \in [Member -> Map(Number, Line)]
    BY DEF TypeOK, SequencerOK
  <2>2. ASSUME up[Founder] = "in", NEW c \in Member, c # Founder
        PROVE  txBuffer'[c] = Empty
    <3>1. txBuffer[c] = Empty
      BY <2>2 DEF FounderLeads
    <3>2. c # m
      BY <1>5, <2>2
    <3> QED BY <1>1, <2>1, <3>1, <3>2 DEF S0Step
  <2> QED BY <2>2
<1>10. \A x \in net' : x \in net \/ Loyal(x)
  <2> SUFFICES ASSUME NEW x \in net', x \notin net PROVE Loyal(x)
    OBVIOUS
  <2>1. x \in t.out /\ up[x.to] \in {"joining", "in"}
    BY <1>1 DEF S0Step
  <2>2. CASE x \in asked
    <3>1. Asked(p, x)
      BY <1>1, <2>2 DEF Handled
    <3>2. x.tag = "S0A" \/ (x.tag = "S4_" /\ x.from = m)
      BY <3>1 DEF Asked
    <3> QED BY <1>5, <2>1, <3>2 DEF Loyal
  <2>3. CASE x \notin asked
    <3>1. x \in t.out \ s.out
      BY <1>2, <2>1, <2>3
    <3>2. x.tag = "S0A" \/ x.tag = "C0_" \/ (x.tag = "N0A" /\ x.leader = leader[m] /\ x.to # m)
      BY <1>3, <3>1 DEF Numbers
    <3>3. up[Founder] = "in" => leader[m] = Founder
      BY <1>4 DEF FounderLeads
    <3> QED BY <1>5, <2>1, <3>2, <3>3 DEF Loyal
  <2> QED BY <2>2, <2>3
<1> QED BY <1>7, <1>8, <1>9, <1>10, LeadsIf

LEMMA LeadsAfterRemoval ==
  ASSUME TypeOK, FounderLeads, NEW m \in Member, NEW c \in Member, RemoveMember(m, c)
  PROVE  FounderLeads'
<1>1. PICK t : /\ WorkOK(t) /\ t.notification = t.generated
               /\ \A p \in t.out : p.tag = "N0A" /\ p.leader = leader[m] /\ p.to # m
               /\ generatedGlobalSeq' = [generatedGlobalSeq EXCEPT ![m] = t.generated]
               /\ notificationGlobalSeq' = [notificationGlobalSeq EXCEPT ![m] = t.notification]
               /\ Sent(t.out)
  BY RemoveMember_Does
<1>2. up[m] = "in" /\ leader[m] = m /\ UNCHANGED <<up, leader>>
  BY DEF RemoveMember
<1>3. \A q \in net' : q \in net \/ Loyal(q)
  <2>1. up[Founder] = "in" => m = Founder
    BY <1>2 DEF FounderLeads
  <2>2. \A q \in net' : q \in net \/ (q \in t.out /\ up[q.to] \in {"joining", "in"})
    BY <1>1 DEF Sent
  <2> QED BY <1>1, <1>2, <2>1, <2>2 DEF Loyal
<1>4. notificationGlobalSeq'[Founder] <= generatedGlobalSeq'[Founder]
  <2>1. /\ notificationGlobalSeq \in [Member -> Nat] /\ generatedGlobalSeq \in [Member -> Nat]
        /\ Founder \in Member
    BY MemberFacts DEF TypeOK, DisplayOK, SequencerOK
  <2>2. notificationGlobalSeq[Founder] <= generatedGlobalSeq[Founder] /\ t.generated \in Nat
    BY <1>1 DEF FounderLeads, WorkOK
  <2> QED BY <1>1, <2>1, <2>2
<1>5. up[Founder] = "in" => \A x \in Member : x # Founder => txBuffer'[x] = Empty
  <2>1. PICK f : txBuffer' = [txBuffer EXCEPT ![m] = f]
    BY RemoveMember_Forgets
  <2>2. txBuffer \in [Member -> Map(Number, Line)]
    BY DEF TypeOK, SequencerOK
  <2>3. up[Founder] = "in" => m = Founder
    BY <1>2 DEF FounderLeads
  <2> QED BY <2>1, <2>2, <2>3 DEF FounderLeads
<1> QED BY <1>2, <1>3, <1>4, <1>5, LeadsIf

\* Nobody takes over as long as the founder is there; the founder never does.
LEMMA LeadsAfterTakeOver ==
  ASSUME TypeOK, FounderLeads, NEW m \in Member, TakeOver(m)
  PROVE  FounderLeads' /\ up[Founder] = "gone" /\ m # Founder
<1>1. PICK t, q : /\ \A p \in t.out : p.tag = "N0A" /\ p.leader = m /\ p.to # m
                  /\ generatedGlobalSeq' = [generatedGlobalSeq EXCEPT ![m] = t.generated]
                  /\ notificationGlobalSeq' = [notificationGlobalSeq EXCEPT ![m] = t.notification]
                  /\ Sent(t.out)
  BY TakeOver_Does
<1>2. /\ up[m] = "in" /\ up[leader[m]] = "gone" /\ leader' = [leader EXCEPT ![m] = m]
      /\ UNCHANGED <<up, txBuffer>>
  BY DEF TakeOver
<1>3. up[Founder] = "gone" /\ m # Founder
  BY <1>2 DEF FounderLeads
<1>4. \A q1 \in net' : up'[q1.to] \in {"joining", "in"}
  BY <1>1, <1>2 DEF FounderLeads, Sent
<1>5. /\ notificationGlobalSeq'[Founder] <= generatedGlobalSeq'[Founder]
      /\ leader'[Founder] = Founder
  <2>1. /\ notificationGlobalSeq \in [Member -> Nat] /\ generatedGlobalSeq \in [Member -> Nat]
        /\ leader \in [Member -> Member] /\ Founder \in Member
    BY MemberFacts DEF TypeOK, DisplayOK, SequencerOK, ViewOK
  <2> QED BY <1>1, <1>2, <1>3, <2>1 DEF FounderLeads
<1> QED BY <1>2, <1>3, <1>4, <1>5 DEF FounderLeads

LEMMA LeadsAfterN0A ==
  ASSUME TypeOK, FounderLeads, NEW p \in net, ReceiveN0A(p)
  PROVE  FounderLeads'
<1>1. /\ notificationGlobalSeq' = [notificationGlobalSeq EXCEPT ![p.to] = Largest(@, p.g)]
      /\ up' = [up EXCEPT ![p.to] = "in"] /\ leader' = [leader EXCEPT ![p.to] = p.leader]
      /\ Receive(p, {}) /\ UNCHANGED sequencerVars /\ p.tag = "N0A"
  BY DEF ReceiveN0A
<1>2. \A q \in net' : q \in net
  BY <1>1 DEF Receive
<1>3. /\ p.to \in Member /\ Founder \in Member /\ up \in [Member -> {"out", "joining", "in", "gone"}]
      /\ leader \in [Member -> Member] /\ notificationGlobalSeq \in [Member -> Nat]
      /\ \A q \in net : q.to \in Member
  BY MemberFacts DEF TypeOK, NetOK, PacketOK, ViewOK, DisplayOK
<1>4. up[p.to] \in {"joining", "in"} /\ up[Founder] \in {"in", "gone"}
  BY DEF FounderLeads
<1>5. p.to # Founder
  BY <1>1, <1>4 DEF FounderLeads
<1>6. up'[Founder] = up[Founder] /\ leader'[Founder] = leader[Founder]
      /\ notificationGlobalSeq'[Founder] = notificationGlobalSeq[Founder]
  BY <1>1, <1>3, <1>5
<1>7. \A q \in net' : up'[q.to] \in {"joining", "in"}
  BY <1>1, <1>2, <1>3 DEF FounderLeads
<1>8. UNCHANGED <<generatedGlobalSeq, txBuffer>>
  BY <1>1 DEF sequencerVars
<1>9. up[Founder] = "in" => \A m \in Member : leader'[m] = Founder
  <2>1. up[Founder] = "in" => p.leader = Founder /\ \A m \in Member : leader[m] = Founder
    BY <1>1 DEF FounderLeads
  <2> QED BY <1>1, <1>3, <2>1
<1> QED BY <1>2, <1>6, <1>7, <1>8, <1>9 DEF FounderLeads

LEMMA LeadsAfterGone ==
  ASSUME TypeOK, FounderLeads, NEW m \in Member, Gone(m)
  PROVE  FounderLeads'
<1>1. /\ up' = [up EXCEPT ![m] = "gone"] /\ net' = {q \in net : q.to # m}
      /\ UNCHANGED <<leader, sequencerVars, notificationGlobalSeq>>
  BY DEF Gone
<1>2. /\ Founder \in Member /\ up \in [Member -> {"out", "joining", "in", "gone"}]
      /\ \A q \in net : q.to \in Member
  BY MemberFacts DEF TypeOK, NetOK, PacketOK, ViewOK
<1>3. \A q \in net' : q \in net /\ up'[q.to] \in {"joining", "in"}
  BY <1>1, <1>2 DEF FounderLeads
<1>4. up'[Founder] \in {"in", "gone"} /\ (up'[Founder] = "in" => up[Founder] = "in")
  BY <1>1, <1>2 DEF FounderLeads
<1>5. UNCHANGED <<generatedGlobalSeq, txBuffer>>
  BY <1>1 DEF sequencerVars
<1> QED BY <1>1, <1>3, <1>4, <1>5 DEF FounderLeads

LEMMA LeadsAfterJoin ==
  ASSUME TypeOK, FounderLeads, NEW m \in Member, NEW c \in Member, AskToJoin(m, c)
  PROVE  FounderLeads'
<1>1. /\ up[m] = "out" /\ up[c] = "in" /\ up' = [up EXCEPT ![m] = "joining"]
      /\ Sent({N0_(m, c)})
      /\ UNCHANGED <<leader, sequencerVars, notificationGlobalSeq>>
  BY DEF AskToJoin, Send
<1>2. /\ Founder \in Member /\ up \in [Member -> {"out", "joining", "in", "gone"}]
      /\ \A q \in net : q.to \in Member
  BY MemberFacts DEF TypeOK, NetOK, PacketOK, ViewOK
<1>3. \A q \in net' : q \in net \/ (q.tag = "N0_" /\ q.to = c)
  BY <1>1 DEF Sent, N0_
<1>4. \A q \in net' : up'[q.to] \in {"joining", "in"}
  BY <1>1, <1>2, <1>3 DEF FounderLeads
<1>5. up'[Founder] = up[Founder]
  BY <1>1, <1>2 DEF FounderLeads
<1>6. UNCHANGED <<generatedGlobalSeq, txBuffer>>
  BY <1>1 DEF sequencerVars
<1> QED BY <1>1, <1>3, <1>4, <1>5, <1>6 DEF FounderLeads

LEMMA LeadsStep == TypeOK /\ FounderLeads /\ [Next]_vars => FounderLeads'
<1> SUFFICES ASSUME TypeOK, FounderLeads, [Next]_vars PROVE FounderLeads'
  OBVIOUS
<1>0. \A q \in net : q.to \in Member /\ PacketOK(q)
  BY DEF TypeOK, NetOK, PacketOK
<1>18. leader \in [Member -> Member]
  BY DEF TypeOK, ViewOK
<1>19. ASSUME NEW sent, NEW p, Receive(p, sent) \/ Sent(sent)
       PROVE  \A q \in net' : q \in net \/ (q \in sent /\ up[q.to] \in {"joining", "in"})
  BY <1>19 DEF Receive, Sent
<1>1. ASSUME NEW p, Receive(p, {}) PROVE \A q \in net' : q \in net
  BY <1>1 DEF Receive
<1>2. ASSUME NEW p \in net, ReceiveS4A(p) PROVE FounderLeads'
  <2>1. /\ Receive(p, {})
        /\ UNCHANGED <<viewVars, notificationGlobalSeq, generatedGlobalSeq, txBuffer>>
    BY <1>2 DEF ReceiveS4A
  <2> QED BY <1>1, <2>1, LeadsIf DEF FounderLeads, viewVars
<1>3. ASSUME NEW p \in net, ReceiveN0_(p) PROVE FounderLeads'
  <2>1. PICK l : Receive(p, {S0_(p.to, leader[p.to], l, p.from)})
    BY <1>3 DEF ReceiveN0_
  <2>2. \A q \in net' : q \in net \/ Loyal(q)
    BY <1>0, <1>19, <2>1 DEF Loyal, S0_, FounderLeads
  <2> QED BY <1>3, <2>2, LeadsIfLoyal DEF ReceiveN0_
<1>4. ASSUME NEW p \in net, ReceiveS0A(p) PROVE FounderLeads'
  BY <1>1, <1>4, LeadsIfLoyal DEF ReceiveS0A
<1>5. ASSUME NEW p \in net, ReceiveS4_(p) PROVE FounderLeads'
  <2>1. p.tag = "S4_" /\ Receive(p, IF p.l \in DOMAIN seqBuffer[p.to]
                                    THEN {S0_(p.to, p.from, p.l, seqBuffer[p.to][p.l].joins)}
                                    ELSE {S4A(p.to, p.from, p.l)})
    BY <1>5 DEF ReceiveS4_
  <2>2. up[Founder] = "in" => p.from = Founder
    BY <2>1 DEF FounderLeads
  <2>3. \A q \in net' : q \in net \/ Loyal(q)
    BY <1>19, <2>1, <2>2 DEF Loyal, S0_, S4A
  <2> QED BY <1>5, <2>3, LeadsIfLoyal DEF ReceiveS4_
<1>6. ASSUME NEW p \in net, ReceiveS3N(p) PROVE FounderLeads'
  BY <1>1, <1>6, LeadsIfLoyal DEF ReceiveS3N
<1>7. ASSUME NEW p \in net, Lose(p) PROVE FounderLeads'
  BY <1>7, LeadsIfLoyal DEF Lose
<1>8. ASSUME NEW p \in net, Receive(p, {}),
             UNCHANGED <<viewVars, requestVars, sequencerVars, displayVars, notificationGlobalSeq>>
      PROVE  FounderLeads'
  BY <1>1, <1>8, LeadsIfLoyal
<1>9. ASSUME NEW m \in Member, Type(m) PROVE FounderLeads'
  <2>1. PICK l : Sent({S0_(m, leader[m], l, NoOne)})
    BY <1>9 DEF Type, Send
  <2>2. \A q \in net' : q \in net \/ Loyal(q)
    BY <1>19, <2>1 DEF Loyal, S0_, FounderLeads
  <2> QED BY <1>9, <2>2, LeadsIfLoyal DEF Type
<1>10. ASSUME NEW m \in Member, NEW l \in DOMAIN seqBuffer[m], Resend(m, l) PROVE FounderLeads'
  <2>1. PICK sent : Sent(sent) /\ sent \subseteq {S0_(m, leader[m], chatMsg[m], NoOne)}
    <3>1. CASE chatMsg[m] = 0
      BY <1>10, <3>1 DEF Resend
    <3>2. CASE chatMsg[m] # 0
      BY <1>10, <3>2 DEF Resend
    <3> QED BY <3>1, <3>2
  <2>2. \A q \in net' : q \in net \/ Loyal(q)
    BY <1>19, <2>1 DEF Loyal, S0_, FounderLeads
  <2> QED BY <1>10, <2>2, LeadsIfLoyal DEF Resend
<1>11. ASSUME NEW m \in Member, NEW l \in DOMAIN seqBuffer[m], GiveUp(m, l) PROVE FounderLeads'
  BY <1>11, LeadsIfLoyal DEF GiveUp
<1>12. ASSUME NEW m \in Member, NEW g \in DOMAIN txBuffer[m], TxExpire(m, g) PROVE FounderLeads'
  <2>1. PICK x : txBuffer' = [txBuffer EXCEPT ![m] = x]
    BY <1>12, TxExpire_Does
  <2>2. /\ UNCHANGED <<up, leader>> /\ net' = net
        /\ UNCHANGED <<notificationGlobalSeq, generatedGlobalSeq>>
    BY <1>12 DEF TxExpire, viewVars
  <2>3. up[Founder] = "in" => m = Founder
    BY EmptyMap, <1>12 DEF FounderLeads
  <2>4. txBuffer \in [Member -> Map(Number, Line)]
    BY DEF TypeOK, SequencerOK
  <2>5. up[Founder] = "in" => \A c \in Member : c # Founder => txBuffer'[c] = Empty
    BY <2>1, <2>3, <2>4 DEF FounderLeads
  <2> QED BY <2>2, <2>5, LeadsIf DEF FounderLeads
<1>13. ASSUME NEW p \in net, p.tag \in {"C0_", "S3A"}, Chat(p) PROVE FounderLeads'
  <2>1. PICK sent : /\ Receive(p, sent) /\ \A q \in sent : q.tag = "S3_"
                    /\ UNCHANGED <<up, leader, sequencerVars, notificationGlobalSeq>>
    <3>0. PICK c, d : Displayed(p, c, d) /\ ChatStep(p, c, d)
      BY <1>13, Chat_Does
    <3>1. Receive(p, IF d.ask = 0 THEN {} ELSE {S3_(p.to, r, d.ask) : r \in participants[p.to]})
      BY <3>0 DEF ChatStep
    <3>2. UNCHANGED <<up, leader, sequencerVars, notificationGlobalSeq>>
      BY <1>13 DEF Chat
    <3> QED BY <3>1, <3>2 DEF S3_
  <2>2. \A q \in net' : q \in net \/ Loyal(q)
    BY <1>19, <2>1 DEF Loyal
  <2>3. UNCHANGED <<generatedGlobalSeq, txBuffer>>
    BY <2>1 DEF sequencerVars
  <2> QED BY <2>1, <2>2, <2>3, LeadsIf DEF FounderLeads
<1>14. ASSUME NEW p \in net, ReceiveS3_(p) PROVE FounderLeads'
  <2>1. p.to \in Member /\ p.from \in Member /\ p.g \in Nat /\ Receive(p, Answer(p.to, p.from, p.g))
    BY <1>0, <1>14 DEF PacketOK, ReceiveS3_
  <2>2. \A q \in Answer(p.to, p.from, p.g) : q.tag \in {"S3N", "S3A"}
    BY <2>1, AnswerOK
  <2>3. \A q \in net' : q \in net \/ Loyal(q)
    BY <1>19, <2>1, <2>2 DEF Loyal
  <2> QED BY <1>14, <2>3, LeadsIfLoyal DEF ReceiveS3_
<1>15. ASSUME NEW m \in Member, Gone(m) PROVE FounderLeads'
  BY <1>15, LeadsAfterGone
<1>16. ASSUME UNCHANGED vars PROVE FounderLeads'
  <2>1. UNCHANGED <<viewVars, sequencerVars, notificationGlobalSeq>> /\ net' = net
    BY <1>16 DEF vars
  <2> QED BY <2>1, LeadsIfLoyal
<1> QED BY <1>2, <1>3, <1>4, <1>5, <1>6, <1>7, <1>8, <1>9, <1>10, <1>11, <1>12, <1>13, <1>14,
           <1>15, <1>16, Steps, LeadsAfterS0, LeadsAfterRemoval, LeadsAfterTakeOver,
           LeadsAfterN0A, LeadsAfterJoin

LEMMA LeadsInit == Init => FounderLeads
<1> SUFFICES ASSUME Init PROVE FounderLeads
  OBVIOUS
<1>1. up[Founder] = "in" /\ \A m \in Member : leader[m] = Founder
  BY MemberFacts, MembersAssumption DEF Init
<1>2. notificationGlobalSeq[Founder] = 2 * Joins /\ generatedGlobalSeq[Founder] = 2 * Joins
  BY MemberFacts, MembersAssumption DEF Init
<1>3. notificationGlobalSeq[Founder] <= generatedGlobalSeq[Founder]
  BY <1>2, MemberFacts
<1>4. \A m \in Member : txBuffer[m] = Empty
  BY DEF Init
<1>5. net = {}
  BY DEF Init
<1> QED BY <1>1, <1>3, <1>4, <1>5, MemberFacts DEF FounderLeads

-----------------------------------------------------------------------------
(***************************************************************************)
(* What a member displays, and what it has asked for.                      *)
(***************************************************************************)
\* The line displayed last is still held; the numbers passed over.
ShowsInOrder(m) ==
  /\ NothingYet(m)
  /\ givenUp[m] = {} /\ globalSeq[m] > 0 => globalSeq[m] \in DOMAIN holdBackQ[m]
  /\ givenUp[m] = {} /\ ~TookOver(m) =>
       \A g \in Known(m), x \in Nat :
         g < x /\ x <= globalSeq[m] => (\/ x <= notificationGlobalSeq[m]
                                        \/ x \in DOMAIN holdBackQ[m])

\* A line is held back by a gap.
HeldBack(m) ==
  /\ givenUp[m] = {} /\ globalSeq[m] > 0
  /\ \E k \in DOMAIN holdBackQ[m] :
       k > globalSeq[m] + 1 /\ k > notificationGlobalSeq[m] + 1

AsksForGap(m) ==
  up[Founder] = "in" /\ HeldBack(m) => globalSeq[m] + 1 \in DOMAIN globalSeqLost[m]

\* A notification number goes back only at a member that takes over, and then the
\* founder is gone.
Later(m) ==
  /\ up'[Founder] = "in" => up[Founder] = "in"
  /\ TookOver(m) => TookOver(m)'
  /\ \/ notificationGlobalSeq'[m] >= notificationGlobalSeq[m]
     \/ TookOver(m)' /\ up'[Founder] # "in"

LEMMA LaterIf ==
  ASSUME DisplayOK, UNCHANGED <<up, generatedGlobalSeq, notificationGlobalSeq>>
  PROVE  \A m \in Member : Later(m)
BY DEF DisplayOK, Later, TookOver

\* One member gives numbers.
LEMMA LaterIfNumbering ==
  ASSUME TypeOK, NEW m \in Member, NEW g \in Nat, NEW n \in Nat, UNCHANGED up,
         generatedGlobalSeq' = [generatedGlobalSeq EXCEPT ![m] = g],
         notificationGlobalSeq' = [notificationGlobalSeq EXCEPT ![m] = n],
         \/ n >= notificationGlobalSeq[m] /\ g >= generatedGlobalSeq[m]
         \/ m # Founder /\ g > 0 /\ up[Founder] # "in"
  PROVE  \A c \in Member : Later(c)
<1> SUFFICES ASSUME NEW c \in Member PROVE Later(c)
  OBVIOUS
<1>1. /\ generatedGlobalSeq \in [Member -> Nat] /\ notificationGlobalSeq \in [Member -> Nat]
  BY DEF TypeOK, SequencerOK, DisplayOK
<1>2. CASE c # m
  BY <1>1, <1>2 DEF Later, TookOver
<1>3. CASE c = m
  BY <1>1, <1>3 DEF Later, TookOver
<1> QED BY <1>2, <1>3

LEMMA LaterAfterS0 ==
  ASSUME TypeOK, FounderLeads, NEW p \in net, ReceiveS0_(p)
  PROVE  \A c \in Member : Later(c)
<1>1. PICK t, q, a, n, asked, msgs :
        Handled(p, t, q, a, n, asked, msgs) /\ S0Step(p, t, q) /\ WorkOK(t)
  BY ReceiveS0_Does
<1> DEFINE m == p.to
<1>2. m \in Member /\ p.tag = "S0_"
  BY DEF TypeOK, NetOK, PacketOK, ReceiveS0_
<1>3. Numbers(m, Asking(m, p.from, asked), t, p.from, a, n)
  BY <1>1 DEF Handled
<1>4. /\ t.generated >= generatedGlobalSeq[m]
      /\ \/ t.notification = notificationGlobalSeq[m]
         \/ generatedGlobalSeq[m] < t.notification /\ t.notification <= t.generated
  BY <1>3 DEF Numbers, Asking
<1>5. t.generated \in Nat /\ t.notification \in Nat
  BY <1>1 DEF WorkOK
<1>6. generatedGlobalSeq[m] \in Nat /\ notificationGlobalSeq[m] \in Nat
  BY <1>2 DEF TypeOK, SequencerOK, DisplayOK
<1>7. /\ UNCHANGED up
      /\ generatedGlobalSeq' = [generatedGlobalSeq EXCEPT ![m] = t.generated]
      /\ notificationGlobalSeq' = [notificationGlobalSeq EXCEPT ![m] = t.notification]
  BY <1>1 DEF S0Step
<1>8. m # Founder => up[Founder] # "in"
  BY <1>2 DEF FounderLeads
<1>9. m = Founder => notificationGlobalSeq[m] <= generatedGlobalSeq[m]
  BY DEF FounderLeads
<1>10. \/ t.notification >= notificationGlobalSeq[m] /\ t.generated >= generatedGlobalSeq[m]
       \/ m # Founder /\ t.generated > 0 /\ up[Founder] # "in"
  BY <1>4, <1>5, <1>6, <1>8, <1>9
<1> HIDE DEF m
<1> QED BY <1>2, <1>5, <1>7, <1>10, LaterIfNumbering

LEMMA LaterAfterRemoval ==
  ASSUME TypeOK, FounderLeads, NEW m \in Member, NEW c \in Member, RemoveMember(m, c)
  PROVE  \A x \in Member : Later(x)
<1>1. PICK t : /\ WorkOK(t) /\ t.generated = generatedGlobalSeq[m] + 1
               /\ t.notification = t.generated
               /\ generatedGlobalSeq' = [generatedGlobalSeq EXCEPT ![m] = t.generated]
               /\ notificationGlobalSeq' = [notificationGlobalSeq EXCEPT ![m] = t.notification]
  BY RemoveMember_Does
<1>2. UNCHANGED up /\ leader[m] = m
  BY DEF RemoveMember
<1>3. m # Founder => up[Founder] # "in"
  BY <1>2 DEF FounderLeads
<1>4. m = Founder => notificationGlobalSeq[m] <= generatedGlobalSeq[m]
  BY DEF FounderLeads
<1>5. generatedGlobalSeq[m] \in Nat /\ notificationGlobalSeq[m] \in Nat
  BY DEF TypeOK, SequencerOK, DisplayOK
<1>6. t.generated \in Nat /\ t.notification \in Nat
  BY <1>1 DEF WorkOK
<1>7. \/ t.notification >= notificationGlobalSeq[m] /\ t.generated >= generatedGlobalSeq[m]
      \/ m # Founder /\ t.generated > 0 /\ up[Founder] # "in"
  BY <1>1, <1>3, <1>4, <1>5, <1>6
<1> QED BY <1>1, <1>2, <1>6, <1>7, LaterIfNumbering

LEMMA LaterAfterTakeOver ==
  ASSUME TypeOK, FounderLeads, NEW m \in Member, TakeOver(m)
  PROVE  \A x \in Member : Later(x)
<1>1. PICK t, q :
        /\ WorkOK(t) /\ t.generated > 0
        /\ generatedGlobalSeq' = [generatedGlobalSeq EXCEPT ![m] = t.generated]
        /\ notificationGlobalSeq' = [notificationGlobalSeq EXCEPT ![m] = t.notification]
        /\ q \in Map(Member, Queue)
  BY TakeOver_Does
<1>2. UNCHANGED up
  BY DEF TakeOver
<1>3. up[Founder] = "gone" /\ m # Founder
  BY LeadsAfterTakeOver
<1>4. t.generated \in Nat /\ t.notification \in Nat
  BY <1>1 DEF WorkOK
<1> QED BY <1>1, <1>2, <1>3, <1>4, LaterIfNumbering

LEMMA LaterAfterN0A ==
  ASSUME TypeOK, FounderLeads, NEW p \in net, ReceiveN0A(p)
  PROVE  \A x \in Member : Later(x)
<1>1. p.to \in Member /\ p.g \in Nat
  BY DEF TypeOK, NetOK, PacketOK, ReceiveN0A
<1>2. /\ notificationGlobalSeq' =
           [notificationGlobalSeq EXCEPT ![p.to] = Largest(notificationGlobalSeq[p.to], p.g)]
      /\ up' = [up EXCEPT ![p.to] = "in"] /\ UNCHANGED generatedGlobalSeq
  BY DEF ReceiveN0A, sequencerVars
<1>3. /\ notificationGlobalSeq \in [Member -> Nat]
      /\ up \in [Member -> {"out", "joining", "in", "gone"}]
  BY DEF TypeOK, DisplayOK, ViewOK
<1>4. up'[Founder] = "in" => up[Founder] = "in"
  BY <1>1, <1>2, <1>3, MemberFacts DEF FounderLeads
<1>5. \A x \in Member : notificationGlobalSeq'[x] >= notificationGlobalSeq[x]
  BY <1>1, <1>2, <1>3 DEF Largest
<1> QED BY <1>2, <1>4, <1>5 DEF Later, TookOver

LEMMA LaterIfGone ==
  ASSUME TypeOK, FounderLeads, NEW m \in Member, Gone(m) \/ \E c \in Member : AskToJoin(m, c)
  PROVE  \A x \in Member : Later(x)
<1>1. /\ notificationGlobalSeq \in [Member -> Nat]
      /\ up \in [Member -> {"out", "joining", "in", "gone"}]
  BY DEF TypeOK, DisplayOK, ViewOK
<1>2. UNCHANGED <<generatedGlobalSeq, notificationGlobalSeq>>
  BY DEF Gone, AskToJoin, sequencerVars
<1>3. up'[Founder] = "in" => up[Founder] = "in"
  BY <1>1, MemberFacts DEF Gone, AskToJoin
<1> QED BY <1>1, <1>2, <1>3 DEF Later, TookOver

LEMMA LaterStep ==
  ASSUME TypeOK, FounderLeads, [Next]_vars
  PROVE  \A m \in Member : Later(m)
<1> DEFINE Same == UNCHANGED <<up, generatedGlobalSeq, notificationGlobalSeq>>
<1>0. DisplayOK
  BY DEF TypeOK
<1>1. ASSUME Same PROVE \A m \in Member : Later(m)
  BY <1>0, <1>1, LaterIf
<1>2. ASSUME NEW p \in net,
             \/ ReceiveS4A(p) \/ ReceiveN0_(p) \/ ReceiveS0A(p) \/ ReceiveS4_(p)
             \/ ReceiveS3_(p) \/ ReceiveS3N(p) \/ Lose(p)
             \/ UNCHANGED <<viewVars, requestVars, sequencerVars, displayVars,
                            notificationGlobalSeq>>
      PROVE  Same
  BY <1>2 DEF ReceiveS4A, ReceiveN0_, ReceiveS0A, ReceiveS4_, ReceiveS3_, ReceiveS3N, Lose,
              viewVars, sequencerVars
<1>3. ASSUME NEW p \in net, Chat(p) PROVE Same
  BY <1>3 DEF Chat, sequencerVars
<1>4. ASSUME NEW m \in Member,
             \/ Type(m)
             \/ \E l \in DOMAIN seqBuffer[m] : Resend(m, l)
             \/ \E l \in DOMAIN seqBuffer[m] : GiveUp(m, l)
             \/ \E g \in DOMAIN txBuffer[m] : TxExpire(m, g)
      PROVE  Same
  BY <1>4 DEF Type, Resend, GiveUp, TxExpire, viewVars, sequencerVars
<1>5. ASSUME UNCHANGED vars PROVE Same
  BY <1>5 DEF vars, viewVars, sequencerVars
<1> HIDE DEF Same
<1> QED BY <1>1, <1>2, <1>3, <1>4, <1>5, Steps, LaterAfterS0, LaterAfterRemoval,
           LaterAfterTakeOver, LaterAfterN0A, LaterIfGone

\* A step that leaves a member's display alone.
LEMMA DisplayKept ==
  ASSUME TypeOK, NEW m \in Member, ShowsInOrder(m), AsksForGap(m), Later(m),
         globalSeq'[m] = globalSeq[m], holdBackQ'[m] = holdBackQ[m],
         shown'[m] = shown[m], givenUp'[m] = givenUp[m],
         DOMAIN globalSeqLost'[m] = DOMAIN globalSeqLost[m],
         notificationGlobalSeq'[m] \in Nat
  PROVE  ShowsInOrder(m)' /\ AsksForGap(m)'
<1>1. globalSeq[m] \in Nat /\ notificationGlobalSeq[m] \in Nat
  BY DEF TypeOK, DisplayOK
<1>2. NothingYet(m)'
  BY DEF ShowsInOrder, NothingYet
<1>3. (givenUp[m] = {} /\ globalSeq[m] > 0 => globalSeq[m] \in DOMAIN holdBackQ[m])'
  BY DEF ShowsInOrder
<1>4. Known(m)' = Known(m)
  BY DEF Known
<1>5. ~TookOver(m)' => ~TookOver(m) /\ notificationGlobalSeq'[m] >= notificationGlobalSeq[m]
  BY DEF Later
<1>6. ASSUME givenUp'[m] = {}, ~TookOver(m)', NEW g \in Known(m)', NEW x \in Nat,
             g < x, x <= globalSeq'[m]
      PROVE  x <= notificationGlobalSeq'[m] \/ x \in DOMAIN holdBackQ'[m]
  <2>1. x <= notificationGlobalSeq[m] \/ x \in DOMAIN holdBackQ[m]
    BY <1>4, <1>5, <1>6 DEF ShowsInOrder
  <2> QED BY <1>1, <1>5, <1>6, <2>1
<1>7. ShowsInOrder(m)'
  BY <1>2, <1>3, <1>6 DEF ShowsInOrder
<1>8. ASSUME up'[Founder] = "in", HeldBack(m)' PROVE globalSeq'[m] + 1 \in DOMAIN globalSeqLost'[m]
  <2>1. up[Founder] = "in" /\ notificationGlobalSeq'[m] >= notificationGlobalSeq[m]
    BY <1>8 DEF Later
  <2>2. PICK k \in DOMAIN holdBackQ[m] :
          k > globalSeq[m] + 1 /\ k > notificationGlobalSeq'[m] + 1
    BY <1>8 DEF HeldBack
  <2>3. k \in Nat
    BY MapDef, MemberFacts DEF TypeOK, DisplayOK
  <2>4. k > notificationGlobalSeq[m] + 1
    BY <1>1, <2>1, <2>2, <2>3
  <2>5. HeldBack(m)
    BY <1>8, <2>2, <2>4 DEF HeldBack
  <2> QED BY <2>1, <2>5 DEF AsksForGap
<1>9. AsksForGap(m)'
  BY <1>8 DEF AsksForGap
<1> QED BY <1>7, <1>9

LEMMA Inserted ==
  ASSUME NEW f, NEW k, NEW v, NEW q, q = Insert(f, k, v)
  PROVE  DOMAIN q = DOMAIN f \cup {k}
BY InsertDef

LEMMA ShownMore ==
  ASSUME NEW s \in Shown, NEW t \in Shown, NEW u, u = s \o t
  PROVE  /\ u \in Shown /\ Len(u) = Len(s) + Len(t)
         /\ \A i \in 1..Len(s) : u[i] = s[i]
         /\ \A i \in 1..(Len(s) + Len(t)) :
              i \in 1..Len(s) \/ (i - Len(s) \in 1..Len(t) /\ u[i] = t[i - Len(s)])
BY ShownConcat

\* The first line a member displays.
LEMMA FirstShown ==
  ASSUME TypeOK, NEW p, NEW q, NEW d, Displayed(p, q, d), ChatStep(p, q, d),
         ShowsInOrder(p.to), globalSeq[p.to] = 0
  PROVE  ShowsInOrder(p.to)' /\ AsksForGap(p.to)'
<1> DEFINE m == p.to
<1>1. /\ m \in Member /\ p.g \in Number /\ q = Insert(holdBackQ[m], p.g, p.line)
      /\ d.lines \in Shown /\ d.g = p.g /\ Len(d.lines) = 1 /\ d.lines[1] = <<p.g, p.line>>
  BY DEF Displayed, First
<1>2. shown[m] = <<>> /\ DOMAIN holdBackQ[m] = {}
  BY DEF ShowsInOrder, NothingYet
<1>3. DOMAIN q = {p.g}
  <2>1. q = Insert(holdBackQ[m], p.g, p.line)
    BY <1>1
  <2>2. DOMAIN q = DOMAIN holdBackQ[m] \cup {p.g}
    BY ONLY <2>1, Inserted
  <2> QED BY <1>2, <2>2
<1>4. /\ holdBackQ \in [Member -> Map(Number, Line)] /\ globalSeq \in [Member -> Nat]
      /\ shown \in [Member -> Shown]
  BY DEF TypeOK, DisplayOK
<1>5. holdBackQ'[m] = q /\ globalSeq'[m] = p.g
  BY <1>1, <1>4 DEF ChatStep
<1>6. shown' = [shown EXCEPT ![m] = @ \o d.lines] /\ shown' \in [Member -> Shown]
  BY <1>1, Display_Does DEF ChatStep
<1>7. shown'[m] = shown[m] \o d.lines
  BY <1>1, <1>4, <1>6
<1>8. p.g \in Nat /\ p.g > 0
  BY <1>1, MemberFacts DEF Number
<1>9. \A g \in Known(m)' : g = p.g
  <2>1. Len(shown[m]) = 0 /\ shown[m] \in Shown
    BY <1>1, <1>2, <1>4
  <2>2. /\ Len(shown'[m]) = 1 /\ shown'[m] \in Shown
        /\ \A i \in 1..1 : shown'[m][i] = d.lines[i]
    <3> DEFINE a == shown[m]
               b == d.lines
               c == shown'[m]
    <3>1. a \in Shown /\ b \in Shown /\ c = a \o b /\ Len(a) = 0 /\ Len(b) = 1
      BY <1>1, <1>7, <2>1
    <3> HIDE DEF a, b, c
    <3>2. /\ c \in Shown /\ Len(c) = Len(a) + Len(b)
          /\ \A i \in 1..(Len(a) + Len(b)) :
               i \in 1..Len(a) \/ (i - Len(a) \in 1..Len(b) /\ c[i] = b[i - Len(a)])
      BY <3>1, ShownMore
    <3>3. Len(c) = 1 /\ \A i \in 1..1 : c[i] = b[i]
      BY <3>1, <3>2
    <3> QED BY <3>2, <3>3 DEF a, b, c
  <2>3. DOMAIN shown'[m] = 1..1
    BY <2>2, ShownFacts
  <2>4. \A i \in DOMAIN shown'[m] : shown'[m][i][1] = p.g
    BY <1>1, <2>2, <2>3
  <2> QED BY <2>4 DEF Known
<1> HIDE DEF m
<1>10. ShowsInOrder(m)'
  BY <1>3, <1>5, <1>8, <1>9 DEF ShowsInOrder, NothingYet
<1>11. ~HeldBack(m)'
  BY <1>3, <1>5, <1>8 DEF HeldBack
<1> QED BY <1>10, <1>11 DEF AsksForGap, m

\* The lines that follow.
LEMMA NextShown ==
  ASSUME TypeOK, NEW p, NEW q, NEW d, Displayed(p, q, d), ChatStep(p, q, d),
         ShowsInOrder(p.to), AsksForGap(p.to), globalSeq[p.to] # 0
  PROVE  ShowsInOrder(p.to)' /\ AsksForGap(p.to)'
<1> DEFINE m == p.to
<1>1. /\ m \in Member /\ p.g \in Number /\ q = Insert(holdBackQ[m], p.g, p.line)
      /\ d.lines \in Shown /\ d.g \in Nat /\ d.ask \in Nat /\ q \in Map(Number, Line)
  BY DEF Displayed
<1>2. /\ \E k \in Nat : Walked(m, q, d, k)
      /\ globalSeq[m] \in DOMAIN q => Walked(m, q, d, Max(DOMAIN q))
  BY DEF Displayed, First
<1>3. /\ holdBackQ \in [Member -> Map(Number, Line)] /\ globalSeq \in [Member -> Nat]
      /\ shown \in [Member -> Shown] /\ globalSeqLost \in [Member -> Map(Nat, Nat)]
      /\ notificationGlobalSeq \in [Member -> Nat]
  BY DEF TypeOK, DisplayOK
<1>4. /\ holdBackQ'[m] = q /\ globalSeq'[m] = d.g
  BY <1>1, <1>3 DEF ChatStep
<1>5. UNCHANGED <<up, generatedGlobalSeq, notificationGlobalSeq, givenUp>>
  BY DEF ChatStep, sequencerVars
<1>6. DOMAIN holdBackQ[m] \subseteq DOMAIN q
  <2>1. q = Insert(holdBackQ[m], p.g, p.line)
    BY <1>1
  <2>2. DOMAIN q = DOMAIN holdBackQ[m] \cup {p.g}
    BY ONLY <2>1, Inserted
  <2> QED BY <2>2
<1>7. /\ globalSeq[m] <= d.g /\ (d.g = globalSeq[m] \/ d.g \in DOMAIN q)
      /\ \A i \in 1..Len(d.lines) :
           \E x \in DOMAIN q : d.lines[i] = <<x, q[x]>> /\ globalSeq[m] < x /\ x <= d.g
      /\ \A x \in Nat : globalSeq[m] < x /\ x <= d.g =>
           x \in DOMAIN q \/ x <= notificationGlobalSeq[m]
  BY <1>2 DEF Walked
<1>8. \A g \in Known(m)' : g \in Known(m) \/ (g \in Nat /\ globalSeq[m] < g)
  <2>1. shown' = [shown EXCEPT ![m] = @ \o d.lines] /\ shown' \in [Member -> Shown]
    BY <1>1, Display_Does DEF ChatStep
  <2>2. shown'[m] = shown[m] \o d.lines /\ shown[m] \in Shown /\ shown'[m] \in Shown
    BY <1>1, <1>3, <2>1
  <2>3. /\ Len(shown'[m]) = Len(shown[m]) + Len(d.lines)
        /\ \A i \in 1..Len(shown[m]) : shown'[m][i] = shown[m][i]
        /\ \A i \in 1..(Len(shown[m]) + Len(d.lines)) :
             \/ i \in 1..Len(shown[m])
             \/ i - Len(shown[m]) \in 1..Len(d.lines)
                /\ shown'[m][i] = d.lines[i - Len(shown[m])]
    <3> DEFINE a == shown[m]
               b == d.lines
               c == shown'[m]
    <3>1. a \in Shown /\ b \in Shown /\ c = a \o b
      BY <1>1, <2>2
    <3> HIDE DEF a, b, c
    <3>2. /\ Len(c) = Len(a) + Len(b)
          /\ \A i \in 1..Len(a) : c[i] = a[i]
          /\ \A i \in 1..(Len(a) + Len(b)) :
               i \in 1..Len(a) \/ (i - Len(a) \in 1..Len(b) /\ c[i] = b[i - Len(a)])
      BY <3>1, ShownMore
    <3> QED BY <3>2 DEF a, b, c
  <2>4. DOMAIN shown'[m] = 1..Len(shown'[m]) /\ DOMAIN shown[m] = 1..Len(shown[m])
    BY <2>2, ShownFacts
  <2>5. SUFFICES ASSUME NEW i \in DOMAIN shown'[m]
                 PROVE  \/ shown'[m][i][1] \in Known(m)
                        \/ shown'[m][i][1] \in Nat /\ globalSeq[m] < shown'[m][i][1]
    BY DEF Known
  <2>6. CASE i \in 1..Len(shown[m])
    BY <2>3, <2>4, <2>6 DEF Known
  <2>7. CASE i - Len(shown[m]) \in 1..Len(d.lines) /\ shown'[m][i] = d.lines[i - Len(shown[m])]
    <3>1. PICK x \in DOMAIN q : shown'[m][i] = <<x, q[x]>> /\ globalSeq[m] < x
      BY <1>7, <2>7
    <3>2. x \in Nat
      BY <1>1, MapDef, MemberFacts
    <3> QED BY <3>1, <3>2
  <2> QED BY <2>3, <2>4, <2>6, <2>7
<1>9. globalSeq[m] \in Nat /\ globalSeq[m] > 0
  BY <1>1, <1>3
<1> HIDE DEF m
<1>10. NothingYet(m)'
  BY <1>1, <1>4, <1>7, <1>9 DEF NothingYet
<1>11. givenUp'[m] = {} => d.g \in DOMAIN q
  BY <1>5, <1>6, <1>7, <1>9 DEF ShowsInOrder, m
<1>12. ASSUME givenUp'[m] = {}, ~TookOver(m)', NEW g \in Known(m)', NEW x \in Nat,
              g < x, x <= d.g
       PROVE  x <= notificationGlobalSeq[m] \/ x \in DOMAIN q
  <2>1. CASE globalSeq[m] < x
    BY <1>7, <1>12, <2>1
  <2>2. CASE x <= globalSeq[m]
    <3>1. g \in Known(m)
      BY <1>8, <1>9, <1>12, <2>2
    <3>2. givenUp[m] = {} /\ ~TookOver(m)
      BY <1>5, <1>12 DEF TookOver
    <3> QED BY <1>6, <1>12, <2>2, <3>1, <3>2 DEF ShowsInOrder, m
  <2> QED BY <1>9, <2>1, <2>2
<1>13. ShowsInOrder(m)'
  BY <1>4, <1>5, <1>10, <1>11, <1>12 DEF ShowsInOrder
<1>14. ASSUME HeldBack(m)' PROVE d.g + 1 \in DOMAIN globalSeqLost'[m]
  <2>1. PICK k \in DOMAIN q : k > d.g + 1 /\ k > notificationGlobalSeq[m] + 1
    BY <1>4, <1>5, <1>14 DEF HeldBack
  <2>2. k \in Nat /\ IsFiniteSet(DOMAIN q) /\ DOMAIN q \subseteq Nat
    BY <1>1, MapDef, MemberFacts
  <2>3. k <= Max(DOMAIN q)
    BY <2>2, LargestOf
  <2>4. globalSeq[m] \in DOMAIN q
    BY <1>5, <1>6, <1>9, <1>14 DEF ShowsInOrder, HeldBack, m
  <2>5. Walked(m, q, d, Max(DOMAIN q))
    BY <1>2, <2>4
  <2>6. d.ask # 0 /\ d.ask = d.g + 1
    <3>1. notificationGlobalSeq[m] \in Nat
      BY <1>1, <1>3
    <3>2. ASSUME d.ask = 0 PROVE k <= d.g \/ k <= notificationGlobalSeq[m]
      BY <2>3, <2>5, <3>2 DEF Walked
    <3>3. d.ask # 0
      BY <1>1, <2>1, <2>2, <3>1, <3>2
    <3> QED BY <2>5, <3>3 DEF Walked
  <2>7. globalSeqLost'[m] = Insert(globalSeqLost[m], d.ask, 0)
    BY <1>1, <1>3, <2>6 DEF ChatStep, m
  <2>8. DOMAIN globalSeqLost'[m] = DOMAIN globalSeqLost[m] \cup {d.ask}
    <3>1. PICK f, u : f = globalSeqLost[m] /\ u = globalSeqLost'[m]
      OBVIOUS
    <3>2. u = Insert(f, d.ask, 0)
      BY <2>7, <3>1
    <3>3. DOMAIN u = DOMAIN f \cup {d.ask}
      BY ONLY <3>2, Inserted
    <3> QED BY <3>1, <3>3
  <2> QED BY <2>6, <2>8
<1> QED BY <1>4, <1>13, <1>14 DEF AsksForGap, m

LEMMA DisplayAfterChat ==
  ASSUME TypeOK, TypeOK', \A m \in Member : ShowsInOrder(m) /\ AsksForGap(m) /\ Later(m),
         NEW p \in net, p.tag \in {"C0_", "S3A"}, Chat(p)
  PROVE  \A m \in Member : ShowsInOrder(m)' /\ AsksForGap(m)'
<1>1. PICK q, d : Displayed(p, q, d) /\ ChatStep(p, q, d)
  BY Chat_Does
<1>2. p.to \in Member /\ d.lines \in Shown
  BY <1>1 DEF Displayed
<1>3. ShowsInOrder(p.to)' /\ AsksForGap(p.to)'
  BY <1>1, <1>2, FirstShown, NextShown
<1>4. ASSUME NEW m \in Member, m # p.to PROVE ShowsInOrder(m)' /\ AsksForGap(m)'
  <2>1. globalSeq'[m] = globalSeq[m] /\ holdBackQ'[m] = holdBackQ[m] /\ givenUp'[m] = givenUp[m]
    BY <1>1, <1>4 DEF ChatStep, TypeOK, DisplayOK
  <2>2. globalSeqLost'[m] = globalSeqLost[m]
    BY <1>1, <1>4 DEF ChatStep, TypeOK, DisplayOK
  <2>3. shown'[m] = shown[m]
    BY <1>1, <1>2, <1>4, Display_Does DEF ChatStep, TypeOK, DisplayOK
  <2>4. notificationGlobalSeq'[m] \in Nat
    BY DEF TypeOK, DisplayOK
  <2> QED BY <2>1, <2>2, <2>3, <2>4, DisplayKept
<1> QED BY <1>3, <1>4

LEMMA DisplayAfterS3N ==
  ASSUME TypeOK, TypeOK', \A m \in Member : ShowsInOrder(m) /\ AsksForGap(m) /\ Later(m),
         NEW p \in net, ReceiveS3N(p)
  PROVE  \A m \in Member : ShowsInOrder(m)' /\ AsksForGap(m)'
<1>1. p.to \in Member /\ p.g \in Nat
  BY DEF TypeOK, NetOK, PacketOK, ReceiveS3N
<1>2. UNCHANGED <<holdBackQ, shown>>
  BY DEF ReceiveS3N
<1>3. /\ globalSeq \in [Member -> Nat] /\ givenUp \in [Member -> SUBSET Nat]
      /\ globalSeqLost \in [Member -> Map(Nat, Nat)] /\ notificationGlobalSeq' \in [Member -> Nat]
  BY DEF TypeOK, DisplayOK
<1>4. ASSUME NEW m \in Member, globalSeq'[m] = globalSeq[m], givenUp'[m] = givenUp[m],
             DOMAIN globalSeqLost'[m] = DOMAIN globalSeqLost[m]
      PROVE  ShowsInOrder(m)' /\ AsksForGap(m)'
  BY <1>2, <1>3, <1>4, DisplayKept
<1>5. CASE UNCHANGED <<globalSeqLost, globalSeq, givenUp>>
  BY <1>4, <1>5
<1>6. ASSUME UNCHANGED <<globalSeq, givenUp>>, NEW f,
             globalSeqLost' = [globalSeqLost EXCEPT ![p.to] = f],
             DOMAIN f = DOMAIN globalSeqLost[p.to]
      PROVE  \A m \in Member : ShowsInOrder(m)' /\ AsksForGap(m)'
  BY <1>1, <1>3, <1>4, <1>6
<1>7. ASSUME globalSeq' = [globalSeq EXCEPT ![p.to] = p.g + 1],
             givenUp' = [givenUp EXCEPT ![p.to] = @ \cup {p.g}], NEW f,
             globalSeqLost' = [globalSeqLost EXCEPT ![p.to] = f]
      PROVE  \A m \in Member : ShowsInOrder(m)' /\ AsksForGap(m)'
  <2>1. \A m \in Member : m # p.to => ShowsInOrder(m)' /\ AsksForGap(m)'
    BY <1>1, <1>3, <1>4, <1>7
  <2>2. givenUp'[p.to] # {} /\ globalSeq'[p.to] > 0
    BY <1>1, <1>3, <1>7
  <2>3. ShowsInOrder(p.to)' /\ AsksForGap(p.to)'
    BY <2>2 DEF ShowsInOrder, NothingYet, AsksForGap, HeldBack
  <2> QED BY <2>1, <2>3
<1> QED BY <1>5, <1>6, <1>7, ReceiveS3N_Does

LEMMA DisplayStep ==
  ASSUME TypeOK, FounderLeads, \A m \in Member : ShowsInOrder(m) /\ AsksForGap(m), [Next]_vars
  PROVE  \A m \in Member : ShowsInOrder(m)' /\ AsksForGap(m)'
<1>1. TypeOK'
  BY TypeStep
<1>2. \A m \in Member : Later(m)
  BY LaterStep
<1>3. ASSUME UNCHANGED displayVars PROVE \A m \in Member : ShowsInOrder(m)' /\ AsksForGap(m)'
  <2>1. SUFFICES ASSUME NEW m \in Member PROVE ShowsInOrder(m)' /\ AsksForGap(m)'
    OBVIOUS
  <2>2. notificationGlobalSeq'[m] \in Nat
    BY <1>1 DEF TypeOK, DisplayOK
  <2> QED BY <1>2, <1>3, <2>2, DisplayKept DEF displayVars
<1>4. ASSUME NEW p \in net,
             \/ ReceiveS0_(p) \/ ReceiveS4A(p) \/ ReceiveN0_(p) \/ ReceiveS0A(p)
             \/ ReceiveS4_(p) \/ ReceiveS3_(p) \/ ReceiveN0A(p) \/ Lose(p)
             \/ UNCHANGED <<viewVars, requestVars, sequencerVars, displayVars,
                            notificationGlobalSeq>>
      PROVE  UNCHANGED displayVars
  <2>1. CASE ReceiveS0_(p)
    BY <2>1, ReceiveS0_Does DEF S0Step
  <2>2. CASE \/ ReceiveS4A(p) \/ ReceiveN0_(p) \/ ReceiveS0A(p) \/ ReceiveS4_(p)
             \/ ReceiveS3_(p) \/ ReceiveN0A(p) \/ Lose(p)
    BY <2>2 DEF ReceiveS4A, ReceiveN0_, ReceiveS0A, ReceiveS4_, ReceiveS3_, ReceiveN0A, Lose
  <2> QED BY <1>4, <2>1, <2>2
<1>5. ASSUME NEW m \in Member,
             \/ Type(m)
             \/ \E l \in DOMAIN seqBuffer[m] : Resend(m, l)
             \/ \E l \in DOMAIN seqBuffer[m] : GiveUp(m, l)
             \/ \E g \in DOMAIN txBuffer[m] : TxExpire(m, g)
             \/ TakeOver(m)
             \/ \E c \in Member : RemoveMember(m, c)
             \/ \E c \in Member : AskToJoin(m, c)
             \/ Gone(m)
      PROVE  UNCHANGED displayVars
  BY <1>5 DEF Type, Resend, GiveUp, TxExpire, TakeOver, RemoveMember, AskToJoin, Gone
<1>6. ASSUME UNCHANGED vars PROVE UNCHANGED displayVars
  BY <1>6 DEF vars
<1>7. ASSUME NEW p \in net, p.tag \in {"C0_", "S3A"}, Chat(p)
      PROVE  \A m \in Member : ShowsInOrder(m)' /\ AsksForGap(m)'
  BY <1>1, <1>2, <1>7, DisplayAfterChat
<1>8. ASSUME NEW p \in net, ReceiveS3N(p)
      PROVE  \A m \in Member : ShowsInOrder(m)' /\ AsksForGap(m)'
  BY <1>1, <1>2, <1>8, DisplayAfterS3N
<1> QED BY <1>3, <1>4, <1>5, <1>6, <1>7, <1>8, Steps

LEMMA DisplayInit == Init => \A m \in Member : ShowsInOrder(m) /\ AsksForGap(m)
<1> SUFFICES ASSUME Init, NEW m \in Member PROVE ShowsInOrder(m) /\ AsksForGap(m)
  OBVIOUS
<1>1. /\ globalSeq[m] = 0 /\ holdBackQ[m] = Empty /\ shown[m] = <<>> /\ givenUp[m] = {}
      /\ globalSeqLost[m] = Empty
  BY DEF Init
<1>2. DOMAIN Empty = {}
  BY EmptyMap
<1>3. Known(m) = {}
  BY <1>1 DEF Known
<1> QED BY <1>1, <1>2, <1>3 DEF ShowsInOrder, NothingYet, AsksForGap, HeldBack

\* The inductive invariant of the display.
DisplayInv ==
  TypeOK /\ FounderLeads /\ \A m \in Member : ShowsInOrder(m) /\ AsksForGap(m)

LEMMA DisplayInvariant == Spec => []DisplayInv
<1>1. Init => DisplayInv
  BY InitType, LeadsInit, DisplayInit DEF DisplayInv
<1>2. DisplayInv /\ [Next]_vars => DisplayInv'
  BY TypeStep, LeadsStep, DisplayStep DEF DisplayInv
<1> QED BY <1>1, <1>2, PTL DEF Spec

\* A member passes over a number between two lines it displays only if it is not
\* after a notification, has the line, or has declared a number lost
\* (dchat.cpp:186-187).
THEOREM GapsHaveAReason == Spec => []GapsAreNotifications
<1>1. DisplayInv => GapsAreNotifications
  <2> SUFFICES ASSUME DisplayInv, NEW m \in Member, givenUp[m] = {}, ~TookOver(m),
                      NEW k \in DOMAIN sequenced, NEW g \in Known(m), g < sequenced[k].g,
                      sequenced[k].g < globalSeq[m]
               PROVE  \/ sequenced[k].g <= notificationGlobalSeq[m]
                      \/ sequenced[k].g \in DOMAIN holdBackQ[m]
    BY DEF GapsAreNotifications
  <2>1. sequenced[k].g \in Nat
    BY LogFacts DEF DisplayInv, TypeOK, SequencerOK
  <2>2. globalSeq[m] \in Nat
    BY DEF DisplayInv, TypeOK, DisplayOK
  <2> QED BY <2>1, <2>2 DEF DisplayInv, ShowsInOrder
<1> QED BY <1>1, DisplayInvariant, PTL

\* While the founder leads, a member that holds back a line because of a gap has
\* asked for the missing number (dchat.cpp:222-234).
THEOREM GapsAreAskedFor == Spec => []GapIsAskedFor
<1>1. DisplayInv => GapIsAskedFor
  BY DEF DisplayInv, AsksForGap, HeldBack, GapIsAskedFor
<1> QED BY <1>1, DisplayInvariant, PTL

-----------------------------------------------------------------------------
(***************************************************************************)
(* The numbers the founder gives.                                          *)
(***************************************************************************)
\* They are given in order.
LogInOrder ==
  up[Founder] = "in" =>
    /\ \A k \in 1..Len(sequenced) : sequenced[k].g <= generatedGlobalSeq[Founder]
    /\ \A k \in 1..Len(sequenced) : \A j \in 1..(k - 1) : sequenced[j].g < sequenced[k].g

\* What a request handled by the founder adds to the log.
LEMMA LogAfterS0 ==
  ASSUME TypeOK, LogInOrder, up[Founder] = "in", NEW t, NEW s, NEW from, NEW a \in Nat, NEW n \in Nat,
         Numbers(Founder, s, t, from, a, n), WorkOK(s), s.log = sequenced,
         s.generated = generatedGlobalSeq[Founder]
  PROVE  /\ \A k \in 1..Len(t.log) : t.log[k].g <= t.generated
         /\ \A k \in 1..Len(t.log) : \A j \in 1..(k - 1) : t.log[j].g < t.log[k].g
<1>1. /\ s.log \in Log /\ t.log \in Log /\ s.generated \in Nat /\ t.generated \in Nat
  BY DEF WorkOK, Numbers
<1>2. /\ Len(s.log) \in Nat /\ Len(t.log) = Len(s.log) + n /\ t.generated >= s.generated
      /\ \A k \in 1..Len(s.log) : t.log[k] = s.log[k]
      /\ \A k \in Len(s.log) + 1 .. Len(t.log) :
           /\ s.generated < t.log[k].g /\ t.log[k].g <= t.generated
           /\ \A j \in Len(s.log) + 1 .. k - 1 : t.log[j].g < t.log[k].g
  BY <1>1, LogFacts DEF Numbers
<1>3. /\ \A k \in 1..Len(s.log) : s.log[k].g <= s.generated
      /\ \A k \in 1..Len(s.log) : \A j \in 1..(k - 1) : s.log[j].g < s.log[k].g
  BY DEF LogInOrder
<1>4. /\ \A k \in 1..Len(s.log) : s.log[k].g \in Nat
      /\ \A k \in 1..Len(t.log) : t.log[k].g \in Nat
  BY <1>1, LogFacts
<1>5. PICK c : c = Len(s.log)
  OBVIOUS
<1>6. c \in Nat /\ Len(t.log) = c + n
  BY <1>2, <1>5
<1>7. ASSUME NEW k \in 1..(c + n) PROVE t.log[k].g <= t.generated
  <2>1. CASE k <= c
    BY <1>1, <1>2, <1>3, <1>4, <1>5, <1>6, <1>7, <2>1
  <2>2. CASE k > c
    BY <1>2, <1>5, <1>6, <1>7, <2>2
  <2> QED BY <1>6, <1>7, <2>1, <2>2
<1>8. ASSUME NEW k \in 1..(c + n), NEW j \in 1..(k - 1) PROVE t.log[j].g < t.log[k].g
  <2>0. k \in Nat /\ j \in Nat /\ k <= c + n /\ 1 <= j /\ j < k
    BY <1>6, <1>8
  <2>1. CASE k <= c
    <3>1. k \in 1..Len(s.log) /\ j \in 1..Len(s.log)
      BY <1>5, <1>6, <2>0, <2>1
    <3> QED BY <1>2, <1>3, <1>8, <3>1
  <2>2. CASE k > c /\ j <= c
    <3>1. j \in 1..Len(s.log) /\ k \in Len(s.log) + 1 .. Len(t.log)
      BY <1>5, <1>6, <2>0, <2>2
    <3>2. t.log[j] = s.log[j] /\ s.log[j].g <= s.generated /\ s.generated < t.log[k].g
      BY <1>2, <1>3, <3>1
    <3> QED BY <1>1, <1>4, <1>6, <1>8, <3>1, <3>2
  <2>3. CASE j > c
    <3>1. k \in Len(s.log) + 1 .. Len(t.log) /\ j \in Len(s.log) + 1 .. k - 1
      BY <1>5, <1>6, <2>0, <2>3
    <3> QED BY <1>2, <3>1
  <2> QED BY <1>6, <2>0, <2>1, <2>2, <2>3
<1> QED BY <1>6, <1>7, <1>8

LEMMA LogStep ==
  ASSUME TypeOK, FounderLeads, LogInOrder, [Next]_vars
  PROVE  LogInOrder'
<1>1. SUFFICES ASSUME up'[Founder] = "in"
               PROVE  LogInOrder'
  BY DEF LogInOrder
<1>2. up[Founder] = "in"
  BY <1>1, LaterStep, MemberFacts DEF Later
<1>3. generatedGlobalSeq[Founder] \in Nat /\ \A k \in 1..Len(sequenced) : sequenced[k].g \in Nat
  BY MemberFacts, LogFacts DEF TypeOK, SequencerOK
<1>4. ASSUME UNCHANGED sequenced, generatedGlobalSeq'[Founder] \in Nat,
             generatedGlobalSeq'[Founder] >= generatedGlobalSeq[Founder]
      PROVE  LogInOrder'
  BY <1>2, <1>3, <1>4 DEF LogInOrder
<1>5. ASSUME UNCHANGED <<sequenced, generatedGlobalSeq>> PROVE LogInOrder'
  BY <1>3, <1>4, <1>5
<1>6. ASSUME NEW p \in net, ReceiveS0_(p) PROVE LogInOrder'
  <2>1. p.to = Founder
    BY <1>2, <1>6 DEF FounderLeads, ReceiveS0_
  <2>2. PICK t, q, a, n, asked, msgs :
          /\ Handled(p, t, q, a, n, asked, msgs) /\ S0Step(p, t, q)
          /\ WorkOK(Asking(p.to, p.from, asked))
    BY <1>6, ReceiveS0_Does
  <2>3. PICK s : s = Asking(p.to, p.from, asked)
    OBVIOUS
  <2>4. /\ Numbers(Founder, s, t, p.from, a, n) /\ WorkOK(s) /\ a \in Nat /\ n \in Nat
        /\ s.log = sequenced /\ s.generated = generatedGlobalSeq[Founder]
    BY <2>1, <2>2, <2>3 DEF Handled, Asking
  <2>5. /\ \A k \in 1..Len(t.log) : t.log[k].g <= t.generated
        /\ \A k \in 1..Len(t.log) : \A j \in 1..(k - 1) : t.log[j].g < t.log[k].g
    BY <1>2, <2>4, LogAfterS0
  <2>6. sequenced' = t.log /\ generatedGlobalSeq'[Founder] = t.generated
    BY <2>1, <2>2, MemberFacts DEF S0Step, TypeOK, SequencerOK
  <2> QED BY <2>5, <2>6 DEF LogInOrder
<1>7. ASSUME NEW m \in Member, NEW c \in Member, RemoveMember(m, c) PROVE LogInOrder'
  <2>1. generatedGlobalSeq' = [generatedGlobalSeq EXCEPT ![m] = generatedGlobalSeq[m] + 1]
    BY <1>7, RemoveMember_Does
  <2>2. UNCHANGED sequenced
    BY <1>7 DEF RemoveMember
  <2>3. /\ generatedGlobalSeq'[Founder] \in Nat
        /\ generatedGlobalSeq'[Founder] >= generatedGlobalSeq[Founder]
    BY <2>1, MemberFacts DEF TypeOK, SequencerOK
  <2> QED BY <1>4, <2>2, <2>3
<1>8. ASSUME NEW m \in Member, TakeOver(m) PROVE LogInOrder'
  BY <1>2, <1>8, LeadsAfterTakeOver
<1>9. ASSUME NEW p \in net,
             \/ ReceiveS4A(p) \/ ReceiveN0_(p) \/ ReceiveS0A(p) \/ ReceiveS4_(p)
             \/ ReceiveS3_(p) \/ ReceiveS3N(p) \/ ReceiveN0A(p) \/ Lose(p)
             \/ UNCHANGED <<viewVars, requestVars, sequencerVars, displayVars,
                            notificationGlobalSeq>>
      PROVE  UNCHANGED <<sequenced, generatedGlobalSeq>>
  BY <1>9 DEF ReceiveS4A, ReceiveN0_, ReceiveS0A, ReceiveS4_, ReceiveS3_, ReceiveS3N,
              ReceiveN0A, Lose, sequencerVars
<1>10. ASSUME NEW p \in net, Chat(p) PROVE UNCHANGED <<sequenced, generatedGlobalSeq>>
  BY <1>10 DEF Chat, sequencerVars
<1>11. ASSUME NEW m \in Member,
             \/ Type(m)
             \/ \E l \in DOMAIN seqBuffer[m] : Resend(m, l)
             \/ \E l \in DOMAIN seqBuffer[m] : GiveUp(m, l)
             \/ \E g \in DOMAIN txBuffer[m] : TxExpire(m, g)
             \/ \E c \in Member : AskToJoin(m, c)
             \/ Gone(m)
       PROVE UNCHANGED <<sequenced, generatedGlobalSeq>>
  BY <1>11 DEF Type, Resend, GiveUp, TxExpire, AskToJoin, Gone, sequencerVars
<1>12. ASSUME UNCHANGED vars PROVE UNCHANGED <<sequenced, generatedGlobalSeq>>
  BY <1>12 DEF vars, sequencerVars
<1> QED BY <1>5, <1>6, <1>7, <1>8, <1>9, <1>10, <1>11, <1>12, Steps

LEMMA LogInit == Init => LogInOrder
<1> SUFFICES ASSUME Init PROVE LogInOrder
  OBVIOUS
<1>1. Len(sequenced) = 0
  BY DEF Init
<1> QED BY <1>1 DEF LogInOrder

-----------------------------------------------------------------------------
(***************************************************************************)
(* Every sender's requests.                                                *)
(***************************************************************************)
\* The number of the request of c that the founder has passed on last, and the
\* first number of c that a request of it is kept under.
Passed(c) == hold_back_queue[Founder][c].last
FirstKept(c) == IF c = Founder THEN 1 ELSE 2

\* The founder waits for request l of c no more.
Pass(c, l) == c \in DOMAIN hold_back_queue[Founder] /\ l <= Passed(c)

\* No number of a request of c is above that of the last one made.
OwnMade(c) ==
  /\ chatMsg[c] <= localSeq[c]
  /\ \A l \in DOMAIN seqBuffer[c] : FirstKept(c) <= l /\ l <= localSeq[c]
  /\ up[c] = "out" => localSeq[c] = 0
  /\ up[c] \in {"joining", "in"} => FirstKept(c) - 1 <= localSeq[c]

PacketMade(q) ==
  /\ q.tag \in {"S0_", "S4A"} => q.l <= localSeq[q.from]
  /\ q.tag = "S4_" => q.l <= localSeq[q.to]
  /\ q.tag = "S4A" => q.l \notin DOMAIN seqBuffer[q.from]
  /\ q.tag = "S0A" /\ q.to = Founder => Pass(Founder, q.l)

FounderMade ==
  \A l \in DOMAIN seqBuffer[Founder] :
    seqBuffer[Founder][l].globalSeq # 0 => Pass(Founder, l)

QueueMade(c) ==
  c \in DOMAIN hold_back_queue[Founder] =>
    /\ Passed(c) <= localSeq[c]
    /\ \A l \in DOMAIN hold_back_queue[Founder][c].msgs : l <= localSeq[c]

\* The requests of c that the founder has numbered.
GivenInOrder(c) ==
  /\ \A k \in Given(c) : Pass(c, sequenced[k].l)
  /\ \A k, j \in Given(c) : j < k => sequenced[j].l < sequenced[k].l

\* A request that is no longer kept was given up or passed on; of those passed
\* by, each was given a number or some later one was given up.
KeptOrPassed(c) ==
  /\ \A l \in Nat : FirstKept(c) <= l /\ l <= localSeq[c] =>
       l \in DOMAIN seqBuffer[c] \/ l \in forgotten[c] \/ Pass(c, l)
  /\ \A k \in Given(c), l \in Nat : sequenced[k].l <= l /\ Pass(c, l) =>
       \/ l \notin DOMAIN seqBuffer[c]
       \/ \E f \in forgotten[c] : l <= f
       \/ \E j \in Given(c) : sequenced[j].l = l

FounderOrder ==
  /\ \A q \in net : PacketMade(q)
  /\ FounderMade
  /\ \A c \in Member : QueueMade(c)
  /\ \A c \in Member : up[c] # "gone" => GivenInOrder(c) /\ KeptOrPassed(c)

RequestsInOrder == (\A c \in Member : OwnMade(c)) /\ (up[Founder] = "in" => FounderOrder)

\* A step in which member m makes, changes or drops requests of its own.
Own(m) ==
  /\ \A c \in Member \ {m} :
       /\ seqBuffer'[c] = seqBuffer[c] /\ localSeq'[c] = localSeq[c]
       /\ chatMsg'[c] = chatMsg[c] /\ forgotten'[c] = forgotten[c]
  /\ UNCHANGED <<hold_back_queue, sequenced>>
  /\ \A q \in net' : \/ q \in net \/ q.tag \in {"N0_", "S3_"}
                     \/ q.tag = "S0_" /\ q.from = m /\ q.l <= localSeq'[m]
  /\ forgotten[m] \subseteq forgotten'[m]
  /\ chatMsg'[m] = chatMsg[m] \/ chatMsg'[m] = localSeq'[m]
  /\ \A l \in DOMAIN seqBuffer'[m] :
       l \in DOMAIN seqBuffer[m] \/ (l = localSeq'[m] /\ localSeq[m] < l)
  /\ \/ localSeq'[m] = localSeq[m] /\ UNCHANGED up
     \/ /\ localSeq'[m] = localSeq[m] + 1 /\ up[m] = "in" /\ UNCHANGED up
        /\ localSeq'[m] \in DOMAIN seqBuffer'[m]
     \/ /\ localSeq'[m] = localSeq[m] + 1 /\ up[m] = "out"
        /\ up' = [up EXCEPT ![m] = "joining"] /\ seqBuffer'[m] = seqBuffer[m]
  /\ up[Founder] = "in" =>
       /\ \A l \in DOMAIN seqBuffer[m] :
            l \in DOMAIN seqBuffer'[m] \/ l \in forgotten'[m] \/ Pass(m, l)
       /\ m = Founder => \A l \in DOMAIN seqBuffer'[m] :
                           seqBuffer'[m][l].globalSeq # 0 => Pass(m, l)

LEMMA RequestFacts ==
  ASSUME RequestOK, NEW c \in Member
  PROVE  /\ localSeq[c] \in Nat /\ chatMsg[c] \in Nat /\ FirstKept(c) \in Nat
         /\ DOMAIN seqBuffer[c] \subseteq Nat /\ forgotten[c] \subseteq Nat
BY MapDef DEF RequestOK, FirstKept

LEMMA QueueFacts ==
  ASSUME SequencerOK, NEW c \in DOMAIN hold_back_queue[Founder]
  PROVE  /\ c \in Member /\ Passed(c) \in Nat
         /\ \A l \in DOMAIN hold_back_queue[Founder][c].msgs : l \in Nat
<1>1. hold_back_queue[Founder] \in Map(Member, Queue)
  BY MemberFacts DEF SequencerOK
<1>2. c \in Member /\ hold_back_queue[Founder][c] \in Queue
  BY <1>1, MapUse
<1>3. /\ hold_back_queue[Founder][c].last \in Nat
      /\ hold_back_queue[Founder][c].msgs \in Map(Nat, Member \cup {NoOne})
  BY <1>2 DEF Queue
<1>4. DOMAIN hold_back_queue[Founder][c].msgs \subseteq Nat
  BY <1>3, MapUse
<1> QED BY <1>2, <1>3, <1>4 DEF Passed

LEMMA MadeAfterOwn ==
  ASSUME TypeOK, TypeOK', FounderLeads, \A c \in Member : OwnMade(c), NEW m \in Member, Own(m)
  PROVE  \A c \in Member : OwnMade(c)'
<1>1. ASSUME NEW c \in Member, c # m PROVE OwnMade(c)'
  <2>1. up'[c] = up[c]
    BY <1>1 DEF Own, TypeOK, ViewOK
  <2> QED BY <1>1, <2>1 DEF Own, OwnMade
<1>2. OwnMade(m)'
  <2>1. /\ localSeq[m] \in Nat /\ chatMsg[m] \in Nat /\ FirstKept(m) \in Nat
        /\ DOMAIN seqBuffer[m] \subseteq Nat
    BY RequestFacts DEF TypeOK
  <2>2. /\ localSeq'[m] \in Nat /\ DOMAIN seqBuffer'[m] \subseteq Nat
    BY MapDef DEF TypeOK, RequestOK
  <2>3. OwnMade(m)
    OBVIOUS
  <2>4. chatMsg'[m] <= localSeq'[m]
    BY <2>1, <2>2, <2>3 DEF Own, OwnMade
  <2>5. CASE localSeq'[m] = localSeq[m] /\ UNCHANGED up
    BY <2>1, <2>2, <2>3, <2>4, <2>5 DEF Own, OwnMade, FirstKept
  <2>6. CASE localSeq'[m] = localSeq[m] + 1 /\ up[m] = "in" /\ UNCHANGED up
    <3>1. FirstKept(m) - 1 <= localSeq[m]
      BY <2>3, <2>6 DEF OwnMade
    <3>2. \A l \in DOMAIN seqBuffer'[m] : FirstKept(m) <= l /\ l <= localSeq'[m]
      BY <2>1, <2>2, <2>3, <2>6, <3>1 DEF Own, OwnMade
    <3>3. FirstKept(m) - 1 <= localSeq'[m]
      BY <2>1, <2>6, <3>1
    <3> QED BY <2>4, <2>6, <3>2, <3>3 DEF OwnMade, FirstKept
  <2>7. CASE /\ localSeq'[m] = localSeq[m] + 1 /\ up[m] = "out"
             /\ up' = [up EXCEPT ![m] = "joining"] /\ seqBuffer'[m] = seqBuffer[m]
    <3>1. m # Founder /\ up'[m] = "joining"
      BY <2>7 DEF FounderLeads, TypeOK, ViewOK
    <3>2. FirstKept(m) = 2 /\ localSeq[m] = 0
      BY <2>3, <2>7, <3>1 DEF OwnMade, FirstKept
    <3>3. \A l \in DOMAIN seqBuffer'[m] : FirstKept(m) <= l /\ l <= localSeq'[m]
      BY <2>1, <2>3, <2>7 DEF OwnMade
    <3> QED BY <2>4, <2>7, <3>1, <3>2, <3>3 DEF OwnMade, FirstKept
  <2> QED BY <2>5, <2>6, <2>7 DEF Own
<1> QED BY <1>1, <1>2

LEMMA OrderAfterOwn ==
  ASSUME TypeOK, TypeOK', FounderLeads, \A c \in Member : OwnMade(c), NEW m \in Member, Own(m),
         FounderOrder, up[Founder] = "in"
  PROVE  FounderOrder'
<1>1. \A c \in Member : /\ localSeq[c] \in Nat /\ FirstKept(c) \in Nat
                        /\ DOMAIN seqBuffer[c] \subseteq Nat
                        /\ localSeq'[c] \in Nat /\ DOMAIN seqBuffer'[c] \subseteq Nat
  BY RequestFacts, MapDef DEF TypeOK, RequestOK
<1>2. \A c \in Member : localSeq[c] <= localSeq'[c]
  BY <1>1 DEF Own
<1>3. /\ UNCHANGED <<hold_back_queue, sequenced>>
      /\ \A c, l : Pass(c, l)' <=> Pass(c, l)
      /\ \A c : Given(c)' = Given(c)
  BY DEF Own, Pass, Passed, Given
<1>4. \A c \in Member, l \in Nat :
        l <= localSeq[c] /\ l \notin DOMAIN seqBuffer[c] => l \notin DOMAIN seqBuffer'[c]
  BY <1>1 DEF Own
<1>5. ASSUME NEW q \in net' PROVE PacketMade(q)'
  <2>1. PacketOK(q)
    BY DEF TypeOK, NetOK, PacketOK
  <2>2. CASE q \in net
    <3>1. PacketMade(q)
      BY <2>2 DEF FounderOrder
    <3>2. q.tag \in {"S0_", "S4A"} => q.from \in Member /\ q.l \in Nat
      BY <2>1, MemberFacts DEF PacketOK
    <3>3. q.tag = "S4_" => q.to \in Member /\ q.l \in Nat
      BY <2>1, MemberFacts DEF PacketOK
    <3>4. q.tag \in {"S0_", "S4A"} => q.l <= localSeq'[q.from]
      BY <1>1, <1>2, <3>1, <3>2 DEF PacketMade
    <3>5. q.tag = "S4_" => q.l <= localSeq'[q.to]
      BY <1>1, <1>2, <3>1, <3>3 DEF PacketMade
    <3>6. q.tag = "S4A" => q.l \notin DOMAIN seqBuffer'[q.from]
      BY <1>4, <3>1, <3>2 DEF PacketMade
    <3> QED BY <1>3, <3>1, <3>4, <3>5, <3>6 DEF PacketMade
  <2>3. CASE q.tag \in {"N0_", "S3_"}
    BY <2>3 DEF PacketMade
  <2>4. CASE q.tag = "S0_" /\ q.from = m /\ q.l <= localSeq'[m]
    BY <2>4 DEF PacketMade
  <2> QED BY <1>5, <2>2, <2>3, <2>4 DEF Own
<1>6. FounderMade'
  BY <1>3, MemberFacts DEF Own, FounderMade, FounderOrder
<1>7. ASSUME NEW c \in Member PROVE QueueMade(c)'
  <2>1. QueueMade(c)
    BY DEF FounderOrder
  <2>2. c \in DOMAIN hold_back_queue[Founder] =>
          /\ Passed(c) \in Nat
          /\ \A l \in DOMAIN hold_back_queue[Founder][c].msgs : l \in Nat
    BY QueueFacts DEF TypeOK
  <2>3. localSeq[c] \in Nat /\ localSeq'[c] \in Nat /\ localSeq[c] <= localSeq'[c]
    BY <1>1, <1>2
  <2> QED BY <1>3, <2>1, <2>2, <2>3 DEF QueueMade, Passed
<1>8. ASSUME NEW c \in Member, up'[c] # "gone" PROVE GivenInOrder(c)' /\ KeptOrPassed(c)'
  <2>1. up[c] # "gone"
    BY <1>8 DEF Own, TypeOK, ViewOK
  <2>2. GivenInOrder(c) /\ KeptOrPassed(c)
    BY <2>1 DEF FounderOrder
  <2>3. GivenInOrder(c)'
    BY <1>3, <2>2 DEF GivenInOrder
  <2>4. forgotten[c] \subseteq forgotten'[c]
    BY DEF Own
  <2>5. ASSUME NEW l \in Nat, FirstKept(c) <= l, l <= localSeq'[c]
        PROVE  l \in DOMAIN seqBuffer'[c] \/ l \in forgotten'[c] \/ Pass(c, l)
    <3>1. CASE l <= localSeq[c]
      <4>1. l \in DOMAIN seqBuffer[c] \/ l \in forgotten[c] \/ Pass(c, l)
        BY <2>2, <2>5, <3>1 DEF KeptOrPassed
      <4>2. CASE c = m
        BY <2>4, <4>1, <4>2 DEF Own
      <4>3. CASE c # m
        BY <4>1, <4>3 DEF Own
      <4> QED BY <4>2, <4>3
    <3>2. CASE l > localSeq[c]
      <4>1. localSeq'[c] # localSeq[c]
        BY <1>1, <2>5, <3>2
      <4>2. c = m
        BY <4>1 DEF Own
      <4>3. l = localSeq'[m] /\ localSeq'[m] = localSeq[m] + 1
        BY <1>1, <2>5, <3>2, <4>1, <4>2 DEF Own
      <4>4. CASE localSeq'[m] \in DOMAIN seqBuffer'[m]
        BY <4>2, <4>3, <4>4
      <4>5. CASE up[m] = "out"
        <5>1. m # Founder
          BY <4>5 DEF FounderLeads
        <5>2. FirstKept(m) = 2 /\ localSeq[m] = 0
          BY <4>5, <5>1 DEF OwnMade, FirstKept
        <5> QED BY <2>5, <4>2, <4>3, <5>2
      <4> QED BY <4>1, <4>2, <4>4, <4>5 DEF Own
    <3> QED BY <1>1, <3>1, <3>2
  <2>6. ASSUME NEW k \in Given(c), NEW l \in Nat, sequenced[k].l <= l, Pass(c, l)
        PROVE  \/ l \notin DOMAIN seqBuffer'[c]
               \/ \E f \in forgotten'[c] : l <= f
               \/ \E j \in Given(c) : sequenced[j].l = l
    <3>1. \/ l \notin DOMAIN seqBuffer[c]
          \/ \E f \in forgotten[c] : l <= f
          \/ \E j \in Given(c) : sequenced[j].l = l
      BY <2>2, <2>6 DEF KeptOrPassed
    <3>2. l <= localSeq[c]
      <4>1. Passed(c) \in Nat /\ Passed(c) <= localSeq[c]
        BY <2>6, QueueFacts DEF Pass, FounderOrder, QueueMade, TypeOK
      <4> QED BY <1>1, <2>6, <4>1 DEF Pass
    <3> QED BY <1>4, <2>4, <3>1, <3>2
  <2>7. KeptOrPassed(c)'
    BY <1>3, <2>5, <2>6 DEF KeptOrPassed, FirstKept
  <2> QED BY <2>3, <2>7
<1> QED BY <1>5, <1>6, <1>7, <1>8 DEF FounderOrder

LEMMA OnlySent ==
  \A p, sent : Receive(p, sent) \/ Sent(sent) => \A q \in net' : q \in net \/ q \in sent
BY DEF Receive, Sent

\* A request the founder has a number for: it has passed it on.
LEMMA FounderPasses ==
  ASSUME RequestsInOrder, up[Founder] = "in"
  PROVE  FounderMade
BY DEF RequestsInOrder, FounderOrder

LEMMA TypeOwn ==
  ASSUME TypeOK, RequestsInOrder, NEW m \in Member, Type(m)
  PROVE  Own(m)
<1>1. PICK l : l = localSeq[m] + 1
  OBVIOUS
<1>2. PICK b : b = Insert(seqBuffer[m], l, NewRequest(NoOne))
  OBVIOUS
<1>3. /\ localSeq' = [localSeq EXCEPT ![m] = l]
      /\ chatMsg' = [chatMsg EXCEPT ![m] = l] /\ seqBuffer' = [seqBuffer EXCEPT ![m] = b]
      /\ Send({S0_(m, leader[m], l, NoOne)})
      /\ UNCHANGED <<viewVars, forgotten, sequencerVars>> /\ up[m] = "in"
  BY <1>1, <1>2, Zenon DEF Type
<1>4. l \in Nat /\ localSeq[m] \in Nat
  BY <1>1 DEF TypeOK, RequestOK
<1>5. /\ DOMAIN b = DOMAIN seqBuffer[m] \cup {l}
      /\ \A k \in DOMAIN seqBuffer[m] : b[k] = seqBuffer[m][k]
      /\ l \notin DOMAIN seqBuffer[m] => b[l].globalSeq = 0
  BY <1>2, <1>4, NewRequestKept DEF TypeOK
<1>6. /\ seqBuffer'[m] = b /\ localSeq'[m] = l /\ chatMsg'[m] = l
      /\ \A c \in Member \ {m} :
           /\ seqBuffer'[c] = seqBuffer[c] /\ localSeq'[c] = localSeq[c]
           /\ chatMsg'[c] = chatMsg[c] /\ forgotten'[c] = forgotten[c]
  BY <1>3 DEF TypeOK, RequestOK
<1>7. \A q \in net' : q \in net \/ (q.tag = "S0_" /\ q.from = m /\ q.l <= l)
  BY <1>3, <1>4, OnlySent DEF Send, S0_
<1>8. UNCHANGED <<up, forgotten, hold_back_queue, sequenced>>
  BY <1>3 DEF viewVars, sequencerVars
<1>9. l \notin DOMAIN seqBuffer[m]
  BY <1>1, <1>4, RequestFacts DEF RequestsInOrder, OwnMade, TypeOK
<1>10. up[Founder] = "in" /\ m = Founder =>
         \A k \in DOMAIN b : b[k].globalSeq # 0 => Pass(m, k)
  BY <1>5, <1>9, FounderPasses DEF FounderMade
<1> QED BY <1>1, <1>3, <1>4, <1>5, <1>6, <1>7, <1>8, <1>9, <1>10 DEF Own

LEMMA ReceiveN0_Own ==
  ASSUME TypeOK, RequestsInOrder, NEW p \in net, up[p.to] = "in", ReceiveN0_(p)
  PROVE  p.to \in Member /\ Own(p.to)
<1>0. PICK m : m = p.to
  OBVIOUS
<1>1. PICK l : l = localSeq[m] + 1
  OBVIOUS
<1>2. PICK b : b = Insert(seqBuffer[m], l, NewRequest(p.from))
  OBVIOUS
<1>a. m \in Member /\ p.from \in Member
  BY <1>0 DEF TypeOK, NetOK, PacketOK, ReceiveN0_
<1>3. /\ localSeq' = [localSeq EXCEPT ![m] = l]
      /\ seqBuffer' = [seqBuffer EXCEPT ![m] = b]
      /\ Receive(p, {S0_(m, leader[m], l, p.from)})
      /\ UNCHANGED <<viewVars, chatMsg, forgotten, sequencerVars>> /\ up[m] = "in"
  BY <1>0, <1>1, <1>2, Zenon DEF ReceiveN0_
<1>4. l \in Nat /\ localSeq[m] \in Nat
  BY <1>a, <1>1 DEF TypeOK, RequestOK
<1>5. /\ DOMAIN b = DOMAIN seqBuffer[m] \cup {l}
      /\ \A k \in DOMAIN seqBuffer[m] : b[k] = seqBuffer[m][k]
      /\ l \notin DOMAIN seqBuffer[m] => b[l].globalSeq = 0
  BY <1>a, <1>2, <1>4, NewRequestKept DEF TypeOK
<1>6. /\ seqBuffer'[m] = b /\ localSeq'[m] = l
      /\ \A c \in Member \ {m} :
           /\ seqBuffer'[c] = seqBuffer[c] /\ localSeq'[c] = localSeq[c]
  BY <1>a, <1>3 DEF TypeOK, RequestOK
<1>7. \A q \in net' : q \in net \/ (q.tag = "S0_" /\ q.from = m /\ q.l <= l)
  BY <1>3, <1>4, OnlySent DEF S0_
<1>8. UNCHANGED <<up, chatMsg, forgotten, hold_back_queue, sequenced>>
  BY <1>3 DEF viewVars, sequencerVars
<1>9. l \notin DOMAIN seqBuffer[m]
  BY <1>a, <1>1, <1>4, RequestFacts DEF RequestsInOrder, OwnMade, TypeOK
<1>10. up[Founder] = "in" /\ m = Founder =>
         \A k \in DOMAIN b : b[k].globalSeq # 0 => Pass(m, k)
  BY <1>5, <1>9, FounderPasses DEF FounderMade
<1>11. Own(m)
  BY <1>1, <1>3, <1>4, <1>5, <1>6, <1>7, <1>8, <1>9, <1>10 DEF Own
<1> QED BY <1>0, <1>a, <1>11

LEMMA AskToJoinOwn ==
  ASSUME TypeOK, RequestsInOrder, NEW m \in Member, NEW c \in Member, AskToJoin(m, c)
  PROVE  Own(m)
<1>1. /\ up' = [up EXCEPT ![m] = "joining"] /\ up[m] = "out"
      /\ localSeq' = [localSeq EXCEPT ![m] = @ + 1]
      /\ Sent({N0_(m, c)})
      /\ UNCHANGED <<chatMsg, seqBuffer, forgotten, sequencerVars>>
  BY DEF AskToJoin, Send
<1>2. /\ localSeq'[m] = localSeq[m] + 1
      /\ \A x \in Member \ {m} : localSeq'[x] = localSeq[x]
  BY <1>1 DEF TypeOK, RequestOK
<1>3. \A q \in net' : q \in net \/ q.tag \in {"N0_", "S3_"}
  BY <1>1, OnlySent DEF N0_
<1>4. up[Founder] = "in" => FounderMade
  BY FounderPasses
<1> QED BY <1>1, <1>2, <1>3, <1>4 DEF Own, FounderMade, sequencerVars

\* A step in which a member's requests stay or some of them go.
LEMMA FewerOwn ==
  ASSUME TypeOK, RequestsInOrder, NEW m \in Member, NEW b,
         seqBuffer' = [seqBuffer EXCEPT ![m] = b], DOMAIN b \subseteq DOMAIN seqBuffer[m],
         UNCHANGED <<up, localSeq, chatMsg, hold_back_queue, sequenced>>,
         forgotten \in [Member -> SUBSET Nat],
         forgotten[m] \subseteq forgotten'[m],
         \A c \in Member \ {m} : forgotten'[c] = forgotten[c],
         \A q \in net' : \/ q \in net \/ q.tag \in {"N0_", "S3_"}
                         \/ q.tag = "S0_" /\ q.from = m /\ q.l <= localSeq[m],
         up[Founder] = "in" =>
           /\ \A l \in DOMAIN seqBuffer[m] \ DOMAIN b : l \in forgotten'[m] \/ Pass(m, l)
           /\ m = Founder => \A l \in DOMAIN b : b[l].globalSeq # 0 => Pass(m, l)
  PROVE  Own(m)
<1>1. /\ seqBuffer'[m] = b
      /\ \A c \in Member \ {m} : seqBuffer'[c] = seqBuffer[c]
  BY DEF TypeOK, RequestOK
<1> QED BY <1>1 DEF Own

LEMMA ReceiveS0A_Own ==
  ASSUME TypeOK, RequestsInOrder, NEW p \in net, ReceiveS0A(p)
  PROVE  p.to \in Member /\ Own(p.to)
<1>1. p.to \in Member /\ p.tag = "S0A"
  BY DEF TypeOK, NetOK, PacketOK, ReceiveS0A
<1>2. PICK b : /\ seqBuffer' = [seqBuffer EXCEPT ![p.to] = b]
               /\ DOMAIN b = DOMAIN seqBuffer[p.to]
               /\ \A l \in DOMAIN b : \/ l = p.l
                                      \/ b[l] = seqBuffer[p.to][l]
  BY ReceiveS0A_Does
<1>3. UNCHANGED <<up, localSeq, chatMsg, hold_back_queue, sequenced, forgotten>>
  BY DEF ReceiveS0A, viewVars, sequencerVars
<1>4. \A q \in net' : q \in net
  BY OnlySent DEF ReceiveS0A
<1>5. ASSUME up[Founder] = "in", p.to = Founder, NEW l \in DOMAIN b, b[l].globalSeq # 0
      PROVE  Pass(p.to, l)
  <2>1. FounderMade /\ PacketMade(p)
    BY <1>5 DEF RequestsInOrder, FounderOrder
  <2> QED BY <1>1, <1>2, <1>5, <2>1 DEF FounderMade, PacketMade
<1>6. Own(p.to)
  BY <1>1, <1>2, <1>3, <1>4, <1>5, FewerOwn DEF TypeOK, RequestOK
<1> QED BY <1>1, <1>6

LEMMA ResendOwn ==
  ASSUME TypeOK, RequestsInOrder, NEW m \in Member, NEW l \in DOMAIN seqBuffer[m], Resend(m, l)
  PROVE  Own(m)
<1>1. PICK b : /\ seqBuffer' = [seqBuffer EXCEPT ![m] = b]
               /\ DOMAIN b = DOMAIN seqBuffer[m]
               /\ \A k \in DOMAIN b : b[k].globalSeq = seqBuffer[m][k].globalSeq
  BY Resend_Does
<1>2. UNCHANGED <<up, localSeq, chatMsg, hold_back_queue, sequenced, forgotten>>
  BY DEF Resend, viewVars, sequencerVars
<1>3. PICK sent : Sent(sent) /\ sent \subseteq {S0_(m, leader[m], chatMsg[m], NoOne)}
  <2>1. CASE chatMsg[m] = 0
    BY <2>1 DEF Resend
  <2>2. CASE chatMsg[m] # 0
    BY <2>2 DEF Resend
  <2> QED BY <2>1, <2>2
<1>4. chatMsg[m] <= localSeq[m]
  BY DEF RequestsInOrder, OwnMade
<1>5. \A q \in net' : q \in net \/ (q.tag = "S0_" /\ q.from = m /\ q.l <= localSeq[m])
  BY <1>3, <1>4, OnlySent DEF S0_
<1>6. up[Founder] = "in" /\ m = Founder => \A k \in DOMAIN b : b[k].globalSeq # 0 => Pass(m, k)
  BY <1>1, FounderPasses DEF FounderMade
<1> QED BY <1>1, <1>2, <1>5, <1>6, FewerOwn DEF TypeOK, RequestOK

LEMMA GiveUpOwn ==
  ASSUME TypeOK, RequestsInOrder, NEW m \in Member, NEW l \in DOMAIN seqBuffer[m], GiveUp(m, l)
  PROVE  Own(m)
<1>1. PICK b : /\ seqBuffer' = [seqBuffer EXCEPT ![m] = b]
               /\ DOMAIN b = DOMAIN seqBuffer[m] \ {l}
               /\ \A k \in DOMAIN b : b[k] = seqBuffer[m][k]
  BY GiveUp_Does
<1>2. /\ UNCHANGED <<up, localSeq, chatMsg, hold_back_queue, sequenced, net>>
      /\ forgotten' = [forgotten EXCEPT ![m] = @ \cup {l}]
  BY DEF GiveUp, viewVars, sequencerVars
<1>3. /\ forgotten[m] \subseteq forgotten'[m] /\ l \in forgotten'[m]
      /\ \A c \in Member \ {m} : forgotten'[c] = forgotten[c]
      /\ forgotten \in [Member -> SUBSET Nat]
  BY <1>2 DEF TypeOK, RequestOK
<1>4. up[Founder] = "in" /\ m = Founder => \A k \in DOMAIN b : b[k].globalSeq # 0 => Pass(m, k)
  BY <1>1, FounderPasses DEF FounderMade
<1> QED BY <1>1, <1>2, <1>3, <1>4, FewerOwn

LEMMA TxExpireOwn ==
  ASSUME TypeOK, FounderLeads, RequestsInOrder, NEW m \in Member, NEW g \in DOMAIN txBuffer[m],
         TxExpire(m, g)
  PROVE  Own(m)
<1>1. PICK b : /\ seqBuffer' = [seqBuffer EXCEPT ![m] = b]
               /\ DOMAIN b \subseteq DOMAIN seqBuffer[m]
               /\ \A l \in DOMAIN b : b[l] = seqBuffer[m][l]
               /\ \A l \in DOMAIN seqBuffer[m] \ DOMAIN b : seqBuffer[m][l].globalSeq # 0
  BY TxExpire_Does
<1>2. UNCHANGED <<up, localSeq, chatMsg, hold_back_queue, sequenced, net, forgotten>>
  BY DEF TxExpire, viewVars
<1>3. up[Founder] = "in" => m = Founder
  BY EmptyMap DEF FounderLeads
<1>4. up[Founder] = "in" =>
        /\ \A l \in DOMAIN seqBuffer[m] \ DOMAIN b : Pass(m, l)
        /\ \A k \in DOMAIN b : b[k].globalSeq # 0 => Pass(m, k)
  BY <1>1, <1>3, FounderPasses DEF FounderMade
<1> QED BY <1>1, <1>2, <1>4, FewerOwn DEF TypeOK, RequestOK

LEMMA ShownEnds ==
  ASSUME NEW s \in Shown, NEW t \in Shown, NEW i \in 1..Len(t)
  PROVE  \E k \in 1..Len(s \o t) : (s \o t)[k] = t[i]
<1>1. PICK u : u = s \o t
  OBVIOUS
<1>2. /\ Len(u) = Len(s) + Len(t)
      /\ \A k \in 1..(Len(s) + Len(t)) :
           k \in 1..Len(s) \/ (k - Len(s) \in 1..Len(t) /\ u[k] = t[k - Len(s)])
  BY <1>1, ShownConcat
<1>3. PICK n \in Nat, m \in Nat : n = Len(s) /\ m = Len(t)
  BY ShownFacts
<1>4. n + i \in 1..(n + m) /\ n + i \notin 1..n /\ (n + i) - n = i
  BY <1>3
<1>5. n + i \in 1..Len(u) /\ u[n + i] = t[i]
  BY <1>2, <1>3, <1>4
<1> QED BY <1>1, <1>5

LEMMA ChatOwn ==
  ASSUME TypeOK, LinesAreNumbered, RequestsInOrder, NEW p \in net, up[p.to] = "in",
         p.tag \in {"C0_", "S3A"}, Chat(p)
  PROVE  p.to \in Member /\ Own(p.to)
<1>0. PICK q, d : Displayed(p, q, d) /\ ChatStep(p, q, d)
  BY Chat_Does
<1>1. PICK m : m = p.to
  OBVIOUS
<1>2. /\ m \in Member /\ d.lines \in Shown /\ Display(m, d.lines)
      /\ UNCHANGED <<up, localSeq, chatMsg, forgotten, sequencerVars>>
      /\ Receive(p, IF d.ask = 0 THEN {} ELSE {S3_(m, r, d.ask) : r \in participants[m]})
  BY <1>0, <1>1 DEF Displayed, ChatStep
<1>e. PICK lines : lines = d.lines
  OBVIOUS
<1>f. lines \in Shown /\ Display(m, lines)
  BY <1>2, <1>e
<1>g. PICK b : Drops(m, b, lines)
  BY <1>2, <1>f, Display_Does
<1>3. /\ seqBuffer' = [seqBuffer EXCEPT ![m] = b] /\ DOMAIN b \subseteq DOMAIN seqBuffer[m]
      /\ \A l \in DOMAIN b : b[l] = seqBuffer[m][l]
      /\ \A l \in DOMAIN seqBuffer[m] \ DOMAIN b :
           \E i \in 1..Len(lines) : lines[i][2] = <<m, l>>
  BY <1>g DEF Drops
<1>4. LinesAreNumbered'
  BY LinesAfterChat
<1>5. ASSUME up[Founder] = "in", NEW l \in DOMAIN seqBuffer[m] \ DOMAIN b
      PROVE  Pass(m, l)
  <2>1. PICK i \in 1..Len(lines) : lines[i][2] = <<m, l>>
    BY <1>3, <1>5
  <2>2. shown' = [shown EXCEPT ![m] = @ \o lines] /\ shown \in [Member -> Shown]
    BY <1>2, <1>f, Display_Does DEF TypeOK, DisplayOK
  <2>3. PICK s : s = shown[m]
    OBVIOUS
  <2>4. PICK u : u = s \o lines
    OBVIOUS
  <2>5. u = shown'[m] /\ s \in Shown
    BY <1>2, <2>2, <2>3, <2>4
  <2>6. PICK k \in 1..Len(u) : u[k] = lines[i]
    <3>1. s \in Shown /\ lines \in Shown /\ i \in 1..Len(lines)
      BY <1>f, <2>5
    <3>2. \E k \in 1..Len(s \o lines) : (s \o lines)[k] = lines[i]
      BY ONLY <3>1, ShownEnds
    <3> QED BY <2>4, <3>2, Zenon
  <2>7. u[k] \in Numbered(sequenced)
    <3>1. shown'[m][k] \in Numbered(sequenced')
      BY <1>2, <1>4, <2>5, <2>6 DEF LinesAreNumbered
    <3>2. sequenced' = sequenced
      BY <1>2 DEF sequencerVars
    <3> QED BY <2>5, <3>1, <3>2
  <2>8. PICK j \in DOMAIN sequenced : u[k] = <<sequenced[j].g, <<sequenced[j].from, sequenced[j].l>>>>
    BY <2>7 DEF Numbered
  <2>9. sequenced[j].from = m /\ sequenced[j].l = l
    BY <2>1, <2>6, <2>8
  <2>10. GivenInOrder(m)
    BY <1>1, <1>2, <1>5 DEF RequestsInOrder, FounderOrder
  <2> QED BY <2>8, <2>9, <2>10 DEF GivenInOrder, Given
<1>6. \A x \in net' : x \in net \/ x.tag = "S3_"
  BY <1>2, OnlySent DEF S3_
<1>7. up[Founder] = "in" /\ m = Founder => \A l \in DOMAIN b : b[l].globalSeq # 0 => Pass(m, l)
  BY <1>3, FounderPasses DEF FounderMade
<1>8. UNCHANGED <<hold_back_queue, sequenced>>
  BY <1>2 DEF sequencerVars
<1>9. Own(m)
  BY <1>2, <1>3, <1>5, <1>6, <1>7, <1>8, FewerOwn DEF TypeOK, RequestOK
<1> QED BY <1>1, <1>2, <1>9

\* A step that leaves the requests and the log alone.
LEMMA OrderKept ==
  ASSUME TypeOK, FounderOrder, up'[Founder] = "in",
         UNCHANGED <<localSeq, seqBuffer, forgotten, sequenced>>,
         \A c \in Member : up'[c] # "gone" => up[c] # "gone",
         \A q \in net' : q \in net \/ PacketMade(q)',
         DOMAIN hold_back_queue'[Founder] \subseteq DOMAIN hold_back_queue[Founder],
         \A c \in DOMAIN hold_back_queue'[Founder] :
           hold_back_queue'[Founder][c] = hold_back_queue[Founder][c],
         \A c \in DOMAIN hold_back_queue[Founder] \ DOMAIN hold_back_queue'[Founder] :
           up'[c] = "gone"
  PROVE  FounderOrder'
<1>1. \A c \in Member : \A l : up'[c] # "gone" => (Pass(c, l)' <=> Pass(c, l))
  BY DEF Pass, Passed
<1>2. \A c : Given(c)' = Given(c)
  BY DEF Given
<1>3. \A q \in net' : PacketMade(q)'
  BY <1>1, MemberFacts DEF PacketMade, FounderOrder
<1>4. FounderMade'
  BY <1>1, MemberFacts DEF FounderMade, FounderOrder
<1>5. \A c \in Member : QueueMade(c)'
  BY DEF QueueMade, FounderOrder, Passed
<1>6. ASSUME NEW c \in Member, up'[c] # "gone" PROVE GivenInOrder(c)' /\ KeptOrPassed(c)'
  <2>1. GivenInOrder(c) /\ KeptOrPassed(c)
    BY <1>6 DEF FounderOrder
  <2>2. GivenInOrder(c)'
    BY <1>1, <1>2, <1>6, <2>1 DEF GivenInOrder
  <2>3. KeptOrPassed(c)'
    BY <1>1, <1>2, <1>6, <2>1 DEF KeptOrPassed, FirstKept
  <2> QED BY <2>2, <2>3
<1> QED BY <1>3, <1>4, <1>5, <1>6 DEF FounderOrder

\* A request that its sender no longer has is passed over.
LEMMA OrderAfterS4A ==
  ASSUME TypeOK, \A c \in Member : OwnMade(c), FounderOrder, up[Founder] = "in",
         NEW p \in net, ReceiveS4A(p)
  PROVE  FounderOrder'
<1>1. p.tag = "S4A" /\ p.to \in Member /\ p.from \in Member /\ p.l \in Nat
  BY MemberFacts DEF TypeOK, NetOK, PacketOK, ReceiveS4A
<1>2. UNCHANGED <<up, localSeq, seqBuffer, forgotten, sequenced>>
  BY DEF ReceiveS4A, viewVars, requestVars
<1>3. \A q \in net' : q \in net
  BY OnlySent DEF ReceiveS4A
<1>4. PICK q : /\ hold_back_queue' = [hold_back_queue EXCEPT ![p.to] = q]
               /\ DOMAIN q = DOMAIN hold_back_queue[p.to]
               /\ \A c \in DOMAIN q : c # p.from => q[c] = hold_back_queue[p.to][c]
               /\ p.from \in DOMAIN q =>
                    /\ q[p.from].last = Largest(hold_back_queue[p.to][p.from].last, p.l)
                    /\ q[p.from].msgs = hold_back_queue[p.to][p.from].msgs
  BY ReceiveS4A_Does
<1>5. hold_back_queue \in [Member -> Map(Member, Queue)]
  BY DEF TypeOK, SequencerOK
<1>6. CASE p.to # Founder
  <2>1. hold_back_queue'[Founder] = hold_back_queue[Founder]
    BY <1>1, <1>4, <1>5, <1>6, MemberFacts
  <2> QED BY <1>2, <1>3, <2>1, OrderKept
<1>7. CASE p.to = Founder
  <2>1. hold_back_queue'[Founder] = q
    BY <1>1, <1>4, <1>5, <1>7
  <2>2. PacketMade(p) /\ \A c \in Member : QueueMade(c)
    BY DEF FounderOrder
  <2>3. p.l <= localSeq[p.from] /\ p.l \notin DOMAIN seqBuffer[p.from]
    BY <1>1, <2>2 DEF PacketMade
  <2>4. \A c \in DOMAIN hold_back_queue[Founder] : c \in Member /\ Passed(c) \in Nat
    BY QueueFacts DEF TypeOK
  <2>5. /\ DOMAIN hold_back_queue'[Founder] = DOMAIN hold_back_queue[Founder]
        /\ \A c \in DOMAIN hold_back_queue[Founder] :
             /\ Passed(c)' = IF c = p.from THEN Largest(Passed(c), p.l) ELSE Passed(c)
             /\ hold_back_queue'[Founder][c].msgs = hold_back_queue[Founder][c].msgs
    BY <1>4, <1>7, <2>1 DEF Passed
  <2>6. \A c : \A l \in Nat : Pass(c, l) => Pass(c, l)'
    BY <1>1, <2>4, <2>5 DEF Pass, Largest
  <2>7. \A c : \A l \in Nat : Pass(c, l)' => Pass(c, l) \/ (c = p.from /\ l <= p.l)
    BY <1>1, <2>4, <2>5 DEF Pass, Largest
  <2>8. \A c : Given(c)' = Given(c)
    BY <1>2 DEF Given
  <2>9. ASSUME NEW x \in net' PROVE PacketMade(x)'
    <3>1. PacketMade(x)
      BY <1>3 DEF FounderOrder
    <3>2. x.tag = "S0A" => x.l \in Nat
      BY <1>3 DEF TypeOK, NetOK, PacketOK
    <3> QED BY <1>2, <2>6, <3>1, <3>2 DEF PacketMade
  <2>10. FounderMade'
    <3>1. FounderMade /\ DOMAIN seqBuffer[Founder] \subseteq Nat
      BY RequestFacts, MemberFacts DEF FounderOrder, TypeOK
    <3> QED BY <1>2, <2>6, <3>1 DEF FounderMade
  <2>11. \A c \in Member : QueueMade(c)'
    BY <1>1, <1>2, <2>2, <2>3, <2>4, <2>5 DEF QueueMade, Largest
  <2>12. ASSUME NEW c \in Member, up'[c] # "gone" PROVE GivenInOrder(c)' /\ KeptOrPassed(c)'
    <3>1. GivenInOrder(c) /\ KeptOrPassed(c)
      BY <1>2, <2>12 DEF FounderOrder
    <3>2. \A k \in Given(c) : sequenced[k].l \in Nat
      BY LogFacts DEF Given, TypeOK, SequencerOK
    <3>3. GivenInOrder(c)'
      BY <1>2, <2>6, <2>8, <3>1, <3>2 DEF GivenInOrder
    <3>4. \A l \in Nat : FirstKept(c) <= l /\ l <= localSeq[c] =>
            l \in DOMAIN seqBuffer[c] \/ l \in forgotten[c] \/ Pass(c, l)
      BY <3>1 DEF KeptOrPassed
    <3>5. ASSUME NEW k \in Given(c), NEW l \in Nat, sequenced[k].l <= l, Pass(c, l)'
          PROVE  \/ l \notin DOMAIN seqBuffer[c]
                 \/ \E f \in forgotten[c] : l <= f
                 \/ \E j \in Given(c) : sequenced[j].l = l
      <4>1. CASE Pass(c, l)
        BY <3>1, <3>5, <4>1 DEF KeptOrPassed
      <4>2. CASE c = p.from /\ l <= p.l /\ ~Pass(c, l)
        <5>1. ~Pass(c, p.l)
          BY <1>1, <2>4, <4>2 DEF Pass
        <5>2. CASE FirstKept(c) <= p.l
          BY <1>1, <2>3, <3>4, <4>2, <5>1, <5>2
        <5>3. CASE ~(FirstKept(c) <= p.l)
          <6>1. OwnMade(c) /\ FirstKept(c) \in Nat
            BY RequestFacts DEF TypeOK
          <6>2. ~(FirstKept(c) <= l)
            BY <1>1, <4>2, <5>3, <6>1
          <6> QED BY <6>1, <6>2 DEF OwnMade
        <5> QED BY <5>2, <5>3
      <4> QED BY <2>7, <3>5, <4>1, <4>2
    <3>6. KeptOrPassed(c)'
      <4>1. \A l \in Nat : FirstKept(c) <= l /\ l <= localSeq[c] =>
              l \in DOMAIN seqBuffer[c] \/ l \in forgotten[c] \/ Pass(c, l)'
        BY <2>6, <3>4
      <4> QED BY <1>2, <2>8, <3>5, <4>1 DEF KeptOrPassed, FirstKept
    <3> QED BY <3>3, <3>6
  <2> QED BY <2>9, <2>10, <2>11, <2>12 DEF FounderOrder
<1> QED BY <1>6, <1>7

\* A request that the founder handles.
LEMMA OrderAfterS0 ==
  ASSUME TypeOK, FounderOrder, up[Founder] = "in", NEW p \in net, p.to = Founder, ReceiveS0_(p)
  PROVE  FounderOrder'
<1> DEFINE c == p.from
           old == hold_back_queue[Founder]
           K == Len(sequenced)
<1>1. /\ p.tag = "S0_" /\ c \in Member /\ p.l \in Nat
  BY MemberFacts DEF TypeOK, NetOK, PacketOK, ReceiveS0_
<1>2. PICK t, q, a, n, asked, msgs :
        Handled(p, t, q, a, n, asked, msgs) /\ S0Step(p, t, q)
  BY ReceiveS0_Does
<1>3. PICK s : s = Asking(Founder, c, asked)
  OBVIOUS
<1>4. /\ a \in Nat /\ n \in Nat /\ Numbers(Founder, s, t, c, a, n)
      /\ \A x \in asked : Asked(p, x)
      /\ (c \in DOMAIN old => a = Passed(c)) /\ (c \notin DOMAIN old => n = 1)
      /\ \A i \in 1..n : a + i \in Waiting(p)
      /\ DOMAIN msgs \subseteq Waiting(p)
      /\ DOMAIN q = DOMAIN old \cup {c} /\ q[c] = [last |-> a + n, msgs |-> msgs]
      /\ \A x \in DOMAIN old \ {c} : q[x] = old[x]
  BY <1>2, <1>3 DEF Handled, Moved, Passed
<1>5. s.log = sequenced /\ s.out = asked
  BY <1>3 DEF Asking
<1>6. /\ sequenced' = t.log /\ hold_back_queue'[Founder] = q
      /\ \A x \in net' : x \in net \/ x \in t.out
      /\ UNCHANGED <<up, localSeq, seqBuffer, forgotten>>
  BY <1>2, MemberFacts DEF S0Step, requestVars, TypeOK, SequencerOK
<1>7. /\ \A x \in Member : QueueMade(x)
      /\ PacketMade(p)
  BY DEF FounderOrder
<1>8. \A x \in DOMAIN old : /\ x \in Member /\ Passed(x) \in Nat
                            /\ \A l \in DOMAIN old[x].msgs : l \in Nat
  BY QueueFacts DEF TypeOK
<1>9. localSeq[c] \in Nat
  BY <1>1, RequestFacts DEF TypeOK
<1>10. \A k \in Waiting(p) : k \in Nat /\ k <= localSeq[c]
  <2>1. p.l <= localSeq[c]
    BY <1>1, <1>7 DEF PacketMade
  <2>2. c \in DOMAIN old => \A l \in DOMAIN old[c].msgs : l \in Nat /\ l <= localSeq[c]
    BY <1>1, <1>7, <1>8 DEF QueueMade
  <2> QED BY <1>1, <2>1, <2>2 DEF Waiting
<1>11. a + n <= localSeq[c]
  <2>1. CASE n = 0
    <3>1. c \in DOMAIN old
      BY <1>4, <2>1
    <3> QED BY <1>1, <1>4, <1>7, <2>1, <3>1 DEF QueueMade
  <2>2. CASE n # 0
    <3>1. n \in 1..n
      BY <1>4, <2>2
    <3> QED BY <1>4, <1>10, <3>1
  <2> QED BY <2>1, <2>2
<1>12. /\ \A x : \A l : x # c => (Pass(x, l)' <=> Pass(x, l))
       /\ \A l : Pass(c, l)' <=> l <= a + n
       /\ \A l \in Nat : Pass(c, l) <=> c \in DOMAIN old /\ l <= a
  BY <1>4, <1>6 DEF Pass, Passed
<1>13. \A x : \A l \in Nat : Pass(x, l) => Pass(x, l)'
  <2>1. \A l \in Nat : l <= a => l <= a + n
    BY <1>4
  <2> QED BY <1>12, <2>1
<1>14. /\ K \in Nat /\ Len(t.log) = K + n
       /\ DOMAIN sequenced = 1..K /\ DOMAIN sequenced' = 1..(K + n)
       /\ \A k \in 1..K : sequenced'[k] = sequenced[k]
       /\ \A k \in K + 1 .. K + n : sequenced'[k].from = c /\ sequenced'[k].l = a + (k - K)
  <2>1. t.log \in Log /\ sequenced \in Log
    BY <1>4 DEF Numbers, WorkOK, TypeOK, SequencerOK
  <2>2. K \in Nat /\ DOMAIN sequenced = 1..K /\ DOMAIN t.log = 1..Len(t.log)
    BY <2>1, LogFacts
  <2>3. /\ Len(t.log) = Len(s.log) + n
        /\ \A k \in 1..Len(s.log) : t.log[k] = s.log[k]
        /\ \A k \in Len(s.log) + 1 .. Len(t.log) :
             t.log[k].from = c /\ t.log[k].l = a + (k - Len(s.log))
    BY <1>4 DEF Numbers
  <2> QED BY <1>5, <1>6, <2>2, <2>3
<1>a. \A x : /\ Given(x) = {k \in 1..K : sequenced[k].from = x}
             /\ Given(x)' = {k \in 1..(K + n) : sequenced'[k].from = x}
  BY <1>14 DEF Given
<1> HIDE DEF c, old, K
<1>b. \A k : k \in 1..(K + n) <=> (k \in 1..K \/ k \in K + 1 .. K + n)
  BY <1>4, <1>14
<1>15. ASSUME NEW x, x # c
       PROVE  Given(x)' = Given(x) /\ \A k \in Given(x) : sequenced'[k] = sequenced[k]
  BY <1>14, <1>15, <1>a, <1>b
<1>16. \A k : k \in Given(c)' <=> (k \in Given(c) \/ k \in K + 1 .. K + n)
  BY <1>14, <1>a, <1>b
<1>17. \A k \in Given(c) : k \in 1..K /\ sequenced'[k] = sequenced[k] /\ sequenced[k].l \in Nat
  BY <1>14, LogFacts DEF Given, TypeOK, SequencerOK, K
<1>18. ASSUME NEW x \in net' PROVE PacketMade(x)'
  <2>1. CASE x \in net
    <3>1. PacketMade(x)
      BY <2>1 DEF FounderOrder
    <3>2. x.tag = "S0A" => x.l \in Nat
      BY <2>1 DEF TypeOK, NetOK, PacketOK
    <3> QED BY <1>6, <1>13, <3>1, <3>2 DEF PacketMade
  <2>2. CASE x \in asked
    <3>1. Asked(p, x)
      BY <1>4, <2>2
    <3>2. CASE x.tag = "S4_" /\ x.to = c /\ x.l \in Number /\ \E k \in Waiting(p) : x.l <= k
      <4>1. PICK k \in Waiting(p) : x.l <= k
        BY <3>2
      <4>2. x.l \in Nat /\ k \in Nat /\ k <= localSeq[c]
        BY <1>10, <3>2, MemberFacts
      <4>3. x.l <= localSeq[c]
        BY <1>9, <4>1, <4>2
      <4> QED BY <1>6, <3>2, <4>3 DEF PacketMade
    <3>3. CASE x.tag = "S0A" /\ x.to = c /\ x.l = p.l /\ (c \in DOMAIN old /\ p.l <= Passed(c))
      <4>1. c = Founder => Pass(Founder, x.l)
        BY <3>3 DEF Pass, old
      <4> QED BY <1>1, <1>13, <3>3, <4>1 DEF PacketMade
    <3> QED BY <3>1, <3>2, <3>3 DEF Asked, c, old, Passed
  <2>3. CASE x \in t.out \ s.out
    <3>1. \/ x.tag = "S0A" /\ (x.to = Founder => c = Founder /\ x.l \in a + 1 .. a + n)
          \/ x.tag = "C0_" \/ x.tag = "N0A"
      BY <1>4, <2>3 DEF Numbers
    <3>2. x.tag = "S0A" /\ x.to = Founder => Pass(Founder, x.l)'
      BY <1>4, <1>12, <3>1
    <3> QED BY <3>1, <3>2 DEF PacketMade
  <2> QED BY <1>5, <1>6, <2>1, <2>2, <2>3
<1>19. FounderMade'
  <2>1. FounderMade /\ DOMAIN seqBuffer[Founder] \subseteq Nat
    BY RequestFacts, MemberFacts DEF FounderOrder, TypeOK
  <2> QED BY <1>6, <1>13, <2>1 DEF FounderMade
<1>20. ASSUME NEW x \in Member PROVE QueueMade(x)'
  <2>1. CASE x = c
    BY <1>4, <1>6, <1>10, <1>11, <2>1 DEF QueueMade, Passed
  <2>2. CASE x # c
    BY <1>4, <1>6, <1>7, <2>2 DEF QueueMade, Passed, old
  <2> QED BY <2>1, <2>2
<1>21. ASSUME NEW x \in Member, x # c, up'[x] # "gone"
       PROVE  GivenInOrder(x)' /\ KeptOrPassed(x)'
  <2>1. GivenInOrder(x) /\ KeptOrPassed(x)
    BY <1>6, <1>21 DEF FounderOrder
  <2>2. Given(x)' = Given(x) /\ \A k \in Given(x) : sequenced'[k] = sequenced[k]
    BY <1>15, <1>21
  <2>3. \A l : Pass(x, l)' <=> Pass(x, l)
    BY <1>12, <1>21
  <2>4. GivenInOrder(x)'
    BY <2>1, <2>2, <2>3 DEF GivenInOrder
  <2>5. KeptOrPassed(x)'
    BY <1>6, <2>1, <2>2, <2>3 DEF KeptOrPassed, FirstKept
  <2> QED BY <2>4, <2>5
<1>22. ASSUME up'[c] # "gone" PROVE GivenInOrder(c)'
  <2>1. GivenInOrder(c)
    BY <1>1, <1>6, <1>22 DEF FounderOrder, c
  <2>2. \A k \in Given(c) : sequenced[k].l <= a
    BY <1>12, <1>17, <2>1 DEF GivenInOrder
  <2>3. ASSUME NEW k \in Given(c)' PROVE sequenced'[k].l <= a + n
    <3>1. CASE k \in Given(c)
      BY <1>4, <1>17, <2>2, <3>1
    <3>2. CASE k \in K + 1 .. K + n
      BY <1>4, <1>14, <3>2
    <3> QED BY <1>16, <2>3, <3>1, <3>2
  <2>4. ASSUME NEW k \in Given(c)', NEW j \in Given(c)', j < k
        PROVE  sequenced'[j].l < sequenced'[k].l
    <3>1. CASE k \in Given(c) /\ j \in Given(c)
      BY <1>17, <2>1, <2>4, <3>1 DEF GivenInOrder
    <3>2. CASE k \in K + 1 .. K + n /\ j \in Given(c)
      BY <1>4, <1>14, <1>17, <2>2, <3>2
    <3>3. CASE k \in K + 1 .. K + n /\ j \in K + 1 .. K + n
      BY <1>4, <1>14, <2>4, <3>3
    <3>4. CASE k \in Given(c) /\ j \in K + 1 .. K + n
      BY <1>14, <1>17, <2>4, <3>4
    <3> QED BY <1>16, <2>4, <3>1, <3>2, <3>3, <3>4
  <2>5. c \in DOMAIN hold_back_queue'[Founder] /\ hold_back_queue'[Founder][c].last = a + n
    BY <1>4, <1>6
  <2>6. \A k \in Given(c)' : Pass(c, sequenced[k].l)'
    BY <2>3, <2>5 DEF Pass, Passed
  <2> QED BY <2>4, <2>6 DEF GivenInOrder
<1>23. ASSUME up'[c] # "gone" PROVE KeptOrPassed(c)'
  <2>1. KeptOrPassed(c)
    BY <1>1, <1>6, <1>23 DEF FounderOrder, c
  <2>2. \A l \in Nat : FirstKept(c) <= l /\ l <= localSeq'[c] =>
          l \in DOMAIN seqBuffer'[c] \/ l \in forgotten'[c] \/ Pass(c, l)'
    BY <1>6, <1>13, <2>1 DEF KeptOrPassed
  <2>3. ASSUME NEW k \in Given(c)', NEW l \in Nat, sequenced'[k].l <= l, Pass(c, l)'
        PROVE  \/ l \notin DOMAIN seqBuffer[c]
               \/ \E f \in forgotten[c] : l <= f
               \/ \E j \in Given(c)' : sequenced'[j].l = l
    <3>1. l <= a + n
      BY <1>12, <2>3
    <3>2. CASE a < l
      <4>1. K + (l - a) \in K + 1 .. K + n
        BY <1>4, <1>14, <3>1, <3>2
      <4>2. sequenced'[K + (l - a)].l = l
        BY <1>4, <1>14, <3>2, <4>1
      <4> QED BY <1>16, <4>1, <4>2
    <3>3. CASE l <= a /\ k \in Given(c)
      <4>1. GivenInOrder(c)
        BY <1>1, <1>6, <1>23 DEF FounderOrder, c
      <4>2. Pass(c, l)
        BY <1>12, <1>17, <3>3, <4>1 DEF GivenInOrder
      <4>3. \/ l \notin DOMAIN seqBuffer[c]
            \/ \E f \in forgotten[c] : l <= f
            \/ \E j \in Given(c) : sequenced[j].l = l
        BY <1>17, <2>1, <2>3, <3>3, <4>2 DEF KeptOrPassed
      <4> QED BY <1>16, <1>17, <4>3
    <3>4. CASE l <= a /\ k \in K + 1 .. K + n
      BY <1>4, <1>14, <2>3, <3>4
    <3> QED BY <1>4, <1>16, <2>3, <3>2, <3>3, <3>4
  <2> QED BY <1>6, <2>2, <2>3 DEF KeptOrPassed, FirstKept
<1> QED BY <1>18, <1>19, <1>20, <1>21, <1>22, <1>23 DEF FounderOrder

LEMMA MadeKept ==
  ASSUME TypeOK, \A c \in Member : OwnMade(c), UNCHANGED requestVars,
         \A c \in Member : \/ up'[c] = up[c] \/ up'[c] = "gone"
                           \/ up[c] \in {"joining", "in"} /\ up'[c] = "in"
  PROVE  \A c \in Member : OwnMade(c)'
BY DEF OwnMade, requestVars, FirstKept

\* A step that changes no request and nothing of the queues.
LEMMA RequestsKept ==
  ASSUME TypeOK, RequestsInOrder, UNCHANGED <<requestVars, sequenced, hold_back_queue>>,
         up'[Founder] = "in" => up[Founder] = "in",
         \A c \in Member : \/ up'[c] = up[c] \/ up'[c] = "gone"
                           \/ up[c] \in {"joining", "in"} /\ up'[c] = "in",
         \A q \in net' : q \in net \/ (up[Founder] = "in" => PacketMade(q)')
  PROVE  RequestsInOrder'
<1>1. \A c \in Member : OwnMade(c)'
  BY MadeKept DEF RequestsInOrder
<1>2. ASSUME up'[Founder] = "in" PROVE FounderOrder'
  <2>1. FounderOrder
    BY <1>2 DEF RequestsInOrder
  <2>2. UNCHANGED <<localSeq, seqBuffer, forgotten, sequenced>>
    BY DEF requestVars
  <2>3. \A c \in Member : up'[c] # "gone" => up[c] # "gone"
    OBVIOUS
  <2> QED BY <1>2, <2>1, <2>2, <2>3, OrderKept
<1> QED BY <1>1, <1>2 DEF RequestsInOrder

LEMMA RequestsAfterOwn ==
  ASSUME TypeOK, TypeOK', FounderLeads, RequestsInOrder, NEW m \in Member, Own(m),
         up'[Founder] = "in" => up[Founder] = "in"
  PROVE  RequestsInOrder'
<1>1. \A c \in Member : OwnMade(c)'
  BY MadeAfterOwn DEF RequestsInOrder
<1>2. up'[Founder] = "in" => FounderOrder'
  BY OrderAfterOwn DEF RequestsInOrder
<1> QED BY <1>1, <1>2 DEF RequestsInOrder

\* The founder takes a member that is gone off the list.
LEMMA RequestsAfterRemoval ==
  ASSUME TypeOK, FounderLeads, RequestsInOrder, NEW m \in Member, NEW c \in Member,
         RemoveMember(m, c)
  PROVE  RequestsInOrder'
<1>1. /\ UNCHANGED <<up, requestVars, sequenced>> /\ leader[m] = m /\ up[c] = "gone"
      /\ hold_back_queue' = [hold_back_queue EXCEPT ![m] = Erase(@, c)]
  BY DEF RemoveMember
<1>2. \A x \in Member : OwnMade(x)'
  BY <1>1, MadeKept DEF RequestsInOrder
<1>3. ASSUME up'[Founder] = "in" PROVE FounderOrder'
  <2>1. FounderOrder /\ up[Founder] = "in"
    BY <1>1, <1>3 DEF RequestsInOrder
  <2>2. m = Founder
    BY <1>1, <2>1 DEF FounderLeads
  <2>3. PICK f : f = Erase(hold_back_queue[Founder], c)
    OBVIOUS
  <2>4. hold_back_queue'[Founder] = f
    BY <1>1, <2>2, <2>3 DEF TypeOK, SequencerOK
  <2>5. /\ DOMAIN f = DOMAIN hold_back_queue[Founder] \ {c}
        /\ \A x \in DOMAIN hold_back_queue[Founder] \ {c} : f[x] = hold_back_queue[Founder][x]
    BY <2>3, EraseDef
  <2>6. \A q \in net' : q \in net \/ PacketMade(q)'
    <3>1. PICK t : Sent(t.out) /\ \A q \in t.out : q.tag = "N0A"
      BY RemoveMember_Does
    <3> QED BY <3>1, OnlySent DEF PacketMade
  <2>7. UNCHANGED <<localSeq, seqBuffer, forgotten, sequenced>>
    BY <1>1 DEF requestVars
  <2> QED BY <1>1, <1>3, <2>1, <2>4, <2>5, <2>6, <2>7, OrderKept
<1> QED BY <1>2, <1>3 DEF RequestsInOrder

\* A member sends a missing request again, or says that it has it no more.
LEMMA RequestsAfterS4 ==
  ASSUME TypeOK, RequestsInOrder, NEW p \in net, ReceiveS4_(p)
  PROVE  RequestsInOrder'
<1>1. p.tag = "S4_" /\ p.to \in Member /\ p.l \in Nat
  BY MemberFacts DEF TypeOK, NetOK, PacketOK, ReceiveS4_
<1>2. /\ UNCHANGED <<up, requestVars, sequenced, hold_back_queue>>
      /\ Receive(p, IF p.l \in DOMAIN seqBuffer[p.to]
                    THEN {S0_(p.to, p.from, p.l, seqBuffer[p.to][p.l].joins)}
                    ELSE {S4A(p.to, p.from, p.l)})
  BY DEF ReceiveS4_, viewVars, sequencerVars
<1>3. \A q \in net' : \/ q \in net
                      \/ q.tag = "S0_" /\ q.from = p.to /\ q.l = p.l
                      \/ /\ q.tag = "S4A" /\ q.from = p.to /\ q.l = p.l
                         /\ p.l \notin DOMAIN seqBuffer[p.to]
  <2>1. CASE p.l \in DOMAIN seqBuffer[p.to]
    BY <1>2, <2>1, OnlySent DEF S0_
  <2>2. CASE p.l \notin DOMAIN seqBuffer[p.to]
    BY <1>2, <2>2, OnlySent DEF S4A
  <2> QED BY <2>1, <2>2
<1>4. ASSUME NEW q \in net', q \notin net, up[Founder] = "in" PROVE PacketMade(q)'
  <2>1. p.l <= localSeq[p.to]
    BY <1>1, <1>4 DEF RequestsInOrder, FounderOrder, PacketMade
  <2>2. UNCHANGED <<localSeq, seqBuffer>>
    BY <1>2 DEF requestVars
  <2> QED BY <1>3, <1>4, <2>1, <2>2 DEF PacketMade
<1> QED BY <1>2, <1>4, RequestsKept

LEMMA RequestsStep ==
  ASSUME TypeOK, LinesAreNumbered, FounderLeads, RequestsInOrder, [Next]_vars
  PROVE  RequestsInOrder'
<1>1. TypeOK'
  BY TypeStep
<1>2. up'[Founder] = "in" => up[Founder] = "in"
  BY LaterStep, MemberFacts DEF Later
<1>3. ASSUME NEW m \in Member, Own(m) PROVE RequestsInOrder'
  BY <1>1, <1>2, <1>3, RequestsAfterOwn
<1>4. ASSUME UNCHANGED <<up, requestVars>>, up[Founder] = "in" => FounderOrder'
      PROVE  RequestsInOrder'
  BY <1>4, MadeKept DEF RequestsInOrder
<1>5. ASSUME NEW p \in net, ReceiveS0_(p) PROVE RequestsInOrder'
  <2>1. UNCHANGED <<up, requestVars>>
    BY <1>5, ReceiveS0_Does DEF S0Step
  <2>2. up[Founder] = "in" => p.to = Founder
    BY <1>5 DEF FounderLeads, ReceiveS0_
  <2>3. up[Founder] = "in" => FounderOrder'
    BY <1>5, <2>2, OrderAfterS0 DEF RequestsInOrder
  <2> QED BY <1>4, <2>1, <2>3
<1>6. ASSUME NEW p \in net, ReceiveS4A(p) PROVE RequestsInOrder'
  <2>1. UNCHANGED <<up, requestVars>>
    BY <1>6 DEF ReceiveS4A, viewVars
  <2>2. up[Founder] = "in" => FounderOrder'
    BY <1>6, OrderAfterS4A DEF RequestsInOrder
  <2> QED BY <1>4, <2>1, <2>2
<1>7. ASSUME NEW m \in Member, TakeOver(m) PROVE RequestsInOrder'
  BY <1>4, <1>7, LeadsAfterTakeOver DEF TakeOver
<1>8. ASSUME NEW p \in net,
             \/ Lose(p) \/ ReceiveS3N(p)
             \/ Receive(p, {}) /\ UNCHANGED <<viewVars, requestVars, sequencerVars, displayVars,
                                              notificationGlobalSeq>>
      PROVE  RequestsInOrder'
  <2>1. UNCHANGED <<up, requestVars, sequenced, hold_back_queue>>
    BY <1>8 DEF Lose, ReceiveS3N, viewVars, sequencerVars
  <2>2. \A q \in net' : q \in net
    BY <1>8, OnlySent DEF Lose, ReceiveS3N
  <2> QED BY <2>1, <2>2, RequestsKept
<1>9. ASSUME NEW p \in net, ReceiveS3_(p) PROVE RequestsInOrder'
  <2>1. UNCHANGED <<up, requestVars, sequenced, hold_back_queue>>
    BY <1>9 DEF ReceiveS3_, viewVars, sequencerVars
  <2>2. p.to \in Member /\ p.from \in Member /\ p.g \in Nat /\ Receive(p, Answer(p.to, p.from, p.g))
    BY <1>9 DEF TypeOK, NetOK, PacketOK, ReceiveS3_
  <2>3. \A q \in Answer(p.to, p.from, p.g) : q.tag \in {"S3N", "S3A"}
    BY <2>2, AnswerOK
  <2>4. \A q \in net' : q \in net \/ PacketMade(q)'
    BY <2>2, <2>3, OnlySent DEF PacketMade
  <2> QED BY <2>1, <2>4, RequestsKept
<1>10. ASSUME NEW p \in net, ReceiveN0A(p) PROVE RequestsInOrder'
  <2>1. /\ UNCHANGED <<requestVars, sequenced, hold_back_queue>>
        /\ up' = [up EXCEPT ![p.to] = "in"] /\ Receive(p, {})
    BY <1>10 DEF ReceiveN0A, sequencerVars
  <2>2. up[p.to] \in {"joining", "in"} /\ up \in [Member -> {"out", "joining", "in", "gone"}]
    BY <1>10 DEF FounderLeads, TypeOK, ViewOK
  <2>3. \A c \in Member : up'[c] = up[c] \/ (up[c] \in {"joining", "in"} /\ up'[c] = "in")
    BY <2>1, <2>2
  <2>4. \A q \in net' : q \in net
    BY <2>1, OnlySent
  <2> QED BY <1>2, <2>1, <2>3, <2>4, RequestsKept
<1>11. ASSUME NEW m \in Member, Gone(m) PROVE RequestsInOrder'
  <2>1. /\ UNCHANGED <<requestVars, sequenced, hold_back_queue>>
        /\ up' = [up EXCEPT ![m] = "gone"] /\ \A q \in net' : q \in net
    BY <1>11 DEF Gone, sequencerVars
  <2>2. \A c \in Member : up'[c] = up[c] \/ up'[c] = "gone"
    BY <2>1 DEF TypeOK, ViewOK
  <2> QED BY <1>2, <2>1, <2>2, RequestsKept
<1>12. ASSUME UNCHANGED vars PROVE RequestsInOrder'
  <2>1. UNCHANGED <<up, requestVars, sequenced, hold_back_queue, net>>
    BY <1>12 DEF vars, viewVars, sequencerVars
  <2> QED BY <2>1, RequestsKept
<1>13. ASSUME NEW p \in net, up[p.to] = "in",
              \/ ReceiveN0_(p) \/ ReceiveS0A(p)
              \/ p.tag \in {"C0_", "S3A"} /\ Chat(p)
       PROVE  RequestsInOrder'
  BY <1>3, <1>13, ReceiveN0_Own, ReceiveS0A_Own, ChatOwn
<1>14. ASSUME NEW m \in Member,
             \/ Type(m)
             \/ \E l \in DOMAIN seqBuffer[m] : Resend(m, l)
             \/ \E l \in DOMAIN seqBuffer[m] : GiveUp(m, l)
             \/ \E g \in DOMAIN txBuffer[m] : TxExpire(m, g)
             \/ \E c \in Member : AskToJoin(m, c)
       PROVE  RequestsInOrder'
  BY <1>3, <1>14, TypeOwn, ResendOwn, GiveUpOwn, TxExpireOwn, AskToJoinOwn
<1> QED BY <1>5, <1>6, <1>7, <1>8, <1>9, <1>10, <1>11, <1>12, <1>13, <1>14, Steps,
           RequestsAfterS4, RequestsAfterRemoval

LEMMA RequestsInit == Init => RequestsInOrder
<1> SUFFICES ASSUME Init PROVE RequestsInOrder
  OBVIOUS
<1>1. /\ net = {} /\ sequenced = <<>>
      /\ \A c \in Member : chatMsg[c] = 0 /\ forgotten[c] = {}
  BY DEF Init
<1>2. Joins \in Nat /\ Founder \in Initial /\ Founder \in Member /\ Initial \subseteq Member
  BY MemberFacts, MembersAssumption
<1>3. \A c \in Member : localSeq[c] = IF c = Founder THEN Joins ELSE IF c \in Initial THEN 1 ELSE 0
  BY DEF Init
<1>4. \A c \in Member : up[c] = IF c \in Initial THEN "in" ELSE "out"
  BY DEF Init
<1>5. /\ DOMAIN seqBuffer[Founder] = 1..Joins
      /\ \A c \in Member : c # Founder => DOMAIN seqBuffer[c] = {}
  BY <1>2, EmptyMap DEF Init
<1>6. \A c \in Member : OwnMade(c)
  BY <1>1, <1>2, <1>3, <1>4, <1>5 DEF OwnMade, FirstKept
<1>7. CASE Joins = 0
  <2>1. DOMAIN hold_back_queue[Founder] = {}
    BY <1>2, <1>7, EmptyMap DEF Init
  <2>2. DOMAIN seqBuffer[Founder] = {}
    BY <1>5, <1>7
  <2>3. \A c : Given(c) = {}
    BY <1>1 DEF Given
  <2>4. \A c \in Member : KeptOrPassed(c)
    BY <1>2, <1>3, <1>7, <2>3 DEF KeptOrPassed, FirstKept
  <2> QED BY <1>1, <1>6, <2>1, <2>2, <2>3, <2>4
          DEF RequestsInOrder, FounderOrder, FounderMade, QueueMade, GivenInOrder
<1>8. CASE Joins > 0
  <2>1. /\ DOMAIN hold_back_queue[Founder] = {Founder}
        /\ hold_back_queue[Founder][Founder] = [last |-> Joins, msgs |-> Empty]
    BY <1>2, <1>8 DEF Init
  <2>2. \A l : Pass(Founder, l) <=> l <= Joins
    BY <2>1 DEF Pass, Passed
  <2>3. \A c : Given(c) = {}
    BY <1>1 DEF Given
  <2>4. \A c \in Member : KeptOrPassed(c)
    BY <1>2, <1>3, <1>5, <2>3 DEF KeptOrPassed, FirstKept
  <2>5. FounderMade
    BY <1>2, <1>5, <2>2 DEF FounderMade
  <2>6. \A c \in Member : QueueMade(c)
    BY <1>2, <1>3, <2>1, EmptyMap DEF QueueMade, Passed
  <2> QED BY <1>1, <1>6, <2>3, <2>4, <2>5, <2>6
          DEF RequestsInOrder, FounderOrder, GivenInOrder
<1> QED BY <1>2, <1>7, <1>8

\* The inductive invariant of the requests.
OrderInv == TypeOK /\ LinesAreNumbered /\ FounderLeads /\ LogInOrder /\ RequestsInOrder

LEMMA OrderInvariant == Spec => []OrderInv
<1>1. Init => OrderInv
  BY InitType, LinesInit, LeadsInit, LogInit, RequestsInit DEF OrderInv
<1>2. OrderInv /\ [Next]_vars => OrderInv'
  BY TypeStep, LinesStep, LeadsStep, LogStep, RequestsStep DEF OrderInv
<1> QED BY <1>1, <1>2, PTL DEF Spec

LEMMA OrderlyInOrder ==
  ASSUME OrderInv, NEW c, Orderly(c), c \in Member
  PROVE  /\ GivenInOrder(c) /\ KeptOrPassed(c)
         /\ \A i, j \in Given(c) : /\ i \in Nat /\ j \in Nat
                                   /\ i < j => sequenced[i].g < sequenced[j].g
         /\ \A i \in Given(c) : sequenced[i].l \in Nat /\ sequenced[i].g \in Nat
<1>1. up[Founder] = "in" /\ up[c] # "gone"
  BY DEF Orderly
<1>2. GivenInOrder(c) /\ KeptOrPassed(c)
  BY <1>1 DEF OrderInv, RequestsInOrder, FounderOrder
<1>3. /\ Len(sequenced) \in Nat /\ DOMAIN sequenced = 1..Len(sequenced)
      /\ \A k \in 1..Len(sequenced) : sequenced[k].g \in Nat /\ sequenced[k].l \in Nat
  BY LogFacts DEF OrderInv, TypeOK, SequencerOK
<1>4. \A i, j \in 1..Len(sequenced) : i < j => sequenced[i].g < sequenced[j].g
  BY <1>1, <1>3 DEF OrderInv, LogInOrder
<1> QED BY <1>2, <1>3, <1>4 DEF Given

\* What a member displays under a number is a line that got it, and while the
\* founder leads no two members display different lines under one: lost, repeated
\* or reordered packets, requests sent again, joins and members taken off the list
\* notwithstanding (dchat.cpp:79-245, 493-645).
THEOREM SameLineUnderANumber == Spec => []ShownAsSequenced
<1>1. OrderInv => ShownAsSequenced
  <2> SUFFICES ASSUME OrderInv PROVE ShownAsSequenced
    OBVIOUS
  <2> DEFINE Gave(k, x) == /\ sequenced[k].g = x[1]
                           /\ <<sequenced[k].from, sequenced[k].l>> = x[2]
  <2>1. ASSUME NEW m \in Member, NEW i \in DOMAIN shown[m]
        PROVE  \E k \in DOMAIN sequenced : Gave(k, shown[m][i])
    <3>1. i \in 1..Len(shown[m])
      BY <2>1, ShownFacts DEF OrderInv, TypeOK, DisplayOK
    <3>2. shown[m][i] \in Numbered(sequenced)
      BY <2>1, <3>1 DEF OrderInv, LinesAreNumbered
    <3> QED BY <3>2 DEF Numbered
  <2>2. ASSUME up[Founder] = "in", NEW m \in Member, NEW n \in Member,
               NEW i \in DOMAIN shown[m], NEW j \in DOMAIN shown[n],
               shown[m][i][1] = shown[n][j][1]
        PROVE  shown[m][i][2] = shown[n][j][2]
    <3>1. PICK a \in DOMAIN sequenced : Gave(a, shown[m][i])
      BY <2>1
    <3>2. PICK b \in DOMAIN sequenced : Gave(b, shown[n][j])
      BY <2>1
    <3>3. /\ DOMAIN sequenced = 1..Len(sequenced) /\ Len(sequenced) \in Nat
          /\ \A k \in 1..Len(sequenced) : sequenced[k].g \in Nat
      BY LogFacts DEF OrderInv, TypeOK, SequencerOK
    <3>4. \A k \in 1..Len(sequenced) : \A l \in 1..(k - 1) : sequenced[l].g < sequenced[k].g
      BY <2>2 DEF OrderInv, LogInOrder
    <3>5. sequenced[a].g = sequenced[b].g
      BY <2>2, <3>1, <3>2
    <3>6. a = b
      BY <3>3, <3>4, <3>5
    <3> QED BY <3>1, <3>2, <3>6
  <2> QED BY <2>1, <2>2 DEF ShownAsSequenced
<1> QED BY <1>1, OrderInvariant, PTL

\* Among the requests of a member that is still there, and while the founder
\* leads, no request has two numbers and no two requests have one (base.h:896).
THEOREM NumberedOnce == Spec => []OneNumberPerRequest
<1>1. OrderInv => OneNumberPerRequest
  <2> SUFFICES ASSUME OrderInv, NEW i \in DOMAIN sequenced, NEW j \in DOMAIN sequenced, i # j,
                      Orderly(sequenced[i].from)
               PROVE  /\ sequenced[i].g # sequenced[j].g
                      /\ <<sequenced[i].from, sequenced[i].l>>
                           # <<sequenced[j].from, sequenced[j].l>>
    BY DEF OneNumberPerRequest
  <2>1. /\ Len(sequenced) \in Nat /\ DOMAIN sequenced = 1..Len(sequenced)
        /\ \A k \in 1..Len(sequenced) : /\ sequenced[k].g \in Nat /\ sequenced[k].l \in Nat
                                        /\ sequenced[k].from \in Member
    BY LogFacts DEF OrderInv, TypeOK, SequencerOK
  <2>2. up[Founder] = "in"
    BY DEF Orderly
  <2>3. sequenced[i].g # sequenced[j].g
    BY <2>1, <2>2 DEF OrderInv, LogInOrder
  <2>4. ASSUME sequenced[i].from = sequenced[j].from PROVE sequenced[i].l # sequenced[j].l
    <3>1. PICK c \in Member : c = sequenced[i].from
      BY <2>1
    <3>2. GivenInOrder(c) /\ i \in Given(c) /\ j \in Given(c)
      BY <2>4, <3>1, OrderlyInOrder DEF Given
    <3> QED BY <2>1, <3>2 DEF GivenInOrder
  <2> QED BY <2>3, <2>4
<1> QED BY <1>1, OrderInvariant, PTL

\* The requests of a member get their numbers in the order it made them, and none
\* is overtaken while it is still kept, unless its sender has given up a later one
\* (base.h:896-975, dchat.cpp:665-692).
THEOREM RequestsKeepTheirOrder == Spec => []SenderOrderKept
<1>1. OrderInv => SenderOrderKept
  <2> SUFFICES ASSUME OrderInv, NEW c \in Member, Orderly(c), NEW i \in Given(c), NEW j \in Given(c)
               PROVE  /\ sequenced[i].l < sequenced[j].l => sequenced[i].g < sequenced[j].g
                      /\ \A l \in sequenced[i].l .. sequenced[j].l :
                           (l \in DOMAIN seqBuffer[c] /\ \A k \in forgotten[c] : k < l) =>
                             \E k \in Given(c) : sequenced[k].l = l
    BY DEF SenderOrderKept
  <2>1. /\ GivenInOrder(c) /\ KeptOrPassed(c) /\ i \in Nat /\ j \in Nat
        /\ (i < j => sequenced[i].g < sequenced[j].g)
        /\ sequenced[i].l \in Nat /\ sequenced[j].l \in Nat
    BY OrderlyInOrder
  <2>2. sequenced[i].l < sequenced[j].l => i < j
    BY <2>1 DEF GivenInOrder
  <2>3. ASSUME NEW l \in sequenced[i].l .. sequenced[j].l, l \in DOMAIN seqBuffer[c],
               \A k \in forgotten[c] : k < l
        PROVE  \E k \in Given(c) : sequenced[k].l = l
    <3>1. l \in Nat /\ sequenced[i].l <= l /\ l <= sequenced[j].l
      BY <2>1, <2>3
    <3>2. Pass(c, l)
      <4>1. c \in DOMAIN hold_back_queue[Founder] /\ sequenced[j].l <= Passed(c)
        BY <2>1 DEF GivenInOrder, Pass
      <4>2. Passed(c) \in Nat
        BY <4>1, QueueFacts DEF OrderInv, TypeOK
      <4> QED BY <2>1, <3>1, <4>1, <4>2 DEF Pass
    <3>3. forgotten[c] \subseteq Nat
      BY RequestFacts DEF OrderInv, TypeOK
    <3>4. ~ \E f \in forgotten[c] : l <= f
      BY <2>3, <3>1, <3>3
    <3> QED BY <2>1, <2>3, <3>1, <3>2, <3>4 DEF KeptOrPassed
  <2> QED BY <2>1, <2>2, <2>3
<1> QED BY <1>1, OrderInvariant, PTL

\* The types of the members' variables and of the packets on their way; in
\* particular all maps stay finite, so that the loops over them end (dchat.cpp,
\* base.h).
THEOREM TypeCorrect == Spec => []TypeOK
<1>1. OrderInv => TypeOK
  BY DEF OrderInv
<1> QED BY <1>1, OrderInvariant, PTL
=============================================================================
