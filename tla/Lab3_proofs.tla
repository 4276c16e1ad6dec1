------------------------------ MODULE Lab3_proofs ------------------------------
(***************************************************************************)
(* Proofs about two programs of lab 3 that share nothing but the lab.      *)
(*                                                                         *)
(* FizzBuzz, for every n and all coprime divisors: the types, that the     *)
(* output is right as long as no helper prints uncalled, and that the      *)
(* numbers come in order and complete.                                     *)
(*                                                                         *)
(* TrainStation, for any trains, priorities, number of bays and first      *)
(* content of the counters.  Tickets do all the work: at most one train    *)
(* holds the ticket headIndex, so at most one is between the entry         *)
(* controller and entry_controller_post, and the exit queue never has two  *)
(* trains in it.                                                           *)
(***************************************************************************)
EXTENDS FizzBuzz, TrainStation, FiniteSetTheorems, TLAPS

--------------------------------------------------------------------------------
\* The FizzBuzz workers.

LEMMA TypeInit == Init => TypeOK
BY NAssumption DEF Init, TypeOK, Helpers, Threads, Out, barrier_init

\* barrier_wait touches the barrier and the thread's place in it only.
LEMMA TypeBarrier ==
  ASSUME TypeOK, NEW t \in Threads, barrier_wait(t)
  PROVE  TypeOK'
<1> DEFINE Stages == {"lock", "count", "post", "pass"}
           b == visit[t].bar
           Visit == [stage : Stages, bar : Helpers]
           Barriers == [Helpers -> [count : {2}, threadCount : Nat,
                                    counterSem : Nat, barrierSem : Nat]]
<1>1. UNCHANGED <<counter, mutexLock, resumeMutex, at, printed>>
  BY DEF barrier_wait
<1>2. ASSUME visit[t].stage \in Stages
      PROVE  visit[t] \in Visit
  BY <1>2 DEF TypeOK, Out
<1>3. ASSUME NEW from \in Stages, NEW to \in Stages \cup {"out"},
             Move(t, from, to), bars' \in Barriers
      PROVE  TypeOK'
  <2>1. visit[t] \in Visit
    BY <1>2, <1>3 DEF Move
  <2>2. visit'[t] = Out \/ visit'[t] \in Visit
    <3>1. CASE to = "out"
      BY <1>3, <3>1 DEF Move, TypeOK
    <3>2. CASE to # "out"
      <4>1. visit'[t] = [visit[t] EXCEPT !.stage = to]
        BY <1>3, <3>2 DEF Move, TypeOK
      <4> QED BY <2>1, <3>2, <4>1
    <3> QED BY <3>1, <3>2
  <2>3. \A u \in Threads : u # t => visit'[u] = visit[u]
    BY <1>3 DEF Move, TypeOK
  <2>4. DOMAIN visit' = Threads
    BY <1>3 DEF Move, TypeOK
  <2> QED BY <1>1, <1>3, <2>2, <2>3, <2>4 DEF TypeOK
<1>4. ASSUME NEW new \in [count : {2}, threadCount : Nat, counterSem : Nat,
                          barrierSem : Nat],
             visit[t].stage \in Stages, Becomes(t, new)
      PROVE  bars' \in Barriers
  BY <1>2, <1>4 DEF Becomes, TypeOK
<1>5. ASSUME visit[t].stage \in Stages
      PROVE  BarrierOf(t) \in [count : {2}, threadCount : Nat, counterSem : Nat,
                               barrierSem : Nat]
  BY <1>2, <1>5 DEF BarrierOf, TypeOK
<1>6. CASE LockCounter(t)
  <2>1. Move(t, "lock", "count") /\ visit[t].stage \in Stages
    BY <1>6 DEF LockCounter, Move
  <2>2. bars' \in Barriers
    BY <1>4, <1>5, <1>6, <2>1 DEF LockCounter, SemWait, CanWait
  <2> QED BY <1>3, <2>1, <2>2
<1>7. CASE CountIn(t)
  <2>1. /\ Move(t, "count", "post") \/ Move(t, "count", "pass")
        /\ visit[t].stage \in Stages
    BY <1>7 DEF CountIn, Move
  <2>2. bars' \in Barriers
    BY <1>4, <1>5, <1>7, <2>1 DEF CountIn, CountThread
  <2> QED BY <1>3, <2>1, <2>2
<1>8. CASE PostOther(t)
  <2>1. Move(t, "post", "out") /\ visit[t].stage \in Stages
    BY <1>8 DEF PostOther, Move
  <2>2. bars' \in Barriers
    BY <1>4, <1>5, <1>8, <2>1 DEF PostOther, SemPost
  <2> QED BY <1>3, <2>1, <2>2
<1>9. CASE PassBarrier(t)
  <2>1. Move(t, "pass", "out") /\ visit[t].stage \in Stages
    BY <1>9 DEF PassBarrier, Move
  <2>2. bars' \in Barriers
    BY <1>4, <1>5, <1>9, <2>1 DEF PassBarrier, SemWait, CanWait
  <2> QED BY <1>3, <2>1, <2>2
<1> QED BY <1>6, <1>7, <1>8, <1>9 DEF barrier_wait

\* num_thread
LEMMA TypeNum ==
  ASSUME TypeOK, num_thread
  PROVE  TypeOK'
<1> USE NAssumption DEF TypeOK, Goto, Threads, Helpers
<1>1. CASE TakeLock
  BY <1>1 DEF TakeLock
<1>2. CASE CallHelper
  BY <1>2 DEF CallHelper, CallBarrier, HelperFor
<1>3. CASE PrintNumber
  <2>1. <<"num", counter>> \in Threads \X Nat
    OBVIOUS
  <2>2. printed' = printed \/ printed' = Append(printed, <<"num", counter>>)
    BY <1>3 DEF PrintNumber
  <2>3. Append(printed, <<"num", counter>>) \in Seq(Threads \X Nat)
    <3> DEFINE S == Threads \X Nat
               x == <<"num", counter>>
    <3>1. printed \in Seq(S) /\ x \in S
      BY <2>1
    <3> HIDE DEF S, x
    <3>2. Append(printed, x) \in Seq(S)
      BY <3>1
    <3> QED BY <3>2 DEF S, x
  <2>4. printed' \in Seq(Threads \X Nat)
    BY <2>2, <2>3
  <2> QED BY <1>3, <2>4 DEF PrintNumber
<1>4. CASE Resume
  BY <1>4 DEF Resume
<1>5. CASE Advance
  BY <1>5 DEF Advance
<1>6. ASSUME NEW from \in {"exit1", "exit2", "exit3"}, NEW b \in Helpers,
             NEW to \in {"exit2", "exit3", "leave"}, Dismiss(from, b, to)
      PROVE  TypeOK'
  BY <1>6 DEF Dismiss, CallBarrier
<1>7. CASE NumReturns
  BY <1>7 DEF NumReturns
<1> QED
  BY <1>1, <1>2, <1>3, <1>4, <1>5, <1>6, <1>7 DEF num_thread

LEMMA TypeHelper ==
  ASSUME TypeOK, NEW h \in Helpers, helper_thread(h)
  PROVE  TypeOK'
<1> USE NAssumption DEF TypeOK, Goto, Threads, Helpers
<1>1. CASE CheckCounter(h)
  BY <1>1 DEF CheckCounter
<1>2. CASE PrintWord(h)
  <2>1. printed' \in Seq(Threads \X Nat)
    <3>1. <<h, 0>> \in Threads \X Nat
      OBVIOUS
    <3>2. printed' = Append(printed, <<h, 0>>)
      BY <1>2 DEF PrintWord
    <3> QED BY <3>1, <3>2
  <2> QED BY <1>2, <2>1 DEF PrintWord
<1>3. CASE LetResume(h)
  BY <1>3 DEF LetResume, CallBarrier
<1> QED BY <1>1, <1>2, <1>3 DEF helper_thread

LEMMA TypeStep == TypeOK /\ [Next]_vars => TypeOK'
<1> SUFFICES ASSUME TypeOK, [Next]_vars PROVE TypeOK'
  OBVIOUS
<1>1. CASE UNCHANGED vars
  BY <1>1 DEF vars, TypeOK
<1>2. CASE Next
  BY <1>2, TypeBarrier, TypeNum, TypeHelper DEF Next
<1> QED BY <1>1, <1>2

\* Types of the counter, the semaphores, the barriers and the output
\* (fizzbuzz_workers.c).
THEOREM TypeCorrect == Spec => []TypeOK
BY TypeInit, TypeStep, PTL DEF Spec

-----------------------------------------------------------------------------
\* Every print is accounted for: by a value counted, by a post of resumeMutex that
\* is due or made, or by the value num_thread is about to leave.
One(condition) == IF condition THEN 1 ELSE 0
Due(h) == One(at[h] = "post")
Settled == One(at["num"] \in {"relock", "advance"})
Paid ==
  counter - 1 + resumeMutex + Due("fizz") + Due("buzz") + Due("fizzbuzz") + Settled
    = Len(printed)

\* What is printed is what is expected, up to the value num_thread is at, and
\* that one only when num_thread has begun it.
Begun == IF at["num"] \in {"resume", "relock", "advance"} THEN counter ELSE counter - 1
OrderInv ==
  /\ Paid
  /\ Len(printed) <= Begun
  /\ \A k \in DOMAIN printed : printed[k] = Expected[k]
  /\ at["num"] = "resume" => HelperFor(counter) # "none"

\* The word of the helper a value is for.
LEMMA ExpectedWord ==
  ASSUME NEW c \in 1..N
  PROVE  Expected[c] = IF HelperFor(c) = "none" THEN <<"num", c>> ELSE <<HelperFor(c), 0>>
<1>1. c % (F * B) = 0 <=> c % F = 0 /\ c % B = 0
  BY DivisorsAssumption
<1> QED BY <1>1 DEF Expected, HelperFor

\* A helper prints only when it has been called and has not printed yet, if it
\* is not to print more often than it has been called.
LEMMA PrintsWhenCalled ==
  ASSUME TypeOK, OrderInv, NEW h \in Helpers, PrintWord(h), NobodyTwice'
  PROVE  /\ at["num"] \in {"resume", "relock", "advance"}
         /\ HelperFor(counter) = h /\ Len(printed) = counter - 1
<1> DEFINE L == Len(printed)
           W == Words(h)
           Below(k) == {c \in 1..k : HelperFor(c) = h}
<1>1. /\ L \in Nat /\ DOMAIN printed = 1..L /\ counter \in 1..N + 1 /\ DOMAIN at = Threads
      /\ counter - 1 <= L /\ L <= Begun /\ Begun \in {counter - 1, counter}
  BY NAssumption DEF TypeOK, OrderInv, Paid, One, Due, Settled, Begun
<1>2. /\ printed' = Append(printed, <<h, 0>>) /\ counter' = counter
      /\ at'["num"] = at["num"]
  BY <1>1 DEF PrintWord, Goto, Helpers, Threads
<1>3. L <= N
  BY <1>1, NAssumption DEF TypeOK, Begun
<1>4. W = Below(L)
  <2>1. \A k \in 1..L : printed[k][1] = h <=> HelperFor(k) = h
    <3> TAKE k \in 1..L
    <3>1. k \in 1..N /\ printed[k] = Expected[k]
      BY <1>1, <1>3, NAssumption DEF OrderInv
    <3>2. HelperFor(k) \in Helpers \cup {"none"}
      BY DEF HelperFor, Helpers
    <3>3. Expected[k] = IF HelperFor(k) = "none" THEN <<"num", k>> ELSE <<HelperFor(k), 0>>
      BY <3>1, ExpectedWord
    <3> QED BY <3>1, <3>2, <3>3 DEF Helpers
  <2> QED BY <1>1, <2>1 DEF Words
<1>5. Words(h)' = W \cup {L + 1} /\ L + 1 \notin W
  <2>1. /\ DOMAIN printed' = 1..L + 1 /\ printed'[L + 1] = <<h, 0>>
        /\ \A k \in 1..L : printed'[k] = printed[k]
    BY <1>1, <1>2 DEF TypeOK
  <2> QED BY <1>1, <2>1 DEF Words
<1>6. IsFiniteSet(W) /\ Cardinality(W) \in Nat
  <2>1. W \subseteq 1..L /\ IsFiniteSet(1..L)
    BY <1>1, FS_Interval DEF Words
  <2> QED BY <2>1, FS_Subset, FS_CardinalityType
<1>7. Cardinality(Words(h)') = Cardinality(W) + 1
  BY <1>5, <1>6, FS_AddElement
<1>8. Called(h)' = Called(h)
  BY <1>2 DEF Called, HelperFor
<1>9. Called(h) # W
  BY <1>6, <1>7, <1>8 DEF NobodyTwice
<1>10. ~(Begun = L)
  <2> SUFFICES ASSUME Begun = L PROVE FALSE
    OBVIOUS
  <2>1. CASE at["num"] \in {"resume", "relock", "advance"}
    <3>1. counter = L
      BY <2>1 DEF Begun
    <3>2. Called(h) = Below(L)
      BY <2>1, <3>1 DEF Called
    <3> QED BY <1>4, <1>9, <3>2
  <2>2. CASE at["num"] \notin {"resume", "relock", "advance"}
    <3>1. counter = L + 1
      BY <1>1, <2>2 DEF Begun
    <3>2. Called(h) = Below(L)
      BY <1>1, <2>2, <3>1 DEF Called
    <3> QED BY <1>4, <1>9, <3>2
  <2> QED BY <2>1, <2>2
<1>11. Begun = counter /\ L = counter - 1
  <2>1. Begun = counter - 1 \/ Begun = counter
    BY <1>1
  <2> HIDE DEF L
  <2> QED BY <1>1, <1>10, <2>1
<1>12. HelperFor(counter) = h
  <2> SUFFICES ASSUME HelperFor(counter) # h PROVE FALSE
    OBVIOUS
  <2>1. Called(h) = Below(L)
    BY <1>1, <1>11 DEF Called
  <2> QED BY <1>4, <1>9, <2>1
<1> QED BY <1>1, <1>11, <1>12 DEF Begun

LEMMA Appended ==
  ASSUME TypeOK, NEW e, printed' = Append(printed, e)
  PROVE  /\ Len(printed) \in Nat /\ DOMAIN printed = 1..Len(printed)
         /\ Len(printed') = Len(printed) + 1 /\ DOMAIN printed' = 1..Len(printed) + 1
         /\ \A k \in 1..Len(printed) : printed'[k] = printed[k]
         /\ printed'[Len(printed) + 1] = e
BY DEF TypeOK

LEMMA OrderInit == Init => OrderInv
BY NAssumption DEF Init, OrderInv, Paid, Begun, One, Due, Settled, Threads, Helpers

LEMMA OrderNum ==
  ASSUME TypeOK, OrderInv, num_thread
  PROVE  OrderInv'
<1>0. /\ counter \in 1..N + 1 /\ resumeMutex \in Nat /\ Len(printed) \in Nat
      /\ DOMAIN printed = 1..Len(printed) /\ DOMAIN at = Threads
  BY DEF TypeOK
<1>1. Expected' = Expected /\ \A c : HelperFor(c)' = HelperFor(c)
  BY DEF Expected, HelperFor
<1>2. ASSUME UNCHANGED printed, Paid', Len(printed) <= Begun',
             at'["num"] = "resume" => HelperFor(counter') # "none"
      PROVE  OrderInv'
  BY <1>1, <1>2 DEF OrderInv
<1> USE <1>0, NAssumption DEF Paid, One, Due, Settled, Goto, Threads, Helpers, Begun
<1>3. CASE TakeLock
  <2>1. CASE Goto("num", "top", "test")
    BY <1>2, <1>3, <2>1 DEF TakeLock, OrderInv
  <2>2. CASE Goto("num", "relock", "advance")
    BY <1>2, <1>3, <2>2 DEF TakeLock, OrderInv
  <2> QED BY <1>3, <2>1, <2>2 DEF TakeLock
<1>4. CASE CallHelper
  BY <1>2, <1>4 DEF CallHelper, OrderInv
<1>5. CASE PrintNumber
  <2>1. counter \in 1..N /\ HelperFor(counter) = "none" /\ counter' = counter
    BY <1>5 DEF PrintNumber, TypeOK
  <2>2. /\ printed' = Append(printed, <<"num", counter>>)
        /\ Len(printed') = Len(printed) + 1 /\ DOMAIN printed' = 1..Len(printed) + 1
        /\ \A k \in 1..Len(printed) : printed'[k] = printed[k]
        /\ printed'[Len(printed) + 1] = <<"num", counter>>
    <3>1. printed' = Append(printed, <<"num", counter>>)
      BY <1>5, <2>1 DEF PrintNumber
    <3> QED BY <3>1, Appended
  <2>3. Len(printed) = counter - 1
    BY <1>5 DEF PrintNumber, OrderInv
  <2>4. Expected[counter] = <<"num", counter>>
    BY <2>1, ExpectedWord
  <2>5. \A k \in DOMAIN printed' : printed'[k] = Expected[k]
    BY <2>2, <2>3, <2>4 DEF OrderInv
  <2>6. Paid'
    BY <1>5, <2>1, <2>2 DEF PrintNumber, OrderInv
  <2>7. Len(printed') <= Begun' /\ at'["num"] # "resume"
    BY <1>5, <2>1, <2>2, <2>3 DEF PrintNumber
  <2> QED BY <1>1, <2>5, <2>6, <2>7 DEF OrderInv
<1>6. CASE Resume
  BY <1>2, <1>6 DEF Resume, OrderInv
<1>7. CASE Advance
  <2>1. at["num"] = "advance" /\ at'["num"] \in {"exit1", "top"} /\ counter' = counter + 1
    BY <1>7 DEF Advance
  <2>2. UNCHANGED <<printed, resumeMutex>> /\ \A h \in Helpers : at'[h] = at[h]
    BY <1>7 DEF Advance
  <2>3. at'["num"] \notin {"resume", "relock", "advance"} /\ counter \in Nat /\ counter' \in Nat
    BY <2>1
  <2>4. Len(printed) <= counter
    BY <2>1 DEF OrderInv
  <2>5. Len(printed) <= Begun'
    BY <2>1, <2>3, <2>4
  <2>6. Settled = 1 /\ Settled' = 0
    BY <2>1, <2>3
  <2>7. Due("fizz")' = Due("fizz") /\ Due("buzz")' = Due("buzz")
        /\ Due("fizzbuzz")' = Due("fizzbuzz")
    BY <2>2
  <2>8. Due("fizz") \in Nat /\ Due("buzz") \in Nat /\ Due("fizzbuzz") \in Nat
    OBVIOUS
  <2>9. Paid'
    <3> HIDE DEF Due, Settled, One
    <3> QED BY <2>1, <2>2, <2>6, <2>7, <2>8 DEF OrderInv
  <2> QED BY <1>2, <2>1, <2>2, <2>5, <2>9
<1>8. ASSUME NEW from \in {"exit1", "exit2", "exit3"}, NEW b \in Helpers,
             NEW to \in {"exit2", "exit3", "leave"}, Dismiss(from, b, to)
      PROVE  OrderInv'
  BY <1>2, <1>8 DEF Dismiss, OrderInv
<1>9. CASE NumReturns
  BY <1>2, <1>9 DEF NumReturns, OrderInv
<1> QED
  BY <1>3, <1>4, <1>5, <1>6, <1>7, <1>8, <1>9 DEF num_thread

LEMMA OrderHelper ==
  ASSUME TypeOK, OrderInv, NEW h \in Helpers, helper_thread(h), NobodyTwice'
  PROVE  OrderInv'
<1>0. /\ counter \in 1..N + 1 /\ resumeMutex \in Nat /\ Len(printed) \in Nat
      /\ DOMAIN printed = 1..Len(printed) /\ DOMAIN at = Threads
  BY DEF TypeOK
<1>1. Expected' = Expected /\ \A c : HelperFor(c)' = HelperFor(c)
  BY DEF Expected, HelperFor
<1>2. counter' = counter /\ at'["num"] = at["num"]
  BY <1>0 DEF helper_thread, CheckCounter, PrintWord, LetResume, Goto, Helpers, Threads
<1> USE <1>0, NAssumption DEF Paid, One, Due, Settled, Goto, Threads, Helpers
<1>3. CASE CheckCounter(h)
  <2>1. Paid'
    BY <1>2, <1>3 DEF CheckCounter, OrderInv
  <2> QED BY <1>1, <1>2, <1>3, <2>1 DEF CheckCounter, OrderInv, Begun
<1>4. CASE PrintWord(h)
  <2>1. /\ at["num"] \in {"resume", "relock", "advance"}
        /\ HelperFor(counter) = h /\ Len(printed) = counter - 1
    BY <1>4, PrintsWhenCalled
  <2>2. at["num"] = "resume" /\ counter \in 1..N
    <3>1. at["num"] \notin {"relock", "advance"}
      BY <2>1 DEF OrderInv
    <3>2. counter <= N
      BY <2>1, <3>1 DEF TypeOK
    <3> QED BY <2>1, <3>1, <3>2
  <2>3. /\ Len(printed') = Len(printed) + 1 /\ DOMAIN printed' = 1..Len(printed) + 1
        /\ \A k \in 1..Len(printed) : printed'[k] = printed[k]
        /\ printed'[Len(printed) + 1] = <<h, 0>>
    <3>1. printed' = Append(printed, <<h, 0>>)
      BY <1>4 DEF PrintWord
    <3> QED BY <3>1, Appended
  <2>4. Expected[counter] = <<h, 0>>
    BY <2>1, <2>2, ExpectedWord
  <2>5. \A k \in DOMAIN printed' : printed'[k] = Expected[k]
    <3> TAKE k \in DOMAIN printed'
    <3>1. CASE k \in 1..Len(printed)
      BY <2>3, <3>1 DEF OrderInv
    <3>2. CASE k = Len(printed) + 1
      BY <2>1, <2>3, <2>4, <3>2
    <3> QED BY <2>3, <3>1, <3>2
  <2>6. Paid'
    BY <1>2, <1>4, <2>3 DEF PrintWord, OrderInv
  <2>7. Len(printed') <= Begun'
    BY <1>2, <2>1, <2>2, <2>3 DEF Begun
  <2> QED BY <1>1, <1>2, <2>5, <2>6, <2>7 DEF OrderInv
<1>5. CASE LetResume(h)
  <2>1. Paid'
    BY <1>2, <1>5 DEF LetResume, OrderInv
  <2> QED BY <1>1, <1>2, <1>5, <2>1 DEF LetResume, OrderInv, Begun
<1> QED BY <1>3, <1>4, <1>5 DEF helper_thread

\* As long as no helper has printed a word more often than num_thread has called
\* it, the output is as expected up to the value num_thread has counted to
\* (num_thread waits for resumeMutex, the helpers post it after they print).
THEOREM CalledWordsInOrder == Spec => OutputInOrder
<1>1. TypeOK /\ OrderInv => AsExpected
  <2> SUFFICES ASSUME TypeOK, OrderInv PROVE AsExpected
    OBVIOUS
  <2>1. counter - 1 <= Len(printed) /\ Len(printed) \in Nat
    BY DEF TypeOK, OrderInv, Paid, One, Due, Settled
  <2>2. Len(printed) <= N /\ DOMAIN printed = 1..Len(printed)
    BY NAssumption DEF TypeOK, OrderInv, Begun
  <2> QED BY NAssumption, <2>1, <2>2 DEF OrderInv, AsExpected
<1>2. TypeOK /\ OrderInv /\ [Next]_vars /\ NobodyTwice' => OrderInv'
  <2> SUFFICES ASSUME TypeOK, OrderInv, [Next]_vars, NobodyTwice' PROVE OrderInv'
    OBVIOUS
  <2>1. ASSUME UNCHANGED <<counter, resumeMutex, at, printed>> PROVE OrderInv'
    <3>1. Expected' = Expected /\ HelperFor(counter)' = HelperFor(counter)
      BY <2>1 DEF Expected, HelperFor
    <3> QED BY <2>1, <3>1 DEF OrderInv, Paid, Begun, One, Due, Settled
  <2>2. CASE UNCHANGED vars
    BY <2>1, <2>2 DEF vars
  <2>3. ASSUME NEW t \in Threads, barrier_wait(t) PROVE OrderInv'
    BY <2>1, <2>3 DEF barrier_wait
  <2> QED BY <2>2, <2>3, OrderNum, OrderHelper DEF Next
<1> QED BY <1>1, <1>2, OrderInit, TypeCorrect, PTL DEF Spec, OutputInOrder

-----------------------------------------------------------------------------
\* num_thread has printed the values below the counter that are for it, and the
\* present one if it is about to leave it; it waits only at values that are not.
Reached == IF at["num"] = "advance" THEN counter ELSE counter - 1
NumberInv ==
  /\ \A k \in DOMAIN printed : IsNumber(k) =>
       /\ printed[k][2] \in 1..N /\ printed[k] = Expected[printed[k][2]]
       /\ printed[k][2] <= Reached
  /\ \A j, k \in DOMAIN printed :
       (IsNumber(j) /\ IsNumber(k) /\ j < k) => printed[j][2] < printed[k][2]
  /\ \A c \in 1..Reached :
       HelperFor(c) = "none" => \E k \in DOMAIN printed : printed[k] = <<"num", c>>
  /\ at["num"] \in {"resume", "relock"} => HelperFor(counter) # "none"

LEMMA NumberInit == Init => NumberInv
BY NAssumption DEF Init, NumberInv, Reached, Threads, Helpers, IsNumber

\* What is expected of a value that is for no helper.
LEMMA NoneIsNumber ==
  ASSUME NEW c \in 1..N, HelperFor(c) = "none"
  PROVE  Expected[c] = <<"num", c>>
<1>1. c % F # 0 /\ c % B # 0
  BY DEF HelperFor
<1> QED BY <1>1 DEF Expected

\* Nothing changes for the numbers when something else is printed.
LEMMA WordsDoNotCount ==
  ASSUME TypeOK, NumberInv, NEW h \in Helpers,
         printed' = Append(printed, <<h, 0>>), UNCHANGED counter,
         at'["num"] = at["num"]
  PROVE  NumberInv'
<1>1. /\ Len(printed) \in Nat /\ DOMAIN printed = 1..Len(printed)
      /\ DOMAIN printed' = 1..Len(printed) + 1
      /\ \A k \in DOMAIN printed : printed'[k] = printed[k]
      /\ printed'[Len(printed) + 1] = <<h, 0>>
  BY DEF TypeOK
<1>2. \A k \in DOMAIN printed' :
        IsNumber(k)' => k \in DOMAIN printed /\ IsNumber(k)
  BY <1>1 DEF IsNumber, Helpers
<1>3. Reached' = Reached
  BY DEF Reached
<1>4. \A k \in DOMAIN printed : k \in DOMAIN printed'
  BY <1>1
<1>5. Expected' = Expected /\ \A c : HelperFor(c)' = HelperFor(c)
  BY DEF Expected, HelperFor
<1>6. \A k \in DOMAIN printed' : IsNumber(k)' =>
        /\ printed'[k][2] \in 1..N /\ printed'[k] = Expected[printed'[k][2]]
        /\ printed'[k][2] <= Reached
  BY <1>1, <1>2 DEF NumberInv
<1>7. \A j, k \in DOMAIN printed' :
        (IsNumber(j)' /\ IsNumber(k)' /\ j < k) => printed'[j][2] < printed'[k][2]
  BY <1>1, <1>2 DEF NumberInv
<1>8. \A c \in 1..Reached : HelperFor(c) = "none" =>
        \E k \in DOMAIN printed' : printed'[k] = <<"num", c>>
  BY <1>1, <1>4 DEF NumberInv
<1>9. at'["num"] \in {"resume", "relock"} => HelperFor(counter') # "none"
  BY DEF NumberInv
<1> HIDE DEF IsNumber
<1> QED BY <1>3, <1>5, <1>6, <1>7, <1>8, <1>9 DEF NumberInv

LEMMA NumberPrint ==
  ASSUME TypeOK, NumberInv, PrintNumber
  PROVE  NumberInv'
<1>0. /\ counter \in 1..N /\ at["num"] = "test" /\ at'["num"] = "advance"
      /\ printed' = Append(printed, <<"num", counter>>) /\ counter' = counter
      /\ HelperFor(counter) = "none"
  BY NAssumption DEF PrintNumber, Goto, TypeOK, Threads
<1>1. /\ Len(printed) \in Nat /\ DOMAIN printed = 1..Len(printed)
      /\ DOMAIN printed' = 1..Len(printed) + 1
      /\ \A k \in DOMAIN printed : printed'[k] = printed[k]
      /\ printed'[Len(printed) + 1] = <<"num", counter>>
  BY <1>0 DEF TypeOK
<1>2. Reached = counter - 1 /\ Reached' = counter
  BY <1>0 DEF Reached
<1>3. \A k \in DOMAIN printed : IsNumber(k)' <=> IsNumber(k)
  BY <1>1 DEF IsNumber
<1>4. Expected[counter] = <<"num", counter>> /\ Expected' = Expected
  BY <1>0, NoneIsNumber DEF Expected
<1>5. \A k \in DOMAIN printed' : IsNumber(k)' =>
        /\ printed'[k][2] \in 1..N /\ printed'[k] = Expected[printed'[k][2]]
        /\ printed'[k][2] <= counter
  <2> TAKE k \in DOMAIN printed'
  <2>1. CASE k \in DOMAIN printed
    BY <1>0, <1>1, <1>2, <1>3, <2>1 DEF NumberInv
  <2>2. CASE k = Len(printed) + 1
    BY <1>0, <1>1, <1>4, <2>2
  <2> QED BY <1>1, <2>1, <2>2
<1>6. \A j, k \in DOMAIN printed' :
        (IsNumber(j)' /\ IsNumber(k)' /\ j < k) => printed'[j][2] < printed'[k][2]
  <2> TAKE j, k \in DOMAIN printed'
  <2> HAVE IsNumber(j)' /\ IsNumber(k)' /\ j < k
  <2>1. j \in DOMAIN printed /\ IsNumber(j)
    BY <1>1, <1>3
  <2>2. CASE k \in DOMAIN printed
    BY <1>1, <1>3, <2>1, <2>2 DEF NumberInv
  <2>3. CASE k = Len(printed) + 1
    <3>1. printed[j][2] \in 1..N /\ printed[j][2] <= counter - 1
      BY <1>2, <2>1 DEF NumberInv
    <3> QED BY <1>0, <1>1, <2>1, <2>3, <3>1
  <2> QED BY <1>1, <2>2, <2>3
<1>7. \A c \in 1..counter : HelperFor(c) = "none" =>
        \E k \in DOMAIN printed' : printed'[k] = <<"num", c>>
  <2> TAKE c \in 1..counter
  <2> HAVE HelperFor(c) = "none"
  <2>1. CASE c = counter
    BY <1>1, <2>1
  <2>2. CASE c # counter
    <3>1. c \in 1..Reached
      BY <1>0, <1>2, <2>2
    <3>2. PICK k \in DOMAIN printed : printed[k] = <<"num", c>>
      BY <3>1 DEF NumberInv
    <3> QED BY <1>1, <3>2
  <2> QED BY <2>1, <2>2
<1> QED BY <1>0, <1>2, <1>4, <1>5, <1>6, <1>7 DEF NumberInv, HelperFor

LEMMA NumberNum ==
  ASSUME TypeOK, NumberInv, num_thread
  PROVE  NumberInv'
<1>0. DOMAIN at = Threads /\ counter \in 1..N + 1
  BY DEF TypeOK
<1>1. ASSUME UNCHANGED <<printed, counter>>, Reached' = Reached,
             at'["num"] \in {"resume", "relock"} => HelperFor(counter) # "none"
      PROVE  NumberInv'
  BY <1>1 DEF NumberInv, IsNumber, HelperFor, Expected
<1> USE <1>0 DEF Goto, Threads, Helpers, Reached
<1>2. CASE TakeLock
  <2>1. CASE Goto("num", "top", "test")
    BY <1>1, <1>2, <2>1 DEF TakeLock
  <2>2. CASE Goto("num", "relock", "advance")
    <3>1. HelperFor(counter) # "none" /\ at["num"] = "relock"
          /\ at'["num"] = "advance" /\ UNCHANGED <<printed, counter>>
      BY <1>2, <2>2 DEF TakeLock, NumberInv
    <3>2. Reached = counter - 1 /\ Reached' = counter
      BY <3>1
    <3>3. \A c \in 1..counter : HelperFor(c) = "none" =>
            \E k \in DOMAIN printed : printed[k] = <<"num", c>>
      <4> TAKE c \in 1..counter
      <4> HAVE HelperFor(c) = "none"
      <4>1. c \in 1..Reached
        BY <3>1, <3>2
      <4> QED BY <4>1 DEF NumberInv
    <3>4. \A k \in DOMAIN printed : IsNumber(k) =>
            printed[k][2] \in 1..N /\ printed[k][2] <= counter
      BY <3>2 DEF NumberInv
    <3> HIDE DEF Reached
    <3> QED BY <3>1, <3>2, <3>3, <3>4 DEF NumberInv, IsNumber, HelperFor, Expected
  <2> QED BY <1>2, <2>1, <2>2 DEF TakeLock
<1>3. CASE CallHelper
  BY <1>1, <1>3 DEF CallHelper
<1>4. CASE PrintNumber
  BY <1>4, NumberPrint
<1>5. CASE Resume
  BY <1>1, <1>5 DEF Resume, NumberInv
<1>6. CASE Advance
  <2>1. /\ at["num"] = "advance" /\ at'["num"] \in {"exit1", "top"}
        /\ counter' = counter + 1 /\ printed' = printed
    BY <1>6 DEF Advance
  <2>2. Reached' = Reached
    BY <2>1
  <2> HIDE DEF Reached
  <2> QED BY <2>1, <2>2 DEF NumberInv, IsNumber, HelperFor, Expected
<1>7. ASSUME NEW from \in {"exit1", "exit2", "exit3"}, NEW b \in Helpers,
             NEW to \in {"exit2", "exit3", "leave"}, Dismiss(from, b, to)
      PROVE  NumberInv'
  BY <1>1, <1>7 DEF Dismiss
<1>8. CASE NumReturns
  BY <1>1, <1>8 DEF NumReturns
<1> QED
  BY <1>2, <1>3, <1>4, <1>5, <1>6, <1>7, <1>8 DEF num_thread

LEMMA NumberOther ==
  ASSUME TypeOK, NumberInv,
         \/ UNCHANGED vars
         \/ \E t \in Threads : barrier_wait(t)
         \/ \E h \in Helpers : helper_thread(h)
  PROVE  NumberInv'
<1>1. ASSUME UNCHANGED <<printed, counter>>, at'["num"] = at["num"]
      PROVE  NumberInv'
  BY <1>1 DEF NumberInv, IsNumber, HelperFor, Expected, Reached
<1>2. ASSUME NEW t \in Threads, barrier_wait(t) PROVE NumberInv'
  BY <1>1, <1>2 DEF barrier_wait
<1>3. ASSUME NEW h \in Helpers, helper_thread(h) PROVE NumberInv'
  <2>1. at'["num"] = at["num"] /\ counter' = counter
    BY <1>3 DEF helper_thread, CheckCounter, PrintWord, LetResume, Goto, Helpers,
                TypeOK, Threads
  <2>2. CASE PrintWord(h)
    BY <2>1, <2>2, WordsDoNotCount DEF PrintWord
  <2>3. CASE CheckCounter(h) \/ LetResume(h)
    BY <1>1, <2>1, <2>3 DEF CheckCounter, LetResume
  <2> QED BY <1>3, <2>2, <2>3 DEF helper_thread
<1> QED BY <1>1, <1>2, <1>3 DEF vars

\* Whatever the helpers do, the numbers come once each, in order, only where no
\* word is due, and none is left out (num_thread).
THEOREM NumbersComeInOrder == Spec => []NumbersInOrder
<1>1. TypeOK /\ NumberInv => NumbersInOrder
  <2> SUFFICES ASSUME TypeOK, NumberInv PROVE NumbersInOrder
    OBVIOUS
  <2>1. 1..counter - 1 \subseteq 1..Reached
    BY DEF TypeOK, Reached
  <2> QED BY <2>1 DEF NumberInv, NumbersInOrder
<1>2. TypeOK /\ NumberInv /\ [Next]_vars => NumberInv'
  BY NumberNum, NumberOther DEF Next
<1> QED BY <1>1, <1>2, NumberInit, TypeCorrect, PTL DEF Spec

--------------------------------------------------------------------------------
\* The train station.

Waiting == {"queue", "look", "pass_on"}
Admitted == {"enter", "error", "next_turn"} \cup InBays
Queueing == {"exit_queue", "try", "give_way", "leave_queue"}
HoldsTrack == {"try", "give_way"} \cup OnTrack

\* Tickets differ, and tell who has been let in and who has left.
TicketsInOrder ==
  /\ \A t \in Train : pc[t] # "join" => ticket[t] < lastIndex
  /\ headIndex <= lastIndex
  /\ \A t, u \in Train :
       pc[t] # "join" /\ pc[u] # "join" /\ ticket[t] = ticket[u] => t = u
  /\ \A t \in Train : pc[t] \in Waiting => headIndex <= ticket[t]
  /\ \A t \in Train : pc[t] \in Admitted => ticket[t] = headIndex
  /\ \A t \in Train : pc[t] \in Gone => ticket[t] < headIndex

\* Nobody gets past the entry when there is no bay.
NoBayNoEntry ==
  loading_bays = 0 =>
    notifyEntry = 0 /\ \A t \in Train : pc[t] \in {"join", "queue"}

\* The runner counts the train in the bays, and raises no alarm.
BaysCounted ==
  /\ \A t \in Train : pc[t] # "error"
  /\ (\E t \in Train : pc[t] \in InBays) => trains_in_loading_bays = 1
  /\ (\A t \in Train : pc[t] \notin InBays) => trains_in_loading_bays = 0

\* exitNotification is taken by one train at a time.
TrackTaken ==
  /\ exitNotification \in {0, 1}
  /\ exitNotification = 1 => \A t \in Train : pc[t] \notin HoldsTrack
  /\ \A t, u \in Train : pc[t] \in HoldsTrack /\ pc[u] \in HoldsTrack => t = u

\* Nobody has ever to let another train go first.
QueueShort ==
  /\ \A t \in exit_queue : pc[t] \in Queueing
  /\ \A t \in Train : before[t] = {}
  /\ complaints = {}

StationInv ==
  /\ StationTypeOK /\ TicketsInOrder /\ NoBayNoEntry
  /\ BaysCounted /\ TrackTaken /\ QueueShort

USE DEF Step, parameters, entry, exit, runner, stationVars

LEMMA StationInvInit == StationInit => StationInv
<1> SUFFICES ASSUME StationInit PROVE StationInv
  OBVIOUS
<1> USE StationAssumption
<1>1. StationTypeOK
  BY DEF StationInit, StationTypeOK, Places
<1>2. TicketsInOrder
  BY DEF StationInit, TicketsInOrder, Waiting, Admitted, InBays, Gone
<1>3. NoBayNoEntry /\ BaysCounted
  BY DEF StationInit, NoBayNoEntry, BaysCounted, InBays
<1>4. TrackTaken
  BY DEF StationInit, TrackTaken, HoldsTrack, OnTrack
<1>5. QueueShort
  BY DEF StationInit, QueueShort
<1> QED
  BY <1>1, <1>2, <1>3, <1>4, <1>5 DEF StationInv

\* Every step keeps the types.
LEMMA StationTypeStep ==
  ASSUME StationTypeOK, [StationNext]_stationVars
  PROVE  StationTypeOK'
<1> USE DEF StationTypeOK, Places
<1>1. CASE UNCHANGED stationVars
  BY <1>1
<1>2. ASSUME NEW t \in Train, EntryWait(t) PROVE StationTypeOK'
  BY <1>2 DEF EntryWait, TakeTicket, AwaitBay, CheckTurn, PassOn
<1>3. ASSUME NEW t \in Train, EnterBays(t) \/ JoinExitQueue(t) PROVE StationTypeOK'
  BY <1>3 DEF EnterBays, JoinExitQueue
<1>4. ASSUME NEW t \in Train, ExitWait(t) PROVE StationTypeOK'
  BY <1>4 DEF ExitWait, AwaitTrack, TryTrack, GiveWay
<1>5. ASSUME NEW t \in Train, Exit(t) PROVE StationTypeOK'
  <2>1. CASE LeaveQueue(t) \/ LeaveBay(t) \/ NextTurn(t) \/ FreeBay(t)
    BY <2>1 DEF LeaveQueue, LeaveBay, NextTurn, FreeBay
  <2>2. CASE Compare(t)
    BY <2>2 DEF Compare
  <2>3. CASE Uncount(t) \/ FreeTrack(t)
    BY <2>3 DEF Uncount, FreeTrack
  <2> QED
    BY <1>5, <2>1, <2>2, <2>3 DEF Exit
<1> QED
  BY <1>1, <1>2, <1>3, <1>4, <1>5 DEF StationNext, simulate_train, Stopped

\* Every step keeps the order of the tickets, the count of the bays, the lock of
\* the track, and the queue empty but for one train.
LEMMA TicketStep ==
  ASSUME StationTypeOK, TicketsInOrder, [StationNext]_stationVars
  PROVE  TicketsInOrder'
<1> USE DEF StationTypeOK, TicketsInOrder, Waiting, Admitted, InBays, Gone
<1>1. CASE UNCHANGED stationVars
  BY <1>1
<1>2. ASSUME NEW t \in Train, EntryWait(t) PROVE TicketsInOrder'
  <2>1. CASE TakeTicket(t)
    BY <2>1 DEF TakeTicket
  <2>2. CASE AwaitBay(t) \/ PassOn(t)
    BY <2>2 DEF AwaitBay, PassOn
  <2>3. CASE CheckTurn(t)
    BY <2>3 DEF CheckTurn, MyTurn
  <2> QED
    BY <1>2, <2>1, <2>2, <2>3 DEF EntryWait
<1>3. ASSUME NEW t \in Train, EnterBays(t) \/ JoinExitQueue(t)
      PROVE  TicketsInOrder'
  BY <1>3 DEF EnterBays, JoinExitQueue
<1>4. ASSUME NEW t \in Train, ExitWait(t) PROVE TicketsInOrder'
  BY <1>4 DEF ExitWait, AwaitTrack, TryTrack, GiveWay
<1>5. ASSUME NEW t \in Train, Exit(t) PROVE TicketsInOrder'
  <2>1. CASE LeaveQueue(t) \/ LeaveBay(t)
    BY <2>1 DEF LeaveQueue, LeaveBay
  <2>2. CASE NextTurn(t)
    BY <2>2 DEF NextTurn
  <2>3. CASE FreeBay(t) \/ Compare(t)
    BY <2>3 DEF FreeBay, Compare
  <2>4. CASE Uncount(t) \/ FreeTrack(t)
    BY <2>4 DEF Uncount, FreeTrack
  <2> QED
    BY <1>5, <2>1, <2>2, <2>3, <2>4 DEF Exit
<1> QED
  BY <1>1, <1>2, <1>3, <1>4, <1>5 DEF StationNext, simulate_train, Stopped

LEMMA BaysStep ==
  ASSUME StationTypeOK, TicketsInOrder, NoBayNoEntry, BaysCounted,
         [StationNext]_stationVars
  PROVE  NoBayNoEntry' /\ BaysCounted'
<1> USE DEF StationTypeOK, NoBayNoEntry, BaysCounted, InBays
<1>1. CASE UNCHANGED stationVars
  BY <1>1
<1>2. ASSUME NEW t \in Train, EntryWait(t) PROVE NoBayNoEntry' /\ BaysCounted'
  BY <1>2 DEF EntryWait, TakeTicket, AwaitBay, CheckTurn, PassOn
<1>3. ASSUME NEW t \in Train, EnterBays(t) PROVE NoBayNoEntry' /\ BaysCounted'
  <2>1. \A u \in Train : pc[u] \notin InBays
    BY <1>3 DEF EnterBays, TicketsInOrder, Admitted
  <2> QED
    BY <1>3, <2>1 DEF EnterBays
<1>4. ASSUME NEW t \in Train, JoinExitQueue(t) \/ ExitWait(t)
      PROVE  NoBayNoEntry' /\ BaysCounted'
  BY <1>4 DEF JoinExitQueue, ExitWait, AwaitTrack, TryTrack, GiveWay
<1>5. ASSUME NEW t \in Train, Exit(t) PROVE NoBayNoEntry' /\ BaysCounted'
  <2>1. CASE LeaveBay(t)
    <3>1. \A u \in Train \ {t} : pc[u] \notin InBays
      BY <2>1 DEF LeaveBay, TicketsInOrder, Admitted
    <3> QED
      BY <2>1, <3>1 DEF LeaveBay
  <2>2. CASE LeaveQueue(t)
    BY <2>2 DEF LeaveQueue
  <2>3. CASE NextTurn(t) \/ FreeBay(t) \/ Compare(t)
    BY <2>3 DEF NextTurn, FreeBay, Compare
  <2>4. CASE Uncount(t) \/ FreeTrack(t)
    BY <2>4 DEF Uncount, FreeTrack
  <2> QED
    BY <1>5, <2>1, <2>2, <2>3, <2>4 DEF Exit
<1> QED
  BY <1>1, <1>2, <1>3, <1>4, <1>5 DEF StationNext, simulate_train, Stopped

LEMMA TrackStep ==
  ASSUME StationTypeOK, TrackTaken, [StationNext]_stationVars
  PROVE  TrackTaken'
<1> USE DEF StationTypeOK, TrackTaken, HoldsTrack, OnTrack
<1>1. CASE UNCHANGED stationVars
  BY <1>1
<1>2. ASSUME NEW t \in Train, EntryWait(t) PROVE TrackTaken'
  BY <1>2 DEF EntryWait, TakeTicket, AwaitBay, CheckTurn, PassOn
<1>3. ASSUME NEW t \in Train, EnterBays(t) \/ JoinExitQueue(t) PROVE TrackTaken'
  BY <1>3 DEF EnterBays, JoinExitQueue
<1>4. ASSUME NEW t \in Train, ExitWait(t) PROVE TrackTaken'
  BY <1>4 DEF ExitWait, AwaitTrack, TryTrack, GiveWay
<1>5. ASSUME NEW t \in Train, Exit(t) PROVE TrackTaken'
  BY <1>5 DEF Exit, LeaveQueue, LeaveBay, NextTurn, FreeBay, Compare, Uncount,
    FreeTrack
<1> QED
  BY <1>1, <1>2, <1>3, <1>4, <1>5 DEF StationNext, simulate_train, Stopped

LEMMA QueueStep ==
  ASSUME StationTypeOK, TicketsInOrder, QueueShort, [StationNext]_stationVars
  PROVE  QueueShort'
<1> USE DEF StationTypeOK, QueueShort, Queueing
<1>1. CASE UNCHANGED stationVars
  BY <1>1
<1>2. ASSUME NEW t \in Train, EntryWait(t) PROVE QueueShort'
  BY <1>2 DEF EntryWait, TakeTicket, AwaitBay, CheckTurn, PassOn
<1>3. ASSUME NEW t \in Train, EnterBays(t) PROVE QueueShort'
  BY <1>3 DEF EnterBays
<1>4. ASSUME NEW t \in Train, JoinExitQueue(t) PROVE QueueShort'
  <2>1. exit_queue = {}
    BY <1>4 DEF JoinExitQueue, TicketsInOrder, Admitted, InBays
  <2> QED
    BY <1>4, <2>1 DEF JoinExitQueue
<1>5. ASSUME NEW t \in Train, ExitWait(t) PROVE QueueShort'
  BY <1>5 DEF ExitWait, AwaitTrack, TryTrack, GiveWay
<1>6. ASSUME NEW t \in Train, Exit(t) PROVE QueueShort'
  <2>1. CASE LeaveQueue(t)
    BY <2>1 DEF LeaveQueue
  <2>2. CASE LeaveBay(t) \/ NextTurn(t) \/ FreeBay(t)
    BY <2>2 DEF LeaveBay, NextTurn, FreeBay
  <2>3. CASE Compare(t)
    BY <2>3 DEF Compare
  <2>4. CASE Uncount(t) \/ FreeTrack(t)
    BY <2>4 DEF Uncount, FreeTrack
  <2> QED
    BY <1>6, <2>1, <2>2, <2>3, <2>4 DEF Exit
<1> QED
  BY <1>1, <1>2, <1>3, <1>4, <1>5, <1>6 DEF StationNext, simulate_train, Stopped

LEMMA StationInvStep == StationInv /\ [StationNext]_stationVars => StationInv'
BY StationTypeStep, TicketStep, BaysStep, TrackStep, QueueStep DEF StationInv

LEMMA StationInvAlways == StationSpec => []StationInv
BY StationInvInit, StationInvStep, PTL DEF StationSpec

\* The types of the controllers and of the runner.
THEOREM StationTypes == StationSpec => []StationTypeOK
<1>1. StationInv => StationTypeOK
  BY DEF StationInv
<1> QED
  BY StationInvAlways, <1>1, PTL

\* However many bays there are, one train uses them at a time: headIndex is
\* advanced by entry_controller_post, when a train leaves, so that trains wait in
\* entry_controller_wait although bays are free.
OneTrainInBays ==
  /\ \A t, u \in Train : pc[t] \in InBays /\ pc[u] \in InBays => t = u
  /\ trains_in_loading_bays = (IF \E t \in Train : pc[t] \in InBays THEN 1 ELSE 0)
THEOREM OneTrain == StationSpec => []OneTrainInBays
<1>1. StationInv => OneTrainInBays
  BY DEF StationInv, OneTrainInBays, StationTypeOK, TicketsInOrder, BaysCounted,
         Admitted, InBays
<1> QED
  BY StationInvAlways, <1>1, PTL

\* One train is on the exit track, in both versions of the exit controller and
\* whatever the counters hold (exit_controller_wait, exit_controller_post).
THEOREM OneOnTrack == StationSpec => []TrackExclusive
<1>1. StationInv => TrackExclusive
  BY DEF StationInv, TrackExclusive, TrackTaken, HoldsTrack
<1> QED
  BY StationInvAlways, <1>1, PTL

\* The checks of train_runner.c never find a fault.
THEOREM RunnerContent == StationSpec => []NoComplaint
<1>1. StationInv => NoComplaint
  BY DEF StationInv, NoComplaint, BaysCounted, QueueShort
<1> QED
  BY StationInvAlways, <1>1, PTL

\* Trains enter in the order of their tickets (entry_controller_wait).
THEOREM TicketOrder == StationSpec => EnterInOrder
<1>1. ASSUME StationInv, [StationNext]_stationVars, NEW t \in Train, pc[t] = "enter",
             NEW u \in Train, pc[u] # "join", ticket[u] < ticket[t]
      PROVE  pc[u] \in Gone
  BY <1>1 DEF StationInv, StationTypeOK, Places, TicketsInOrder, Waiting,
              Admitted, InBays, Gone
<1>2. StationInv /\ [StationNext]_stationVars =>
        [\A t \in Train :
           pc[t] = "enter" /\ pc'[t] # "enter" =>
             \A u \in Train :
               pc[u] # "join" /\ ticket[u] < ticket[t] => pc[u] \in Gone]_stationVars
  BY <1>1
<1> QED
  BY StationInvAlways, <1>2, PTL DEF StationSpec, EnterInOrder
================================================================================
