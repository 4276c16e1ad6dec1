------------------------------ MODULE FizzBuzz ------------------------------
(***************************************************************************)
(* fizzbuzz_workers.c: num_thread and its three helpers.  The counter is   *)
(* protected by mutexLock (the helpers read it without); a helper is woken *)
(* through a two-party barrier of its own and answers through resumeMutex. *)
(***************************************************************************)
EXTENDS BarrierOps, Sequences, FiniteSets

CONSTANTS
  N,           \* the n of num_thread, the n_loops of ex2_runner
  F, B,        \* the divisors: 3 and 5 in the code
  MaxPrinted   \* bound on the words and numbers printed

ASSUME NAssumption == {N, F, B} \subseteq Nat \ {0} /\ MaxPrinted \in Nat

\* 15 divides what 3 and 5 divide.
ASSUME DivisorsAssumption ==
  \A c \in 1..N : c % (F * B) = 0 <=> c % F = 0 /\ c % B = 0

Helpers == {"fizz", "buzz", "fizzbuzz"}
Threads == Helpers \cup {"num"}

VARIABLES
  counter, mutexLock, resumeMutex,
  bars,      \* fizzBarrier, buzzBarrier and fizzBuzzBarrier
  at,        \* where each thread is in its function
  visit,     \* where each thread is in barrier_wait, and on which barrier
  printed    \* the print callbacks called: who, and which number

vars == <<counter, mutexLock, resumeMutex, bars, at, visit, printed>>

Out == [stage |-> "out"]

\* fizzbuzz_init, and the four threads of ex2_runner's main.
Init ==
  /\ counter = 1
  /\ mutexLock = 1
  /\ resumeMutex = 0
  /\ bars = [b \in Helpers |-> barrier_init(2)]
  /\ at = [t \in Threads |-> IF t = "num" THEN "top" ELSE "woken"]
  /\ visit = [t \in Threads |->
                IF t = "num" THEN Out ELSE [stage |-> "lock", bar |-> t]]
  /\ printed = <<>>

Goto(t, from, to) ==
  /\ visit[t] = Out
  /\ at[t] = from
  /\ at' = [at EXCEPT ![t] = to]

HelperFor_NoBuzz(c) ==
  IF c % (F * B) = 0 THEN "fizzbuzz" ELSE IF c % F = 0 THEN "fizz" ELSE "none"

\* The helper a value of the counter is for, in the order of the else-ifs.
HelperFor(c) ==
  IF c % (F * B) = 0 THEN "fizzbuzz"
  ELSE IF c % F = 0 THEN "fizz"
  ELSE IF c % B = 0 THEN "buzz" ELSE "none"

CallBarrier(t, b) == visit' = [visit EXCEPT ![t] = [stage |-> "lock", bar |-> b]]

-----------------------------------------------------------------------------
\* barrier_wait on two parties, for whichever thread is inside it.

Move(t, from, to) ==
  /\ visit[t].stage = from
  /\ visit' = [visit EXCEPT ![t] = IF to = "out" THEN Out ELSE [@ EXCEPT !.stage = to]]

BarrierOf(t) == bars[visit[t].bar]
Becomes(t, b) == bars' = [bars EXCEPT ![visit[t].bar] = b]

LockCounter(t) ==
  /\ Move(t, "lock", "count")
  /\ CanWait(BarrierOf(t), "counterSem")
  /\ Becomes(t, SemWait(BarrierOf(t), "counterSem"))

CountIn(t) ==
  /\ Move(t, "count", IF IsLast(BarrierOf(t)) THEN "post" ELSE "pass")
  /\ Becomes(t, CountThread(BarrierOf(t)))

\* count is 2, so the last thread owes one post.
PostOther(t) ==
  /\ Move(t, "post", "out")
  /\ Becomes(t, SemPost(BarrierOf(t), "barrierSem"))

PassBarrier(t) ==
  /\ Move(t, "pass", "out")
  /\ CanWait(BarrierOf(t), "barrierSem")
  /\ Becomes(t, SemWait(BarrierOf(t), "barrierSem"))

barrier_wait(t) ==
  /\ LockCounter(t) \/ CountIn(t) \/ PostOther(t) \/ PassBarrier(t)
  /\ UNCHANGED <<counter, mutexLock, resumeMutex, at, printed>>

-----------------------------------------------------------------------------
\* num_thread

TakeLock ==
  /\ \/ Goto("num", "top", "test")
     \/ Goto("num", "relock", "advance")
  /\ mutexLock > 0
  /\ mutexLock' = mutexLock - 1
  /\ UNCHANGED <<counter, resumeMutex, bars, visit, printed>>

\* A multiple: give the lock up and meet the helper at its barrier.
CallHelper ==
  /\ HelperFor(counter) # "none"
  /\ Goto("num", "test", "resume")
  /\ mutexLock' = mutexLock + 1
  /\ CallBarrier("num", HelperFor(counter))
  /\ UNCHANGED <<counter, resumeMutex, bars, printed>>

PrintNumber ==
  /\ HelperFor(counter) = "none"
  /\ Goto("num", "test", "advance")
  /\ IF counter <= N
     THEN /\ Len(printed) < MaxPrinted
          /\ printed' = Append(printed, <<"num", counter>>)
     ELSE UNCHANGED printed
  /\ UNCHANGED <<counter, mutexLock, resumeMutex, bars, visit>>

Resume_NoWait ==
  /\ Goto("num", "resume", "relock")
  /\ UNCHANGED <<counter, mutexLock, resumeMutex, bars, visit, printed>>

\* sem_wait(&resumeMutex): some helper has printed.
Resume ==
  /\ Goto("num", "resume", "relock")
  /\ resumeMutex > 0
  /\ resumeMutex' = resumeMutex - 1
  /\ UNCHANGED <<counter, mutexLock, bars, visit, printed>>

\* counter++; i = counter; sem_post(&mutexLock); and, after the last number,
\* one visit to each barrier to let the helpers see it.
Advance ==
  /\ Goto("num", "advance", IF counter = N THEN "exit1" ELSE "top")
  /\ counter' = counter + 1
  /\ mutexLock' = mutexLock + 1
  /\ UNCHANGED <<resumeMutex, bars, visit, printed>>

Dismiss(from, b, to) ==
  /\ Goto("num", from, to)
  /\ CallBarrier("num", b)
  /\ UNCHANGED <<counter, mutexLock, resumeMutex, bars, printed>>

NumReturns ==
  /\ Goto("num", "leave", "done")
  /\ UNCHANGED <<counter, mutexLock, resumeMutex, bars, visit, printed>>

num_thread ==
  \/ TakeLock \/ CallHelper \/ PrintNumber \/ Resume \/ Advance
  \/ Dismiss("exit1", "fizzbuzz", "exit2")
  \/ Dismiss("exit2", "fizz", "exit3")
  \/ Dismiss("exit3", "buzz", "leave")
  \/ NumReturns

-----------------------------------------------------------------------------
\* fizz_thread, buzz_thread and fizzbuzz_thread differ in the barrier and word.

\* The barrier let the helper through: is it over?  counter is read unlocked.
CheckCounter(h) ==
  /\ Goto(h, "woken", IF counter = N + 1 THEN "done" ELSE "print")
  /\ UNCHANGED <<counter, mutexLock, resumeMutex, bars, visit, printed>>

PrintWord(h) ==
  /\ Goto(h, "print", "post")
  /\ Len(printed) < MaxPrinted
  /\ printed' = Append(printed, <<h, 0>>)
  /\ UNCHANGED <<counter, mutexLock, resumeMutex, bars, visit>>

\* sem_post(&resumeMutex), and back to the barrier.
LetResume(h) ==
  /\ Goto(h, "post", "woken")
  /\ resumeMutex' = resumeMutex + 1
  /\ CallBarrier(h, h)
  /\ UNCHANGED <<counter, mutexLock, bars, printed>>

helper_thread(h) == CheckCounter(h) \/ PrintWord(h) \/ LetResume(h)

Next ==
  \/ num_thread
  \/ \E h \in Helpers : helper_thread(h)
  \/ \E t \in Threads : barrier_wait(t)

Spec == Init /\ [][Next]_vars

-----------------------------------------------------------------------------

\* Types of the shared variables of fizzbuzz_workers.c; the number thread has
\* left its loop when the counter passes N.
TypeOK ==
  /\ counter \in 1..N + 1
  /\ mutexLock \in Nat /\ resumeMutex \in Nat
  /\ bars \in [Helpers -> [count : {2}, threadCount : Nat, counterSem : Nat,
                           barrierSem : Nat]]
  /\ DOMAIN at = Threads /\ DOMAIN visit = Threads
  /\ at["num"] \in {"top", "test", "resume", "relock", "advance"} =>
       counter <= N
  /\ \A h \in Helpers : at[h] \in {"woken", "print", "post", "done"}
  /\ \A t \in Threads :
       visit[t] = Out \/ visit[t] \in [stage : {"lock", "count", "post", "pass"},
                                       bar : Helpers]
  /\ printed \in Seq(Threads \X Nat)

\* What a run should print for 1..n.
Expected ==
  [k \in 1..N |-> CASE k % F = 0 /\ k % B = 0 -> <<"fizzbuzz", 0>>
                    [] k % F = 0 /\ k % B # 0 -> <<"fizz", 0>>
                    [] k % F # 0 /\ k % B = 0 -> <<"buzz", 0>>
                    [] OTHER -> <<"num", k>>]

\* The numbers themselves are printed once each and in order, whatever the
\* helpers do (num_thread holds mutexLock around the test and the increment):
\* only numbers that are no multiple, in increasing order, and none is left out.
IsNumber(k) == k \in DOMAIN printed /\ printed[k][1] = "num"
NumbersInOrder ==
  /\ \A k \in DOMAIN printed :
       IsNumber(k) => printed[k][2] \in 1..N /\ printed[k] = Expected[printed[k][2]]
  /\ \A j, k \in DOMAIN printed :
       (IsNumber(j) /\ IsNumber(k) /\ j < k) => printed[j][2] < printed[k][2]
  /\ \A c \in 1..counter - 1 :
       HelperFor(c) = "none" => \E k \in DOMAIN printed : printed[k] = <<"num", c>>

\* The words a helper has printed, and the values num_thread has called it for.
Words(h) == {k \in DOMAIN printed : printed[k][1] = h}
Called(h) ==
  {c \in 1..counter : /\ HelperFor(c) = h
                      /\ c < counter \/ at["num"] \in {"resume", "relock", "advance"}}
NobodyTwice == \A h \in Helpers : Cardinality(Words(h)) <= Cardinality(Called(h))

\* As long as no helper has printed a word more often than num_thread has called
\* it, the output is what is expected, word by word, and num_thread has counted
\* no further: nothing but a helper that passes its barrier alone (barrier_wait
\* of fizz_thread, buzz_thread and fizzbuzz_thread) can put it out of order.
AsExpected ==
  /\ \A k \in DOMAIN printed : k <= N /\ printed[k] = Expected[k]
  /\ counter - 1 <= Len(printed)
OutputInOrder == []NobodyTwice => []AsExpected
=============================================================================
