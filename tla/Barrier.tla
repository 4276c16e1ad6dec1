------------------------------ MODULE Barrier -------------------------------
(***************************************************************************)
(* One barrier_t (barrier.c) shared by Threads, each calling barrier_wait  *)
(* up to Rounds times.  Rounds = 1 is the use ex1_runner.c makes of it;    *)
(* the barriers of two in fizzbuzz_workers.c are in FizzBuzz.              *)
(***************************************************************************)
EXTENDS BarrierOps, FiniteSets

CONSTANTS
  Threads,  \* the threads that share the barrier
  Rounds    \* bound on the calls each of them makes

\* main() initialises the barrier with the number of threads it starts.
ASSUME ThreadsAssumption == IsFiniteSet(Threads) /\ Threads # {}
ASSUME RoundsAssumption == Rounds \in Nat \ {0}

VARIABLES
  barrier,   \* the barrier_t
  pc,        \* where each thread is in barrier_wait
  i,         \* the local i of barrier_wait: posts the last thread still owes
  calls,     \* history: calls of barrier_wait begun by each thread
  returns    \* history: calls of barrier_wait each thread has returned from

vars == <<barrier, pc, i, calls, returns>>

Locations == {"out", "lock", "count", "post", "pass"}

Init ==
  /\ barrier = barrier_init(Cardinality(Threads))
  /\ pc = [t \in Threads |-> "out"]
  /\ i = [t \in Threads |-> 0]
  /\ calls = [t \in Threads |-> 0]
  /\ returns = [t \in Threads |-> 0]

Goto(t, l) == pc' = [pc EXCEPT ![t] = l]

Return(t) ==
  /\ Goto(t, "out")
  /\ returns' = [returns EXCEPT ![t] = @ + 1]

\* Thread t calls barrier_wait.
Call(t) ==
  /\ pc[t] = "out"
  /\ calls[t] < Rounds
  /\ calls' = [calls EXCEPT ![t] = @ + 1]
  /\ Goto(t, "lock")
  /\ UNCHANGED <<barrier, i, returns>>

\* sem_wait(&barrier->counterSem)
Lock(t) ==
  /\ pc[t] = "lock"
  /\ CanWait(barrier, "counterSem")
  /\ barrier' = SemWait(barrier, "counterSem")
  /\ Goto(t, "count")
  /\ UNCHANGED <<i, calls, returns>>

\* The critical section when this thread completes the batch.  i = count - 1
\* posts are owed; with a count of 1 the loop is empty and the call returns.
CountLast(t) ==
  /\ pc[t] = "count"
  /\ IsLast(barrier)
  /\ barrier' = CountThread(barrier)
  /\ i' = [i EXCEPT ![t] = barrier.count - 1]
  /\ IF barrier.count - 1 > 0
     THEN Goto(t, "post") /\ UNCHANGED returns
     ELSE Return(t)
  /\ UNCHANGED calls

\* The critical section when others are still missing.
CountEarly(t) ==
  /\ pc[t] = "count"
  /\ ~IsLast(barrier)
  /\ barrier' = CountThread(barrier)
  /\ Goto(t, "pass")
  /\ UNCHANGED <<i, calls, returns>>

Post_Stops(t) ==
  /\ pc[t] = "post"
  /\ i' = [i EXCEPT ![t] = 0]
  /\ barrier' = SemPost(barrier, "barrierSem")
  /\ Return(t)
  /\ UNCHANGED calls

\* One iteration of: while (i > 0) { sem_post(&barrier->barrierSem); i--; }
Post(t) ==
  /\ pc[t] = "post"
  /\ barrier' = SemPost(barrier, "barrierSem")
  /\ i' = [i EXCEPT ![t] = @ - 1]
  /\ IF i[t] - 1 > 0 THEN UNCHANGED <<pc, returns>> ELSE Return(t)
  /\ UNCHANGED calls

\* sem_wait(&barrier->barrierSem), whoever owns the token.
Pass(t) ==
  /\ pc[t] = "pass"
  /\ CanWait(barrier, "barrierSem")
  /\ barrier' = SemWait(barrier, "barrierSem")
  /\ Return(t)
  /\ UNCHANGED <<i, calls>>

barrier_wait(t) ==
  Lock(t) \/ CountLast(t) \/ CountEarly(t) \/ Post(t) \/ Pass(t)

Next == \E t \in Threads : Call(t) \/ barrier_wait(t)

Spec == Init /\ [][Next]_vars

-----------------------------------------------------------------------------
\* Types of the barrier and of each thread's place in barrier_wait (barrier.c).
TypeOK ==
  /\ barrier \in [count : {Cardinality(Threads)}, threadCount : Nat,
                  counterSem : {0, 1}, barrierSem : Nat]
  /\ pc \in [Threads -> Locations]
  /\ i \in [Threads -> Nat]
  /\ calls \in [Threads -> Nat]
  /\ returns \in [Threads -> Nat]

\* The rendezvous: no thread returns from its k-th barrier_wait before every
\* thread has begun its own k-th call (main of ex1_runner.c reports an error
\* for a thread that "exited with" fewer than total_threads).
NoEarlyExit == \A t, u \in Threads : returns[t] <= calls[u]

=============================================================================
