--------------------------- MODULE BarrierRunner ----------------------------
(***************************************************************************)
(* ex1_runner.c: every thread counts itself in waiting_at_barrier under    *)
(* common_sem, calls barrier_wait once, and records in thread_return how   *)
(* many threads it saw on its way out.  main() joins the threads and       *)
(* reports those that saw fewer than total_threads.                        *)
(***************************************************************************)
EXTENDS Barrier

ASSUME OneCall == Rounds = 1

VARIABLES
  at,                  \* where each thread is in run_thread
  common_sem,
  waiting_at_barrier,
  thread_return

runnerVars == <<vars, at, common_sem, waiting_at_barrier, thread_return>>

RunnerInit ==
  /\ Init
  /\ at = [t \in Threads |-> "start"]
  /\ common_sem = 1
  /\ waiting_at_barrier = 0
  /\ thread_return = [t \in Threads |-> 0]

Step(t, from, to) ==
  /\ at[t] = from
  /\ at' = [at EXCEPT ![t] = to]

\* usleep(thread_task->sleep_time) has elapsed; sem_wait(common_sem)
EnterCommon(t) ==
  /\ Step(t, "start", "common")
  /\ common_sem > 0
  /\ common_sem' = common_sem - 1
  /\ UNCHANGED <<vars, waiting_at_barrier, thread_return>>

CountSelf_LostUpdate(t) ==
  /\ Step(t, "common", "wait")
  /\ common_sem' = common_sem + 1
  /\ UNCHANGED <<vars, waiting_at_barrier, thread_return>>
\* waiting_at_barrier++; sem_post(common_sem)
CountSelf(t) ==
  /\ Step(t, "common", "wait")
  /\ waiting_at_barrier' = waiting_at_barrier + 1
  /\ common_sem' = common_sem + 1
  /\ UNCHANGED <<vars, thread_return>>

\* barrier_wait(barrier), step by step.
CallBarrier(t) ==
  /\ Step(t, "wait", "barrier")
  /\ Call(t)
  /\ UNCHANGED <<common_sem, waiting_at_barrier, thread_return>>

InBarrier(t) ==
  /\ at[t] = "barrier"
  /\ barrier_wait(t)
  /\ UNCHANGED <<at, common_sem, waiting_at_barrier, thread_return>>

\* thread_task->thread_return = waiting_at_barrier, read without common_sem.
RecordReturn(t) ==
  /\ Step(t, "barrier", "done")
  /\ returns[t] = 1
  /\ thread_return' = [thread_return EXCEPT ![t] = waiting_at_barrier]
  /\ UNCHANGED <<vars, common_sem, waiting_at_barrier>>

run_thread(t) ==
  \/ EnterCommon(t) \/ CountSelf(t) \/ CallBarrier(t)
  \/ InBarrier(t) \/ RecordReturn(t)

RunnerNext == \E t \in Threads : run_thread(t)

RunnerSpec == RunnerInit /\ [][RunnerNext]_runnerVars

\* pthread scheduling: a runnable thread runs; each semaphore is taken a
\* bounded number of times, so weak fairness is enough.
RunnerFairSpec == RunnerSpec /\ \A t \in Threads : WF_runnerVars(run_thread(t))

-----------------------------------------------------------------------------
RunnerTypeOK ==
  /\ TypeOK
  /\ at \in [Threads -> {"start", "common", "wait", "barrier", "done"}]
  /\ common_sem \in {0, 1}
  /\ waiting_at_barrier \in 0..Cardinality(Threads)
  /\ thread_return \in [Threads -> 0..Cardinality(Threads)]

\* main() never prints "exited with ... other tasks": the unprotected read of
\* waiting_at_barrier after the barrier sees every increment.
NoErrorFound ==
  \A t \in Threads : at[t] = "done" => thread_return[t] >= Cardinality(Threads)

\* The semaphore barrier, used once by every thread, implements a rendezvous
\* of the calls to barrier_wait.
Gate == INSTANCE Rendezvous WITH
  Members <- Threads,
  arrived <- {t \in Threads : calls[t] > 0},
  left    <- {t \in Threads : returns[t] > 0}
ImplementsRendezvous == Gate!Spec

\* main() can join every thread.
AllJoined == <>(\A t \in Threads : at[t] = "done")
=============================================================================
