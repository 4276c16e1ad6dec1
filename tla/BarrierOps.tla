----------------------------- MODULE BarrierOps -----------------------------
(***************************************************************************)
(* The barrier_t of barrier.h and the critical steps of barrier_wait as    *)
(* operators on a record, so that every user of a barrier (ex1_runner,     *)
(* fizzbuzz_workers) goes through the same semaphore operations.           *)
(***************************************************************************)
EXTENDS Integers

\* barrier_init: counterSem is the mutex, barrierSem the turnstile.
barrier_init(n) ==
  [count |-> n, threadCount |-> 0, counterSem |-> 1, barrierSem |-> 0]

\* sem_wait and sem_post on a field f of a barrier.
CanWait(b, f) == b[f] > 0
SemWait(b, f) == [b EXCEPT ![f] = @ - 1]
SemPost(b, f) == [b EXCEPT ![f] = @ + 1]

\* Names of the form Definition_Defect are mutants of Definition: the defects a
\* change of the code could introduce, which the properties are there to catch.
IsLast_OffByOne(b) == b.count <= b.threadCount + 2

\* The thread that holds counterSem is the last one of its batch.
IsLast(b) == b.count = b.threadCount + 1

\* The body of the critical section, up to and including its sem_post: count
\* this thread, and start the next batch when it was the last one.
CountThread(b) ==
  [count |-> b.count,
   threadCount |-> IF IsLast(b) THEN 0 ELSE b.threadCount + 1,
   counterSem |-> b.counterSem + 1,
   barrierSem |-> b.barrierSem]
=============================================================================
