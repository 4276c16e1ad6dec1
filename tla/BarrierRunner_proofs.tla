------------------------ MODULE BarrierRunner_proofs ------------------------
(***************************************************************************)
(* The barrier used once by every thread: type correctness and the         *)
(* rendezvous.  ex1_runner.c: no thread reports an early exit, and the     *)
(* barrier implements the abstract rendezvous.  All of it for any finite   *)
(* set of threads.                                                         *)
(***************************************************************************)
EXTENDS BarrierRunner, FiniteSetTheorems, TLAPS

-----------------------------------------------------------------------------
\* The barrier by itself

N == Cardinality(Threads)
Waiting == {t \in Threads : pc[t] = "pass"}

\* counterSem is a mutex for the section between its sem_wait and sem_post.
MutexInv ==
  /\ \A t \in Threads : pc[t] = "count" => barrier.counterSem = 0
  /\ \A t, u \in Threads : pc[t] = "count" /\ pc[u] = "count" => t = u

\* Where a thread is tells how often it has called and returned.
CallsInv ==
  \A t \in Threads :
    /\ calls[t] \in {0, 1}
    /\ returns[t] = IF pc[t] = "out" THEN calls[t] ELSE 0
    /\ pc[t] # "out" => calls[t] = 1
    /\ pc[t] = "post" => i[t] > 0

\* Some thread has found the batch complete.
Released == \E t \in Threads : pc[t] = "post" \/ returns[t] = 1

ReleaseInv ==
  IF Released
  THEN \A t \in Threads : calls[t] = 1 /\ pc[t] \notin {"lock", "count"}
  ELSE /\ barrier.barrierSem = 0
       /\ barrier.threadCount = Cardinality(Waiting)
       /\ barrier.threadCount < N

IInv == TypeOK /\ MutexInv /\ CallsInv /\ ReleaseInv

\* What the semaphore and counter steps do to a barrier_t.
BarrierType == [count : {N}, threadCount : Nat, counterSem : {0, 1},
                barrierSem : Nat]

LEMMA CardThreads == N \in Nat \ {0}
BY ThreadsAssumption, FS_CardinalityType, FS_EmptySet DEF N

LEMMA CardSubset == ASSUME NEW S \in SUBSET Threads
                    PROVE  /\ Cardinality(S) \in 0..N
                           /\ Cardinality(S) = N => S = Threads
                           /\ \A t \in Threads \ S : Cardinality(S \cup {t}) = Cardinality(S) + 1
<1>1. IsFiniteSet(S) /\ Cardinality(S) <= N /\ (Cardinality(S) = N => S = Threads)
  BY ThreadsAssumption, FS_Subset DEF N
<1>2. Cardinality(S) \in Nat
  BY <1>1, FS_CardinalityType
<1>3. \A t \in Threads \ S : Cardinality(S \cup {t}) = Cardinality(S) + 1
  BY <1>1, FS_AddElement
<1> QED BY <1>1, <1>2, <1>3, CardThreads

LEMMA LockBarrier ==
  ASSUME NEW b \in BarrierType, b.counterSem > 0
  PROVE  LET c == SemWait(b, "counterSem")
         IN  /\ c \in BarrierType
             /\ c.counterSem = 0
             /\ c.threadCount = b.threadCount /\ c.barrierSem = b.barrierSem
BY CardThreads DEF BarrierType, SemWait

LEMMA CountBarrier ==
  ASSUME NEW b \in BarrierType, b.counterSem = 0
  PROVE  LET c == CountThread(b)
         IN  /\ c \in BarrierType
             /\ c.counterSem = 1
             /\ c.threadCount = IF IsLast(b) THEN 0 ELSE b.threadCount + 1
             /\ c.barrierSem = b.barrierSem
BY CardThreads DEF BarrierType, CountThread, IsLast

LEMMA PostBarrier ==
  ASSUME NEW b \in BarrierType
  PROVE  LET c == SemPost(b, "barrierSem")
         IN  /\ c \in BarrierType
             /\ c.counterSem = b.counterSem
             /\ c.threadCount = b.threadCount
BY CardThreads DEF BarrierType, SemPost

LEMMA PassBarrier ==
  ASSUME NEW b \in BarrierType, b.barrierSem > 0
  PROVE  LET c == SemWait(b, "barrierSem")
         IN  /\ c \in BarrierType
             /\ c.counterSem = b.counterSem
             /\ c.threadCount = b.threadCount
BY CardThreads DEF BarrierType, SemWait

LEMMA TypeIsBarrierType == TypeOK => barrier \in BarrierType
BY DEF TypeOK, BarrierType, N

-----------------------------------------------------------------------------
LEMMA InitIInv == ASSUME Rounds = 1, Init PROVE IInv
<1>1. barrier \in BarrierType /\ barrier.barrierSem = 0 /\ barrier.threadCount = 0
  BY CardThreads DEF Init, barrier_init, BarrierType, N
<1>2. TypeOK
  BY <1>1 DEF Init, TypeOK, BarrierType, N, Locations
<1>3. MutexInv /\ CallsInv
  BY DEF Init, MutexInv, CallsInv
<1>4. Waiting = {} /\ ~Released
  BY DEF Init, Waiting, Released
<1>5. ReleaseInv
  BY <1>1, <1>4, FS_EmptySet, CardThreads DEF ReleaseInv
<1> QED BY <1>2, <1>3, <1>5 DEF IInv

LEMMA StepIInv == ASSUME Rounds = 1, IInv, [Next]_vars PROVE IInv'
<1> USE DEF IInv
<1>b. barrier \in BarrierType
  BY TypeIsBarrierType
<1>w. Waiting \in SUBSET Threads
  BY DEF Waiting
<1>1. ASSUME NEW t \in Threads, Call(t)
      PROVE  IInv'
  <2>1. TypeOK'
    BY <1>1 DEF TypeOK, Call, Goto, Locations
  <2>2. MutexInv'
    BY <1>1 DEF TypeOK, MutexInv, Call, Goto
  <2>3. CallsInv'
    BY <1>1 DEF TypeOK, CallsInv, Call, Goto
  <2>4. calls[t] = 0 /\ ~Released /\ ~Released'
    BY <1>1 DEF TypeOK, CallsInv, Call, Goto, Released, ReleaseInv
  <2>5. Waiting' = Waiting
    BY <1>1 DEF TypeOK, Waiting, Call, Goto
  <2>6. ReleaseInv'
    BY <1>1, <2>4, <2>5 DEF ReleaseInv, Call, N
  <2> QED BY <2>1, <2>2, <2>3, <2>6
<1>2. ASSUME NEW t \in Threads, Lock(t)
      PROVE  IInv'
  <2>1. /\ barrier' \in BarrierType /\ barrier'.counterSem = 0
        /\ barrier'.threadCount = barrier.threadCount
        /\ barrier'.barrierSem = barrier.barrierSem
        /\ barrier.counterSem = 1
    BY <1>2, <1>b, LockBarrier DEF Lock, CanWait, BarrierType
  <2>2. TypeOK'
    BY <1>2, <2>1 DEF TypeOK, Lock, Goto, Locations, BarrierType, N
  <2>3. MutexInv'
    BY <1>2, <2>1 DEF TypeOK, MutexInv, Lock, Goto
  <2>4. CallsInv'
    BY <1>2 DEF TypeOK, CallsInv, Lock, Goto
  <2>5. ~Released /\ ~Released'
    BY <1>2 DEF TypeOK, Lock, Goto, Released, ReleaseInv
  <2>6. Waiting' = Waiting
    BY <1>2 DEF TypeOK, Waiting, Lock, Goto
  <2>7. ReleaseInv'
    BY <2>1, <2>5, <2>6 DEF ReleaseInv, N
  <2> QED BY <2>2, <2>3, <2>4, <2>7
<1>3. ASSUME NEW t \in Threads, CountLast(t) \/ CountEarly(t)
      PROVE  IInv'
  <2>1. /\ barrier' \in BarrierType /\ barrier'.counterSem = 1
        /\ barrier'.threadCount = IF IsLast(barrier) THEN 0 ELSE barrier.threadCount + 1
        /\ barrier'.barrierSem = barrier.barrierSem
        /\ pc[t] = "count"
    BY <1>3, <1>b, CountBarrier DEF CountLast, CountEarly, MutexInv
  <2>2. /\ barrier.count = N /\ N \in Nat \ {0}
        /\ ~Released /\ barrier.barrierSem = 0
        /\ barrier.threadCount = Cardinality(Waiting)
        /\ barrier.threadCount \in Nat /\ barrier.threadCount < N
    BY <2>1, <1>b, CardThreads DEF ReleaseInv, BarrierType
  <2>3. t \notin Waiting /\ Cardinality(Waiting \cup {t}) = Cardinality(Waiting) + 1
    BY <2>1, <1>w, CardSubset DEF Waiting
  <2>4. MutexInv'
    BY <1>3, <2>1 DEF TypeOK, MutexInv, CountLast, CountEarly, Goto, Return
  <2>5. CASE CountEarly(t)
    <3>1. TypeOK'
      BY <2>5, <2>1 DEF TypeOK, CountEarly, Goto, Locations, BarrierType, N
    <3>2. CallsInv'
      BY <2>5 DEF TypeOK, CallsInv, CountEarly, Goto
    <3>3. Waiting' = Waiting \cup {t} /\ ~Released'
      BY <2>5, <2>1, <2>2 DEF TypeOK, Waiting, Released, CountEarly, Goto
    <3>4. barrier.threadCount + 1 # N
      BY <2>5, <2>2 DEF CountEarly, IsLast
    <3>5. ReleaseInv'
      BY <2>5, <2>1, <2>2, <2>3, <3>3, <3>4 DEF ReleaseInv, N, CountEarly
    <3> QED BY <3>1, <3>2, <3>5, <2>4
  <2>6. CASE CountLast(t)
    <3>1. barrier.threadCount + 1 = N
      BY <2>6, <2>2 DEF CountLast, IsLast
    <3>2. Waiting \cup {t} = Threads
      BY <3>1, <2>2, <2>3, <1>w, CardSubset
    <3>3. \A u \in Threads : u # t => pc[u] = "pass"
      BY <3>2 DEF Waiting
    <3>4. TypeOK'
      BY <2>6, <2>1, <2>2 DEF TypeOK, CountLast, Goto, Return, Locations, BarrierType, N
    <3>5. CallsInv'
      BY <2>6, <2>2 DEF TypeOK, CallsInv, CountLast, Goto, Return
    <3>6. \A u \in Threads : calls'[u] = 1 /\ pc'[u] \notin {"lock", "count"}
      BY <2>6, <2>1, <3>3 DEF TypeOK, CallsInv, CountLast, Goto, Return
    <3>7. Released'
      BY <2>6, <2>1 DEF TypeOK, CallsInv, CountLast, Goto, Return, Released
    <3>8. ReleaseInv'
      BY <3>6, <3>7 DEF ReleaseInv
    <3> QED BY <3>4, <3>5, <3>8, <2>4
  <2> QED BY <1>3, <2>5, <2>6
<1>4. ASSUME NEW t \in Threads, Post(t)
      PROVE  IInv'
  <2>1. /\ barrier' \in BarrierType /\ barrier'.counterSem = barrier.counterSem
        /\ pc[t] = "post" /\ i[t] > 0
    BY <1>4, <1>b, PostBarrier DEF Post, CallsInv
  <2>2. TypeOK'
    BY <1>4, <2>1 DEF TypeOK, Post, Goto, Return, Locations, BarrierType, N
  <2>3. MutexInv'
    BY <1>4, <2>1 DEF TypeOK, MutexInv, Post, Goto, Return
  <2>4. CallsInv'
    BY <1>4, <2>1 DEF TypeOK, CallsInv, Post, Goto, Return
  <2>5. Released /\ Released'
    BY <1>4, <2>1 DEF TypeOK, CallsInv, Post, Goto, Return, Released
  <2>6. ReleaseInv'
    BY <1>4, <2>5 DEF TypeOK, ReleaseInv, Post, Goto, Return
  <2> QED BY <2>2, <2>3, <2>4, <2>6
<1>5. ASSUME NEW t \in Threads, Pass(t)
      PROVE  IInv'
  <2>1. /\ barrier.barrierSem > 0 /\ pc[t] = "pass"
        /\ barrier' \in BarrierType /\ barrier'.counterSem = barrier.counterSem
    BY <1>5, <1>b, PassBarrier DEF Pass, CanWait
  <2>2. TypeOK'
    BY <1>5, <2>1 DEF TypeOK, Pass, Goto, Return, Locations, BarrierType, N
  <2>3. MutexInv'
    BY <1>5, <2>1 DEF TypeOK, MutexInv, Pass, Goto, Return
  <2>4. CallsInv'
    BY <1>5, <2>1 DEF TypeOK, CallsInv, Pass, Goto, Return
  <2>5. Released
    BY <2>1 DEF ReleaseInv
  <2>6. Released'
    BY <1>5, <2>1 DEF TypeOK, CallsInv, Pass, Goto, Return, Released
  <2>7. ReleaseInv'
    BY <1>5, <2>5, <2>6 DEF TypeOK, ReleaseInv, Pass, Goto, Return
  <2> QED BY <2>2, <2>3, <2>4, <2>7
<1>6. ASSUME UNCHANGED vars
      PROVE  IInv'
  BY <1>6 DEF vars, TypeOK, MutexInv, CallsInv, ReleaseInv, Released, Waiting, N
<1> QED BY <1>1, <1>2, <1>3, <1>4, <1>5, <1>6 DEF Next, barrier_wait

LEMMA IInvImplies == IInv => NoEarlyExit
BY DEF IInv, TypeOK, CallsInv, ReleaseInv, Released, NoEarlyExit

\* Used once, the barrier keeps its types and lets no thread out before the
\* last one is in (barrier_wait of barrier.c), whatever the number of threads.
THEOREM OneShotType == ASSUME Rounds = 1 PROVE Spec => []TypeOK
<1>1. Init => IInv
  BY InitIInv
<1>2. IInv /\ [Next]_vars => IInv'
  BY StepIInv
<1>3. IInv => TypeOK
  BY DEF IInv
<1> QED BY <1>1, <1>2, <1>3, PTL DEF Spec

THEOREM OneShotRendezvous == ASSUME Rounds = 1 PROVE Spec => []NoEarlyExit
<1>1. Init => IInv
  BY InitIInv
<1>2. IInv /\ [Next]_vars => IInv'
  BY StepIInv
<1> QED BY <1>1, <1>2, IInvImplies, PTL DEF Spec

-----------------------------------------------------------------------------
\* The runner

\* The threads that have been counted in waiting_at_barrier.
Counted == {t \in Threads : at[t] \notin {"start", "common"}}

CommonInv ==
  /\ \A t \in Threads : at[t] = "common" => common_sem = 0
  /\ \A t, u \in Threads : at[t] = "common" /\ at[u] = "common" => t = u

CountInv == waiting_at_barrier = Cardinality(Counted)

RunInv ==
  \A t \in Threads :
    /\ at[t] \in {"start", "common", "wait"} => calls[t] = 0
    /\ at[t] = "done" => returns[t] = 1 /\ thread_return[t] = N

RIInv == RunnerTypeOK /\ IInv /\ CommonInv /\ CountInv /\ RunInv

LEMMA RInit == RunnerInit => RIInv
<1> SUFFICES ASSUME RunnerInit PROVE RIInv
  OBVIOUS
<1>1. IInv
  BY OneCall, InitIInv DEF RunnerInit
<1>2. RunnerTypeOK
  BY <1>1, CardThreads DEF RunnerInit, RunnerTypeOK, IInv, N
<1>3. Counted = {}
  BY DEF Counted, RunnerInit
<1>4. CountInv
  BY <1>3, FS_EmptySet DEF CountInv, RunnerInit
<1>5. CommonInv /\ RunInv
  BY DEF CommonInv, RunInv, RunnerInit, Init
<1> QED BY <1>1, <1>2, <1>4, <1>5 DEF RIInv

\* Every step of the runner is a step of the barrier or leaves it alone.
LEMMA RunnerStepsBarrier == RunnerNext => [Next]_vars
BY DEF RunnerNext, run_thread, EnterCommon, CountSelf, CallBarrier, InBarrier,
       RecordReturn, Next

LEMMA RStep == RIInv /\ [RunnerNext]_runnerVars => RIInv'
<1> SUFFICES ASSUME RIInv, [RunnerNext]_runnerVars PROVE RIInv'
  OBVIOUS
<1> USE DEF RIInv
<1>a. IInv' /\ TypeOK'
  BY RunnerStepsBarrier, StepIInv, OneCall DEF runnerVars, vars, IInv
<1>b. Counted \in SUBSET Threads /\ N \in Nat \ {0}
  BY CardThreads DEF Counted
<1>c. waiting_at_barrier \in Nat
  BY <1>b, CardSubset DEF CountInv
<1>1. ASSUME NEW t \in Threads, EnterCommon(t)
      PROVE  RIInv'
  <2>1. RunnerTypeOK'
    BY <1>a, <1>1 DEF RunnerTypeOK, EnterCommon, Step
  <2>2. CommonInv'
    BY <1>1 DEF RunnerTypeOK, CommonInv, EnterCommon, Step
  <2>3. Counted' = Counted
    BY <1>1 DEF RunnerTypeOK, Counted, EnterCommon, Step
  <2>4. CountInv'
    BY <1>1, <2>3 DEF CountInv, EnterCommon
  <2>5. RunInv'
    BY <1>1 DEF RunnerTypeOK, RunInv, EnterCommon, Step, vars, N
  <2> QED BY <1>a, <2>1, <2>2, <2>4, <2>5
<1>2. ASSUME NEW t \in Threads, CountSelf(t)
      PROVE  RIInv'
  <2>1. Counted' = Counted \cup {t} /\ t \notin Counted
    BY <1>2 DEF RunnerTypeOK, Counted, CountSelf, Step
  <2>2. Cardinality(Counted') = Cardinality(Counted) + 1 /\ Cardinality(Counted') \in 0..N
    BY <2>1, <1>b, CardSubset
  <2>3. CountInv'
    BY <1>2, <2>2 DEF CountInv, CountSelf
  <2>4. RunnerTypeOK'
    BY <1>a, <1>2, <2>2, <2>3 DEF RunnerTypeOK, CommonInv, CountInv, CountSelf, Step, N
  <2>5. CommonInv'
    BY <1>2 DEF RunnerTypeOK, CommonInv, CountSelf, Step
  <2>6. RunInv'
    BY <1>2 DEF RunnerTypeOK, RunInv, CountSelf, Step, vars, N
  <2> QED BY <1>a, <2>3, <2>4, <2>5, <2>6
<1>3. ASSUME NEW t \in Threads, CallBarrier(t)
      PROVE  RIInv'
  <2>1. RunnerTypeOK'
    BY <1>a, <1>3 DEF RunnerTypeOK, CallBarrier, Step
  <2>2. CommonInv'
    BY <1>3 DEF RunnerTypeOK, CommonInv, CallBarrier, Step
  <2>3. Counted' = Counted
    BY <1>3 DEF RunnerTypeOK, Counted, CallBarrier, Step
  <2>4. CountInv'
    BY <1>3, <2>3 DEF CountInv, CallBarrier
  <2>5. RunInv'
    BY <1>3 DEF RunnerTypeOK, TypeOK, RunInv, CallBarrier, Step, Call, N
  <2> QED BY <1>a, <2>1, <2>2, <2>4, <2>5
<1>4. ASSUME NEW t \in Threads, InBarrier(t)
      PROVE  RIInv'
  <2>1. RunnerTypeOK' /\ CommonInv'
    BY <1>a, <1>4 DEF RunnerTypeOK, CommonInv, InBarrier
  <2>2. Counted' = Counted
    BY <1>4 DEF Counted, InBarrier
  <2>3. CountInv'
    BY <1>4, <2>2 DEF CountInv, InBarrier
  <2>4. calls' = calls
    BY <1>4 DEF InBarrier, barrier_wait, Lock, CountLast, CountEarly, Post, Pass
  <2>5. \A u \in Threads \ {t} : returns'[u] = returns[u]
    BY <1>4 DEF TypeOK, IInv, InBarrier, barrier_wait, Lock, CountLast, CountEarly,
                Post, Pass, Return
  <2>6. RunInv'
    BY <1>4, <2>4, <2>5 DEF RunInv, InBarrier, N
  <2> QED BY <1>a, <2>1, <2>3, <2>6
<1>5. ASSUME NEW t \in Threads, RecordReturn(t)
      PROVE  RIInv'
  <2>1. \A u \in Threads : calls[u] = 1
    BY <1>5 DEF RecordReturn, IInv, ReleaseInv, Released
  <2>2. Counted = Threads
    BY <2>1 DEF RunInv, Counted
  <2>3. waiting_at_barrier = N
    BY <2>2 DEF CountInv, N
  <2>4. RunnerTypeOK' /\ CommonInv'
    BY <1>a, <1>5 DEF RunnerTypeOK, CommonInv, RecordReturn, Step
  <2>5. Counted' = Counted
    BY <1>5 DEF RunnerTypeOK, Counted, RecordReturn, Step
  <2>6. CountInv'
    BY <1>5, <2>5 DEF CountInv, RecordReturn
  <2>7. RunInv'
    BY <1>5, <2>3 DEF RunnerTypeOK, RunInv, RecordReturn, Step, vars, N
  <2> QED BY <1>a, <2>4, <2>6, <2>7
<1>6. ASSUME UNCHANGED runnerVars
      PROVE  RIInv'
  BY <1>a, <1>6 DEF runnerVars, vars, RunnerTypeOK, CommonInv, CountInv, Counted, RunInv, N
<1> QED BY <1>1, <1>2, <1>3, <1>4, <1>5, <1>6 DEF RunnerNext, run_thread

\* The runner keeps its types (ex1_runner.c), for every set of threads.
THEOREM RunnerTypeCorrect == RunnerSpec => []RunnerTypeOK
<1>1. RIInv => RunnerTypeOK
  BY DEF RIInv
<1> QED BY <1>1, RInit, RStep, PTL DEF RunnerSpec

\* main() of ex1_runner.c never counts an error: every thread that has left the
\* barrier saw all the threads counted.
THEOREM NoThreadExitsEarly == RunnerSpec => []NoErrorFound
<1>1. RIInv => NoErrorFound
  BY CardThreads DEF RIInv, RunInv, NoErrorFound, N
<1> QED BY <1>1, RInit, RStep, PTL DEF RunnerSpec

\* Its calls of barrier_wait never overtake one another.
THEOREM RunnerRendezvous == RunnerSpec => []NoEarlyExit
<1>1. RIInv => NoEarlyExit
  BY IInvImplies DEF RIInv
<1> QED BY <1>1, RInit, RStep, PTL DEF RunnerSpec

-----------------------------------------------------------------------------
Arrived1 == {t \in Threads : calls[t] > 0}
Left1 == {t \in Threads : returns[t] > 0}

LEMMA GateStep == RIInv /\ RIInv' /\ [RunnerNext]_runnerVars
                  => [Gate!Next]_<<Arrived1, Left1>>
<1> SUFFICES ASSUME RIInv, RIInv', [RunnerNext]_runnerVars
             PROVE  [Gate!Next]_<<Arrived1, Left1>>
  OBVIOUS
<1>t. IInv /\ IInv' /\ TypeOK /\ TypeOK'
  BY DEF RIInv, IInv
<1>1. ASSUME NEW t \in Threads, Call(t)
      PROVE  Gate!Next
  <2>1. calls[t] = 0 /\ returns' = returns
    BY <1>1, <1>t, OneCall DEF Call, IInv, CallsInv, TypeOK
  <2>2. Left1' = Left1
    BY <2>1 DEF Left1
  <2>3. Arrived1' = Arrived1 \cup {t} /\ t \in Threads \ Arrived1
    BY <1>1, <2>1, <1>t DEF Call, TypeOK, Arrived1
  <2>4. Gate!Arrive(t)
    BY <2>2, <2>3 DEF Gate!Arrive, Arrived1, Left1
  <2> QED BY <2>4 DEF Gate!Next
<1>2. ASSUME NEW t \in Threads, barrier_wait(t), returns' # returns
      PROVE  Gate!Next
  <2>1. /\ returns' = [returns EXCEPT ![t] = @ + 1] /\ calls' = calls
        /\ pc[t] # "out"
    BY <1>2 DEF barrier_wait, Lock, CountLast, CountEarly, Post, Pass, Return
  <2>2. returns[t] = 0 /\ returns'[t] = 1
    BY <2>1, <1>t DEF IInv, CallsInv, TypeOK
  <2>3. \A u \in Threads : calls'[u] = 1
    BY <2>2, <1>t DEF IInv, ReleaseInv, Released
  <2>4. Arrived1 = Threads /\ Arrived1' = Arrived1
    BY <2>1, <2>3 DEF Arrived1
  <2>5. Left1' = Left1 \cup {t} /\ t \in Threads \ Left1
    BY <2>1, <2>2, <1>t DEF Left1, TypeOK
  <2>6. Gate!Leave(t)
    BY <2>4, <2>5 DEF Gate!Leave, Arrived1, Left1
  <2> QED BY <2>6 DEF Gate!Next
<1>3. ASSUME NEW t \in Threads, barrier_wait(t), returns' = returns
      PROVE  UNCHANGED <<Arrived1, Left1>>
  <2>1. calls' = calls
    BY <1>3 DEF barrier_wait, Lock, CountLast, CountEarly, Post, Pass
  <2> QED BY <1>3, <2>1 DEF Arrived1, Left1
<1>4. ASSUME UNCHANGED vars
      PROVE  UNCHANGED <<Arrived1, Left1>>
  BY <1>4 DEF vars, Arrived1, Left1
<1>5. [Next]_vars
  BY RunnerStepsBarrier DEF runnerVars, vars
<1> QED BY <1>1, <1>2, <1>3, <1>4, <1>5 DEF Next

LEMMA GateInit == RunnerInit => Gate!Init
BY DEF RunnerInit, Init, Gate!Init

\* The semaphore barrier of barrier.c, called once by each thread, implements
\* the rendezvous of module Rendezvous.
THEOREM BarrierImplementsRendezvous == RunnerSpec => ImplementsRendezvous
<1>1. RIInv /\ RIInv' /\ [RunnerNext]_runnerVars
      => [Gate!Next]_<<{t \in Threads : calls[t] > 0}, {t \in Threads : returns[t] > 0}>>
  BY GateStep DEF Arrived1, Left1
<1> QED BY <1>1, RInit, RStep, GateInit, PTL DEF RunnerSpec, ImplementsRendezvous, Gate!Spec
=============================================================================
