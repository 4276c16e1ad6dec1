-------------------------------- MODULE ShmHeap --------------------------------
(***************************************************************************)
(* shmheap.c (lab 4): a heap in shared memory, used by several processes   *)
(* under one named semaphore.  The heap is a chain of blocks, each behind  *)
(* a header <<block_size, isOccupied>>; a header of zeros marks the tail   *)
(* that has never been used.  shmheap_alloc takes the first block that     *)
(* fits, shmheap_free merges a block with the free memory behind it.       *)
(*                                                                         *)
(* Addresses and sizes are counted in words of 8 bytes: the size of the    *)
(* heap is in word 0, a header takes two words.  Requests are of whole     *)
(* words, as those of the runners are (sz + sz % 8 is then sz), and of at  *)
(* least one.  What is written into the blocks is left out.                *)
(*                                                                         *)
(* Three paths leave the chain: an allocation from the tail does not look  *)
(* at the room there is; one that comes to the last words of the heap      *)
(* writes to the block it has looked at last; and merging with a block     *)
(* that is free reads its size after clearing it.  They set "strayed", and *)
(* the model ends there: what follows depends on the bytes in the blocks.  *)
(* It ends too when a semaphore that was created with more than 1 lets a   *)
(* second process into the heap (a data race).  A semaphore that sem_open  *)
(* does not create at all is left out: the first call then dies.           *)
(***************************************************************************)
EXTENDS Integers

CONSTANTS
  Proc,       \* the processes that have mapped the heap
  HeapWords,  \* max_size, in words
  Sizes,      \* the sizes asked for, in words
  SemValues   \* what the semaphore may start with

ASSUME HeapAssumption ==
  /\ HeapWords \in Nat /\ HeapWords >= 4
  /\ Sizes \subseteq Nat \ {0}
  /\ SemValues \subseteq Nat

VARIABLES
  bsize, occ,  \* block_size and isOccupied of the header at each address
  semStart,    \* the value heap_mutex was created with
  sem,         \* the value of heap_mutex
  pc,          \* pc[p]: "idle", "wait", "search", "clear", "merge" or "post"
  op, arg,     \* the operation, with the size asked for or the block to free
  at,          \* visited_size of an allocation, start_block of a free
  bk,          \* the header it has looked at last, or that of the freed block
  res,         \* the block the last allocation has returned; 0 for NULL
  live,        \* the blocks allocated and not freed: records [ptr, size]
  strayed      \* history: a call has left the chain

memory == <<bsize, occ>>
call == <<op, arg>>
heapVars ==
  <<memory, semStart, sem, pc, call, at, bk, res, live, strayed>>

Header == 2
First == 1
Addr == First..(HeapWords - 1)

\* shmheap_create, and the shmheap_connect of every process.  sem_open is
\* called with O_CREAT but without a mode and a value: the semaphore starts
\* with whatever is found in their place, 2 and more included.
Init ==
  /\ bsize = [a \in Addr |-> 0]
  /\ occ = [a \in Addr |-> 0]
  /\ semStart \in SemValues
  /\ sem = semStart
  /\ pc = [p \in Proc |-> "idle"]
  /\ op = [p \in Proc |-> "alloc"]
  /\ arg = [p \in Proc |-> 0]
  /\ at = [p \in Proc |-> First]
  /\ bk = [p \in Proc |-> First]
  /\ res = [p \in Proc |-> 0]
  /\ live = {}
  /\ strayed = FALSE

Call(p, o, x) ==
  /\ pc[p] = "idle"
  /\ op' = [op EXCEPT ![p] = o]
  /\ arg' = [arg EXCEPT ![p] = x]
  /\ pc' = [pc EXCEPT ![p] = "wait"]
  /\ UNCHANGED <<memory, semStart, sem, at, bk, res, live, strayed>>

CallAlloc(p, n) == Call(p, "alloc", n)

\* Nobody frees a block twice.
CallFree(p, b) ==
  /\ \A q \in Proc : pc[q] = "idle" \/ op[q] = "alloc" \/ arg[q] # b.ptr
  /\ Call(p, "free", b.ptr)

SemWait(p) ==
  /\ pc[p] = "wait"
  /\ sem > 0
  /\ sem' = sem - 1
  /\ pc' = [pc EXCEPT ![p] = IF op[p] = "alloc" THEN "search" ELSE "clear"]
  /\ at' = [at EXCEPT ![p] = First]
  /\ bk' = [bk EXCEPT ![p] = First]
  /\ UNCHANGED <<memory, semStart, call, res, live, strayed>>

SemPost(p) ==
  /\ pc[p] = "post"
  /\ sem' = sem + 1
  /\ pc' = [pc EXCEPT ![p] = "idle"]
  /\ UNCHANGED <<memory, semStart, call, at, bk, res, live, strayed>>

\* Names of the form Definition_Defect are mutants of Definition: the defects a
\* change of the library could introduce.
Splits_Exact(a, n) == bsize[a] >= n + Header
Splits(a, n) == bsize[a] > n + Header
Fits(a, n) == occ[a] = 0 /\ (bsize[a] = 0 \/ Splits(a, n))

InHeap(p) == at[p] + Header < HeapWords

NextBlock_ShortStep(p) ==
  /\ pc[p] = "search"
  /\ InHeap(p) /\ ~Fits(at[p], arg[p])
  /\ bk' = [bk EXCEPT ![p] = at[p]]
  /\ at' = [at EXCEPT ![p] = @ + bsize[@] + 1]
  /\ UNCHANGED <<memory, semStart, sem, pc, call, res, live, strayed>>

\* The body of the loop of shmheap_alloc, for a block that does not fit.
NextBlock(p) ==
  /\ pc[p] = "search"
  /\ InHeap(p) /\ ~Fits(at[p], arg[p])
  /\ bk' = [bk EXCEPT ![p] = at[p]]
  /\ at' = [at EXCEPT ![p] = @ + bsize[@] + Header]
  /\ UNCHANGED <<memory, semStart, sem, pc, call, res, live, strayed>>

HandOut(p, a) ==
  /\ res' = [res EXCEPT ![p] = a]
  /\ live' = live \cup {[ptr |-> a, size |-> arg[p]]}
  /\ pc' = [pc EXCEPT ![p] = "post"]

\* The block at hand fits: what is left of a free block becomes a block of its
\* own; the tail is not looked at again, so a block may end beyond the heap.
TakeBlock(p) ==
  LET a == at[p]
      n == arg[p]
      rest == a + Header + n
  IN /\ pc[p] = "search"
     /\ InHeap(p) /\ Fits(a, n)
     /\ bsize' = [c \in Addr |->
                    IF c = a THEN n
                    ELSE IF c = rest /\ Splits(a, n) THEN bsize[a] - n - Header
                    ELSE bsize[c]]
     /\ occ' = [c \in Addr |->
                  IF c = a THEN 1
                  ELSE IF c = rest /\ Splits(a, n) THEN 0 ELSE occ[c]]
     /\ HandOut(p, a + Header)
     /\ bk' = [bk EXCEPT ![p] = a]
     /\ strayed' = (rest > HeapWords)
     /\ UNCHANGED <<semStart, sem, call, at>>

\* No header fits before the end of the heap, but the chain does not end there:
\* the block looked at last is made to look like the new one, and the address
\* returned lies behind the heap.
TakeBeyond(p) ==
  /\ pc[p] = "search"
  /\ ~InHeap(p) /\ at[p] < HeapWords
  /\ bsize' = [bsize EXCEPT ![bk[p]] = arg[p]]
  /\ occ' = [occ EXCEPT ![bk[p]] = 1]
  /\ HandOut(p, at[p] + Header)
  /\ strayed' = TRUE
  /\ UNCHANGED <<semStart, sem, call, at, bk>>

ReturnNull(p) ==
  /\ pc[p] = "search"
  /\ at[p] >= HeapWords
  /\ res' = [res EXCEPT ![p] = 0]
  /\ pc' = [pc EXCEPT ![p] = "post"]
  /\ UNCHANGED <<memory, semStart, sem, call, at, bk, live, strayed>>

\* The first lines of shmheap_free.
Clear(p) ==
  LET a == arg[p] - Header
  IN /\ pc[p] = "clear"
     /\ occ' = [occ EXCEPT ![a] = 0]
     /\ live' = {b \in live : b.ptr # arg[p]}
     /\ bk' = [bk EXCEPT ![p] = a]
     /\ at' = [at EXCEPT ![p] = arg[p] + bsize[a]]
     /\ pc' = [pc EXCEPT ![p] = "merge"]
     /\ UNCHANGED <<bsize, semStart, sem, call, res, strayed>>

Mergeable(p) == at[p] + Header <= HeapWords /\ occ[at[p]] # 1

\* One turn of its loop.  The increment of start_block reads block_size after
\* the memset, so it advances by the header alone.
Merge(p) ==
  LET a == at[p]
  IN /\ pc[p] = "merge"
     /\ Mergeable(p)
     /\ bsize' = [c \in Addr |->
                    IF c = bk[p] THEN bsize[c] + bsize[a] + Header
                    ELSE IF c \in a..(a + 1 + bsize[a]) THEN 0 ELSE bsize[c]]
     /\ occ' = [c \in Addr |->
                  IF c \in a..(a + 1 + bsize[a]) THEN 0 ELSE occ[c]]
     /\ at' = [at EXCEPT ![p] = @ + Header]
     /\ strayed' = (bsize[a] > 0)
     /\ UNCHANGED <<semStart, sem, pc, call, bk, res, live>>

MergeEnds(p) ==
  /\ pc[p] = "merge"
  /\ ~Mergeable(p)
  /\ pc' = [pc EXCEPT ![p] = "post"]
  /\ UNCHANGED <<memory, semStart, sem, call, at, bk, res, live, strayed>>

Step(p) ==
  \/ SemWait(p) \/ SemPost(p)
  \/ NextBlock(p) \/ TakeBlock(p) \/ TakeBeyond(p) \/ ReturnNull(p)
  \/ Clear(p) \/ Merge(p) \/ MergeEnds(p)

\* The semaphore was created with more than 1 and has let two processes in.
AtWork == {"search", "clear", "merge"}
Crowded ==
  semStart > 1 /\ \E p, q \in Proc : p # q /\ pc[p] \in AtWork /\ pc[q] \in AtWork

\* What the code does next is defined.
Intact == ~strayed /\ ~Crowded

Next ==
  /\ Intact
  /\ \E p \in Proc :
       \/ \E n \in Sizes : CallAlloc(p, n)
       \/ \E b \in live : CallFree(p, b)
       \/ Step(p)

Spec == Init /\ [][Next]_heapVars

--------------------------------------------------------------------------------
\* The types of the heap and of the calls on it.
TypeOK ==
  /\ bsize \in [Addr -> Nat] /\ occ \in [Addr -> {0, 1}]
  /\ semStart \in Nat /\ sem \in Nat
  /\ pc \in [Proc -> {"idle", "wait", "search", "clear", "merge", "post"}]
  /\ op \in [Proc -> {"alloc", "free"}]
  /\ arg \in [Proc -> Nat] /\ res \in [Proc -> Nat]
  /\ at \in [Proc -> Nat \ {0}] /\ bk \in [Proc -> Addr]
  /\ live \subseteq [ptr : Nat, size : Nat \ {0}]
  /\ strayed \in BOOLEAN

Headers == {a \in Addr : bsize[a] > 0}
EndOf(a) == a + Header + bsize[a]

\* Two blocks that are allocated at the same time have no word in common, header
\* included, and lie inside the heap: what the processes write into their blocks
\* destroys neither another's data nor the chain (shmheap_alloc, shmheap_free).
\* So it is until a call leaves the chain or two processes are let in: the code
\* does both.
BlocksDisjoint ==
  Intact =>
    /\ \A b \in live : b.ptr >= First + Header /\ b.ptr + b.size <= HeapWords
    /\ \A b, c \in live :
         b = c \/ b.ptr + b.size <= c.ptr - Header
               \/ c.ptr + c.size <= b.ptr - Header

\* The chain leads from the first header to every other one and then to the
\* tail: a walk over it (shmheap_alloc) passes no block by, again until a call
\* leaves the chain or two processes are let in.
ChainWhole ==
  Intact =>
    /\ Headers # {} => First \in Headers
    /\ \A a \in Headers :
         EndOf(a) \in Headers \/ \A b \in Headers : b <= a
================================================================================
