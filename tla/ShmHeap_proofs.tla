----------------------------- MODULE ShmHeap_proofs -----------------------------
(***************************************************************************)
(* Proofs about ShmHeap: whatever the processes allocate and free, blocks  *)
(* allocated at the same time are disjoint and the chain reaches every     *)
(* block, as long as no call has left the chain and no two processes have  *)
(* been let in, which takes a semaphore created with more than 1.  Then    *)
(* about ShmRunner: it uses the heap as its callers must, and the handles  *)
(* main keeps name the blocks that were allocated for them.                *)
(***************************************************************************)
EXTENDS ShmRunner, SequenceTheorems, TLAPS

Inside == {"search", "clear", "merge", "post"}

\* A semaphore created with 0 or 1 admits one process at a time; with more, one
\* is at work as long as the heap is intact.
MutexInv ==
  /\ \A p, q \in Proc : pc[p] \in AtWork /\ pc[q] \in AtWork => p = q
  /\ semStart <= 1 =>
       /\ sem <= 1
       /\ \A p \in Proc : pc[p] \in Inside => sem = 0
       /\ \A p, q \in Proc : pc[p] \in Inside /\ pc[q] \in Inside => p = q

\* Blocks lie behind each other without gaps, from the first address on.
ChainInv ==
  /\ \A a \in Headers : EndOf(a) <= HeapWords
  /\ \A a, b \in Headers : a < b => EndOf(a) <= b
  /\ Headers # {} => First \in Headers
  /\ \A a \in Headers : EndOf(a) \in Headers \/ \A b \in Headers : b <= a

\* What the callers hold is what the headers say.
LiveInv ==
  /\ \A a \in Addr : occ[a] = 1 => bsize[a] > 0
  /\ \A b \in live : /\ b.ptr - Header \in Addr
                     /\ bsize[b.ptr - Header] = b.size
                     /\ occ[b.ptr - Header] = 1

\* An allocation looks at a block of the chain or at its tail.
AllocInv ==
  \A p \in Proc :
    /\ pc[p] \in {"wait", "search"} /\ op[p] = "alloc" => arg[p] \in Nat \ {0}
    /\ pc[p] = "search" =>
         /\ op[p] = "alloc"
         /\ at[p] = First \/ \E b \in Headers : EndOf(b) = at[p]

\* A free is called for a live block, and by one process; once the block is
\* cleared, the free looks at what lies behind it.
FreeInv ==
  \A p \in Proc :
    /\ pc[p] = "clear" => op[p] = "free"
    /\ pc[p] \in {"wait", "clear"} /\ op[p] = "free" =>
         /\ \E b \in live : b.ptr = arg[p]
         /\ \A q \in Proc :
              pc[q] \in {"wait", "clear"} /\ op[q] = "free" /\ arg[q] = arg[p]
                => q = p
    /\ pc[p] = "merge" =>
         /\ bk[p] \in Headers /\ occ[bk[p]] = 0
         /\ at[p] = EndOf(bk[p])

Good == MutexInv /\ ChainInv /\ LiveInv /\ AllocInv /\ FreeInv

HeapInv == TypeOK /\ (Intact => Good)

--------------------------------------------------------------------------------
\* Nothing is allocated in the heap shmheap_create leaves.
LEMMA InitHeapInv == Init => HeapInv
<1> SUFFICES ASSUME Init PROVE HeapInv
  OBVIOUS
<1> USE HeapAssumption DEF Init
<1>1. First \in Addr /\ Headers = {}
  BY DEF Addr, First, Headers
<1>2. TypeOK
  <2>1. /\ bsize \in [Addr -> Nat] /\ occ \in [Addr -> {0, 1}]
        /\ semStart \in Nat /\ sem \in Nat /\ strayed \in BOOLEAN
    OBVIOUS
  <2>2. /\ arg \in [Proc -> Nat] /\ res \in [Proc -> Nat]
        /\ at \in [Proc -> Nat \ {0}] /\ bk \in [Proc -> Addr]
    BY <1>1 DEF First
  <2>3. /\ pc \in [Proc -> {"idle", "wait", "search", "clear", "merge", "post"}]
        /\ op \in [Proc -> {"alloc", "free"}]
    OBVIOUS
  <2> QED BY <2>1, <2>2, <2>3 DEF TypeOK
<1>3. MutexInv /\ AllocInv /\ FreeInv
  BY DEF MutexInv, AllocInv, FreeInv, Inside, AtWork
<1>4. ChainInv /\ LiveInv
  BY <1>1 DEF ChainInv, LiveInv
<1> QED BY <1>2, <1>3, <1>4 DEF HeapInv, Good

\* A call before it has the semaphore leaves the heap as it is.
LEMMA CallsKeepInv ==
  ASSUME HeapInv, Intact, NEW p \in Proc,
         \/ \E n \in Sizes : CallAlloc(p, n)
         \/ \E b \in live : CallFree(p, b)
  PROVE  HeapInv'
<1> USE DEF HeapInv, Good
<1>t. TypeOK'
  BY HeapAssumption DEF TypeOK, CallAlloc, CallFree, Call, memory
<1>u. UNCHANGED <<bsize, occ, semStart, sem, at, bk, live, strayed>>
  BY DEF CallAlloc, CallFree, Call, memory
<1>1. MutexInv'
  BY <1>u DEF MutexInv, CallAlloc, CallFree, Call, Inside, AtWork, TypeOK
<1>2. ChainInv' /\ LiveInv'
  BY <1>u DEF ChainInv, LiveInv, Headers, EndOf
<1>3. AllocInv'
  BY <1>u, HeapAssumption
  DEF AllocInv, CallAlloc, CallFree, Call, TypeOK, Headers, EndOf
<1>4. FreeInv'
  <2>1. CASE \E n \in Sizes : CallAlloc(p, n)
    BY <1>u, <2>1 DEF FreeInv, CallAlloc, Call, TypeOK, Headers, EndOf
  <2>2. CASE \E b \in live : CallFree(p, b)
    <3>1. PICK b \in live : CallFree(p, b)
      BY <2>2
    <3>2. /\ pc' = [pc EXCEPT ![p] = "wait"] /\ op' = [op EXCEPT ![p] = "free"]
          /\ arg' = [arg EXCEPT ![p] = b.ptr]
          /\ \A q \in Proc : pc[q] = "idle" \/ op[q] = "alloc" \/ arg[q] # b.ptr
      BY <3>1 DEF CallFree, Call
    <3>3. DOMAIN pc = Proc /\ DOMAIN op = Proc /\ DOMAIN arg = Proc
      BY DEF TypeOK
    <3>4. Headers' = Headers /\ \A h \in Headers : EndOf(h)' = EndOf(h)
      BY <1>u DEF Headers, EndOf
    <3>5. \A q \in Proc : q # p => pc'[q] = pc[q] /\ op'[q] = op[q] /\ arg'[q] = arg[q]
      BY <3>2, <3>3
    <3>6. pc'[p] = "wait" /\ arg'[p] = b.ptr
      BY <3>2, <3>3
    <3>7. op'[p] = "free" /\ op' \in [Proc -> {"alloc", "free"}]
      BY <3>2, <3>3, <1>t DEF TypeOK
    <3>8. ASSUME NEW q \in Proc, pc'[q] = "clear" PROVE op'[q] = "free"
      BY <3>5, <3>6, <3>8 DEF FreeInv
    <3>9. ASSUME NEW q \in Proc, pc'[q] = "merge"
          PROVE  (bk[q] \in Headers /\ occ[bk[q]] = 0 /\ at[q] = EndOf(bk[q]))'
      BY <1>u, <3>4, <3>5, <3>6, <3>9 DEF FreeInv
    <3>10. ASSUME NEW q \in Proc, pc'[q] \in {"wait", "clear"}, op'[q] = "free"
           PROVE  (/\ \E c \in live : c.ptr = arg[q]
                   /\ \A r \in Proc :
                        pc[r] \in {"wait", "clear"} /\ op[r] = "free" /\ arg[r] = arg[q]
                          => r = q)'
      <4>1. \A r \in Proc : pc'[r] \in {"wait", "clear"} /\ op'[r] = "free" /\ r # p
                             => arg'[r] # b.ptr
        BY <3>2, <3>5
      <4>2. CASE q = p
        BY <1>u, <3>6, <4>1, <4>2
      <4>3. CASE q # p
        BY <1>u, <3>5, <3>6, <3>10, <4>1, <4>3 DEF FreeInv
      <4> QED BY <4>2, <4>3
    <3> QED BY <3>8, <3>9, <3>10 DEF FreeInv
  <2> QED BY <2>1, <2>2
<1> QED BY <1>t, <1>1, <1>2, <1>3, <1>4

\* Taking and giving back the semaphore.
LEMMA SemKeepsInv ==
  ASSUME HeapInv, Intact, NEW p \in Proc, SemWait(p) \/ SemPost(p)
  PROVE  HeapInv'
<1> USE DEF HeapInv, Good
<1>u. UNCHANGED <<bsize, occ, op, arg, live, strayed>>
  BY DEF SemWait, SemPost, memory, call
<1>h. Headers' = Headers /\ \A h \in Headers : EndOf(h)' = EndOf(h)
  BY <1>u DEF Headers, EndOf
<1>1. CASE SemWait(p)
  <2> USE <1>1 DEF SemWait
  <2>1. TypeOK'
    BY HeapAssumption, <1>u DEF TypeOK, Addr, First
  <2>s. SUFFICES ASSUME ~Crowded' PROVE Good'
    BY <2>1 DEF Intact
  <2>2. MutexInv'
    <3>1. /\ pc[p] = "wait" /\ sem > 0 /\ sem' = sem - 1 /\ semStart' = semStart
          /\ pc'[p] \in AtWork /\ semStart \in Nat /\ sem \in Nat
          /\ \A q \in Proc \ {p} : pc'[q] = pc[q]
      BY DEF TypeOK, AtWork
    <3>2. CASE semStart <= 1
      BY <3>1, <3>2 DEF MutexInv, Inside, AtWork
    <3>3. CASE semStart > 1
      BY <2>s, <3>1, <3>3 DEF MutexInv, Crowded
    <3> QED BY <3>1, <3>2, <3>3
  <2>3. ChainInv' /\ LiveInv'
    BY <1>u, <1>h DEF ChainInv, LiveInv
  <2>4. AllocInv'
    BY <1>u, <1>h DEF AllocInv, TypeOK
  <2>5. FreeInv'
    BY <1>u, <1>h, <2>2 DEF FreeInv, TypeOK, MutexInv, Inside, AtWork
  <2> QED BY <2>1, <2>2, <2>3, <2>4, <2>5
<1>2. CASE SemPost(p)
  <2> USE <1>2 DEF SemPost
  <2>1. TypeOK'
    BY HeapAssumption, <1>u DEF TypeOK, MutexInv, Inside, AtWork
  <2>2. MutexInv'
    BY DEF MutexInv, Inside, AtWork, TypeOK
  <2>3. ChainInv' /\ LiveInv'
    BY <1>u, <1>h DEF ChainInv, LiveInv
  <2>4. AllocInv'
    BY <1>u, <1>h DEF AllocInv, TypeOK
  <2>5. FreeInv'
    BY <1>u, <1>h DEF FreeInv, TypeOK
  <2> QED BY <2>1, <2>2, <2>3, <2>4, <2>5
<1> QED BY <1>1, <1>2

\* The search stays on the chain, since blocks have no gaps between them.
LEMMA SearchKeepsInv ==
  ASSUME HeapInv, Intact, NEW p \in Proc, NextBlock(p) \/ ReturnNull(p)
  PROVE  HeapInv'
<1> USE DEF HeapInv, Good
<1>u. UNCHANGED <<bsize, occ, semStart, sem, op, arg, live, strayed>>
  BY DEF NextBlock, ReturnNull, memory, call
<1>h. Headers' = Headers /\ \A h \in Headers : EndOf(h)' = EndOf(h)
  BY <1>u DEF Headers, EndOf
<1>3. ChainInv' /\ LiveInv'
  BY <1>u, <1>h DEF ChainInv, LiveInv
<1>1. CASE NextBlock(p)
  <2> USE <1>1 DEF NextBlock
  <2>a. at[p] \in Addr
    BY HeapAssumption DEF InHeap, Addr, First, Header, TypeOK
  <2>b. at[p] \in Headers
    <3>1. occ[at[p]] # 0 \/ bsize[at[p]] # 0
      BY DEF Fits
    <3> QED BY <3>1, <2>a DEF Headers, LiveInv, TypeOK
  <2>1. TypeOK'
    <3>1. at[p] + bsize[at[p]] + Header \in Nat \ {0}
      BY <2>a DEF TypeOK, Header, Addr
    <3> QED BY <1>u, <2>a, <3>1 DEF TypeOK
  <2>2. MutexInv'
    BY <1>u DEF MutexInv, Inside, AtWork, TypeOK
  <2>4. AllocInv'
    <3>1. at'[p] = EndOf(at[p])
      BY <2>a DEF TypeOK, EndOf, Addr, Header
    <3> QED BY <1>u, <1>h, <2>b, <3>1 DEF AllocInv, TypeOK
  <2>5. FreeInv'
    BY <1>u, <1>h DEF FreeInv, TypeOK
  <2> QED BY <1>3, <2>1, <2>2, <2>4, <2>5
<1>2. CASE ReturnNull(p)
  <2> USE <1>2 DEF ReturnNull
  <2>1. TypeOK'
    BY HeapAssumption, <1>u DEF TypeOK
  <2>2. MutexInv'
    BY <1>u DEF MutexInv, Inside, AtWork, TypeOK
  <2>4. AllocInv'
    BY <1>u, <1>h DEF AllocInv, TypeOK
  <2>5. FreeInv'
    BY <1>u, <1>h DEF FreeInv, TypeOK
  <2> QED BY <1>3, <2>1, <2>2, <2>4, <2>5
<1> QED BY <1>1, <1>2

LEMMA AddrBounds ==
  \A a : a \in Addr <=> a \in Int /\ 1 <= a /\ a < HeapWords
BY HeapAssumption DEF Addr, First

LEMMA HeaderBounds ==
  ASSUME TypeOK
  PROVE  \A h \in Headers : /\ h \in Addr /\ h \in Int /\ bsize[h] \in Nat
                            /\ EndOf(h) \in Int /\ h < EndOf(h)
BY AddrBounds DEF Headers, EndOf, Header, TypeOK

\* A block that fits is a free block of the chain that is then split, or the
\* tail behind the last block.
LEMMA TakeKeepsInv ==
  ASSUME HeapInv, Intact, NEW p \in Proc, TakeBlock(p)
  PROVE  HeapInv'
<1>0. PICK a, n : a = at[p] /\ n = arg[p]
  OBVIOUS
<1> DEFINE rest == a + Header + n
<1> USE DEF HeapInv, Good
<1>t. \A h \in Headers : h \in Int /\ EndOf(h) \in Int /\ h < EndOf(h)
  BY HeaderBounds
<1>1. /\ a \in Addr /\ n \in Nat \ {0} /\ occ[a] = 0
      /\ bsize[a] = 0 \/ bsize[a] > n + Header
  BY <1>0, HeapAssumption
  DEF TakeBlock, InHeap, Fits, Splits, AllocInv, TypeOK, Addr, First, Header
<1>i. /\ a \in Nat /\ n \in Nat /\ bsize[a] \in Nat /\ rest \in Nat
      /\ a + Header \in Nat /\ a + Header - Header = a
  BY <1>1, AddrBounds DEF TypeOK, Header
<1>2. /\ bsize' = [c \in Addr |-> IF c = a THEN n
                                  ELSE IF c = rest /\ Splits(a, n)
                                  THEN bsize[a] - n - Header ELSE bsize[c]]
      /\ occ' = [c \in Addr |-> IF c = a THEN 1
                                ELSE IF c = rest /\ Splits(a, n) THEN 0 ELSE occ[c]]
      /\ res' = [res EXCEPT ![p] = a + Header]
      /\ live' = live \cup {[ptr |-> a + Header, size |-> n]}
      /\ pc' = [pc EXCEPT ![p] = "post"] /\ pc[p] = "search"
      /\ bk' = [bk EXCEPT ![p] = a]
      /\ strayed' = (rest > HeapWords)
      /\ UNCHANGED <<semStart, sem, op, arg, at>>
  BY <1>0 DEF TakeBlock, HandOut, call
<1>3. TypeOK'
  <2>1. bsize[a] > n + Header => bsize[a] - n - Header \in Nat
    BY <1>i DEF Header
  <2>2. bsize' \in [Addr -> Nat] /\ occ' \in [Addr -> {0, 1}]
    BY <1>1, <1>2, <2>1 DEF TypeOK, Splits
  <2>3. /\ res' \in [Proc -> Nat] /\ bk' \in [Proc -> Addr]
        /\ live' \subseteq [ptr : Nat, size : Nat \ {0}]
    BY <1>1, <1>2, <1>i DEF TypeOK
  <2> QED BY <1>2, <2>2, <2>3 DEF TypeOK
<1>4. SUFFICES ASSUME ~strayed' PROVE Good'
  BY <1>3 DEF Intact
<1>5. rest <= HeapWords /\ HeapWords \in Nat
  <2>1. ~(rest > HeapWords)
    BY <1>2, <1>4
  <2> QED BY <1>i, <2>1, HeapAssumption
<1>6. MutexInv'
  BY <1>2 DEF MutexInv, Inside, AtWork, TypeOK
<1>7. CASE bsize[a] > n + Header
  <2>1. a \in Headers /\ EndOf(a) <= HeapWords
    BY <1>1, <1>7 DEF Headers, TypeOK, Header, ChainInv
  <2>2. rest \in Addr /\ rest \notin Headers /\ rest # a
    <3>1. a \in Int /\ n \in Int /\ bsize[a] \in Int /\ HeapWords \in Int
      BY <1>1, AddrBounds, HeapAssumption DEF TypeOK
    <3>2. a < rest /\ rest < EndOf(a) /\ rest # a
      BY <1>1, <1>7, <3>1 DEF EndOf, Header
    <3>3. rest \in Addr
      BY <1>1, <2>1, <3>1, <3>2, AddrBounds DEF Header, EndOf
    <3>4. rest \notin Headers
      BY <1>i, <2>1, <3>2, <1>t DEF ChainInv
    <3> QED BY <3>2, <3>3, <3>4
  <2>3. /\ bsize'[a] = n /\ bsize'[rest] = bsize[a] - n - Header
        /\ \A c \in Addr \ {a, rest} : bsize'[c] = bsize[c]
        /\ occ'[a] = 1 /\ occ'[rest] = 0
        /\ \A c \in Addr \ {a, rest} : occ'[c] = occ[c]
    BY <1>1, <1>2, <1>7, <2>2 DEF Splits
  <2>4. Headers' = Headers \cup {rest}
    BY <1>1, <1>7, <2>1, <2>2, <2>3 DEF Headers, TypeOK, Header
  <2>5. /\ EndOf(a)' = rest /\ EndOf(rest)' = EndOf(a)
        /\ \A h \in Headers \ {a} : EndOf(h)' = EndOf(h)
    <3>1. a \in Int /\ n \in Int /\ bsize[a] \in Int
      BY <1>1, AddrBounds DEF TypeOK
    <3>2. EndOf(rest)' = EndOf(a)
      BY <2>3, <3>1 DEF EndOf, Header
    <3>3. \A h \in Headers \ {a} : h \in Addr \ {a, rest}
      BY <2>2 DEF Headers
    <3> QED BY <2>3, <3>2, <3>3 DEF EndOf
  <2>6. ChainInv'
    <3>1. \A h \in Headers' : EndOf(h)' <= HeapWords
      BY <2>1, <2>2, <2>4, <2>5, <1>5 DEF ChainInv
    <3>2. \A h, k \in Headers' : h < k => EndOf(h)' <= k
      <4>1. a < rest /\ rest < EndOf(a)
        BY <1>1, <1>7, AddrBounds DEF EndOf, Header, TypeOK
      <4>2. \A h \in Headers : h \in Int /\ EndOf(h) \in Int /\ h < EndOf(h)
        BY <1>t
      <4>3. rest \in Int
        BY <2>2, AddrBounds
      <4> QED BY <2>1, <2>4, <2>5, <4>1, <4>2, <4>3 DEF ChainInv
    <3>3. First \in Headers'
      BY <2>1, <2>4 DEF ChainInv
    <3>4. \A h \in Headers' : EndOf(h)' \in Headers' \/ \A k \in Headers' : k <= h
      <4>1. \A h \in Headers : h \in Int /\ EndOf(h) \in Int /\ h < EndOf(h)
        BY <1>t
      <4>2. rest \in Int /\ a < rest /\ rest < EndOf(a)
        BY <1>1, <1>7, AddrBounds DEF EndOf, Header, TypeOK
      <4>3. CASE EndOf(a) \in Headers
        <5>1. \A h \in Headers : a <= h => h = a \/ rest < h
          BY <2>1, <4>1, <4>2 DEF ChainInv
        <5> QED BY <2>1, <2>4, <2>5, <4>1, <4>2, <4>3, <5>1 DEF ChainInv
      <4>4. CASE \A k \in Headers : k <= a
        BY <2>1, <2>4, <2>5, <4>1, <4>2, <4>4 DEF ChainInv
      <4> QED BY <2>1, <4>3, <4>4 DEF ChainInv
    <3> QED BY <3>1, <3>2, <3>3, <3>4, <1>5 DEF ChainInv
  <2>7. LiveInv'
    <3>1. \A b \in live : b.ptr - Header # a /\ b.ptr - Header # rest
      <4>1. \A b \in live : b.ptr - Header \in Headers
        BY DEF LiveInv, Headers, TypeOK
      <4> QED BY <1>1, <2>2, <4>1 DEF LiveInv
    <3>2. \A b \in live : b.ptr - Header \in Addr
      BY DEF LiveInv
    <3>3. a + Header - Header = a
      BY <1>1, AddrBounds DEF Header
    <3>4. \A c \in Addr : occ'[c] = 1 => bsize'[c] > 0
      BY <1>1, <2>3 DEF LiveInv
    <3> DEFINE new == [ptr |-> a + Header, size |-> n]
    <3>5. new.ptr - Header = a /\ new.size = n
      BY <1>i DEF Header
    <3>6. \A b \in live' : /\ b.ptr - Header \in Addr
                          /\ bsize'[b.ptr - Header] = b.size
                          /\ occ'[b.ptr - Header] = 1
      <4>1. ASSUME NEW b \in live
            PROVE  /\ b.ptr - Header \in Addr
                   /\ bsize'[b.ptr - Header] = b.size
                   /\ occ'[b.ptr - Header] = 1
        BY <2>3, <3>1, <3>2 DEF LiveInv
      <4> QED BY <1>1, <1>2, <2>3, <3>5, <4>1
    <3> QED BY <3>4, <3>6 DEF LiveInv
  <2>8. AllocInv'
    BY <1>2, <2>4, <2>5, <1>6 DEF AllocInv, TypeOK, MutexInv, Inside, AtWork
  <2>9. FreeInv'
    BY <1>2, <1>6 DEF FreeInv, TypeOK, MutexInv, Inside, AtWork
  <2> QED BY <1>6, <2>6, <2>7, <2>8, <2>9
<1>8. CASE bsize[a] = 0
  <2>1. a \notin Headers /\ \A h \in Headers : EndOf(h) <= a
    <3>1. a \notin Headers
      BY <1>8 DEF Headers
    <3>2. CASE a = First
      BY <3>1, <3>2 DEF ChainInv
    <3>3. CASE \E b \in Headers : EndOf(b) = a
      <4>1. PICK b \in Headers : EndOf(b) = a
        BY <3>3
      <4>2. \A h \in Headers : h <= b
        BY <3>1, <4>1 DEF ChainInv
      <4>3. \A h \in Headers : h \in Int /\ EndOf(h) \in Int /\ h < EndOf(h)
        BY <1>t
      <4> QED BY <4>1, <4>2, <4>3 DEF ChainInv
    <3> QED BY <1>0, <1>2, <3>2, <3>3 DEF AllocInv
  <2>2. ~Splits(a, n)
    BY <1>1, <1>8 DEF Splits, Header
  <2>3. /\ bsize'[a] = n /\ \A c \in Addr \ {a} : bsize'[c] = bsize[c]
        /\ occ'[a] = 1 /\ \A c \in Addr \ {a} : occ'[c] = occ[c]
    BY <1>1, <1>2, <2>2
  <2>4. Headers' = Headers \cup {a}
    BY <1>1, <2>1, <2>3 DEF Headers
  <2>5. EndOf(a)' = rest /\ \A h \in Headers : EndOf(h)' = EndOf(h)
    <3>1. \A h \in Headers : h \in Addr \ {a}
      BY <2>1 DEF Headers
    <3> QED BY <2>3, <3>1 DEF EndOf
  <2>t. \A h \in Headers : h \in Int /\ EndOf(h) \in Int /\ h < EndOf(h)
    BY <1>t
  <2>6. ChainInv'
    <3>0. a \in Int /\ \A h \in Headers : h < a
      BY <1>1, <2>1, <2>t, AddrBounds
    <3>1. /\ \A h \in Headers' : EndOf(h)' <= HeapWords
          /\ \A h, k \in Headers' : h < k => EndOf(h)' <= k
      BY <1>5, <2>1, <2>4, <2>5, <3>0, <2>t DEF ChainInv
    <3>2. First \in Headers'
      BY <1>0, <1>2, <2>4 DEF AllocInv, ChainInv
    <3>3. \A h \in Headers' : EndOf(h)' \in Headers' \/ \A k \in Headers' : k <= h
      <4>1. ASSUME NEW h \in Headers, EndOf(h) \notin Headers PROVE EndOf(h) = a
        <5>1. \A k \in Headers : k <= h
          BY <4>1 DEF ChainInv
        <5>2. CASE a = First
          BY <2>t, <3>0, <5>2, <4>1 DEF ChainInv
        <5>3. CASE \E b \in Headers : EndOf(b) = a
          <6>1. PICK b \in Headers : EndOf(b) = a
            BY <5>3
          <6>2. \A k \in Headers : k <= b
            BY <2>1, <6>1 DEF ChainInv
          <6> QED BY <5>1, <6>1, <6>2, <2>t
        <5> QED BY <1>0, <1>2, <5>2, <5>3 DEF AllocInv
      <4> QED BY <2>4, <2>5, <3>0, <4>1, <2>t
    <3> QED BY <3>1, <3>2, <3>3, <1>5 DEF ChainInv
  <2>7. LiveInv'
    <3>1. \A b \in live : b.ptr - Header # a /\ b.ptr - Header \in Addr
      BY <1>1 DEF LiveInv
    <3>2. a + Header - Header = a
      BY <1>1, AddrBounds DEF Header
    <3>3. \A c \in Addr : occ'[c] = 1 => bsize'[c] > 0
      BY <1>1, <2>3 DEF LiveInv
    <3> DEFINE new == [ptr |-> a + Header, size |-> n]
    <3>5. new.ptr - Header = a /\ new.size = n
      BY <1>i DEF Header
    <3>6. \A b \in live' : /\ b.ptr - Header \in Addr
                          /\ bsize'[b.ptr - Header] = b.size
                          /\ occ'[b.ptr - Header] = 1
      <4>1. ASSUME NEW b \in live
            PROVE  /\ b.ptr - Header \in Addr
                   /\ bsize'[b.ptr - Header] = b.size
                   /\ occ'[b.ptr - Header] = 1
        BY <2>3, <3>1, <3>2 DEF LiveInv
      <4> QED BY <1>1, <1>2, <2>3, <3>5, <4>1
    <3> QED BY <3>3, <3>6 DEF LiveInv
  <2>8. AllocInv'
    BY <1>2, <1>6 DEF AllocInv, TypeOK, MutexInv, Inside, AtWork
  <2>9. FreeInv'
    BY <1>2, <1>6 DEF FreeInv, TypeOK, MutexInv, Inside, AtWork
  <2> QED BY <1>6, <2>6, <2>7, <2>8, <2>9
<1> QED BY <1>1, <1>7, <1>8

\* Writing beyond the end, or merging with a free block, sets strayed.
LEMMA BeyondKeepsInv ==
  ASSUME HeapInv, Intact, NEW p \in Proc, TakeBeyond(p)
  PROVE  HeapInv'
<1> USE DEF HeapInv, Good
<1>1. arg[p] \in Nat \ {0} /\ at[p] + Header \in Nat
  BY DEF TakeBeyond, AllocInv, TypeOK, Header
<1>2. /\ bsize' = [bsize EXCEPT ![bk[p]] = arg[p]]
      /\ occ' = [occ EXCEPT ![bk[p]] = 1]
      /\ res' = [res EXCEPT ![p] = at[p] + Header]
      /\ live' = live \cup {[ptr |-> at[p] + Header, size |-> arg[p]]}
      /\ pc' = [pc EXCEPT ![p] = "post"]
      /\ strayed'
      /\ UNCHANGED <<semStart, sem, op, arg, at, bk>>
  BY DEF TakeBeyond, HandOut, call
<1>3. TypeOK'
  BY <1>1, <1>2 DEF TypeOK
<1> QED BY <1>2, <1>3 DEF Intact

\* A free begins: the block is free and no caller holds it any more.
LEMMA ClearKeepsInv ==
  ASSUME HeapInv, Intact, NEW p \in Proc, Clear(p)
  PROVE  HeapInv'
<1>0. PICK a : a = arg[p] - Header
  OBVIOUS
<1> USE DEF HeapInv, Good
<1>1. PICK b \in live : b.ptr = arg[p]
  BY DEF Clear, FreeInv
<1>2. a \in Addr /\ bsize[a] = b.size /\ occ[a] = 1 /\ a \in Headers
  BY <1>0, <1>1 DEF LiveInv, Headers
<1>3. /\ pc[p] = "clear" /\ pc' = [pc EXCEPT ![p] = "merge"]
      /\ occ' = [occ EXCEPT ![a] = 0]
      /\ live' = {c \in live : c.ptr # arg[p]}
      /\ bk' = [bk EXCEPT ![p] = a]
      /\ at' = [at EXCEPT ![p] = arg[p] + bsize[a]]
      /\ UNCHANGED <<bsize, semStart, sem, op, arg, res, strayed>>
  BY <1>0 DEF Clear, call
<1>i. arg[p] \in Nat /\ a \in Nat /\ bsize[a] \in Nat \ {0}
  BY <1>2, AddrBounds DEF TypeOK, Headers
<1>4. TypeOK'
  <2>1. arg[p] + bsize[a] \in Nat \ {0}
    BY <1>i
  <2> QED BY <1>2, <1>3, <2>1 DEF TypeOK
<1>h. Headers' = Headers /\ \A h \in Headers : EndOf(h)' = EndOf(h)
  BY <1>3 DEF Headers, EndOf
<1>5. MutexInv'
  BY <1>3 DEF MutexInv, Inside, AtWork, TypeOK
<1>6. ChainInv'
  BY <1>3, <1>h DEF ChainInv
<1>7. LiveInv'
  <2>1. ASSUME NEW c \in live' PROVE c.ptr - Header # a
    <3>1. c.ptr \in Nat /\ c.ptr # arg[p]
      BY <1>3 DEF TypeOK
    <3> QED BY <1>0, <1>i, <3>1 DEF Header
  <2>2. \A c \in Addr : occ'[c] = 1 => bsize'[c] > 0
    BY <1>2, <1>3 DEF LiveInv, TypeOK
  <2>3. \A c \in Addr : c # a => occ'[c] = occ[c]
    BY <1>3 DEF TypeOK
  <2>4. \A c \in live' : c \in live
    BY <1>3
  <2> QED BY <1>3, <2>1, <2>2, <2>3, <2>4 DEF LiveInv
<1>8. AllocInv'
  BY <1>3, <1>h, <1>5 DEF AllocInv, TypeOK, MutexInv, Inside, AtWork
<1>9. FreeInv'
  <2>1. ASSUME NEW q \in Proc, q # p,
               pc[q] \in {"wait", "clear"}, op[q] = "free"
        PROVE  \E c \in live' : c.ptr = arg[q]
    <3>1. arg[q] # arg[p]
      BY <1>3, <2>1 DEF FreeInv
    <3> QED BY <1>3, <2>1, <3>1 DEF FreeInv
  <2>2. \A q \in Proc : q # p => pc'[q] = pc[q] /\ pc[q] # "merge"
    BY <1>3 DEF TypeOK, MutexInv, Inside, AtWork
  <2>3. pc'[p] = "merge" /\ bk'[p] = a /\ occ'[a] = 0 /\ at'[p] = arg[p] + bsize[a]
    BY <1>2, <1>3 DEF TypeOK
  <2>4. at'[p] = EndOf(a)'
    BY <1>0, <1>3, <1>i, <2>3 DEF EndOf, Header
  <2>5. \A q \in Proc : pc'[q] = "clear" => op'[q] = "free"
    BY <1>3, <2>2, <2>3 DEF FreeInv
  <2>6. ASSUME NEW q \in Proc, pc'[q] = "merge"
        PROVE  (bk[q] \in Headers /\ occ[bk[q]] = 0 /\ at[q] = EndOf(bk[q]))'
    BY <1>2, <1>h, <2>2, <2>3, <2>4, <2>6
  <2>7. ASSUME NEW q \in Proc, pc'[q] \in {"wait", "clear"}, op'[q] = "free"
        PROVE  (/\ \E c \in live : c.ptr = arg[q]
                /\ \A r \in Proc :
                     pc[r] \in {"wait", "clear"} /\ op[r] = "free" /\ arg[r] = arg[q]
                       => r = q)'
    <3>1. q # p /\ pc[q] \in {"wait", "clear"} /\ op[q] = "free"
      BY <1>3, <2>2, <2>3, <2>7
    <3>2. \E c \in live' : c.ptr = arg'[q]
      BY <1>3, <2>1, <3>1
    <3>3. ASSUME NEW r \in Proc, pc'[r] \in {"wait", "clear"}, op'[r] = "free",
                 arg'[r] = arg'[q]
          PROVE  r = q
      BY <1>3, <2>2, <2>3, <3>1, <3>3 DEF FreeInv
    <3> QED BY <3>2, <3>3
  <2> QED BY <2>5, <2>6, <2>7 DEF FreeInv
<1> QED BY <1>4, <1>5, <1>6, <1>7, <1>8, <1>9

\* Without a free block behind it, the freed block grows into the tail.
LEMMA MergeKeepsInv ==
  ASSUME HeapInv, Intact, NEW p \in Proc, Merge(p)
  PROVE  HeapInv'
<1>0. PICK a, k : a = at[p] /\ k = bk[p]
  OBVIOUS
<1> USE DEF HeapInv, Good
<1>1. /\ pc[p] = "merge" /\ a + Header <= HeapWords /\ occ[a] # 1
      /\ bsize' = [c \in Addr |->
                     IF c = k THEN bsize[c] + bsize[a] + Header
                     ELSE IF c \in a..(a + 1 + bsize[a]) THEN 0 ELSE bsize[c]]
      /\ occ' = [c \in Addr |->
                   IF c \in a..(a + 1 + bsize[a]) THEN 0 ELSE occ[c]]
      /\ at' = [at EXCEPT ![p] = a + Header]
      /\ strayed' = (bsize[a] > 0)
      /\ UNCHANGED <<semStart, sem, pc, op, arg, bk, res, live>>
  BY <1>0 DEF Merge, Mergeable, call
<1>2. k \in Headers /\ k \in Addr /\ occ[k] = 0 /\ a = EndOf(k)
  BY <1>0, <1>1 DEF FreeInv, Headers
<1>t. \A h \in Headers : /\ h \in Addr /\ h \in Int /\ bsize[h] \in Nat
                         /\ EndOf(h) \in Int /\ h < EndOf(h)
  BY HeaderBounds
<1>3. a \in Addr /\ a \in Nat /\ k \in Nat /\ k < a /\ bsize[a] \in Nat
      /\ bsize[k] \in Nat
  <2>1. a \in Int /\ k \in Int /\ k < a /\ k >= 1
    BY <1>2, <1>t, AddrBounds
  <2>2. a \in Addr
    BY <1>1, <2>1, AddrBounds, HeapAssumption DEF Header
  <2> QED BY <1>2, <2>1, <2>2 DEF TypeOK
<1>4. TypeOK'
  <2>1. bsize[k] + bsize[a] + Header \in Nat /\ a + Header \in Nat \ {0}
    BY <1>3 DEF Header
  <2>2. bsize' \in [Addr -> Nat] /\ occ' \in [Addr -> {0, 1}]
    BY <1>1, <2>1 DEF TypeOK
  <2>3. at' \in [Proc -> Nat \ {0}]
    BY <1>1, <2>1 DEF TypeOK
  <2> QED BY <1>1, <2>2, <2>3 DEF TypeOK
<1>5. SUFFICES ASSUME ~strayed' PROVE Good'
  BY <1>4 DEF Intact
<1>6. bsize[a] = 0 /\ a \notin Headers
  <2>1. ~(bsize[a] > 0)
    BY <1>1, <1>5
  <2> QED BY <1>3, <2>1 DEF Headers
<1>7. \A h \in Headers : h <= k
  BY <1>2, <1>6 DEF ChainInv
<1>8. /\ bsize'[k] = bsize[k] + Header
      /\ \A h \in Addr \ {k} : bsize'[h] = bsize[h]
      /\ \A h \in Addr : occ'[h] = occ[h]
  <2>1. \A c : c \in a..(a + 1 + bsize[a]) <=> c = a \/ c = a + 1
    BY <1>3, <1>6
  <2>2. \A c \in Addr : c \in Int
    BY AddrBounds
  <2>3. \A c \in Addr : (c = a \/ c = a + 1) => c \notin Headers
    BY <1>3, <1>7, <2>2
  <2>4. \A c \in Addr : (c = a \/ c = a + 1) => bsize[c] = 0 /\ occ[c] = 0
    <3>1. \A c \in Addr : c \notin Headers => bsize[c] = 0 /\ occ[c] = 0
      BY DEF Headers, TypeOK, LiveInv
    <3> QED BY <2>3, <3>1
  <2>5. bsize[k] + bsize[a] + Header = bsize[k] + Header
    BY <1>3, <1>6 DEF Header
  <2> QED BY <1>1, <1>2, <2>1, <2>4, <2>5
<1>9. Headers' = Headers
  <2>1. bsize[k] > 0 /\ bsize'[k] > 0
    BY <1>2, <1>3, <1>8 DEF Headers, Header
  <2> QED BY <1>8, <2>1 DEF Headers
<1>10. /\ EndOf(k)' = a + Header
       /\ \A h \in Headers \ {k} : EndOf(h)' = EndOf(h)
  <2>1. EndOf(k)' = EndOf(k) + Header
    BY <1>3, <1>8 DEF EndOf, Header
  <2> QED BY <1>2, <1>8, <1>t, <2>1 DEF EndOf
<1>11. MutexInv'
  BY <1>1 DEF MutexInv
<1>12. ChainInv'
  <2>1. \A h, g \in Headers : h < g => h # k
    BY <1>2, <1>7, <1>t
  <2>2. \A h \in Headers : EndOf(h) = EndOf(h)' \/ h = k
    BY <1>10
  <2> QED BY <1>1, <1>2, <1>7, <1>9, <1>10, <2>1, <2>2 DEF ChainInv
<1>13. LiveInv'
  <2>1. \A b \in live : b.ptr - Header # k
    BY <1>2 DEF LiveInv
  <2>2. \A c \in Addr : occ'[c] = 1 => bsize'[c] > 0
    BY <1>2, <1>3, <1>8 DEF LiveInv
  <2> QED BY <1>1, <1>8, <2>1, <2>2 DEF LiveInv
<1>14. AllocInv'
  BY <1>0, <1>1 DEF AllocInv, MutexInv, Inside, AtWork
<1>15. FreeInv'
  <2>1. \A q \in Proc : pc'[q] = "merge" => q = p
    BY <1>1 DEF MutexInv, Inside, AtWork
  <2>2. bk'[p] = k /\ at'[p] = EndOf(k)' /\ occ'[k] = 0 /\ k \in Headers'
    BY <1>0, <1>1, <1>2, <1>8, <1>9, <1>10 DEF TypeOK
  <2> QED BY <1>1, <2>1, <2>2 DEF FreeInv
<1> QED BY <1>11, <1>12, <1>13, <1>14, <1>15

LEMMA MergeEndKeepsInv ==
  ASSUME HeapInv, Intact, NEW p \in Proc, MergeEnds(p)
  PROVE  HeapInv'
<1> USE DEF HeapInv, Good
<1>u. UNCHANGED <<bsize, occ, semStart, sem, op, arg, at, bk, res, live, strayed>>
  BY DEF MergeEnds, memory, call
<1>1. pc' = [pc EXCEPT ![p] = "post"] /\ pc[p] = "merge"
  BY DEF MergeEnds
<1>h. Headers' = Headers /\ \A h \in Headers : EndOf(h)' = EndOf(h)
  BY <1>u DEF Headers, EndOf
<1>2. TypeOK'
  BY <1>u, <1>1 DEF TypeOK
<1>3. MutexInv'
  BY <1>u, <1>1 DEF MutexInv, Inside, AtWork, TypeOK
<1>4. ChainInv' /\ LiveInv'
  BY <1>u, <1>h DEF ChainInv, LiveInv
<1>5. AllocInv'
  BY <1>u, <1>1, <1>h DEF AllocInv, TypeOK
<1>6. FreeInv'
  BY <1>u, <1>1, <1>h DEF FreeInv, TypeOK
<1> QED BY <1>2, <1>3, <1>4, <1>5, <1>6

--------------------------------------------------------------------------------
LEMMA NextHeapInv == HeapInv /\ [Next]_heapVars => HeapInv'
<1> SUFFICES ASSUME HeapInv, [Next]_heapVars PROVE HeapInv'
  OBVIOUS
<1>1. CASE Next
  <2>1. Intact
    BY <1>1 DEF Next
  <2>2. PICK p \in Proc : \/ \E n \in Sizes : CallAlloc(p, n)
                          \/ \E b \in live : CallFree(p, b)
                          \/ Step(p)
    BY <1>1 DEF Next
  <2>3. CASE Step(p)
    BY <2>1, <2>3, SemKeepsInv, SearchKeepsInv, TakeKeepsInv, BeyondKeepsInv,
       ClearKeepsInv, MergeKeepsInv, MergeEndKeepsInv DEF Step
  <2> QED BY <2>1, <2>2, <2>3, CallsKeepInv
<1>2. CASE UNCHANGED heapVars
  BY <1>2 DEF heapVars, memory, call, HeapInv, Good, TypeOK, MutexInv, ChainInv,
     Intact, Crowded, AtWork, Inside, LiveInv, AllocInv, FreeInv, Headers, EndOf
<1> QED BY <1>1, <1>2

\* The types, for any heap, sizes and processes.
THEOREM HeapTypes == Spec => []TypeOK
<1>1. HeapInv => TypeOK
  BY DEF HeapInv
<1> QED BY <1>1, InitHeapInv, NextHeapInv, PTL DEF Spec

\* With a semaphore that was created with 0 or 1, no two processes are at work in
\* the heap at once, on whatever path they leave it (sem_wait, sem_post).
THEOREM OneAtWork ==
  Spec => [](semStart <= 1 /\ ~strayed =>
               \A p, q \in Proc : pc[p] \in AtWork /\ pc[q] \in AtWork => p = q)
<1> DEFINE One == semStart <= 1 /\ ~strayed =>
                    \A p, q \in Proc : pc[p] \in AtWork /\ pc[q] \in AtWork => p = q
<1>1. HeapInv => One
  BY DEF HeapInv, Good, MutexInv, Intact, Crowded, TypeOK
<1> HIDE DEF One
<1>2. Spec => []One
  BY <1>1, InitHeapInv, NextHeapInv, PTL DEF Spec
<1> QED BY <1>2 DEF One

\* Blocks allocated at the same time are disjoint and inside the heap while it is
\* intact, whatever the semaphore was created with (shmheap_alloc, shmheap_free).
THEOREM HeapDisjoint == Spec => []BlocksDisjoint
<1>1. HeapInv => BlocksDisjoint
  <2> SUFFICES ASSUME HeapInv, Intact
               PROVE  /\ \A b \in live : /\ b.ptr >= First + Header
                                         /\ b.ptr + b.size <= HeapWords
                      /\ \A b, c \in live :
                           b = c \/ b.ptr + b.size <= c.ptr - Header
                                 \/ c.ptr + c.size <= b.ptr - Header
    BY DEF BlocksDisjoint
  <2> USE DEF HeapInv, Good
  <2>1. ASSUME NEW b \in live
        PROVE  /\ b.ptr - Header \in Headers
               /\ b.ptr \in Nat /\ b.size \in Nat /\ b.ptr - Header >= First
               /\ EndOf(b.ptr - Header) = b.ptr + b.size
    <3>1. b.ptr \in Nat /\ b.size \in Nat \ {0}
      BY DEF TypeOK
    <3>2. b.ptr - Header \in Headers /\ bsize[b.ptr - Header] = b.size
      BY <3>1 DEF LiveInv, Headers
    <3>3. b.ptr - Header >= First
      BY <3>2, AddrBounds DEF Headers, First
    <3> QED BY <3>1, <3>2, <3>3 DEF EndOf, Header
  <2>2. ASSUME NEW b \in live PROVE b.ptr >= First + Header /\ b.ptr + b.size <= HeapWords
    BY <2>1, HeapAssumption DEF ChainInv, First, Header
  <2>3. ASSUME NEW b \in live, NEW c \in live, b # c
        PROVE  \/ b.ptr + b.size <= c.ptr - Header
               \/ c.ptr + c.size <= b.ptr - Header
    <3>1. b.ptr # c.ptr
      <4>1. /\ b = [ptr |-> b.ptr, size |-> b.size]
            /\ c = [ptr |-> c.ptr, size |-> c.size]
        BY DEF TypeOK
      <4>2. b.ptr = c.ptr => b.size = c.size
        BY DEF LiveInv
      <4> QED BY <2>3, <4>1, <4>2
    <3>2. b.ptr - Header < c.ptr - Header \/ c.ptr - Header < b.ptr - Header
      BY <2>1, <3>1 DEF Header
    <3> QED BY <2>1, <3>2 DEF ChainInv
  <2> QED BY <2>2, <2>3
<1> QED BY <1>1, InitHeapInv, NextHeapInv, PTL DEF Spec

\* Every block can be reached from the first one while the heap is intact.
THEOREM HeapReachable == Spec => []ChainWhole
<1>1. HeapInv => ChainWhole
  BY DEF HeapInv, Good, ChainInv, ChainWhole
<1> QED BY <1>1, InitHeapInv, NextHeapInv, PTL DEF Spec

--------------------------------------------------------------------------------
\* The runner: sizes reach the heap as the input gives them.

CmdSet ==
  {c \in [type : {"connect", "disconnect", "alloc", "read", "free"},
          index : Proc, id : Nat, sz : Nat] : c.type = "alloc" => c.sz \in Sizes}

RunnerInv ==
  /\ in \in [Proc -> Seq(CmdSet)]
  /\ out \in [Proc -> Seq(Nat)]
  /\ line \in Seq(CmdSet) /\ (mpc = "collect" => line # <<>>)
  /\ mapped \subseteq Proc
  /\ objects \in [Object -> [ptr : Nat, size : Nat]]

LEMMA CommandsTyped == mapped \subseteq Proc => Commands \subseteq CmdSet
<1> SUFFICES ASSUME mapped \subseteq Proc, NEW c \in Commands PROVE c \in CmdSet
  OBVIOUS
<1>1. \A id \in Object : id \in Nat
  BY RunnerAssumption DEF Object
<1>2. \A n \in Sizes : n \in Nat
  BY HeapAssumption
<1>3. /\ \A p \in Proc : /\ Command("connect", p, NoObject, 0) \in CmdSet
                        /\ Command("disconnect", p, NoObject, 0) \in CmdSet
      /\ \A p \in Proc, id \in Object :
           /\ \A n \in Sizes : Command("alloc", p, id, n) \in CmdSet
           /\ Command("read", p, id, 0) \in CmdSet
           /\ Command("free", p, id, 0) \in CmdSet
  BY <1>1, <1>2 DEF Command, CmdSet, NoObject
<1>4. \/ \E p \in Proc : \/ c = Command("connect", p, NoObject, 0)
                        \/ c = Command("disconnect", p, NoObject, 0)
      \/ \E p \in Proc, id \in Object :
           \/ \E n \in Sizes : c = Command("alloc", p, id, n)
           \/ c = Command("read", p, id, 0)
           \/ c = Command("free", p, id, 0)
  BY DEF Commands
<1> QED BY <1>3, <1>4

\* Every step of the runner is a step of the heap or leaves the heap alone.
LEMMA RunnerStep ==
  ASSUME RunnerInv, TypeOK, [RunnerNext]_runnerVars
  PROVE  RunnerInv' /\ [Next]_heapVars
<1> USE DEF RunnerInv
<1>1. ASSUME NEW c \in Commands, MainSend(c), Intact
      PROVE  RunnerInv' /\ UNCHANGED heapVars
  <2>1. c \in CmdSet
    BY CommandsTyped
  <2>2. PICK x \in Nat : /\ c.type = "alloc" => x = c.sz
                         /\ \/ UNCHANGED <<line, in>>
                            \/ /\ line' = Append(line, c)
                               /\ in' = [in EXCEPT ![c.index] =
                                           Append(@, [c EXCEPT !.sz = x])]
    <3>1. c.type = "free" => c.id \in Object
      BY RunnerAssumption DEF Commands, Command
    <3>2. (IF c.type = "free" THEN objects[c.id].ptr ELSE c.sz) \in Nat
      BY <2>1, <3>1 DEF CmdSet
    <3> QED BY <1>1, <3>2 DEF MainSend
  <2>3. [c EXCEPT !.sz = x] \in CmdSet /\ c.index \in Proc
    BY <2>1, <2>2 DEF CmdSet
  <2>4. line' \in Seq(CmdSet)
    <3>1. Append(line, c) \in Seq(CmdSet)
      BY <2>1, AppendProperties
    <3> QED BY <2>2, <3>1
  <2>5. in' \in [Proc -> Seq(CmdSet)]
    <3>1. Append(in[c.index], [c EXCEPT !.sz = x]) \in Seq(CmdSet)
      BY <2>3, AppendProperties
    <3> QED BY <2>2, <3>1
  <2>6. mpc' # "collect"
    BY <1>1 DEF MainSend
  <2> QED BY <1>1, <2>4, <2>5, <2>6 DEF MainSend
<1>2. ASSUME MainCollect PROVE RunnerInv' /\ UNCHANGED heapVars
  <2> DEFINE c == Head(line)
  <2>1. c \in CmdSet /\ line' \in Seq(CmdSet) /\ Len(line) > 0
    BY <1>2 DEF MainCollect
  <2>2. out[c.index] \in Seq(Nat) /\ out[c.index] # <<>>
    BY <1>2, <2>1 DEF MainCollect, Answered, CmdSet
  <2>3. Head(out[c.index]) \in Nat /\ Tail(out[c.index]) \in Seq(Nat)
    BY <2>2
  <2>4. objects' \in [Object -> [ptr : Nat, size : Nat]]
    <3>1. c.sz \in Nat /\ Unset \in [ptr : Nat, size : Nat]
      BY <2>1 DEF CmdSet, Unset
    <3>2. objects' = Recorded(c, Head(out[c.index]))
      BY <1>2 DEF MainCollect
    <3> QED BY <2>3, <3>1, <3>2 DEF Recorded
  <2>5. mpc' = "collect" => line' # <<>>
    <3>1. line' = Tail(line) /\ (mpc' = "collect" => Len(line) # 1)
      BY <1>2 DEF MainCollect
    <3>2. Len(line') = Len(line) - 1 /\ Len(line) \in Nat
      BY <2>1, <3>1
    <3>3. line' = <<>> => Len(line') = 0
      OBVIOUS
    <3> QED BY <3>1, <3>2, <3>3
  <2>6. out' \in [Proc -> Seq(Nat)]
    BY <1>2, <2>3 DEF MainCollect
  <2> QED BY <1>2, <2>1, <2>4, <2>5, <2>6 DEF MainCollect
<1>3. ASSUME MainCollectNothing PROVE RunnerInv' /\ UNCHANGED heapVars
  <2> DEFINE c == Head(line)
  <2>1. c \in CmdSet /\ line' \in Seq(CmdSet) /\ Len(line) > 0
    BY <1>3 DEF MainCollectNothing
  <2>2. objects' \in [Object -> [ptr : Nat, size : Nat]]
    <3>1. [ptr |-> 0, size |-> c.sz] \in [ptr : Nat, size : Nat]
      BY <2>1 DEF CmdSet
    <3> QED BY <1>3, <3>1 DEF MainCollectNothing
  <2>3. mpc' = "collect" => line' # <<>>
    <3>1. line' = Tail(line) /\ (mpc' = "collect" => Len(line) # 1)
      BY <1>3 DEF MainCollectNothing
    <3>2. Len(line') = Len(line) - 1 /\ Len(line) \in Nat
      BY <2>1, <3>1
    <3>3. line' = <<>> => Len(line') = 0
      OBVIOUS
    <3> QED BY <3>1, <3>2, <3>3
  <2> QED BY <1>3, <2>1, <2>2, <2>3 DEF MainCollectNothing, pipes
<1>4. ASSUME MainEndOfLine \/ MainEof \/ MainDestroy
      PROVE  RunnerInv' /\ UNCHANGED heapVars
  BY <1>4 DEF MainEndOfLine, MainEof, MainDestroy, pipes
<1>5. ASSUME NEW p \in Proc, Take(p), Intact PROVE RunnerInv' /\ [Next]_heapVars
  <2> DEFINE c == Head(in[p])
  <2>1. c \in CmdSet /\ Tail(in[p]) \in Seq(CmdSet)
    BY <1>5 DEF Take
  <2>2. in' \in [Proc -> Seq(CmdSet)] /\ mapped' \subseteq Proc
    BY <1>5, <2>1 DEF Take, Mapping
  <2>3. [Next]_heapVars
    <3>1. c.type = "alloc" => c.sz \in Sizes
      BY <2>1 DEF CmdSet
    <3>2. CASE c.type = "alloc"
      <4>1. CallAlloc(p, c.sz)
        BY <1>5, <3>2 DEF Take
      <4> QED BY <1>5, <3>1, <3>2, <4>1 DEF Next
    <3>3. CASE c.type = "free"
      <4>1. \E b \in live : CallFree(p, b)
        BY <1>5, <3>3 DEF Take
      <4> QED BY <1>5, <4>1 DEF Next
    <3>4. CASE c.type # "alloc" /\ c.type # "free"
      BY <1>5, <3>4 DEF Take
    <3> QED BY <3>2, <3>3, <3>4
  <2>4. UNCHANGED <<mpc, line, out, objects>>
    BY <1>5 DEF Take
  <2> QED BY <2>2, <2>3, <2>4
<1>6. ASSUME NEW p \in Proc, InCall(p), Intact PROVE RunnerInv' /\ [Next]_heapVars
  BY <1>6 DEF InCall, Next, pipes
<1>7. ASSUME NEW p \in Proc, Answer(p) PROVE RunnerInv' /\ UNCHANGED heapVars
  <2>1. res[p] \in Nat /\ Dummy \in Nat
    BY DEF TypeOK, Dummy
  <2>2. out' \in [Proc -> Seq(Nat)]
    <3>1. CASE UNCHANGED out
      BY <3>1
    <3>2. CASE \E x \in Nat : out' = [out EXCEPT ![p] = Append(@, x)]
      <4>1. PICK x \in Nat : out' = [out EXCEPT ![p] = Append(@, x)]
        BY <3>2
      <4>2. Append(out[p], x) \in Seq(Nat)
        BY AppendProperties
      <4> QED BY <4>1, <4>2
    <3> QED BY <1>7, <2>1, <3>1, <3>2 DEF Answer
  <2> QED BY <1>7, <2>2 DEF Answer, Ends
<1>8. ASSUME NEW p \in Proc, WriteToNull(p) \/ Exit(p)
      PROVE  RunnerInv' /\ UNCHANGED heapVars
  BY <1>8 DEF WriteToNull, Exit, pipes
<1>9. ASSUME UNCHANGED runnerVars PROVE RunnerInv' /\ UNCHANGED heapVars
  BY <1>9 DEF runnerVars, pipes
<1> QED BY <1>1, <1>2, <1>3, <1>4, <1>5, <1>6, <1>7, <1>8, <1>9
        DEF RunnerNext, Main, Child

LEMMA RunnerInitInv == RunnerInit => RunnerInv /\ Init
<1>1. <<>> \in Seq(CmdSet) /\ <<>> \in Seq(Nat)
  OBVIOUS
<1>2. Unset \in [ptr : Nat, size : Nat]
  BY DEF Unset
<1> QED BY <1>1, <1>2 DEF RunnerInit, RunnerInv

\* The runner's use of the heap is a behaviour of the heap (child_proc, main).
THEOREM RunnerImplementsHeap == RunnerSpec => UsesHeap
<1>1. RunnerInv /\ HeapInv /\ [RunnerNext]_runnerVars
        => RunnerInv' /\ HeapInv' /\ [Next]_heapVars
  BY RunnerStep, NextHeapInv DEF HeapInv
<1> QED BY <1>1, RunnerInitInv, InitHeapInv, PTL DEF RunnerSpec, UsesHeap

\* Blocks of the runner's objects are disjoint while the heap is intact, whatever
\* the input.
THEOREM RunnerDisjoint == RunnerSpec => []BlocksDisjoint
BY RunnerImplementsHeap, HeapDisjoint, PTL DEF Spec, UsesHeap

--------------------------------------------------------------------------------
\* The handles main keeps.

Block == [ptr : Nat, size : Nat]
Doing == CmdSet \cup {Nothing}

Busy(p) == IF doing[p] = Nothing THEN 0 ELSE 1

\* f[p] lists the positions of the commands of p in the line.
Placed(f) ==
  /\ \A p \in Proc :
       /\ \A k \in 1..Len(f[p]) : f[p][k] \in 1..Len(line) /\ line[f[p][k]].index = p
       /\ \A j, k \in 1..Len(f[p]) : j < k => f[p][j] < f[p][k]
  /\ \A i \in 1..Len(line) :
       \E k \in 1..Len(f[line[i].index]) : f[line[i].index][k] = i

\* The first of them have been answered, then comes the one p carries out, then
\* those in its pipe.
Counted(f) ==
  \A p \in Proc :
    /\ child[p] = "crashed" => Len(out[p]) <= Len(f[p])
    /\ child[p] # "crashed" => Len(f[p]) = Len(out[p]) + Busy(p) + Len(in[p])

\* Command c of a pipe is command d of the line, of which main has handles o.
Same(c, d, o) ==
  /\ c.type = d.type /\ c.id = d.id
  /\ (c.type = "alloc" => c.sz = d.sz)
  /\ (c.type = "free" => c.sz = o[c.id].ptr)

\* Every pipe holds the commands of the line that are not carried out yet.
Matched(f) ==
  \A p \in Proc : child[p] # "crashed" =>
    /\ doing[p] # Nothing =>
         Same(doing[p], line[f[p][Len(out[p]) + 1]], objects)
    /\ \A k \in 1..Len(in[p]) :
         Same(in[p][k], line[f[p][Len(out[p]) + Busy(p) + k]], objects)

\* An object that is allocated or freed occurs once in the line.
Alone ==
  \A i \in 1..Len(line) :
    /\ (line[i].type = "alloc" => line[i].id \in Object /\ objects[line[i].id] = Unset)
    /\ (line[i].type = "free" => line[i].id \in Object /\ objects[line[i].id].ptr > 0)
    /\ \A j \in 1..Len(line) :
         line[i].type \in {"alloc", "free"} /\ line[j].id = line[i].id => j = i

\* A child in a call carries out the command the call belongs to.
InStep ==
  \A p \in Proc :
    /\ doing[p] # Nothing => child[p] = "run"
    /\ pc[p] # "idle" => doing[p].type = op[p] /\ doing[p].sz = arg[p]
    /\ pc[p] = "merge" => op[p] = "free"

\* Command k of p, a free, has not given up its block yet.
Undone(p, k) ==
  /\ ~(mpc = "dead" /\ child[p] = "crashed")
  /\ k > Len(out[p])
  /\ k = Len(out[p]) + 1 /\ doing[p] # Nothing => pc[p] \in {"wait", "clear"}

\* Block b is, or is on its way to become, that of object id: main has its handle
\* and no free of the line has been carried out; its allocation is answered but
\* not collected; or the child that allocates it has it.
Holds(f, id, b) ==
  \/ /\ b = objects[id] /\ b.ptr > 0
     /\ \A p \in Proc : \A k \in 1..Len(f[p]) :
          line[f[p][k]].type = "free" /\ line[f[p][k]].id = id => Undone(p, k)
  \/ \E p \in Proc : \E k \in 1..Len(out[p]) :
       /\ line[f[p][k]].type = "alloc" /\ line[f[p][k]].id = id
       /\ b = [ptr |-> out[p][k], size |-> line[f[p][k]].sz]
  \/ \E p \in Proc :
       /\ doing[p].type = "alloc" /\ doing[p].id = id
       /\ pc[p] \in {"post", "idle"} /\ res[p] # 0
       /\ b = [ptr |-> res[p], size |-> doing[p].sz]

\* What is held is allocated, and held once.
Claims(f) ==
  /\ \A id \in Object, b \in Block : Holds(f, id, b) => b \in live
  /\ \A i, j \in Object, b, c \in Block :
       Holds(f, i, b) /\ Holds(f, j, c) /\ b.ptr = c.ptr => i = j

Typed == /\ doing \in [Proc -> Doing]
         /\ child \in [Proc -> {"run", "exited", "crashed"}]
         /\ mpc \in {"send", "collect", "wait", "done", "dead"}

Keeps(f) ==
  /\ Typed /\ Placed(f) /\ Counted(f) /\ Matched(f)
  /\ Alone /\ InStep /\ Claims(f)

Places == [Proc -> Seq(Nat)]
HandleInv == Intact => \E f \in Places : Keeps(f)

\* What main holds and does not free is a live block of its own.
LEMMA KeptAreBlocks ==
  ASSUME RunnerInv, NEW f \in Places, Keeps(f), Intact
  PROVE  HandlesNameBlocks
<1> DEFINE kept == {id \in Object : objects[id].ptr > 0 /\ ~Freed(id)}
<1>1. ASSUME NEW id \in kept PROVE Holds(f, id, objects[id]) /\ objects[id] \in Block
  <2>1. objects[id] \in Block /\ objects[id].ptr > 0
    BY DEF RunnerInv, Block
  <2>2. ASSUME NEW p \in Proc, NEW k \in 1..Len(f[p])
        PROVE  ~(line[f[p][k]].type = "free" /\ line[f[p][k]].id = id)
    <3>1. f[p][k] \in 1..Len(line)
      BY DEF Keeps, Placed, Places
    <3>2. line[f[p][k]] \in ToSet(line)
      BY <3>1 DEF ToSet
    <3> QED BY <3>2 DEF Freed
  <2> QED BY <2>1, <2>2 DEF Holds
<1>2. ASSUME NEW id \in kept, NEW other \in kept \ {id}
      PROVE  objects[id] \in live /\ objects[other] # objects[id]
  BY <1>1, <1>2 DEF Keeps, Claims
<1>3. \A id \in kept : objects[id] \in live
  BY <1>1 DEF Keeps, Claims
<1> QED BY <1>2, <1>3 DEF HandlesNameBlocks

\* main has no handles and has sent nothing.
LEMMA InitHandles == RunnerInit => HandleInv
<1> SUFFICES ASSUME RunnerInit PROVE \E f \in Places : Keeps(f)
  BY DEF HandleInv
<1> DEFINE f == [p \in Proc |-> <<>>]
<1>1. f \in Places
  BY DEF Places
<1>2. Nothing.type = "none" /\ Nothing.sz = 0 /\ Nothing \in Doing
  BY DEF Nothing, Command, Doing
<1>3. Typed
  BY <1>2 DEF RunnerInit, Typed
<1>4. /\ Len(line) = 0 /\ \A p \in Proc : Len(f[p]) = 0 /\ Len(out[p]) = 0 /\ Len(in[p]) = 0
      /\ \A p \in Proc : doing[p] = Nothing /\ child[p] = "run"
      /\ \A id \in Object : objects[id] = [ptr |-> 0, size |-> 0]
      /\ \A p \in Proc : pc[p] = "idle"
  BY DEF RunnerInit, Init, Unset
<1> HIDE DEF f
<1>5. Placed(f) /\ Counted(f) /\ Matched(f) /\ Alone /\ InStep
  <2>1. Placed(f)
    BY <1>4 DEF Placed
  <2>2. Counted(f)
    <3>1. \A p \in Proc : Busy(p) = 0
      BY <1>4 DEF Busy
    <3>2. \A p \in Proc : Len(f[p]) = Len(out[p]) + Busy(p) + Len(in[p])
      <4> TAKE p \in Proc
      <4>1. Len(f[p]) = 0 /\ Len(out[p]) = 0 /\ Len(in[p]) = 0 /\ Busy(p) = 0
        BY <1>4, <3>1
      <4>2. 0 = 0 + 0 + 0
        OBVIOUS
      <4> QED BY ONLY <4>1, <4>2
    <3> QED BY <1>4, <3>2 DEF Counted
  <2>5. Matched(f)
    BY <1>4 DEF Matched
  <2>3. Alone
    BY <1>4 DEF Alone
  <2>4. InStep
    BY <1>4 DEF InStep
  <2> QED BY <2>1, <2>2, <2>3, <2>4, <2>5
<1>6. \A id \in Object, b \in Block : ~Holds(f, id, b)
  BY <1>4, <1>2 DEF Holds
<1> QED BY <1>1, <1>3, <1>5, <1>6 DEF Keeps, Claims

\* What is held after a step was held before, and nothing is freed.
LEMMA ClaimsKept ==
  ASSUME NEW f \in Places, NEW g \in Places, Claims(f), live' = live,
         \A id \in Object, b \in Block : Holds(g, id, b)' => Holds(f, id, b)
  PROVE  Claims(g)'
BY DEF Claims

\* main dies when it writes to a child that has died.
LEMMA SendToDead ==
  ASSUME RunnerInv, NEW f \in Places, Keeps(f),
         mpc' = "dead", mpc # "dead", UNCHANGED <<line, in, heapVars, out, doing, child, objects>>
  PROVE  Keeps(f)'
<1> USE DEF Keeps
<1>1. Typed' /\ Placed(f)' /\ Alone'
  BY DEF Typed, Placed, Alone
<1>2. Counted(f)' /\ Matched(f)'
  BY DEF Counted, Matched, Busy, Same
<1>3. InStep'
  BY DEF InStep, heapVars, call
<1>4. \A p \in Proc, k \in Nat : Undone(p, k)' => Undone(p, k)
  BY DEF Undone, heapVars
<1>5. ASSUME NEW id \in Object, NEW b \in Block, Holds(f, id, b)'
      PROVE  Holds(f, id, b)
  <2>1. \A p \in Proc : \A k \in 1..Len(f[p]) : k \in Nat
    OBVIOUS
  <2> QED BY <1>4, <1>5, <2>1 DEF Holds, heapVars
<1>6. Claims(f)'
  <2>1. live' = live
    BY DEF heapVars
  <2> QED BY <1>5, <2>1, ClaimsKept
<1> QED BY <1>1, <1>2, <1>3, <1>6

\* The commands a line may go on with.
LEMMA NextCommand ==
  ASSUME RunnerInv, NEW c \in Commands
  PROVE  /\ c \in CmdSet
         /\ c.type \in {"alloc", "free", "read"} => c.id \in Object
         /\ c.type \in {"connect", "disconnect"} => c.id = NoObject
         /\ c.type = "alloc" => objects[c.id] = Unset
         /\ c.type \in {"free", "read"} => objects[c.id].ptr > 0
         /\ c.type \in {"alloc", "free"} =>
              \A i \in 1..Len(line) : line[i].id # c.id
         /\ c.type = "read" =>
              \A i \in 1..Len(line) : line[i].id = c.id => line[i].type = "read"
<1>1. c \in CmdSet
  BY CommandsTyped DEF RunnerInv
<1>2. ToSet(line) = {line[i] : i \in 1..Len(line)}
  BY DEF ToSet, RunnerInv
<1>3. /\ c.type \in {"alloc", "free", "read"} => c.id \in Object
      /\ c.type \in {"connect", "disconnect"} => c.id = NoObject
      /\ c.type = "alloc" => objects[c.id] = Unset
      /\ c.type \in {"free", "read"} => objects[c.id].ptr > 0
  BY DEF Commands, Command
<1>4. /\ c.type \in {"alloc", "free"} => ~Mentioned(c.id)
      /\ c.type = "read" => ~Freed(c.id)
  BY DEF Commands, Command
<1>5. c.type \in {"alloc", "free"} => \A i \in 1..Len(line) : line[i].id # c.id
  BY <1>2, <1>4 DEF Mentioned
<1>6. c.type = "read" =>
        \A i \in 1..Len(line) : line[i].id = c.id => line[i].type = "read"
  BY <1>2, <1>4 DEF Freed
<1> QED BY <1>1, <1>3, <1>5, <1>6

\* Of the commands of a child, those answered, the one in hand and the others.
LEMMA SumOfParts ==
  \A a, b, c, d \in Nat :
    /\ a = b + c + d => a + 1 = b + c + (d + 1)
    /\ a = b + 1 + d => b + 1 \in 1..a
OBVIOUS

\* Every command in a pipe or in hand, and every answer, has a place in the line.
LEMMA Lengths ==
  ASSUME RunnerInv, NEW f \in Places, Counted(f), NEW p \in Proc
  PROVE  /\ Len(f[p]) \in Nat /\ Len(in[p]) \in Nat /\ Len(out[p]) \in Nat
         /\ Busy(p) \in Nat
         /\ \A k \in 1..Len(out[p]) : k \in 1..Len(f[p])
         /\ child[p] # "crashed" =>
              /\ doing[p] # Nothing => Len(out[p]) + 1 \in 1..Len(f[p])
              /\ \A k \in 1..Len(in[p]) : Len(out[p]) + Busy(p) + k \in 1..Len(f[p])
<1> DEFINE a == Len(out[p])
           e == Busy(p)
           z == Len(in[p])
           y == Len(f[p])
<1>1. a \in Nat /\ e \in Nat /\ z \in Nat /\ y \in Nat /\ (doing[p] # Nothing => e = 1)
  BY DEF RunnerInv, Places, Busy
<1>2. /\ child[p] = "crashed" => a <= y
      /\ child[p] # "crashed" => y = a + e + z
  BY DEF Counted
<1> HIDE DEF a, e, z, y
<1>3. a <= y
  BY <1>1, <1>2
<1>4. \A k \in 1..a : k \in 1..y
  BY <1>1, <1>3
<1>5. child[p] # "crashed" =>
        /\ doing[p] # Nothing => a + 1 \in 1..y
        /\ \A k \in 1..z : a + e + k \in 1..y
  BY <1>1, <1>2
<1> QED BY <1>1, <1>4, <1>5 DEF a, e, z, y

\* main sends one more command to a child that lives.
LEMMA SendKeeps ==
  ASSUME RunnerInv, TypeOK, NEW f \in Places, Keeps(f), Intact,
         NEW c \in Commands, MainSend(c), child[c.index] # "crashed"
  PROVE  \E g \in Places : Keeps(g)'
<1> USE DEF Keeps
<1> DEFINE q == c.index
           n == Len(line)
<1>1. c \in CmdSet /\ q \in Proc /\ n \in Nat
  <2>1. c \in CmdSet
    BY NextCommand
  <2>2. q \in Proc
    BY <2>1 DEF CmdSet
  <2> QED BY <2>1, <2>2 DEF RunnerInv
<1>2. PICK d \in CmdSet :
        /\ in' = [in EXCEPT ![q] = Append(@, d)]
        /\ d.type = c.type /\ d.id = c.id /\ d.index = q
        /\ (c.type = "alloc" => d.sz = c.sz)
        /\ (c.type = "free" => d.sz = objects[c.id].ptr)
  <2> DEFINE x == IF c.type = "free" THEN objects[c.id].ptr ELSE c.sz
  <2>1. x \in Nat
    BY <1>1, NextCommand DEF CmdSet, RunnerInv
  <2>2. in' = [in EXCEPT ![q] = Append(@, [c EXCEPT !.sz = x])]
    BY DEF MainSend
  <2> HIDE DEF x
  <2>3. [c EXCEPT !.sz = x] \in CmdSet \/ c.type = "alloc"
    BY <1>1, <2>1 DEF CmdSet
  <2>4. c.type = "alloc" => x = c.sz
    BY DEF x
  <2>5. [c EXCEPT !.sz = x] \in CmdSet
    BY <1>1, <2>3, <2>4 DEF CmdSet
  <2>6. c.type = "free" => x = objects[c.id].ptr
    BY DEF x
  <2>7. /\ [c EXCEPT !.sz = x].type = c.type /\ [c EXCEPT !.sz = x].id = c.id
        /\ [c EXCEPT !.sz = x].index = c.index /\ [c EXCEPT !.sz = x].sz = x
    BY <1>1 DEF CmdSet
  <2> QED BY <2>2, <2>4, <2>5, <2>6, <2>7
<1>3. /\ line' = Append(line, c) /\ UNCHANGED <<mpc, heapVars, out, doing, child, objects>>
  BY DEF MainSend
<1>4. PICK m \in Nat : m = n
  BY <1>1
<1>5. PICK g \in Places : g = [f EXCEPT ![q] = Append(@, m + 1)]
  <2>1. Append(f[q], m + 1) \in Seq(Nat)
    BY <1>1, AppendProperties DEF Places
  <2> QED BY <2>1 DEF Places
<1>6. /\ Len(line') = m + 1 /\ line'[m + 1] = c
      /\ \A i \in 1..m : line'[i] = line[i]
  BY <1>1, <1>3, <1>4 DEF RunnerInv
<1>7. /\ Len(in'[q]) = Len(in[q]) + 1 /\ in'[q][Len(in[q]) + 1] = d
      /\ \A i \in 1..Len(in[q]) : in'[q][i] = in[q][i]
  BY <1>1, <1>2 DEF RunnerInv
<1>8. \A p \in Proc : p # q => in'[p] = in[p] /\ g[p] = f[p]
  BY <1>2, <1>5 DEF RunnerInv, Places
<1>9. /\ Len(g[q]) = Len(f[q]) + 1 /\ g[q][Len(f[q]) + 1] = m + 1
      /\ \A k \in 1..Len(f[q]) : g[q][k] = f[q][k]
  BY <1>1, <1>5 DEF Places
<1>10. \A p \in Proc : /\ Len(f[p]) \in Nat /\ Len(in[p]) \in Nat /\ Len(out[p]) \in Nat
                       /\ Busy(p) \in Nat /\ Busy(p)' = Busy(p)
  BY <1>3, Lengths DEF Busy
<1>11. \A p \in Proc : \A k \in 1..Len(f[p]) : f[p][k] \in 1..m /\ line[f[p][k]].index = p
  BY <1>4 DEF Placed
<1>12. Placed(g)'
  <2>1. ASSUME NEW p \in Proc, NEW k \in 1..Len(g[p])
        PROVE  g[p][k] \in 1..Len(line') /\ line'[g[p][k]].index = p
    <3>1. CASE p # q
      BY <3>1, <1>6, <1>8, <1>11
    <3>2. CASE p = q /\ k = Len(f[q]) + 1
      BY <3>2, <1>6, <1>9
    <3>3. CASE p = q /\ k # Len(f[q]) + 1
      <4>1. k \in 1..Len(f[q])
        BY <3>3, <1>9, <1>10
      <4> QED BY <3>3, <4>1, <1>6, <1>9, <1>11
    <3> QED BY <3>1, <3>2, <3>3
  <2>2. ASSUME NEW p \in Proc, NEW j \in 1..Len(g[p]), NEW k \in 1..Len(g[p]), j < k
        PROVE  g[p][j] < g[p][k]
    <3>1. CASE p # q
      BY <3>1, <2>2, <1>8 DEF Placed
    <3>2. CASE p = q /\ k = Len(f[q]) + 1
      <4>1. j \in 1..Len(f[q])
        BY <2>2, <3>2, <1>9, <1>10
      <4> QED BY <3>2, <4>1, <1>9, <1>11
    <3>3. CASE p = q /\ k # Len(f[q]) + 1
      <4>1. k \in 1..Len(f[q]) /\ j \in 1..Len(f[q])
        BY <2>2, <3>3, <1>9, <1>10
      <4> QED BY <2>2, <3>3, <4>1, <1>9 DEF Placed
    <3> QED BY <3>1, <3>2, <3>3
  <2>3. ASSUME NEW i \in 1..Len(line')
        PROVE  \E k \in 1..Len(g[line'[i].index]) : g[line'[i].index][k] = i
    <3>1. CASE i = m + 1
      <4>1. Len(f[q]) + 1 \in 1..Len(g[q])
        BY <1>1, <1>9, <1>10
      <4> QED BY <3>1, <4>1, <1>6, <1>9
    <3>2. CASE i \in 1..m
      <4> DEFINE p == line[i].index
      <4>1. PICK k \in 1..Len(f[p]) : f[p][k] = i
        BY <3>2, <1>4 DEF Placed
      <4>2. p \in Proc
        BY <3>2, <1>4 DEF RunnerInv, CmdSet
      <4>3. k \in 1..Len(g[p]) /\ g[p][k] = i
        <5> HIDE DEF p
        <5>1. CASE p # q
          <6>1. g[p] = f[p]
            BY <4>2, <5>1, <1>8
          <6> QED BY <4>1, <6>1
        <5>2. CASE p = q
          <6>1. Len(f[q]) \in Nat /\ Len(g[q]) = Len(f[q]) + 1 /\ k \in 1..Len(f[q])
            BY <4>1, <5>2, <1>1, <1>9, <1>10
          <6>2. k \in 1..Len(g[q])
            BY ONLY <6>1
          <6>3. g[q][k] = f[q][k]
            BY <6>1, <1>9
          <6> QED BY <4>1, <5>2, <6>2, <6>3
        <5> QED BY <5>1, <5>2
      <4> QED BY <3>2, <4>3, <1>6
    <3> QED BY <3>1, <3>2, <1>6
  <2> QED BY <2>1, <2>2, <2>3 DEF Placed
<1>13. Counted(g)'
  <2> SUFFICES ASSUME NEW p \in Proc
               PROVE  /\ child'[p] = "crashed" => Len(out'[p]) <= Len(g[p])
                      /\ child'[p] # "crashed" => Len(g[p]) = Len(out'[p]) + Busy(p)' + Len(in'[p])
    BY DEF Counted
  <2>1. /\ child[p] = "crashed" => Len(out[p]) <= Len(f[p])
        /\ child[p] # "crashed" => Len(f[p]) = Len(out[p]) + Busy(p) + Len(in[p])
    BY DEF Counted
  <2>2. CASE p # q
    BY <2>1, <2>2, <1>3, <1>8, <1>10
  <2>3. CASE p = q
    <3>1. /\ Len(g[q]) = Len(f[q]) + 1 /\ Len(in'[q]) = Len(in[q]) + 1
          /\ child' = child /\ out' = out /\ Busy(q)' = Busy(q)
      BY <1>1, <1>3, <1>7, <1>9, <1>10
    <3>2. Len(f[q]) = Len(out[q]) + Busy(q) + Len(in[q])
      BY <2>1, <2>3
    <3>3. Len(g[q]) = Len(out[q]) + Busy(q) + (Len(in[q]) + 1)
      <4>1. Len(f[q]) \in Nat /\ Len(in[q]) \in Nat /\ Len(out[q]) \in Nat /\ Busy(q) \in Nat
        BY <1>1, <1>10
      <4> DEFINE a == Len(f[q])  b == Len(out[q])  e == Busy(q)  h == Len(in[q])
      <4>2. a \in Nat /\ b \in Nat /\ e \in Nat /\ h \in Nat /\ a = b + e + h
        BY <4>1, <3>2
      <4> HIDE DEF a, b, e, h
      <4>3. a + 1 = b + e + (h + 1)
        BY <4>2
      <4> QED BY <4>3, <3>1 DEF a, b, e, h
    <3> QED BY <2>3, <3>1, <3>3
  <2> QED BY <2>2, <2>3
<1>14. \A p \in Proc : \A j \in 1..Len(f[p]) : line'[g[p][j]] = line[f[p][j]]
  <2> SUFFICES ASSUME NEW p \in Proc, NEW j \in 1..Len(f[p])
               PROVE  line'[g[p][j]] = line[f[p][j]]
    OBVIOUS
  <2>1. g[p][j] = f[p][j]
    BY <1>8, <1>9
  <2>2. line'[f[p][j]] = line[f[p][j]]
    BY <1>6, <1>11
  <2> QED BY <2>1, <2>2
<1>15. Matched(g)'
  <2>1. ASSUME NEW p \in Proc, child[p] # "crashed", doing[p] # Nothing
        PROVE  Same(doing'[p], line'[g[p][Len(out'[p]) + 1]], objects')
    <3>1. Same(doing[p], line[f[p][Len(out[p]) + 1]], objects)
      BY <2>1 DEF Matched
    <3>2. Len(out[p]) + 1 \in 1..Len(f[p])
      BY <2>1, Lengths
    <3> QED BY <3>1, <3>2, <1>3, <1>14 DEF Same
  <2>2. ASSUME NEW p \in Proc, child[p] # "crashed", NEW k \in 1..Len(in[p])
        PROVE  /\ Same(in[p][k], line[f[p][Len(out[p]) + Busy(p) + k]], objects)
               /\ Len(out[p]) + Busy(p) + k \in 1..Len(f[p])
    <3>2. Len(out[p]) + Busy(p) + k \in 1..Len(f[p])
      BY <2>2, Lengths
    <3> QED BY <2>2, <3>2 DEF Matched
  <2>3. ASSUME NEW p \in Proc, child[p] # "crashed", NEW k \in 1..Len(in'[p])
        PROVE  Same(in'[p][k], line'[g[p][Len(out'[p]) + Busy(p)' + k]], objects')
    <3>1. CASE p = q /\ k = Len(in[q]) + 1
      <4>1. Len(out[q]) + Busy(q) + k = Len(f[q]) + 1
        <5>1. Len(f[q]) = Len(out[q]) + Busy(q) + Len(in[q])
          BY <2>3, <3>1, <1>1 DEF Counted
        <5>2. Len(in[q]) \in Nat /\ Len(out[q]) \in Nat /\ Busy(q) \in Nat
          BY <1>1, <1>10
        <5> QED BY ONLY <3>1, <5>1, <5>2
      <4>2. in'[p][k] = d /\ line'[g[p][Len(out'[p]) + Busy(p)' + k]] = c
        <5>1. in'[p][k] = d
          BY <3>1, <1>7
        <5>2. out'[q] = out[q] /\ Busy(q)' = Busy(q)
          BY <1>1, <1>3, <1>10
        <5>3. g[q][Len(out'[q]) + Busy(q)' + k] = m + 1
          BY <4>1, <5>2, <1>9
        <5> QED BY <5>1, <5>3, <3>1, <1>6
      <4>3. Same(d, c, objects)
        BY <1>2 DEF Same
      <4> QED BY <4>2, <4>3, <1>3 DEF Same
    <3>2. CASE ~(p = q /\ k = Len(in[q]) + 1)
      <4>1. k \in 1..Len(in[p]) /\ in'[p][k] = in[p][k]
        <5>1. CASE p # q
          BY <5>1, <2>3, <1>8
        <5>2. CASE p = q
          <6>1. Len(in'[p]) = Len(in[p]) + 1 /\ Len(in[p]) \in Nat /\ k # Len(in[p]) + 1
            BY <5>2, <3>2, <1>7, <1>10
          <6>2. k \in 1..Len(in[p])
            BY <6>1, <2>3, Z3
          <6> QED BY <5>2, <6>2, <1>7
        <5> QED BY <5>1, <5>2
      <4>2. line'[g[p][Len(out'[p]) + Busy(p)' + k]] = line[f[p][Len(out[p]) + Busy(p) + k]]
        BY <2>2, <2>3, <4>1, <1>3, <1>10, <1>14
      <4> QED BY <2>2, <2>3, <4>1, <4>2, <1>3 DEF Same
    <3> QED BY <3>1, <3>2
  <2> QED BY <2>1, <2>3, <1>3 DEF Matched
<1>16. Alone'
  <2>1. ASSUME NEW i \in 1..m
        PROVE  /\ line'[i].type = "alloc" => line'[i].id \in Object /\ objects[line'[i].id] = Unset
               /\ line'[i].type = "free" => line'[i].id \in Object /\ objects[line'[i].id].ptr > 0
               /\ \A j \in 1..m : line'[i].type \in {"alloc", "free"} /\ line'[j].id = line'[i].id => j = i
               /\ line'[i].type \in {"alloc", "free"} => c.id # line[i].id
    <3>1. line'[i] = line[i] /\ \A j \in 1..m : line'[j] = line[j]
      BY <1>6
    <3>2. /\ line[i].type = "alloc" => line[i].id \in Object /\ objects[line[i].id] = Unset
          /\ line[i].type = "free" => line[i].id \in Object /\ objects[line[i].id].ptr > 0
          /\ \A j \in 1..m : line[i].type \in {"alloc", "free"} /\ line[j].id = line[i].id => j = i
      BY <1>4 DEF Alone
    <3>3. line[i].type \in {"alloc", "free"} => c.id # line[i].id
      <4>1. \A id \in Object : id # NoObject
        BY RunnerAssumption DEF Object, NoObject
      <4>2. Unset.ptr = 0
        BY DEF Unset
      <4>3. c.type \in {"alloc", "free", "read", "connect", "disconnect"}
        BY <1>1 DEF CmdSet
      <4> QED BY <3>2, <4>1, <4>2, <4>3, <1>4, NextCommand
    <3> QED BY <3>1, <3>2, <3>3
  <2>2. /\ c.type = "alloc" => c.id \in Object /\ objects[c.id] = Unset
        /\ c.type = "free" => c.id \in Object /\ objects[c.id].ptr > 0
        /\ \A j \in 1..m : c.type \in {"alloc", "free"} => line'[j].id # c.id
    BY <1>4, <1>6, NextCommand
  <2>3. \A i \in 1..Len(line') : i \in 1..m \/ i = m + 1
    BY <1>6
  <2>4. \A i \in 1..m : line'[i] = line[i]
    BY <1>6
  <2> QED BY <2>1, <2>2, <2>3, <2>4, <1>3, <1>6 DEF Alone
<1>17. InStep'
  BY <1>3 DEF InStep, heapVars, call
<1>18. \A p \in Proc, k \in Nat : Undone(p, k)' <=> Undone(p, k)
  BY <1>3 DEF Undone, heapVars
<1>19. \A p \in Proc : \A k \in 1..Len(out[p]) : /\ k \in 1..Len(f[p])
                                                 /\ line'[g[p][k]] = line[f[p][k]]
  <2> SUFFICES ASSUME NEW p \in Proc, NEW k \in 1..Len(out[p])
               PROVE  k \in 1..Len(f[p]) /\ line'[g[p][k]] = line[f[p][k]]
    OBVIOUS
  <2>3. k \in 1..Len(f[p])
    BY Lengths
  <2> QED BY <2>3, <1>14
<1>20. ASSUME NEW id \in Object, NEW b \in Block, Holds(g, id, b)'
       PROVE  Holds(f, id, b)
  <2>1. CASE /\ b = objects'[id] /\ b.ptr > 0
             /\ \A p \in Proc : \A k \in 1..Len(g[p]) :
                  line'[g[p][k]].type = "free" /\ line'[g[p][k]].id = id => Undone(p, k)'
    <3>1. ASSUME NEW p \in Proc, NEW k \in 1..Len(f[p]),
                 line[f[p][k]].type = "free", line[f[p][k]].id = id
          PROVE  Undone(p, k)
      <4>1. line'[g[p][k]] = line[f[p][k]]
        BY <1>14
      <4>2. k \in 1..Len(g[p])
        BY <1>8, <1>9, <1>10
      <4>3. Undone(p, k)'
        BY <2>1, <3>1, <4>1, <4>2
      <4> QED BY <4>3, <1>18
    <3> QED BY <2>1, <3>1, <1>3 DEF Holds
  <2>2. CASE \E p \in Proc : \E k \in 1..Len(out'[p]) :
               /\ line'[g[p][k]].type = "alloc" /\ line'[g[p][k]].id = id
               /\ b = [ptr |-> out'[p][k], size |-> line'[g[p][k]].sz]
    <3>1. out' = out
      BY <1>3
    <3>2. PICK p \in Proc : \E k \in 1..Len(out[p]) :
                 /\ line'[g[p][k]].type = "alloc" /\ line'[g[p][k]].id = id
                 /\ b = [ptr |-> out[p][k], size |-> line'[g[p][k]].sz]
      BY <2>2, <3>1
    <3>3. PICK k \in 1..Len(out[p]) :
                 /\ line'[g[p][k]].type = "alloc" /\ line'[g[p][k]].id = id
                 /\ b = [ptr |-> out[p][k], size |-> line'[g[p][k]].sz]
      BY <3>2
    <3>4. line'[g[p][k]] = line[f[p][k]]
      BY <1>19
    <3>5. /\ line[f[p][k]].type = "alloc" /\ line[f[p][k]].id = id
          /\ b = [ptr |-> out[p][k], size |-> line[f[p][k]].sz]
      BY <3>3, <3>4
    <3> QED BY <3>5 DEF Holds
  <2>3. CASE \E p \in Proc :
               /\ doing'[p].type = "alloc" /\ doing'[p].id = id
               /\ pc'[p] \in {"post", "idle"} /\ res'[p] # 0
               /\ b = [ptr |-> res'[p], size |-> doing'[p].sz]
    BY <2>3, <1>3 DEF Holds, heapVars
  <2> QED BY <1>20, <2>1, <2>2, <2>3 DEF Holds
<1>21. Claims(g)'
  <2>1. live' = live
    BY <1>3 DEF heapVars
  <2> QED BY <1>20, <2>1, ClaimsKept
<1>22. Typed'
  BY <1>3 DEF Typed
<1> QED BY <1>12, <1>13, <1>15, <1>16, <1>17, <1>21, <1>22

\* The first command of the line is the first one of its child.
LEMMA PopLine ==
  ASSUME RunnerInv, NEW f \in Places, Placed(f), line # <<>>, line' = Tail(line)
  PROVE  LET q == line[1].index
         IN \E g \in Places :
              /\ Placed(g)'
              /\ q \in Proc /\ 1 \in 1..Len(f[q]) /\ f[q][1] = 1
              /\ \A p \in Proc : p # q =>
                   /\ Len(g[p]) = Len(f[p])
                   /\ \A k \in 1..Len(f[p]) : /\ line'[g[p][k]] = line[f[p][k]]
                                              /\ f[p][k] # 1
              /\ Len(g[q]) = Len(f[q]) - 1
              /\ \A k \in 1..Len(g[q]) : /\ k + 1 \in 1..Len(f[q])
                                         /\ line'[g[q][k]] = line[f[q][k + 1]]
                                         /\ f[q][k + 1] # 1
<1> DEFINE q == line[1].index
<1>1. PICK n \in Nat : n = Len(line) /\ n > 0
  <2>1. Len(line) \in Nat /\ Len(line) > 0
    BY DEF RunnerInv
  <2> QED BY <2>1
<1>2. /\ Len(line') = n - 1
      /\ \A i \in 1..(n - 1) : line'[i] = line[i + 1]
  BY <1>1 DEF RunnerInv
<1>3. \A i \in 1..n : line[i] \in CmdSet /\ line[i].index \in Proc
  <2>1. \A i \in 1..n : line[i] \in CmdSet
    BY <1>1 DEF RunnerInv
  <2> QED BY <2>1 DEF CmdSet
<1>4. q \in Proc
  BY <1>1, <1>3
<1>5. \A p \in Proc : /\ Len(f[p]) \in Nat
                      /\ \A k \in 1..Len(f[p]) : f[p][k] \in 1..n /\ line[f[p][k]].index = p
                      /\ \A j, k \in 1..Len(f[p]) : j < k => f[p][j] < f[p][k]
  BY <1>1 DEF Placed, Places
<1>6. \A i \in 1..n : \E k \in 1..Len(f[line[i].index]) : f[line[i].index][k] = i
  BY <1>1 DEF Placed
<1>7. 1 \in 1..Len(f[q]) /\ f[q][1] = 1
  <2>1. PICK k \in 1..Len(f[q]) : f[q][k] = 1
    <3>1. 1 \in 1..n
      BY <1>1
    <3> QED BY <3>1, <1>6
  <2>2. 1 \in 1..Len(f[q])
    BY <2>1, <1>4, <1>5
  <2>3. f[q][1] \in 1..n /\ (1 < k => f[q][1] < 1)
    BY <2>1, <2>2, <1>4, <1>5
  <2> QED BY <2>1, <2>2, <2>3
<1>8. \A p \in Proc : \A k \in 1..Len(f[p]) : p # q => f[p][k] \in 2..n
  BY <1>1, <1>5
<1>9. \A k \in 1..Len(f[q]) : k # 1 => f[q][k] \in 2..n
  <2> SUFFICES ASSUME NEW k \in 1..Len(f[q]), k # 1 PROVE f[q][k] \in 2..n
    OBVIOUS
  <2>1. 1 < k
    OBVIOUS
  <2>2. f[q][1] < f[q][k] /\ f[q][k] \in 1..n
    BY <2>1, <1>4, <1>5, <1>7
  <2> QED BY <2>2, <1>7
<1>10. PICK s \in [Proc -> {0, 1}] : s = [p \in Proc |-> IF p = q THEN 1 ELSE 0]
  OBVIOUS
<1>11. PICK g \in Places : g = [p \in Proc |-> [k \in 1..(Len(f[p]) - s[p]) |-> f[p][k + s[p]] - 1]]
  <2>1. ASSUME NEW p \in Proc
        PROVE  [k \in 1..(Len(f[p]) - s[p]) |-> f[p][k + s[p]] - 1] \in Seq(Nat)
    <3>1. Len(f[p]) - s[p] \in Nat
      BY <1>5, <1>7, <1>10
    <3>2. \A k \in 1..(Len(f[p]) - s[p]) : f[p][k + s[p]] - 1 \in Nat
      BY <1>5, <1>10
    <3> DEFINE l == Len(f[p]) - s[p]
               e(k) == f[p][k + s[p]] - 1
    <3>3. l \in Nat /\ \A k \in 1..l : e(k) \in Nat
      BY <3>1, <3>2
    <3> HIDE DEF l, e
    <3>4. [k \in 1..l |-> e(k)] \in Seq(Nat)
      BY <3>3
    <3> QED BY <3>4 DEF l, e
  <2> QED BY <2>1 DEF Places
<1>12. \A p \in Proc : /\ Len(g[p]) = Len(f[p]) - s[p]
                       /\ \A k \in 1..Len(g[p]) : g[p][k] = f[p][k + s[p]] - 1
  <2> SUFFICES ASSUME NEW p \in Proc
               PROVE  /\ Len(g[p]) = Len(f[p]) - s[p]
                      /\ \A k \in 1..Len(g[p]) : g[p][k] = f[p][k + s[p]] - 1
    OBVIOUS
  <2>1. g[p] = [k \in 1..(Len(f[p]) - s[p]) |-> f[p][k + s[p]] - 1]
    BY <1>11
  <2>2. Len(f[p]) - s[p] \in Nat
    BY <1>5, <1>7, <1>10
  <2> QED BY <2>1, <2>2
<1>13. \A p \in Proc : \A k \in 1..Len(g[p]) :
         /\ k + s[p] \in 1..Len(f[p]) /\ f[p][k + s[p]] \in 2..n
  <2> SUFFICES ASSUME NEW p \in Proc, NEW k \in 1..Len(g[p])
               PROVE  k + s[p] \in 1..Len(f[p]) /\ f[p][k + s[p]] \in 2..n
    OBVIOUS
  <2>1. k + s[p] \in 1..Len(f[p])
    <3>1. Len(g[p]) = Len(f[p]) - s[p] /\ Len(f[p]) \in Nat /\ s[p] \in {0, 1}
      BY <1>5, <1>10, <1>12
    <3> DEFINE a == Len(f[p])  b == Len(g[p])  e == s[p]
    <3>2. b = a - e /\ a \in Nat /\ e \in {0, 1} /\ k \in 1..b
      BY <3>1
    <3> HIDE DEF a, b, e
    <3>3. k + e \in 1..a
      BY <3>2
    <3> QED BY <3>3 DEF a, e
  <2>2. CASE p = q
    BY <2>1, <2>2, <1>9, <1>10
  <2>3. CASE p # q
    BY <2>1, <2>3, <1>8
  <2> QED BY <2>1, <2>2, <2>3
<1>14. \A p \in Proc : \A k \in 1..Len(g[p]) : /\ g[p][k] \in 1..(n - 1)
                                              /\ line'[g[p][k]] = line[f[p][k + s[p]]]
  <2> SUFFICES ASSUME NEW p \in Proc, NEW k \in 1..Len(g[p])
               PROVE  g[p][k] \in 1..(n - 1) /\ line'[g[p][k]] = line[f[p][k + s[p]]]
    OBVIOUS
  <2>1. f[p][k + s[p]] \in 2..n /\ g[p][k] = f[p][k + s[p]] - 1
    BY <1>12, <1>13
  <2>2. g[p][k] \in 1..(n - 1) /\ g[p][k] + 1 = f[p][k + s[p]]
    BY <2>1
  <2> QED BY <2>2, <1>2
<1>15. Placed(g)'
  <2>1. ASSUME NEW p \in Proc, NEW k \in 1..Len(g[p])
        PROVE  g[p][k] \in 1..Len(line') /\ line'[g[p][k]].index = p
    <3>1. k + s[p] \in 1..Len(f[p]) /\ line'[g[p][k]] = line[f[p][k + s[p]]]
      BY <1>13, <1>14
    <3>2. line[f[p][k + s[p]]].index = p
      BY <3>1, <1>5
    <3> QED BY <3>1, <3>2, <1>2, <1>14
  <2>2. ASSUME NEW p \in Proc, NEW j \in 1..Len(g[p]), NEW k \in 1..Len(g[p]), j < k
        PROVE  g[p][j] < g[p][k]
    <3>1. j + s[p] < k + s[p]
      BY <2>2, <1>10
    <3>2. f[p][j + s[p]] < f[p][k + s[p]]
      BY <3>1, <1>5, <1>13
    <3>3. /\ g[p][j] = f[p][j + s[p]] - 1 /\ g[p][k] = f[p][k + s[p]] - 1
          /\ f[p][j + s[p]] \in 2..n /\ f[p][k + s[p]] \in 2..n
      BY <1>12, <1>13
    <3> DEFINE a == f[p][j + s[p]]  b == f[p][k + s[p]]
    <3>4. a \in 2..n /\ b \in 2..n /\ a < b
      BY <3>2, <3>3
    <3> HIDE DEF a, b
    <3>5. a - 1 < b - 1
      BY <3>4
    <3> QED BY <3>3, <3>5 DEF a, b
  <2>3. ASSUME NEW i \in 1..Len(line')
        PROVE  \E k \in 1..Len(g[line'[i].index]) : g[line'[i].index][k] = i
    <3>1. i + 1 \in 1..n /\ line'[i] = line[i + 1]
      BY <1>2
    <3> DEFINE p == line[i + 1].index
    <3>2. p \in Proc
      BY <3>1, <1>3
    <3>3. PICK j \in 1..Len(f[p]) : f[p][j] = i + 1
      BY <3>1, <1>6
    <3>4. p = q => j # 1
      BY <3>3, <1>7
    <3>5. j - s[p] \in 1..Len(g[p])
      <4>1. /\ Len(g[p]) = Len(f[p]) - s[p] /\ Len(f[p]) \in Nat
            /\ (p = q => s[p] = 1) /\ (p # q => s[p] = 0)
        BY <3>2, <1>5, <1>10, <1>12
      <4>2. CASE p = q
        <5> DEFINE a == Len(f[p])  b == Len(g[p])  e == s[p]
        <5>1. a \in Nat /\ b = a - e /\ e = 1
          BY <4>1, <4>2
        <5>2. j \in 1..a /\ j # 1
          BY <3>3, <3>4, <4>2
        <5> HIDE DEF a, b, e
        <5>3. j - e \in 1..b
          BY <5>1, <5>2
        <5> QED BY <5>3 DEF a, b, e
      <4>3. CASE p # q
        BY <4>1, <4>3
      <4> QED BY <4>2, <4>3
    <3>6. g[p][j - s[p]] = i
      <4>1. (j - s[p]) + s[p] = j
        BY <3>2, <1>10
      <4>2. g[p][j - s[p]] = f[p][(j - s[p]) + s[p]] - 1
        BY <3>2, <3>5, <1>12
      <4>3. f[p][(j - s[p]) + s[p]] = i + 1
        BY <3>3, <4>1
      <4> QED BY <4>2, <4>3
    <3> QED BY <3>1, <3>5, <3>6
  <2> QED BY <2>1, <2>2, <2>3 DEF Placed
<1>16. \A p \in Proc : p # q => /\ Len(g[p]) = Len(f[p])
                               /\ \A k \in 1..Len(f[p]) : /\ line'[g[p][k]] = line[f[p][k]]
                                                          /\ f[p][k] # 1
  <2> SUFFICES ASSUME NEW p \in Proc, p # q
               PROVE  /\ Len(g[p]) = Len(f[p])
                      /\ \A k \in 1..Len(f[p]) : line'[g[p][k]] = line[f[p][k]] /\ f[p][k] # 1
    OBVIOUS
  <2>1. s[p] = 0
    BY <1>10
  <2>2. Len(g[p]) = Len(f[p])
    BY <2>1, <1>5, <1>12
  <2>3. \A k \in 1..Len(f[p]) : k + s[p] = k
    BY <2>1
  <2>4. ASSUME NEW k \in 1..Len(f[p])
        PROVE  line'[g[p][k]] = line[f[p][k]] /\ f[p][k] # 1
    <3>1. line'[g[p][k]] = line[f[p][k + s[p]]]
      BY <2>2, <1>14
    <3>2. f[p][k] \in 2..n
      BY <1>8
    <3>3. \A i \in 2..n : i # 1
      OBVIOUS
    <3>4. k + s[p] = k
      BY <2>3
    <3> QED BY <3>1, <3>2, <3>3, <3>4
  <2> QED BY <2>2, <2>4
<1>17. /\ Len(g[q]) = Len(f[q]) - 1
       /\ \A k \in 1..Len(g[q]) : /\ k + 1 \in 1..Len(f[q])
                                  /\ line'[g[q][k]] = line[f[q][k + 1]]
                                  /\ f[q][k + 1] # 1
  <2>1. s[q] = 1
    BY <1>4, <1>10
  <2>2. ASSUME NEW k \in 1..Len(g[q])
        PROVE  k + 1 \in 1..Len(f[q]) /\ line'[g[q][k]] = line[f[q][k + 1]] /\ f[q][k + 1] # 1
    <3>1. /\ k + s[q] \in 1..Len(f[q]) /\ f[q][k + s[q]] \in 2..n
          /\ line'[g[q][k]] = line[f[q][k + s[q]]]
      BY <1>4, <1>13, <1>14
    <3>2. k + s[q] = k + 1
      BY <2>1
    <3>3. f[q][k + 1] \in 2..n /\ k + 1 \in 1..Len(f[q]) /\ line'[g[q][k]] = line[f[q][k + 1]]
      BY <3>1, <3>2
    <3>4. \A i \in 2..n : i # 1
      OBVIOUS
    <3> QED BY <3>3, <3>4
  <2> QED BY <2>1, <2>2, <1>4, <1>12
<1> QED BY <1>4, <1>7, <1>15, <1>16, <1>17

\* Only the object of the command that leaves the line has changed.
LEMMA PopAlone ==
  ASSUME RunnerInv, Alone, line # <<>>, line' = Tail(line),
         \A id \in Object : id # line[1].id => objects'[id] = objects[id],
         line[1].type \notin {"alloc", "free"} => objects' = objects
  PROVE  /\ Alone'
         /\ \A i \in 1..Len(line) :
              i # 1 /\ line[i].type \in {"alloc", "free"}
                => objects'[line[i].id] = objects[line[i].id]
<1>1. PICK n \in Nat : n = Len(line) /\ n > 0
  <2>1. Len(line) \in Nat /\ Len(line) > 0
    BY DEF RunnerInv
  <2> QED BY <2>1
<1>2. /\ Len(line') = n - 1
      /\ \A i \in 1..(n - 1) : line'[i] = line[i + 1]
  BY <1>1 DEF RunnerInv
<1>3. \A i \in 1..n :
        /\ line[i].type = "alloc" => line[i].id \in Object /\ objects[line[i].id] = Unset
        /\ line[i].type = "free" => line[i].id \in Object /\ objects[line[i].id].ptr > 0
        /\ \A j \in 1..n : line[i].type \in {"alloc", "free"} /\ line[j].id = line[i].id => j = i
  BY <1>1 DEF Alone
<1>4. 1 \in 1..n
  BY <1>1
<1>5. ASSUME NEW i \in 1..n, i # 1, line[i].type \in {"alloc", "free"}
      PROVE  objects'[line[i].id] = objects[line[i].id]
  <2>1. line[i].id # line[1].id /\ line[i].id \in Object
    BY <1>3, <1>4, <1>5
  <2> QED BY <2>1
<1>6. ASSUME NEW i \in 1..(n - 1)
      PROVE  /\ line'[i].type = "alloc" => line'[i].id \in Object /\ objects'[line'[i].id] = Unset
             /\ line'[i].type = "free" => line'[i].id \in Object /\ objects'[line'[i].id].ptr > 0
             /\ \A j \in 1..(n - 1) : line'[i].type \in {"alloc", "free"} /\ line'[j].id = line'[i].id => j = i
  <2>1. i + 1 \in 1..n /\ i + 1 # 1 /\ line'[i] = line[i + 1]
    BY <1>2
  <2>2. line[i + 1].type \in {"alloc", "free"} => objects'[line[i + 1].id] = objects[line[i + 1].id]
    BY <2>1, <1>5
  <2>3. ASSUME NEW j \in 1..(n - 1), line'[i].type \in {"alloc", "free"}, line'[j].id = line'[i].id
        PROVE  j = i
    <3>1. j + 1 \in 1..n /\ line'[j] = line[j + 1]
      BY <1>2
    <3>2. j + 1 = i + 1
      BY <2>1, <2>3, <3>1, <1>3
    <3> QED BY <3>2
  <2> QED BY <2>1, <2>2, <2>3, <1>3
<1>7. Alone'
  BY <1>2, <1>6 DEF Alone
<1> QED BY <1>1, <1>5, <1>7

\* The first command of the line gets the first answer of its child.
LEMMA CollectKeeps ==
  ASSUME RunnerInv, TypeOK, NEW f \in Places, Keeps(f), Intact, MainCollect
  PROVE  \E g \in Places : Keeps(g)'
<1> USE DEF Keeps
<1>0. PICK c, q : c = line[1] /\ q = line[1].index
  OBVIOUS
<1>1. /\ mpc = "collect" /\ mpc' \in {"send", "collect"} /\ out[q] # <<>>
      /\ objects' = Recorded(c, out[q][1]) /\ out' = [out EXCEPT ![q] = Tail(@)]
      /\ line' = Tail(line) /\ UNCHANGED <<heapVars, in, doing, child>> /\ line # <<>>
  <2>1. line # <<>>
    BY DEF MainCollect, RunnerInv
  <2>2. Head(line) = line[1]
    BY <2>1 DEF RunnerInv
  <2>3. out[q] # <<>> => Head(out[q]) = out[q][1]
    OBVIOUS
  <2> QED BY <1>0, <2>1, <2>2, <2>3 DEF MainCollect, Answered
<1>2. PICK g \in Places :
        /\ Placed(g)'
        /\ q \in Proc /\ 1 \in 1..Len(f[q]) /\ f[q][1] = 1
        /\ \A p \in Proc : p # q =>
             /\ Len(g[p]) = Len(f[p])
             /\ \A k \in 1..Len(f[p]) : /\ line'[g[p][k]] = line[f[p][k]]
                                        /\ f[p][k] # 1
        /\ Len(g[q]) = Len(f[q]) - 1
        /\ \A k \in 1..Len(g[q]) : /\ k + 1 \in 1..Len(f[q])
                                   /\ line'[g[q][k]] = line[f[q][k + 1]]
                                   /\ f[q][k + 1] # 1
  BY <1>0, <1>1, PopLine
<1>3. \A p \in Proc : /\ Len(f[p]) \in Nat /\ Len(in[p]) \in Nat /\ Len(out[p]) \in Nat
                      /\ Busy(p) \in Nat /\ Busy(p)' = Busy(p)
                      /\ \A k \in 1..Len(f[p]) : f[p][k] \in 1..Len(line)
  BY <1>1 DEF Places, RunnerInv, Busy, Placed
<1>4. PICK b \in Nat : b + 1 = Len(out[q]) /\ Len(out'[q]) = b
                       /\ \A k \in 1..b : out'[q][k] = out[q][k + 1]
  <2>1. out[q] \in Seq(Nat) /\ out'[q] = Tail(out[q])
    BY <1>1, <1>2 DEF RunnerInv
  <2>2. Len(out[q]) \in Nat /\ Len(out[q]) > 0
    BY <2>1, <1>1
  <2>3. Len(out'[q]) = Len(out[q]) - 1 /\ \A k \in 1..(Len(out[q]) - 1) : out'[q][k] = out[q][k + 1]
    BY <2>1, <1>1
  <2> DEFINE b == Len(out[q]) - 1
  <2>4. b \in Nat /\ b + 1 = Len(out[q])
    BY <2>2
  <2>5. Len(out'[q]) = b /\ \A k \in 1..b : out'[q][k] = out[q][k + 1]
    BY <2>3
  <2> HIDE DEF b
  <2> QED BY <2>4, <2>5
<1>5. \A p \in Proc : p # q => out'[p] = out[p]
  BY <1>1 DEF RunnerInv
<1>6. 1 \in 1..Len(line) /\ c \in CmdSet
  <2>1. Len(line) \in Nat /\ Len(line) > 0
    BY <1>1 DEF RunnerInv
  <2> QED BY <1>0, <2>1 DEF RunnerInv
<1>7. /\ c.type = "alloc" => c.id \in Object
      /\ c.type = "free" => c.id \in Object
  BY <1>0, <1>6 DEF Alone
<1>8. /\ \A id \in Object : id # c.id => objects'[id] = objects[id]
      /\ c.type \notin {"alloc", "free"} => objects' = objects
      /\ c.type = "alloc" => objects'[c.id] = [ptr |-> out[q][1], size |-> c.sz]
      /\ c.type = "free" => objects'[c.id] = Unset
  BY <1>1, <1>7 DEF Recorded, RunnerInv
<1>9. /\ Alone'
      /\ \A i \in 1..Len(line) :
           i # 1 /\ line[i].type \in {"alloc", "free"}
             => objects'[line[i].id] = objects[line[i].id]
  BY <1>0, <1>1, <1>8, PopAlone
<1>10. Counted(g)'
  <2> SUFFICES ASSUME NEW p \in Proc
               PROVE  /\ child'[p] = "crashed" => Len(out'[p]) <= Len(g[p])
                      /\ child'[p] # "crashed" => Len(g[p]) = Len(out'[p]) + Busy(p)' + Len(in'[p])
    BY DEF Counted
  <2>1. /\ child[p] = "crashed" => Len(out[p]) <= Len(f[p])
        /\ child[p] # "crashed" => Len(f[p]) = Len(out[p]) + Busy(p) + Len(in[p])
    BY DEF Counted
  <2>2. CASE p # q
    BY <2>1, <2>2, <1>1, <1>2, <1>3, <1>5
  <2>3. CASE p = q
    <3> DEFINE x == Len(f[q])
               y == Busy(q)
               z == Len(in[q])
    <3>1. x \in Nat /\ y \in Nat /\ z \in Nat
      BY <1>2, <1>3
    <3>2. /\ child[q] = "crashed" => b + 1 <= x
          /\ child[q] # "crashed" => x = (b + 1) + y + z
      BY <2>1, <2>3, <1>4
    <3>3. /\ child[q] = "crashed" => b <= x - 1
          /\ child[q] # "crashed" => x - 1 = b + y + z
      <4> HIDE DEF x, y, z
      <4> QED BY <3>1, <3>2
    <3>4. child' = child /\ in' = in
      BY <1>1
    <3>6. Busy(q)' = Busy(q)
      BY <1>2, <1>3
    <3>5. Len(out'[q]) = b /\ Len(g[q]) = x - 1
      BY <1>2, <1>4
    <3>7. /\ child'[q] = "crashed" => Len(out'[q]) <= Len(g[q])
          /\ child'[q] # "crashed" => Len(g[q]) = Len(out'[q]) + Busy(q)' + Len(in'[q])
      <4>1. CASE child[q] = "crashed"
        BY <4>1, <3>3, <3>4, <3>5
      <4>2. CASE child[q] # "crashed"
        <5>1. Len(g[q]) = b + Busy(q) + Len(in[q])
          BY <4>2, <3>3, <3>5
        <5> QED BY <4>2, <5>1, <3>4, <3>5, <3>6
      <4> QED BY <4>1, <4>2
    <3> QED BY <2>3, <3>7
  <2> QED BY <2>2, <2>3
<1>11. \A p \in Proc : child[p] # "crashed" => Len(out[p]) + Busy(p) + Len(in[p]) = Len(f[p])
  BY DEF Counted
<1>12. ASSUME NEW p \in Proc, NEW j \in Nat, NEW i \in Nat,
              p # q => i = j, p = q => i = j + 1,
              i \in 1..Len(f[p]), j > 0,
              NEW x, Same(x, line[f[p][i]], objects)
       PROVE  Same(x, line'[g[p][j]], objects')
  <2>1. line'[g[p][j]] = line[f[p][i]] /\ f[p][i] # 1 /\ f[p][i] \in 1..Len(line)
    <3>1. CASE p # q
      BY <3>1, <1>2, <1>3, <1>12
    <3>2. CASE p = q
      <4>1. j \in 1..Len(g[q])
        <5> DEFINE a == Len(f[q])
        <5>1. a \in Nat /\ j + 1 \in 1..a /\ Len(g[q]) = a - 1
          BY <3>2, <1>2, <1>3, <1>12
        <5> HIDE DEF a
        <5> QED BY <5>1, <1>12
      <4> QED BY <3>2, <4>1, <1>2, <1>3, <1>12
    <3> QED BY <3>1, <3>2
  <2>2. x.type = "free" => objects'[x.id] = objects[x.id]
    <3>1. x.type = line[f[p][i]].type /\ x.id = line[f[p][i]].id
      BY <1>12 DEF Same
    <3> QED BY <2>1, <3>1, <1>9
  <2> QED BY <2>1, <2>2, <1>12 DEF Same
<1>13. \A p \in Proc : \A y \in Nat :
         /\ p # q => Len(out'[p]) + y = Len(out[p]) + y
         /\ p = q => Len(out[p]) + y = (Len(out'[p]) + y) + 1
         /\ Len(out'[p]) + y \in Nat /\ Len(out[p]) + y \in Nat
         /\ y > 0 => Len(out'[p]) + y > 0
  <2> TAKE p \in Proc
  <2> TAKE y \in Nat
  <2>1. CASE p # q
    <3>1. out'[p] = out[p] /\ Len(out[p]) \in Nat
      BY <2>1, <1>3, <1>5
    <3> QED BY <2>1, <3>1
  <2>2. CASE p = q
    <3> DEFINE a == Len(out[q])
    <3>1. a = b + 1 /\ Len(out'[q]) = b
      BY <1>4
    <3> HIDE DEF a
    <3>2. a + y = (b + y) + 1 /\ b + y \in Nat /\ a + y \in Nat /\ (y > 0 => b + y > 0)
      BY <3>1
    <3> QED BY <2>2, <3>1, <3>2 DEF a
  <2> QED BY <2>1, <2>2
<1>14. Matched(g)'
  <2>1. ASSUME NEW p \in Proc, child[p] # "crashed", doing[p] # Nothing
        PROVE  Same(doing'[p], line'[g[p][Len(out'[p]) + 1]], objects')
    <3>1. Same(doing[p], line[f[p][Len(out[p]) + 1]], objects)
      BY <2>1 DEF Matched
    <3>2. Len(out[p]) + 1 \in 1..Len(f[p])
      BY <2>1, Lengths
    <3>3. Same(doing[p], line'[g[p][Len(out'[p]) + 1]], objects')
      <4> DEFINE i == Len(out[p]) + 1
                 j == Len(out'[p]) + 1
      <4>1. i \in Nat /\ j \in Nat /\ (p # q => i = j) /\ (p = q => i = j + 1) /\ j > 0
        BY <1>13
      <4>2. Same(doing[p], line[f[p][i]], objects) /\ i \in 1..Len(f[p])
        BY <3>1, <3>2
      <4> HIDE DEF i, j
      <4>3. Same(doing[p], line'[g[p][j]], objects')
        BY <4>1, <4>2, <1>12
      <4> QED BY <4>3 DEF j
    <3> QED BY <3>3, <1>1
  <2>2. ASSUME NEW p \in Proc, child[p] # "crashed", NEW k \in 1..Len(in[p])
        PROVE  Same(in'[p][k], line'[g[p][Len(out'[p]) + Busy(p)' + k]], objects')
    <3>1. Same(in[p][k], line[f[p][Len(out[p]) + Busy(p) + k]], objects)
      BY <2>2 DEF Matched
    <3> DEFINE a == Len(out[p])
               e == Busy(p)
               z == Len(in[p])
               o == Len(out'[p])
    <3>2. e + k \in Nat /\ a \in Nat /\ e \in Nat /\ z \in Nat /\ a + e + z = Len(f[p]) /\ e + k > 0
      BY <2>2, <1>3, <1>11
    <3> DEFINE x == e + k
    <3>3. x \in Nat /\ x > 0 /\ x <= e + z
      <4> HIDE DEF a, e, o
      <4> QED BY <2>2, <3>2 DEF z
    <3> DEFINE i == a + x
               j == o + x
    <3>4. i \in Nat /\ j \in Nat /\ (p # q => i = j) /\ (p = q => i = j + 1) /\ j > 0
      <4> HIDE DEF x
      <4> QED BY <3>3, <1>13
    <3>5. i \in 1..Len(f[p])
      <4> HIDE DEF a, e, z, o, x
      <4>1. a + x >= 1 /\ a + x <= a + e + z
        BY <3>2, <3>3
      <4> QED BY <4>1, <3>2, <3>3
    <3>6. a + e + k = i
      <4> HIDE DEF a, e, o
      <4> QED BY <3>2
    <3>7. o + e + k = j
      <4>1. o \in Nat
        <5>1. Len(out'[p]) + 0 \in Nat
          BY <1>13
        <5> QED BY <5>1, <1>3, <1>4, <1>5
      <4> HIDE DEF a, e, o
      <4> QED BY <3>2, <4>1
    <3>8. Same(in[p][k], line[f[p][i]], objects)
      <4> HIDE DEF i, j, x
      <4> QED BY <3>1, <3>6
    <3> HIDE DEF i, j, x
    <3>9. Same(in[p][k], line'[g[p][j]], objects')
      BY <3>4, <3>5, <3>8, <1>12
    <3>10. Same(in[p][k], line'[g[p][Len(out'[p]) + Busy(p) + k]], objects')
      BY <3>7, <3>9
    <3>11. in' = in /\ Busy(p)' = Busy(p)
      BY <1>1, <1>3
    <3> QED BY <3>10, <3>11
  <2> QED BY <2>1, <2>2, <1>1 DEF Matched
<1>15. Typed' /\ InStep'
  BY <1>1 DEF Typed, InStep, heapVars, call
<1>16. \A p \in Proc, k \in Nat : Undone(p, k)' => Undone(p, k) \/ p = q
  BY <1>1, <1>5 DEF Undone, heapVars
<1>16a. \A k \in Nat : Undone(q, k)' => Undone(q, k + 1)
  <2> TAKE k \in Nat
  <2> DEFINE a == Len(out[q])
  <2>1. a = b + 1 /\ Len(out'[q]) = b
    BY <1>4
  <2> HIDE DEF a
  <2>2. /\ k > b => k + 1 > a
        /\ k + 1 = a + 1 => k = b + 1
    BY <2>1
  <2> QED BY <1>1, <2>1, <2>2 DEF Undone, heapVars, a
<1>17. \A p \in Proc : \A k \in 1..Len(f[p]) : f[p][k] = 1 <=> p = q /\ k = 1
  <2> SUFFICES ASSUME NEW p \in Proc, NEW k \in 1..Len(f[p]), f[p][k] = 1 PROVE p = q /\ k = 1
    BY <1>2
  <2>1. p = q
    BY <1>2
  <2>2. \A j \in 1..Len(f[q]) : 1 < j => f[q][1] < f[q][j]
    BY <1>2 DEF Placed
  <2>3. ~(1 < k)
    BY <2>1, <2>2, <1>2
  <2> QED BY <2>1, <2>3
<1>18. \A p \in Proc : \A k \in 1..Len(out'[p]) :
         /\ p # q => /\ k \in 1..Len(out[p]) /\ out'[p][k] = out[p][k]
                     /\ line'[g[p][k]] = line[f[p][k]]
         /\ p = q => /\ k + 1 \in 1..Len(out[p]) /\ out'[p][k] = out[p][k + 1]
                     /\ line'[g[p][k]] = line[f[p][k + 1]]
  <2> TAKE p \in Proc
  <2> TAKE k \in 1..Len(out'[p])
  <2>1. CASE p # q
    <3>1. out'[p] = out[p] /\ k \in 1..Len(out[p])
      BY <2>1, <1>5
    <3>3. k \in 1..Len(f[p])
      BY <3>1, Lengths
    <3> QED BY <2>1, <3>1, <3>3, <1>2
  <2>2. CASE p = q
    <3> DEFINE a == Len(out[q])
               y == Len(g[q])
    <3>1. a = b + 1 /\ k \in 1..b /\ y \in Nat /\ b <= y
      <4>1. y \in Nat
        BY <1>2 DEF Places
      <4>2. b <= Len(g[q])
        <5>1. /\ child'[q] = "crashed" => Len(out'[q]) <= Len(g[q])
              /\ child'[q] # "crashed" => Len(g[q]) = Len(out'[q]) + Busy(q)' + Len(in'[q])
          BY <1>2, <1>10 DEF Counted
        <5>2. Busy(q)' \in Nat /\ Len(in'[q]) \in Nat /\ Len(out'[q]) = b
          BY <1>1, <1>2, <1>3, <1>4
        <5> DEFINE e == Busy(q)'  z == Len(in'[q])
        <5>3. CASE child'[q] = "crashed"
          BY <5>1, <5>2, <5>3
        <5>4. CASE child'[q] # "crashed"
          <6>1. y = b + e + z /\ e \in Nat /\ z \in Nat
            BY <5>1, <5>2, <5>4
          <6> HIDE DEF e, z, y
          <6>2. b <= y
            BY <6>1
          <6> QED BY <6>2 DEF y
        <5> QED BY <5>3, <5>4
      <4> QED BY <2>2, <4>1, <4>2, <1>4
    <3> HIDE DEF a, y
    <3>2. k + 1 \in 1..a /\ k \in 1..y /\ k \in 1..b
      BY <3>1
    <3> QED BY <2>2, <3>2, <1>2, <1>4 DEF a, y
  <2> QED BY <2>1, <2>2
<1>19. ASSUME NEW id \in Object, NEW x \in Block, Holds(g, id, x)'
       PROVE  Holds(f, id, x)
  <2>1. CASE /\ x = objects'[id] /\ x.ptr > 0
             /\ \A p \in Proc : \A k \in 1..Len(g[p]) :
                  line'[g[p][k]].type = "free" /\ line'[g[p][k]].id = id => Undone(p, k)'
    <3>1. CASE id = c.id /\ c.type = "alloc"
      <4>1. x = [ptr |-> out[q][1], size |-> c.sz]
        BY <2>1, <3>1, <1>8
      <4>2. line[f[q][1]] = c /\ 1 \in 1..Len(out[q])
        BY <1>0, <1>2, <1>4
      <4> QED BY <3>1, <4>1, <4>2, <1>2 DEF Holds
    <3>2. CASE id = c.id /\ c.type = "free"
      BY <2>1, <3>2, <1>8 DEF Unset
    <3>3. CASE ~(id = c.id /\ c.type \in {"alloc", "free"})
      <4>1. x = objects[id]
        BY <2>1, <3>3, <1>8
      <4>2. ASSUME NEW p \in Proc, NEW k \in 1..Len(f[p]),
                   line[f[p][k]].type = "free", line[f[p][k]].id = id
            PROVE  Undone(p, k)
        <5>1. f[p][k] # 1
          BY <4>2, <3>3, <1>0
        <5>2. CASE p # q
          <6>1. k \in 1..Len(g[p]) /\ line'[g[p][k]] = line[f[p][k]]
            BY <5>2, <1>2
          <6>2. Undone(p, k)' /\ k \in Nat
            BY <6>1, <4>2, <2>1
          <6> QED BY <6>2, <5>2, <1>16
        <5>3. CASE p = q
          <6>1. k # 1
            BY <5>1, <5>3, <1>2
          <6>2. PICK j \in Nat : j + 1 = k /\ j \in 1..Len(g[q])
            <7> DEFINE a == Len(f[q])
            <7>1. a \in Nat /\ k \in 1..a /\ k # 1 /\ Len(g[q]) = a - 1
              BY <4>2, <5>3, <6>1, <1>2, <1>3
            <7> HIDE DEF a
            <7>2. k - 1 \in Nat /\ (k - 1) + 1 = k /\ k - 1 \in 1..(a - 1)
              BY <7>1
            <7> QED BY <7>1, <7>2
          <6>3. line'[g[q][j]] = line[f[q][k]]
            BY <6>2, <1>2
          <6>4. Undone(q, j)'
            BY <6>2, <6>3, <4>2, <5>3, <2>1, <1>2
          <6>5. Undone(q, j + 1)
            BY <6>2, <6>4, <1>2, <1>16a
          <6> QED BY <6>2, <6>5, <5>3
        <5> QED BY <5>2, <5>3
      <4> QED BY <2>1, <4>1, <4>2 DEF Holds
    <3> QED BY <3>1, <3>2, <3>3
  <2>2. CASE \E p \in Proc : \E k \in 1..Len(out'[p]) :
               /\ line'[g[p][k]].type = "alloc" /\ line'[g[p][k]].id = id
               /\ x = [ptr |-> out'[p][k], size |-> line'[g[p][k]].sz]
    <3>0. PICK p \in Proc : \E k \in 1..Len(out'[p]) :
            /\ line'[g[p][k]].type = "alloc" /\ line'[g[p][k]].id = id
            /\ x = [ptr |-> out'[p][k], size |-> line'[g[p][k]].sz]
      BY <2>2
    <3>1. PICK k \in 1..Len(out'[p]) :
            /\ line'[g[p][k]].type = "alloc" /\ line'[g[p][k]].id = id
            /\ x = [ptr |-> out'[p][k], size |-> line'[g[p][k]].sz]
      BY <3>0
    <3>2. CASE p # q
      <4>1. /\ k \in 1..Len(out[p]) /\ out'[p][k] = out[p][k]
            /\ line'[g[p][k]] = line[f[p][k]]
        BY <3>2, <1>18
      <4> QED BY <3>1, <4>1 DEF Holds
    <3>3. CASE p = q
      <4>1. /\ k + 1 \in 1..Len(out[q]) /\ out'[q][k] = out[q][k + 1]
            /\ line'[g[q][k]] = line[f[q][k + 1]]
        BY <3>3, <1>18
      <4> QED BY <3>1, <3>3, <4>1, <1>2 DEF Holds
    <3> QED BY <3>2, <3>3
  <2>3. CASE \E p \in Proc :
               /\ doing'[p].type = "alloc" /\ doing'[p].id = id
               /\ pc'[p] \in {"post", "idle"} /\ res'[p] # 0
               /\ x = [ptr |-> res'[p], size |-> doing'[p].sz]
    BY <2>3, <1>1 DEF Holds, heapVars
  <2> QED BY <1>19, <2>1, <2>2, <2>3 DEF Holds
<1>20. Claims(g)'
  <2>1. live' = live
    BY <1>1 DEF heapVars
  <2> QED BY <1>19, <2>1, ClaimsKept
<1> QED BY <1>2, <1>9, <1>10, <1>14, <1>15, <1>20

\* The commands of a child that has died are never carried out.
LEMMA CollectNothingKeeps ==
  ASSUME RunnerInv, TypeOK, NEW f \in Places, Keeps(f), Intact, MainCollectNothing
  PROVE  \E g \in Places : Keeps(g)'
<1> USE DEF Keeps
<1>0. PICK c, q : c = line[1] /\ q = line[1].index
  OBVIOUS
<1>1. /\ mpc = "collect" /\ mpc' \in {"send", "collect"} /\ out[q] = <<>> /\ child[q] = "crashed"
      /\ objects' = IF c.type = "alloc"
                    THEN [objects EXCEPT ![c.id] = [ptr |-> 0, size |-> c.sz]] ELSE objects
      /\ line' = Tail(line) /\ UNCHANGED <<heapVars, in, out, doing, child>> /\ line # <<>>
  <2>1. line # <<>>
    BY DEF MainCollectNothing, RunnerInv
  <2>2. Head(line) = line[1]
    BY <2>1 DEF RunnerInv
  <2> QED BY <1>0, <2>1, <2>2 DEF MainCollectNothing, Answered, pipes
<1>2. PICK g \in Places :
        /\ Placed(g)'
        /\ q \in Proc /\ 1 \in 1..Len(f[q]) /\ f[q][1] = 1
        /\ \A p \in Proc : p # q =>
             /\ Len(g[p]) = Len(f[p])
             /\ \A k \in 1..Len(f[p]) : /\ line'[g[p][k]] = line[f[p][k]]
                                        /\ f[p][k] # 1
        /\ Len(g[q]) = Len(f[q]) - 1
        /\ \A k \in 1..Len(g[q]) : /\ k + 1 \in 1..Len(f[q])
                                   /\ line'[g[q][k]] = line[f[q][k + 1]]
                                   /\ f[q][k + 1] # 1
  BY <1>0, <1>1, PopLine
<1>3. /\ Len(out[q]) = 0 /\ doing[q] = Nothing
      /\ \A p \in Proc : /\ Len(f[p]) \in Nat /\ Len(in[p]) \in Nat /\ Len(out[p]) \in Nat
                         /\ Busy(p) \in Nat /\ Busy(p)' = Busy(p)
                         /\ \A k \in 1..Len(f[p]) : f[p][k] \in 1..Len(line)
  <2>1. Len(out[q]) = 0
    BY <1>1
  <2>2. doing[q] = Nothing
    BY <1>1, <1>2 DEF InStep
  <2>3. \A p \in Proc : Busy(p)' = Busy(p)
    BY <1>1 DEF Busy
  <2>4. \A p \in Proc : \A k \in 1..Len(f[p]) : f[p][k] \in 1..Len(line)
    BY DEF Placed
  <2> QED BY <2>1, <2>2, <2>3, <2>4, Lengths
<1>4. 1 \in 1..Len(line) /\ c \in CmdSet
  <2>1. Len(line) \in Nat /\ Len(line) > 0
    BY <1>1 DEF RunnerInv
  <2> QED BY <1>0, <2>1 DEF RunnerInv
<1>5. c.type = "alloc" => c.id \in Object
  BY <1>0, <1>4 DEF Alone
<1>6. /\ \A id \in Object : id # c.id => objects'[id] = objects[id]
      /\ c.type # "alloc" => objects' = objects
      /\ c.type = "alloc" => objects'[c.id].ptr = 0
  BY <1>1, <1>5 DEF RunnerInv
<1>7. /\ Alone'
      /\ \A i \in 1..Len(line) :
           i # 1 /\ line[i].type \in {"alloc", "free"}
             => objects'[line[i].id] = objects[line[i].id]
  BY <1>0, <1>1, <1>6, PopAlone
<1>8. Counted(g)'
  <2>1. ASSUME NEW p \in Proc, p # q
        PROVE  /\ child'[p] = "crashed" => Len(out'[p]) <= Len(g[p])
               /\ child'[p] # "crashed" => Len(g[p]) = Len(out'[p]) + Busy(p)' + Len(in'[p])
    BY <2>1, <1>1, <1>2, <1>3 DEF Counted
  <2>2. child'[q] = "crashed" /\ Len(out'[q]) <= Len(g[q])
    <3>1. Len(g[q]) \in Nat
      BY <1>2 DEF Places
    <3> QED BY <3>1, <1>1, <1>3
  <2> QED BY <2>1, <2>2 DEF Counted
<1>9. ASSUME NEW p \in Proc, p # q, NEW i \in 1..Len(f[p]), NEW x, Same(x, line[f[p][i]], objects)
      PROVE  Same(x, line'[g[p][i]], objects')
  <2>1. line'[g[p][i]] = line[f[p][i]] /\ f[p][i] # 1 /\ f[p][i] \in 1..Len(line)
    BY <1>2, <1>3, <1>9
  <2>2. x.type = "free" => objects'[x.id] = objects[x.id]
    <3>1. x.type = line[f[p][i]].type /\ x.id = line[f[p][i]].id
      BY <1>9 DEF Same
    <3> QED BY <2>1, <3>1, <1>7
  <2> QED BY <2>1, <2>2, <1>9 DEF Same
<1>10. Matched(g)'
  <2>1. ASSUME NEW p \in Proc, child[p] # "crashed", doing[p] # Nothing
        PROVE  Same(doing'[p], line'[g[p][Len(out'[p]) + 1]], objects')
    <3>1. Same(doing[p], line[f[p][Len(out[p]) + 1]], objects) /\ p # q
      BY <2>1, <1>1 DEF Matched
    <3>2. Len(out[p]) + 1 \in 1..Len(f[p])
      BY <2>1, Lengths
    <3> QED BY <3>1, <3>2, <1>1, <1>9
  <2>2. ASSUME NEW p \in Proc, child[p] # "crashed", NEW k \in 1..Len(in[p])
        PROVE  Same(in'[p][k], line'[g[p][Len(out'[p]) + Busy(p)' + k]], objects')
    <3>1. Same(in[p][k], line[f[p][Len(out[p]) + Busy(p) + k]], objects) /\ p # q
      BY <2>2, <1>1 DEF Matched
    <3>2. Len(out[p]) + Busy(p) + k \in 1..Len(f[p])
      BY <2>2, Lengths
    <3>3. Same(in[p][k], line'[g[p][Len(out[p]) + Busy(p) + k]], objects')
      <4> DEFINE i == Len(out[p]) + Busy(p) + k
      <4>1. i \in 1..Len(f[p]) /\ Same(in[p][k], line[f[p][i]], objects)
        BY <3>1, <3>2
      <4> HIDE DEF i
      <4>2. Same(in[p][k], line'[g[p][i]], objects')
        BY <3>1, <4>1, <1>9
      <4> QED BY <4>2 DEF i
    <3>4. in' = in /\ out' = out /\ Busy(p)' = Busy(p)
      BY <1>1, <1>3
    <3> QED BY <3>3, <3>4
  <2> QED BY <2>1, <2>2, <1>1 DEF Matched
<1>11. Typed' /\ InStep'
  BY <1>1 DEF Typed, InStep, heapVars, call
<1>12. \A p \in Proc, k \in Nat : Undone(p, k)' => Undone(p, k)
  BY <1>1 DEF Undone, heapVars
<1>13. \A k \in 1..Len(f[q]) : Undone(q, k)
  <2> TAKE k \in 1..Len(f[q])
  <2>1. k > 0
    OBVIOUS
  <2> QED BY <2>1, <1>1, <1>3 DEF Undone
<1>14. ASSUME NEW id \in Object, NEW x \in Block, Holds(g, id, x)'
       PROVE  Holds(f, id, x)
  <2>1. CASE /\ x = objects'[id] /\ x.ptr > 0
             /\ \A p \in Proc : \A k \in 1..Len(g[p]) :
                  line'[g[p][k]].type = "free" /\ line'[g[p][k]].id = id => Undone(p, k)'
    <3>1. x = objects[id]
      BY <2>1, <1>6
    <3>2. ASSUME NEW p \in Proc, NEW k \in 1..Len(f[p]),
                 line[f[p][k]].type = "free", line[f[p][k]].id = id
          PROVE  Undone(p, k)
      <4>1. CASE p # q
        <5>1. k \in 1..Len(g[p]) /\ line'[g[p][k]] = line[f[p][k]]
          BY <4>1, <1>2
        <5>2. Undone(p, k)' /\ k \in Nat
          BY <5>1, <3>2, <2>1
        <5> QED BY <5>2, <1>12
      <4>2. CASE p = q
        BY <4>2, <1>13
      <4> QED BY <4>1, <4>2
    <3> QED BY <2>1, <3>1, <3>2 DEF Holds
  <2>2. CASE \E p \in Proc : \E k \in 1..Len(out'[p]) :
               /\ line'[g[p][k]].type = "alloc" /\ line'[g[p][k]].id = id
               /\ x = [ptr |-> out'[p][k], size |-> line'[g[p][k]].sz]
    <3>0. PICK p \in Proc : \E k \in 1..Len(out'[p]) :
            /\ line'[g[p][k]].type = "alloc" /\ line'[g[p][k]].id = id
            /\ x = [ptr |-> out'[p][k], size |-> line'[g[p][k]].sz]
      BY <2>2
    <3>1. PICK k \in 1..Len(out'[p]) :
            /\ line'[g[p][k]].type = "alloc" /\ line'[g[p][k]].id = id
            /\ x = [ptr |-> out'[p][k], size |-> line'[g[p][k]].sz]
      BY <3>0
    <3>2. p # q /\ k \in 1..Len(out[p])
      BY <1>1, <1>3
    <3>3. k \in 1..Len(f[p])
      BY <3>2, Lengths
    <3> QED BY <3>1, <3>2, <3>3, <1>1, <1>2 DEF Holds
  <2>3. CASE \E p \in Proc :
               /\ doing'[p].type = "alloc" /\ doing'[p].id = id
               /\ pc'[p] \in {"post", "idle"} /\ res'[p] # 0
               /\ x = [ptr |-> res'[p], size |-> doing'[p].sz]
    BY <2>3, <1>1 DEF Holds, heapVars
  <2> QED BY <1>14, <2>1, <2>2, <2>3 DEF Holds
<1>15. Claims(g)'
  <2>1. live' = live
    BY <1>1 DEF heapVars
  <2> QED BY <1>14, <2>1, ClaimsKept
<1> QED BY <1>2, <1>7, <1>8, <1>10, <1>11, <1>15

\* A child that carries out nothing is not in a call.
LEMMA NoCall ==
  ASSUME TypeOK, InStep, NEW p \in Proc, doing[p].type \notin {"alloc", "free"}
  PROVE  pc[p] = "idle"
BY DEF TypeOK, InStep

\* A child takes the first command of its pipe.
LEMMA TakeKeeps ==
  ASSUME RunnerInv, TypeOK, NEW f \in Places, Keeps(f), Intact,
         NEW p \in Proc, Take(p)
  PROVE  Keeps(f)'
<1> USE DEF Keeps
<1>0. PICK c \in CmdSet : c = in[p][1] /\ in[p] # <<>>
  BY DEF Take, RunnerInv
<1>1. /\ child[p] = "run" /\ doing[p] = Nothing
      /\ doing' = [doing EXCEPT ![p] = c] /\ in' = [in EXCEPT ![p] = Tail(@)]
      /\ UNCHANGED <<mpc, line, out, child, objects, live, res>>
  BY <1>0 DEF Take, CallAlloc, CallFree, Call, RunnerInv, heapVars
<1>2. /\ pc[p] = "idle" /\ \A q \in Proc : q # p => pc'[q] = pc[q] /\ op'[q] = op[q] /\ arg'[q] = arg[q]
      /\ c.type \in {"alloc", "free"} => pc'[p] = "wait" /\ op'[p] = c.type /\ arg'[p] = c.sz
      /\ c.type \notin {"alloc", "free"} => pc'[p] = "idle"
  <2>1. pc[p] = "idle"
    BY <1>1, NoCall DEF Nothing, Command
  <2>2. CASE c.type = "alloc"
    <3>1. CallAlloc(p, c.sz)
      BY <1>0, <2>2 DEF Take, RunnerInv
    <3> QED BY <2>1, <2>2, <3>1 DEF CallAlloc, Call, TypeOK
  <2>3. CASE c.type = "free"
    <3>1. PICK b \in live : b.ptr = c.sz /\ CallFree(p, b)
      BY <1>0, <2>3 DEF Take, RunnerInv
    <3> QED BY <2>1, <2>3, <3>1 DEF CallFree, Call, TypeOK
  <2>4. CASE c.type \notin {"alloc", "free"}
    <3>1. UNCHANGED heapVars
      BY <1>0, <2>4 DEF Take, RunnerInv
    <3> QED BY <2>1, <2>4, <3>1 DEF heapVars, call
  <2> QED BY <2>2, <2>3, <2>4
<1>3. PICK b \in Nat : /\ b + 1 = Len(in[p]) /\ Len(in'[p]) = b
                       /\ \A k \in 1..b : in'[p][k] = in[p][k + 1]
  <2>1. in[p] \in Seq(CmdSet) /\ in'[p] = Tail(in[p])
    BY <1>1 DEF RunnerInv
  <2>2. Len(in[p]) \in Nat /\ Len(in[p]) > 0
    BY <2>1, <1>0
  <2>3. Len(in'[p]) = Len(in[p]) - 1 /\ \A k \in 1..(Len(in[p]) - 1) : in'[p][k] = in[p][k + 1]
    BY <2>1, <1>0
  <2> DEFINE b == Len(in[p]) - 1
  <2>4. b \in Nat /\ b + 1 = Len(in[p])
    BY <2>2
  <2>5. Len(in'[p]) = b /\ \A k \in 1..b : in'[p][k] = in[p][k + 1]
    BY <2>3
  <2> HIDE DEF b
  <2> QED BY <2>4, <2>5
<1>4. /\ Busy(p) = 0 /\ Busy(p)' = 1 /\ c # Nothing
      /\ \A q \in Proc : q # p => Busy(q)' = Busy(q) /\ in'[q] = in[q] /\ doing'[q] = doing[q]
  <2>1. c # Nothing
    BY DEF CmdSet, Nothing, Command
  <2> QED BY <2>1, <1>1 DEF Busy, Typed, RunnerInv
<1>5. Placed(f)' /\ Alone'
  BY <1>1 DEF Placed, Alone
<1>6. Counted(f)'
  <2>1. ASSUME NEW q \in Proc, q # p
        PROVE  /\ child'[q] = "crashed" => Len(out'[q]) <= Len(f[q])
               /\ child'[q] # "crashed" => Len(f[q]) = Len(out'[q]) + Busy(q)' + Len(in'[q])
    <3>1. Busy(q)' = Busy(q) /\ in'[q] = in[q]
      BY <2>1, <1>4
    <3> QED BY <3>1, <1>1 DEF Counted
  <2>2. child'[p] # "crashed" /\ Len(f[p]) = Len(out'[p]) + Busy(p)' + Len(in'[p])
    <3> DEFINE a == Len(out[p])
               y == Len(f[p])
    <3>1. a \in Nat /\ y = a + 0 + (b + 1)
      BY <1>1, <1>3, <1>4, Lengths DEF Counted
    <3> HIDE DEF a, y
    <3>2. y = a + 1 + b
      BY <3>1
    <3> QED BY <3>2, <1>1, <1>3, <1>4 DEF a, y
  <2> QED BY <2>1, <2>2 DEF Counted
<1>7. Matched(f)'
  <2>1. ASSUME NEW q \in Proc, q # p, child[q] # "crashed"
        PROVE  /\ doing'[q] # Nothing => Same(doing'[q], line'[f[q][Len(out'[q]) + 1]], objects')
               /\ \A k \in 1..Len(in'[q]) :
                    Same(in'[q][k], line'[f[q][Len(out'[q]) + Busy(q)' + k]], objects')
    <3>1. Busy(q)' = Busy(q) /\ in'[q] = in[q] /\ doing'[q] = doing[q]
      BY <2>1, <1>4
    <3> QED BY <2>1, <3>1, <1>1 DEF Matched
  <2> DEFINE a == Len(out[p])
  <2>2. a \in Nat /\ \A k \in 1..Len(in[p]) : Same(in[p][k], line[f[p][a + 0 + k]], objects)
    BY <1>1, <1>4, Lengths DEF Matched
  <2>3. \A k \in 1..(b + 1) : Same(in[p][k], line[f[p][a + k]], objects)
    <3>1. \A k \in 1..(b + 1) : a + 0 + k = a + k
      <4> HIDE DEF a
      <4> QED BY <2>2
    <3> QED BY <2>2, <3>1, <1>3
  <2>4. Same(c, line[f[p][a + 1]], objects)
    <3>1. 1 \in 1..(b + 1)
      OBVIOUS
    <3> QED BY <2>3, <3>1, <1>0
  <2>5. ASSUME NEW k \in 1..b PROVE Same(in'[p][k], line[f[p][a + 1 + k]], objects)
    <3>1. k + 1 \in 1..(b + 1) /\ a + 1 + k = a + (k + 1)
      <4> HIDE DEF a
      <4> QED BY <2>2
    <3> QED BY <2>3, <3>1, <1>3
  <2>6. /\ Same(doing'[p], line'[f[p][Len(out'[p]) + 1]], objects')
        /\ \A k \in 1..Len(in'[p]) :
             Same(in'[p][k], line'[f[p][Len(out'[p]) + Busy(p)' + k]], objects')
    <3>1. doing'[p] = c /\ Busy(p)' = 1 /\ Len(in'[p]) = b
      BY <1>1, <1>3, <1>4 DEF Typed
    <3>2. line' = line /\ out' = out /\ objects' = objects
      BY <1>1
    <3> QED BY <2>4, <2>5, <3>1, <3>2
  <2> QED BY <2>1, <2>6, <1>1 DEF Matched
<1>8. Typed'
  BY <1>1 DEF Typed, Doing
<1>9. InStep'
  BY <1>1, <1>2, <1>4 DEF InStep, Typed
<1>10. \A q \in Proc, k \in Nat : Undone(q, k)' => Undone(q, k)
  BY <1>1, <1>2, <1>4 DEF Undone
<1>11. ASSUME NEW id \in Object, NEW x \in Block, Holds(f, id, x)'
       PROVE  Holds(f, id, x)
  <2>1. \A q \in Proc : \A k \in 1..Len(f[q]) : k \in Nat
    OBVIOUS
  <2>2. \A q \in Proc : doing'[q].type = "alloc" /\ pc'[q] \in {"post", "idle"}
                          => doing'[q] = doing[q] /\ pc'[q] = pc[q]
    BY <1>1, <1>2, <1>4 DEF Typed
  <2> QED BY <1>1, <1>10, <1>11, <2>1, <2>2 DEF Holds
<1>12. Claims(f)'
  BY <1>1, <1>11, ClaimsKept
<1> QED BY <1>5, <1>6, <1>7, <1>8, <1>9, <1>12

\* A child answers the command it has carried out.
LEMMA AnswerKeeps ==
  ASSUME RunnerInv, TypeOK, NEW f \in Places, Keeps(f), Intact,
         NEW p \in Proc, Answer(p), Heard(p)
  PROVE  Keeps(f)'
<1> USE DEF Keeps
<1>d. PICK d : d = doing[p]
  OBVIOUS
<1>0. PICK x \in Nat : /\ d = doing[p] /\ out' = [out EXCEPT ![p] = Append(@, x)]
                       /\ d.type = "alloc" => x = res[p] /\ x # 0
  <2> DEFINE x == IF doing[p].type = "alloc" THEN res[p] ELSE Dummy
  <2>1. x \in Nat /\ out' = [out EXCEPT ![p] = Append(@, x)]
    BY DEF Answer, TypeOK, Dummy
  <2>2. doing[p].type = "alloc" => x = res[p] /\ x # 0
    BY DEF Answer
  <2> HIDE DEF x
  <2> QED BY <1>d, <2>1, <2>2
<1>1. /\ doing[p] # Nothing /\ child[p] = "run" /\ pc[p] = "idle"
      /\ doing' = [doing EXCEPT ![p] = Nothing]
      /\ UNCHANGED <<heapVars, mpc, line, in, child, objects>>
  BY DEF Answer, InStep
<1>2. PICK a \in Nat : /\ a = Len(out[p]) /\ Len(out'[p]) = a + 1 /\ out'[p][a + 1] = x
                       /\ \A k \in 1..a : out'[p][k] = out[p][k]
  <2>1. out[p] \in Seq(Nat) /\ out'[p] = Append(out[p], x)
    BY <1>0 DEF RunnerInv
  <2>2. Len(out[p]) \in Nat
    BY <2>1
  <2> QED BY <2>1, <2>2
<1>3. /\ Busy(p) = 1 /\ Busy(p)' = 0 /\ doing'[p] = Nothing
      /\ \A q \in Proc : q # p => Busy(q)' = Busy(q) /\ out'[q] = out[q] /\ doing'[q] = doing[q]
  BY <1>0, <1>1 DEF Busy, Typed, RunnerInv
<1>4. Placed(f)' /\ Alone'
  BY <1>1 DEF Placed, Alone
<1>5. Counted(f)'
  <2>1. ASSUME NEW q \in Proc, q # p
        PROVE  /\ child'[q] = "crashed" => Len(out'[q]) <= Len(f[q])
               /\ child'[q] # "crashed" => Len(f[q]) = Len(out'[q]) + Busy(q)' + Len(in'[q])
    <3>1. Busy(q)' = Busy(q) /\ out'[q] = out[q]
      BY <2>1, <1>3
    <3> QED BY <3>1, <1>1 DEF Counted
  <2>2. child'[p] # "crashed" /\ Len(f[p]) = Len(out'[p]) + Busy(p)' + Len(in'[p])
    <3> DEFINE z == Len(in[p])
               y == Len(f[p])
    <3>1. z \in Nat /\ y = a + 1 + z
      BY <1>1, <1>2, <1>3, Lengths DEF Counted
    <3> HIDE DEF z, y
    <3>2. y = (a + 1) + 0 + z
      BY <3>1
    <3> QED BY <3>2, <1>1, <1>2, <1>3 DEF z, y
  <2> QED BY <2>1, <2>2 DEF Counted
<1>6. Matched(f)'
  <2>1. ASSUME NEW q \in Proc, q # p, child[q] # "crashed"
        PROVE  /\ doing'[q] # Nothing => Same(doing'[q], line'[f[q][Len(out'[q]) + 1]], objects')
               /\ \A k \in 1..Len(in'[q]) :
                    Same(in'[q][k], line'[f[q][Len(out'[q]) + Busy(q)' + k]], objects')
    <3>1. Busy(q)' = Busy(q) /\ out'[q] = out[q] /\ doing'[q] = doing[q]
      BY <2>1, <1>3
    <3> QED BY <2>1, <3>1, <1>1 DEF Matched
  <2>2. ASSUME NEW k \in 1..Len(in'[p])
        PROVE  Same(in'[p][k], line'[f[p][Len(out'[p]) + Busy(p)' + k]], objects')
    <3>1. Same(in[p][k], line[f[p][a + 1 + k]], objects)
      BY <1>1, <1>2, <1>3 DEF Matched
    <3>2. a + 1 + k = (a + 1) + 0 + k
      OBVIOUS
    <3>3. Len(out'[p]) = a + 1 /\ Busy(p)' = 0 /\ in' = in /\ line' = line /\ objects' = objects
      BY <1>1, <1>2, <1>3
    <3> QED BY <3>1, <3>2, <3>3
  <2> QED BY <2>1, <2>2, <1>1, <1>3 DEF Matched
<1>7. Typed'
  BY <1>1 DEF Typed, Doing
<1>8. InStep'
  BY <1>1, <1>3 DEF InStep, heapVars, call
<1>9. \A q \in Proc, k \in Nat : Undone(q, k)' => Undone(q, k)
  <2> TAKE q \in Proc, k \in Nat
  <2>1. CASE q # p
    BY <2>1, <1>1, <1>3 DEF Undone, heapVars
  <2>2. CASE q = p
    <3>1. k > a + 1 => k > a /\ k # a + 1
      OBVIOUS
    <3> QED BY <2>2, <3>1, <1>1, <1>2 DEF Undone
  <2> QED BY <2>1, <2>2
<1>10. /\ a + 1 \in 1..Len(f[p]) /\ Same(d, line[f[p][a + 1]], objects)
       /\ \A k \in 1..(a + 1) : k \in 1..a \/ k = a + 1
  BY <1>0, <1>1, <1>2, Lengths DEF Matched
<1>11. ASSUME NEW id \in Object, NEW b \in Block, Holds(f, id, b)'
       PROVE  Holds(f, id, b)
  <2>1. CASE /\ b = objects'[id] /\ b.ptr > 0
             /\ \A q \in Proc : \A k \in 1..Len(f[q]) :
                  line'[f[q][k]].type = "free" /\ line'[f[q][k]].id = id => Undone(q, k)'
    <3>1. \A q \in Proc : \A k \in 1..Len(f[q]) : k \in Nat
      OBVIOUS
    <3> QED BY <2>1, <3>1, <1>1, <1>9 DEF Holds
  <2>2. CASE \E q \in Proc : \E k \in 1..Len(out'[q]) :
               /\ line'[f[q][k]].type = "alloc" /\ line'[f[q][k]].id = id
               /\ b = [ptr |-> out'[q][k], size |-> line'[f[q][k]].sz]
    <3>1. PICK q \in Proc : \E k \in 1..Len(out'[q]) :
            /\ line[f[q][k]].type = "alloc" /\ line[f[q][k]].id = id
            /\ b = [ptr |-> out'[q][k], size |-> line[f[q][k]].sz]
      BY <2>2, <1>1
    <3>2. PICK k \in 1..Len(out'[q]) :
            /\ line[f[q][k]].type = "alloc" /\ line[f[q][k]].id = id
            /\ b = [ptr |-> out'[q][k], size |-> line[f[q][k]].sz]
      BY <3>1
    <3>3. CASE q # p
      BY <3>2, <3>3, <1>3 DEF Holds
    <3>4. CASE q = p /\ k \in 1..a
      BY <3>2, <3>4, <1>2 DEF Holds
    <3>5. CASE q = p /\ k = a + 1
      <4>1. d.type = "alloc" /\ d.id = id /\ d.sz = line[f[q][k]].sz
        BY <3>2, <3>5, <1>10 DEF Same
      <4>2. b = [ptr |-> res[p], size |-> d.sz] /\ res[p] # 0
        BY <3>2, <3>5, <4>1, <1>0, <1>2
      <4> QED BY <4>1, <4>2, <1>0, <1>1 DEF Holds
    <3> QED BY <3>3, <3>4, <3>5, <1>2, <1>10
  <2>3. CASE \E q \in Proc :
               /\ doing'[q].type = "alloc" /\ doing'[q].id = id
               /\ pc'[q] \in {"post", "idle"} /\ res'[q] # 0
               /\ b = [ptr |-> res'[q], size |-> doing'[q].sz]
    <3>1. doing'[p].type # "alloc"
      BY <1>3 DEF Nothing, Command
    <3> QED BY <2>3, <3>1, <1>1, <1>3 DEF Holds, heapVars
  <2> QED BY <1>11, <2>1, <2>2, <2>3 DEF Holds
<1>12. Claims(f)'
  <2>1. live' = live
    BY <1>1 DEF heapVars
  <2> QED BY <1>11, <2>1, ClaimsKept
<1> QED BY <1>4, <1>5, <1>6, <1>7, <1>8, <1>12

\* A child ends: by writing to NULL, because nobody hears its answer, or since
\* there are no more commands.
LEMMA EndKeeps ==
  ASSUME RunnerInv, TypeOK, NEW f \in Places, Keeps(f), Intact,
         NEW p \in Proc, (Answer(p) /\ ~Heard(p)) \/ WriteToNull(p) \/ Exit(p)
  PROVE  Keeps(f)'
<1> USE DEF Keeps
<1>1. PICK how \in {"exited", "crashed"} :
        /\ child' = [child EXCEPT ![p] = how] /\ doing' = [doing EXCEPT ![p] = Nothing]
        /\ UNCHANGED <<heapVars, mpc, line, in, out, objects>>
        /\ how = "exited" => doing[p] = Nothing /\ child[p] = "run"
        /\ how = "crashed" => \/ mpc = "dead"
                              \/ doing[p].type = "alloc" /\ child[p] = "run"
  <2>1. CASE Answer(p) /\ ~Heard(p)
    BY <2>1 DEF Answer, Ends, Heard
  <2>2. CASE WriteToNull(p)
    <3>1. doing[p] # Nothing
      BY <2>2 DEF WriteToNull, Nothing, Command
    <3> QED BY <2>2, <3>1 DEF WriteToNull, Ends, pipes, InStep
  <2>3. CASE Exit(p)
    BY <2>3 DEF Exit, Ends, pipes
  <2> QED BY <2>1, <2>2, <2>3
<1>2. /\ child'[p] = how /\ doing'[p] = Nothing
      /\ \A q \in Proc : q # p => /\ Busy(q)' = Busy(q) /\ child'[q] = child[q]
                                  /\ doing'[q] = doing[q]
      /\ how = "exited" => Busy(p)' = Busy(p) /\ child[p] # "crashed"
  BY <1>1 DEF Typed, Busy
<1>3. Placed(f)' /\ Alone' /\ Typed'
  BY <1>1 DEF Placed, Alone, Typed, Doing
<1>4. Counted(f)'
  <2>1. ASSUME NEW q \in Proc
        PROVE  /\ child'[q] = "crashed" => Len(out'[q]) <= Len(f[q])
               /\ child'[q] # "crashed" => Len(f[q]) = Len(out'[q]) + Busy(q)' + Len(in'[q])
    <3>1. CASE q # p \/ how = "exited"
      BY <3>1, <1>1, <1>2 DEF Counted
    <3>2. CASE q = p /\ how = "crashed"
      <4>1. Len(out[p]) <= Len(f[p])
        <5>1. Len(out[p]) \in Nat /\ Len(f[p]) \in Nat /\ \A k \in 1..Len(out[p]) : k \in 1..Len(f[p])
          BY Lengths
        <5> DEFINE a == Len(out[p])
                   y == Len(f[p])
        <5>2. a \in Nat /\ y \in Nat /\ (a \in 1..a => a \in 1..y)
          BY <5>1
        <5> HIDE DEF a, y
        <5>3. a <= y
          BY <5>2
        <5> QED BY <5>3 DEF a, y
      <4> QED BY <3>2, <4>1, <1>1, <1>2
    <3> QED BY <3>1, <3>2
  <2> QED BY <2>1 DEF Counted
<1>5. Matched(f)'
  <2>1. ASSUME NEW q \in Proc, child'[q] # "crashed"
        PROVE  /\ doing'[q] # Nothing => Same(doing'[q], line'[f[q][Len(out'[q]) + 1]], objects')
               /\ \A k \in 1..Len(in'[q]) :
                    Same(in'[q][k], line'[f[q][Len(out'[q]) + Busy(q)' + k]], objects')
    <3>1. child[q] # "crashed" /\ Busy(q)' = Busy(q) /\ (doing'[q] # Nothing => doing'[q] = doing[q])
      BY <2>1, <1>1, <1>2
    <3> QED BY <2>1, <3>1, <1>1 DEF Matched
  <2> QED BY <2>1 DEF Matched
<1>6. InStep'
  <2>1. pc[p] = "idle"
    <3>1. Nothing.type = "none"
      BY DEF Nothing, Command
    <3>2. CASE Answer(p) \/ WriteToNull(p)
      BY <3>2 DEF Answer, WriteToNull
    <3>3. CASE Exit(p)
      BY <3>1, <3>3, NoCall DEF Exit
    <3> QED BY <3>2, <3>3
  <2> QED BY <2>1, <1>1, <1>2 DEF InStep, heapVars, call
<1>7. ASSUME NEW q \in Proc, NEW k \in 1..Len(f[q]), Undone(q, k)', line[f[q][k]].type = "free"
      PROVE  Undone(q, k)
  <2>1. CASE q # p \/ how = "exited"
    BY <2>1, <1>1, <1>2, <1>7 DEF Undone, heapVars
  <2>2. CASE q = p /\ how = "crashed"
    <3>1. mpc # "dead" /\ k > Len(out[p])
      BY <2>2, <1>1, <1>2, <1>7 DEF Undone
    <3>2. doing[p].type = "alloc" /\ child[p] = "run"
      BY <2>2, <3>1, <1>1
    <3>3. doing[p] # Nothing
      BY <3>2 DEF Nothing, Command
    <3>4. Same(doing[p], line[f[p][Len(out[p]) + 1]], objects)
      BY <3>2, <3>3 DEF Matched
    <3>5. k # Len(out[p]) + 1
      BY <2>2, <3>2, <3>4, <1>7 DEF Same
    <3> QED BY <2>2, <3>1, <3>5 DEF Undone
  <2> QED BY <2>1, <2>2
<1>8. ASSUME NEW id \in Object, NEW b \in Block, Holds(f, id, b)'
      PROVE  Holds(f, id, b)
  <2>1. \A q \in Proc : doing'[q].type = "alloc" => doing'[q] = doing[q]
    <3>1. Nothing.type # "alloc"
      BY DEF Nothing, Command
    <3> QED BY <3>1, <1>2
  <2>2. CASE /\ b = objects'[id] /\ b.ptr > 0
             /\ \A q \in Proc : \A k \in 1..Len(f[q]) :
                  line'[f[q][k]].type = "free" /\ line'[f[q][k]].id = id => Undone(q, k)'
    BY <2>2, <1>1, <1>7 DEF Holds
  <2>3. CASE \E q \in Proc : \E k \in 1..Len(out'[q]) :
               /\ line'[f[q][k]].type = "alloc" /\ line'[f[q][k]].id = id
               /\ b = [ptr |-> out'[q][k], size |-> line'[f[q][k]].sz]
    BY <2>3, <1>1 DEF Holds
  <2>4. CASE \E q \in Proc :
               /\ doing'[q].type = "alloc" /\ doing'[q].id = id
               /\ pc'[q] \in {"post", "idle"} /\ res'[q] # 0
               /\ b = [ptr |-> res'[q], size |-> doing'[q].sz]
    BY <2>1, <2>4, <1>1 DEF Holds, heapVars
  <2> QED BY <1>8, <2>2, <2>3, <2>4 DEF Holds
<1>9. Claims(f)'
  <2>1. live' = live
    BY <1>1 DEF heapVars
  <2> QED BY <1>8, <2>1, ClaimsKept
<1> QED BY <1>3, <1>4, <1>5, <1>6, <1>9

\* What a step of a call leaves as it is, and where it may go.
LEMMA InCallFrame ==
  ASSUME TypeOK, Good, NEW f \in Places, Keeps(f), NEW p \in Proc, InCall(p)
  PROVE  /\ UNCHANGED <<mpc, line, in, out, doing, child, objects, op, arg>>
         /\ pc[p] # "idle"
         /\ \A q \in Proc : q # p => pc'[q] = pc[q] /\ res'[q] = res[q]
         /\ pc'[p] \in {"wait", "clear"} => pc[p] \in {"wait", "clear"}
         /\ Typed' /\ Placed(f)' /\ Counted(f)' /\ Matched(f)' /\ Alone' /\ InStep'
<1>1. /\ UNCHANGED <<mpc, line, in, out, doing, child, objects, op, arg>>
      /\ \A q \in Proc : q # p => pc'[q] = pc[q] /\ res'[q] = res[q]
  BY DEF InCall, Step, SemWait, SemPost, NextBlock, TakeBlock, TakeBeyond, ReturnNull,
         Clear, Merge, MergeEnds, HandOut, call, pipes, TypeOK
<1>2. /\ pc[p] # "idle"
      /\ pc'[p] \in {"wait", "clear"} => pc[p] \in {"wait", "clear"}
      /\ pc'[p] = "merge" => pc[p] \in {"merge", "clear"}
  BY DEF InCall, Step, SemWait, SemPost, NextBlock, TakeBlock, TakeBeyond, ReturnNull,
         Clear, Merge, MergeEnds, HandOut, TypeOK
<1>3. Typed' /\ Placed(f)' /\ Alone'
  BY <1>1 DEF Keeps, Typed, Placed, Alone
<1>4. Counted(f)' /\ Matched(f)'
  BY <1>1 DEF Keeps, Counted, Matched, Busy, Same
<1>5. InStep'
  BY <1>1, <1>2 DEF Keeps, InStep, Good, FreeInv
<1> QED BY <1>1, <1>2, <1>3, <1>4, <1>5

\* A step that neither allocates nor frees a block gives nobody a new one.
LEMMA QuietKeeps ==
  ASSUME TypeOK, Good, NEW f \in Places, Keeps(f), NEW p \in Proc, InCall(p),
         live' = live, pc'[p] = "post" => res'[p] = 0 \/ op[p] = "free",
         pc'[p] = "idle" => pc[p] = "post" /\ res'[p] = res[p]
  PROVE  Keeps(f)'
<1>1. /\ UNCHANGED <<mpc, line, in, out, doing, child, objects, op, arg>>
      /\ pc[p] # "idle"
      /\ \A q \in Proc : q # p => pc'[q] = pc[q] /\ res'[q] = res[q]
      /\ pc'[p] \in {"wait", "clear"} => pc[p] \in {"wait", "clear"}
  BY InCallFrame
<1>2. \A q \in Proc, k \in Nat : Undone(q, k)' => Undone(q, k)
  BY <1>1 DEF Undone
<1>3. \A q \in Proc : /\ doing[q].type = "alloc" /\ pc'[q] \in {"post", "idle"} /\ res'[q] # 0
                       => pc[q] \in {"post", "idle"} /\ res'[q] = res[q]
  <2>1. doing[p].type = op[p]
    BY <1>1 DEF Keeps, InStep
  <2> QED BY <2>1, <1>1
<1>4. ASSUME NEW id \in Object, NEW b \in Block, Holds(f, id, b)'
      PROVE  Holds(f, id, b)
  <2>1. \A q \in Proc : \A k \in 1..Len(f[q]) : k \in Nat
    OBVIOUS
  <2> QED BY <2>1, <1>1, <1>2, <1>3, <1>4 DEF Holds
<1>5. Claims(f)'
  BY <1>4, ClaimsKept DEF Keeps
<1> QED BY <1>5, InCallFrame DEF Keeps

\* shmheap_alloc hands out a block that nobody holds.
LEMMA TakeBlockKeeps ==
  ASSUME TypeOK, Good, NEW f \in Places, Keeps(f), NEW p \in Proc, InCall(p), TakeBlock(p)
  PROVE  Keeps(f)'
<1> DEFINE new == [ptr |-> at[p] + Header, size |-> arg[p]]
<1>1. /\ UNCHANGED <<mpc, line, in, out, doing, child, objects, op, arg>>
      /\ pc[p] = "search" /\ pc'[p] = "post" /\ res'[p] = new.ptr
      /\ \A q \in Proc : q # p => pc'[q] = pc[q] /\ res'[q] = res[q]
      /\ live' = live \cup {new}
  BY InCallFrame DEF TakeBlock, HandOut, TypeOK
<1>2. doing[p].type = "alloc" /\ doing[p].sz = arg[p]
  BY <1>1 DEF Keeps, InStep, Good, AllocInv
<1>3. \A b \in live : b.ptr # new.ptr
  <2>1. occ[at[p]] = 0 /\ at[p] \in Nat
    BY DEF TakeBlock, Fits, TypeOK
  <2>2. ASSUME NEW b \in live, b.ptr = new.ptr PROVE FALSE
    <3>1. b.ptr - Header = at[p]
      BY <2>1, <2>2 DEF Header
    <3> QED BY <2>1, <3>1 DEF Good, LiveInv
  <2> QED BY <2>2
<1>4. \A q \in Proc, k \in Nat : Undone(q, k)' => Undone(q, k)
  BY <1>1 DEF Undone
<1>5. ASSUME NEW id \in Object, NEW b \in Block, Holds(f, id, b)'
      PROVE  Holds(f, id, b) \/ (b = new /\ id = doing[p].id)
  <2>1. \A q \in Proc : \A k \in 1..Len(f[q]) : k \in Nat
    OBVIOUS
  <2> HIDE DEF new
  <2>2. CASE \E q \in Proc :
               /\ doing'[q].type = "alloc" /\ doing'[q].id = id
               /\ pc'[q] \in {"post", "idle"} /\ res'[q] # 0
               /\ b = [ptr |-> res'[q], size |-> doing'[q].sz]
    <3>1. PICK q \in Proc :
               /\ doing'[q].type = "alloc" /\ doing'[q].id = id
               /\ pc'[q] \in {"post", "idle"} /\ res'[q] # 0
               /\ b = [ptr |-> res'[q], size |-> doing'[q].sz]
      BY <2>2
    <3>2. CASE q = p
      BY <3>1, <3>2, <1>1, <1>2 DEF new
    <3>3. CASE q # p
      BY <3>1, <3>3, <1>1 DEF Holds
    <3> QED BY <3>2, <3>3
  <2> QED BY <2>1, <2>2, <1>1, <1>4, <1>5 DEF Holds
<1>6. Claims(f)'
  <2> HIDE DEF new
  <2>1. ASSUME NEW id \in Object, NEW b \in Block, Holds(f, id, b)' PROVE b \in live'
    BY <2>1, <1>1, <1>5 DEF Keeps, Claims
  <2>2. ASSUME NEW i \in Object, NEW j \in Object, NEW b \in Block, NEW c \in Block,
               Holds(f, i, b)', Holds(f, j, c)', b.ptr = c.ptr
        PROVE  i = j
    <3>1. /\ Holds(f, i, b) => b \in live
          /\ Holds(f, j, c) => c \in live
      BY DEF Keeps, Claims
    <3> QED BY <2>2, <3>1, <1>3, <1>5 DEF Keeps, Claims
  <2> QED BY <2>1, <2>2 DEF Claims
<1> QED BY <1>6, InCallFrame DEF Keeps

\* shmheap_free gives up the block of the object the command names.
LEMMA ClearKeeps ==
  ASSUME RunnerInv, TypeOK, Good, NEW f \in Places, Keeps(f),
         NEW p \in Proc, InCall(p), Clear(p)
  PROVE  Keeps(f)'
<1> USE DEF Keeps
<1>1. /\ UNCHANGED <<mpc, line, in, out, doing, child, objects, op, arg, res>>
      /\ pc[p] = "clear" /\ pc'[p] = "merge"
      /\ \A q \in Proc : q # p => pc'[q] = pc[q]
      /\ live' = {b \in live : b.ptr # arg[p]}
  BY InCallFrame DEF Clear, TypeOK
<1>2. /\ doing[p].type = "free" /\ doing[p].sz = arg[p]
      /\ doing[p] # Nothing /\ child[p] = "run"
  <2>1. doing[p].type = "free" /\ doing[p].sz = arg[p]
    BY <1>1 DEF InStep, Good, FreeInv
  <2>2. doing[p] # Nothing
    BY <2>1 DEF Nothing, Command
  <2> QED BY <2>1, <2>2 DEF InStep
<1>3. PICK n \in Nat : n = Len(out[p]) + 1 /\ n > Len(out[p]) /\ n \in 1..Len(f[p])
  <2>1. Len(out[p]) \in Nat /\ Len(out[p]) + 1 \in 1..Len(f[p])
    BY <1>2, Lengths
  <2> QED BY <2>1
<1>4. PICK i \in 1..Len(line) : i = f[p][n] /\ line[i].index = p
  BY <1>3 DEF Placed
<1>5. PICK id \in Object : /\ line[i].type = "free" /\ line[i].id = id
                           /\ objects[id].ptr = arg[p]
  <2>1. Same(doing[p], line[i], objects)
    BY <1>2, <1>3, <1>4 DEF Matched
  <2> QED BY <2>1, <1>2 DEF Same, Alone
<1>6. objects[id].ptr > 0 /\ objects[id] \in Block
  BY <1>5 DEF Alone, RunnerInv, Block
<1>7. \A q \in Proc : \A k \in 1..Len(f[q]) : line[f[q][k]].id = id => f[q][k] = i
  BY <1>4, <1>5 DEF Placed, Alone
<1>8. Holds(f, id, objects[id])
  <2>1. ASSUME NEW q \in Proc, NEW k \in 1..Len(f[q]),
               line[f[q][k]].type = "free", line[f[q][k]].id = id
        PROVE  Undone(q, k)
    <3>1. f[q][k] = i
      BY <2>1, <1>7
    <3>2. q = p
      <4>1. line[f[q][k]].index = q
        BY DEF Placed
      <4> QED BY <4>1, <3>1, <1>4
    <3>3. k = n
      <4>1. k \in 1..Len(f[p]) /\ n \in 1..Len(f[p]) /\ f[p][k] = i /\ f[p][n] = i /\ i \in Nat
        BY <3>1, <3>2, <1>3, <1>4
      <4>2. /\ k < n => f[p][k] < f[p][n]
            /\ n < k => f[p][n] < f[p][k]
        BY <4>1 DEF Placed
      <4>3. ~(k < n) /\ ~(n < k)
        <5>1. ~(i < i)
          BY ONLY <4>1
        <5> QED BY <4>1, <4>2, <5>1
      <4>4. k \in Nat /\ n \in Nat
        BY <1>3
      <4> QED BY ONLY <4>3, <4>4
    <3> QED BY <3>2, <3>3, <1>1, <1>2, <1>3 DEF Undone
  <2> QED BY <2>1, <1>6 DEF Holds
<1>9. \A q \in Proc, k \in Nat : Undone(q, k)' => Undone(q, k)
  BY <1>1 DEF Undone
<1>10. ASSUME NEW o \in Object, NEW b \in Block, Holds(f, o, b)'
       PROVE  Holds(f, o, b)
  <2>1. \A q \in Proc : \A k \in 1..Len(f[q]) : k \in Nat
    OBVIOUS
  <2>2. doing[p].type # "alloc"
    BY <1>2
  <2> QED BY <2>1, <2>2, <1>1, <1>9, <1>10 DEF Holds
<1>11. ~Undone(p, n)'
  BY <1>1, <1>2, <1>3 DEF Undone
<1>12. ASSUME NEW b \in Block, Holds(f, id, b)' PROVE FALSE
  <2>1. CASE /\ b = objects'[id] /\ b.ptr > 0
             /\ \A q \in Proc : \A k \in 1..Len(f[q]) :
                  line'[f[q][k]].type = "free" /\ line'[f[q][k]].id = id => Undone(q, k)'
    BY <2>1, <1>1, <1>3, <1>4, <1>5, <1>11
  <2>2. CASE \E q \in Proc : \E k \in 1..Len(out'[q]) :
               /\ line'[f[q][k]].type = "alloc" /\ line'[f[q][k]].id = id
               /\ b = [ptr |-> out'[q][k], size |-> line'[f[q][k]].sz]
    <3>1. PICK q \in Proc : \E k \in 1..Len(out[q]) :
                 line[f[q][k]].type = "alloc" /\ line[f[q][k]].id = id
      BY <2>2, <1>1
    <3>2. PICK k \in 1..Len(out[q]) :
                 line[f[q][k]].type = "alloc" /\ line[f[q][k]].id = id
      BY <3>1
    <3>3. k \in 1..Len(f[q])
      BY Lengths
    <3> QED BY <3>2, <3>3, <1>5, <1>7
  <2>3. CASE \E q \in Proc :
               /\ doing'[q].type = "alloc" /\ doing'[q].id = id
               /\ pc'[q] \in {"post", "idle"} /\ res'[q] # 0
               /\ b = [ptr |-> res'[q], size |-> doing'[q].sz]
    <3>1. PICK q \in Proc : doing[q].type = "alloc" /\ doing[q].id = id
      BY <2>3, <1>1
    <3>2. doing[q] # Nothing
      BY <3>1 DEF Nothing, Command
    <3>3. child[q] = "run" /\ Len(out[q]) + 1 \in 1..Len(f[q])
      BY <3>2, Lengths DEF InStep
    <3>4. Same(doing[q], line[f[q][Len(out[q]) + 1]], objects)
      BY <3>2, <3>3 DEF Matched
    <3> QED BY <3>1, <3>3, <3>4, <1>5, <1>7 DEF Same
  <2> QED BY <1>12, <2>1, <2>2, <2>3 DEF Holds
<1>13. Claims(f)'
  <2>1. ASSUME NEW o \in Object, NEW b \in Block, Holds(f, o, b)' PROVE b \in live'
    <3>1. b \in live /\ o # id
      BY <2>1, <1>10, <1>12 DEF Claims
    <3>2. b.ptr # arg[p]
      BY <2>1, <3>1, <1>5, <1>6, <1>8, <1>10 DEF Claims
    <3> QED BY <3>1, <3>2, <1>1
  <2> QED BY <2>1, <1>10 DEF Claims
<1> QED BY <1>13, InCallFrame

\* Every step of a call that stays on the chain.
LEMMA InCallKeeps ==
  ASSUME RunnerInv, TypeOK, Good, NEW f \in Places, Keeps(f), NEW p \in Proc, InCall(p),
         ~strayed'
  PROVE  Keeps(f)'
<1>1. CASE SemWait(p) \/ NextBlock(p) \/ Merge(p)
  BY <1>1, QuietKeeps DEF SemWait, NextBlock, Merge, TypeOK, InStep
<1>2. CASE SemPost(p)
  BY <1>2, QuietKeeps DEF SemPost, TypeOK
<1>3. CASE ReturnNull(p)
  BY <1>3, QuietKeeps DEF ReturnNull, TypeOK
<1>4. CASE MergeEnds(p)
  <2>1. op[p] = "free"
    BY <1>4 DEF MergeEnds, Keeps, InStep
  <2> QED BY <1>4, <2>1, QuietKeeps DEF MergeEnds, TypeOK
<1>5. ~TakeBeyond(p)
  BY DEF TakeBeyond
<1> QED BY <1>1, <1>2, <1>3, <1>4, <1>5, TakeBlockKeeps, ClearKeeps DEF InCall, Step

\* main goes on without a command: the end of a line, of the input or of the run.
LEMMA OtherKeeps ==
  ASSUME NEW f \in Places, Keeps(f),
         \/ MainEndOfLine \/ MainEof \/ MainDestroy \/ UNCHANGED runnerVars
  PROVE  Keeps(f)'
<1>1. UNCHANGED <<line, in, out, doing, child, objects, pc, op, arg, res, live>>
  BY DEF MainEndOfLine, MainEof, MainDestroy, runnerVars, pipes, heapVars, call
<1>2. mpc # "dead" \/ mpc' = mpc
  BY DEF MainEndOfLine, MainEof, MainDestroy, runnerVars
<1>3. Typed' /\ Placed(f)' /\ Alone' /\ InStep'
  BY <1>1 DEF Keeps, Typed, Placed, Alone, InStep, MainEndOfLine, MainEof, MainDestroy,
              runnerVars
<1>4. Counted(f)' /\ Matched(f)'
  BY <1>1 DEF Keeps, Counted, Matched, Busy, Same
<1>5. \A q \in Proc, k \in Nat : Undone(q, k)' => Undone(q, k)
  BY <1>1, <1>2 DEF Undone
<1>6. ASSUME NEW id \in Object, NEW b \in Block, Holds(f, id, b)'
      PROVE  Holds(f, id, b)
  <2>1. \A q \in Proc : \A k \in 1..Len(f[q]) : k \in Nat
    OBVIOUS
  <2> QED BY <2>1, <1>1, <1>5, <1>6 DEF Holds
<1>7. Claims(f)'
  BY <1>1, <1>6, ClaimsKept DEF Keeps
<1> QED BY <1>3, <1>4, <1>7 DEF Keeps

\* Every step of the runner.
LEMMA NextHandles ==
  ASSUME RunnerInv, HeapInv, HandleInv, [RunnerNext]_runnerVars
  PROVE  HandleInv'
<1> SUFFICES ASSUME Intact' PROVE \E g \in Places : Keeps(g)'
  BY DEF HandleInv
<1>1. TypeOK /\ Intact /\ Good /\ ~strayed'
  <2>1. UNCHANGED runnerVars => (Intact <=> Intact')
    BY DEF Intact, Crowded, runnerVars, heapVars
  <2>2. Intact
    BY <2>1 DEF RunnerNext
  <2> QED BY <2>2 DEF HeapInv, Intact
<1>2. PICK f \in Places : Keeps(f)
  BY <1>1 DEF HandleInv
<1>3. ASSUME NEW c \in Commands, MainSend(c) PROVE \E g \in Places : Keeps(g)'
  <2>1. CASE child[c.index] # "crashed"
    BY <1>1, <1>2, <1>3, <2>1, SendKeeps
  <2>2. CASE child[c.index] = "crashed"
    <3>1. /\ mpc' = "dead" /\ mpc # "dead"
          /\ UNCHANGED <<line, in, heapVars, out, doing, child, objects>>
      BY <1>3, <2>2 DEF MainSend
    <3> QED BY <1>2, <3>1, SendToDead
  <2> QED BY <2>1, <2>2
<1>4. CASE MainCollect \/ MainCollectNothing
  BY <1>1, <1>2, <1>4, CollectKeeps, CollectNothingKeeps
<1>5. CASE MainEndOfLine \/ MainEof \/ MainDestroy \/ UNCHANGED runnerVars
  BY <1>2, <1>5, OtherKeeps
<1>6. ASSUME NEW p \in Proc, Child(p) PROVE \E g \in Places : Keeps(g)'
  <2>1. CASE Take(p)
    BY <1>1, <1>2, <2>1, TakeKeeps
  <2>2. CASE InCall(p)
    BY <1>1, <1>2, <2>2, InCallKeeps
  <2>3. CASE Answer(p) /\ Heard(p)
    BY <1>1, <1>2, <2>3, AnswerKeeps
  <2>4. CASE (Answer(p) /\ ~Heard(p)) \/ WriteToNull(p) \/ Exit(p)
    BY <1>1, <1>2, <2>4, EndKeeps
  <2> QED BY <1>6, <2>1, <2>2, <2>3, <2>4 DEF Child
<1> QED BY <1>3, <1>4, <1>5, <1>6 DEF RunnerNext, Main

\* Main's handles name the blocks that were allocated for them, whatever the
\* input and however the children's work interleaves, while the heap is intact
\* (main, child_proc).
THEOREM RunnerHandles == RunnerSpec => []HandlesNameBlocks
<1>1. RunnerInit => RunnerInv /\ HeapInv /\ HandleInv
  BY RunnerInitInv, InitHeapInv, InitHandles
<1>2. RunnerInv /\ HeapInv /\ HandleInv /\ [RunnerNext]_runnerVars
        => (RunnerInv /\ HeapInv /\ HandleInv)'
  BY RunnerStep, NextHeapInv, NextHandles DEF HeapInv
<1>3. RunnerInv /\ HandleInv => HandlesNameBlocks
  BY KeptAreBlocks DEF HandleInv, HandlesNameBlocks
<1> QED BY <1>1, <1>2, <1>3, PTL DEF RunnerSpec
================================================================================
