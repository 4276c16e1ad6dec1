----------------------------- MODULE ZcIo_proofs ------------------------------
(***************************************************************************)
(* For any threads, sizes and seeks: no operation takes place during a     *)
(* write or an lseek, and the parts handed out lie in the file and do not  *)
(* overlap as long as no lseek has left the file and no size has wrapped   *)
(* around.                                                                 *)
(***************************************************************************)
EXTENDS ZcIo, TLAPS

\* Below SizeT nothing wraps around, and sizes of files keep their sign.
LEMMA NoWrap ==
  ASSUME NEW x \in Nat, x < SizeT
  PROVE  U(x) = x /\ (x <= MaxSize => Signed(x) = x)
<1>1. SizeT \in Nat /\ MaxSize \in Nat /\ 2 * MaxSize < SizeT
  BY SizesAssumption
<1>2. x % SizeT = x
  BY <1>1
<1> QED BY <1>1, <1>2 DEF U, Signed

LEMMA WrapType ==
  ASSUME NEW x \in Int
  PROVE  U(x) \in Nat /\ Signed(U(x)) \in Int
<1>1. SizeT \in Nat /\ SizeT > 0
  BY SizesAssumption
<1>2. x % SizeT \in 0..(SizeT - 1)
  BY <1>1
<1> QED BY <1>1, <1>2 DEF U, Signed

-----------------------------------------------------------------------------
\* Types

LEMMA TypeInit == Init => TypeOK
<1> SUFFICES ASSUME Init PROVE TypeOK
  OBVIOUS
<1>1. MaxSize \in Nat /\ MaxCalls \in Nat /\ FileSizes \subseteq 0..MaxSize
  BY SizesAssumption
<1>2. size \in Nat
  BY <1>1 DEF Init
<1>3. mapping \in Nat
  BY DEF Init
<1>4. calls \in [Thread -> 0..MaxCalls]
  BY <1>1 DEF Init
<1>5. /\ op \in [Thread -> Operations] /\ DOMAIN arg = Thread
      /\ \A t \in Thread : op[t] = "close"
  BY DEF Init, Operations
<1>6. /\ open \in BOOLEAN /\ offset \in Int /\ disk \in Nat
      /\ readers = {} /\ writers = {} /\ held = {}
      /\ mutex \in Thread \cup {NoThread}
      /\ pc \in [Thread -> {"idle", "rwlock", "mutex"}]
  BY <1>2 DEF Init
<1>7. failed \in BOOLEAN /\ strayed \in BOOLEAN
  BY DEF Init
<1> QED BY <1>2, <1>3, <1>4, <1>5, <1>6, <1>7 DEF TypeOK

\* The part handed out by a call is well typed.
LEMMA PartType ==
  ASSUME TypeOK, NEW t \in Thread, op[t] \in {"read", "write"},
         NEW n \in Int, NEW map \in Nat
  PROVE  Part(t, offset, n, map) \in
           [owner : Owners, op : {"read", "write"}, from : Int, to : Int,
            mapping : Nat]
<1>1. This(t) \in Owners
  BY DEF TypeOK, This, Owners
<1>2. offset \in Int /\ offset + n \in Int
  BY DEF TypeOK
<1> QED BY <1>1, <1>2 DEF Part

LEMMA TypeNext == TypeOK /\ [Next]_vars => TypeOK'
<1> SUFFICES ASSUME TypeOK, [Next]_vars PROVE TypeOK'
  OBVIOUS
<1> USE DEF TypeOK
<1>0. /\ MaxSize \in Nat /\ MaxCalls \in Nat
      /\ \A n \in Sizes : n \in Nat
      /\ Seeks \subseteq [by : Int, whence : {"SEEK_SET", "SEEK_CUR", "SEEK_END",
                                           "other"}]
  BY SizesAssumption
<1>1. ASSUME NEW t \in Thread, NEW o \in Operations, NEW a, Enter(t, o, a),
             o \in {"read", "write"} => a \in Sizes, o = "lseek" => a \in Seeks
      PROVE  TypeOK'
  <2>1. calls' \in [Thread -> 0..MaxCalls]
    BY <1>0, <1>1 DEF Enter
  <2>2. /\ op' \in [Thread -> Operations] /\ DOMAIN arg' = Thread
        /\ open' \in BOOLEAN
        /\ pc' \in [Thread -> {"idle", "rwlock", "mutex"}]
    BY <1>1 DEF Enter
  <2>3. \A u \in Thread : /\ op'[u] \in {"read", "write"} => arg'[u] \in Sizes
                          /\ op'[u] = "lseek" => arg'[u] \in Seeks
    BY <1>1 DEF Enter
  <2> QED BY <1>1, <2>1, <2>2, <2>3 DEF Enter, fileVars, rwlock, historyVars
<1>2. ASSUME NEW t \in Thread, RdLock(t) \/ WrLock(t)
      PROVE  TypeOK'
  <2>1. This(t) \in Owners
    BY DEF This, Owners
  <2> QED BY <1>2, <2>1 DEF RdLock, WrLock, fileVars, callVars, historyVars
<1>3. ASSUME NEW t \in Thread, ReadAtEnd(t)
      PROVE  TypeOK'
  <2>1. held' = held \cup {Part(t, offset, 0, mapping)} /\ op[t] = "read"
    BY <1>3 DEF ReadAtEnd, HandOut
  <2>2. Part(t, offset, 0, mapping) \in
          [owner : Owners, op : {"read", "write"}, from : Int, to : Int,
           mapping : Nat]
    BY <2>1, PartType
  <2> HIDE DEF Part, TypeOK
  <2> QED BY <1>3, <2>1, <2>2
          DEF TypeOK, ReadAtEnd, ReturnLocked, fileVars, rwlock, callVars
<1>4. ASSUME NEW t \in Thread, ReadPart(t)
      PROVE  TypeOK'
  <2> DEFINE n == Readable(arg[t])
  <2>1. arg[t] \in Nat /\ op[t] = "read"
    BY <1>0, <1>4 DEF ReadPart
  <2>2. n \in Int
    BY <2>1, WrapType DEF Readable
  <2>3. Part(t, offset, n, mapping) \in
          [owner : Owners, op : {"read", "write"}, from : Int, to : Int,
           mapping : Nat]
    <3> HIDE DEF n
    <3> QED BY <2>1, <2>2, PartType
  <2>4. offset' \in Int
    <3>1. offset' = Signed(U(offset + n))
      BY <1>4 DEF ReadPart
    <3> HIDE DEF n
    <3> QED BY <3>1, <2>2, WrapType
  <2>5. held' = held \cup {Part(t, offset, n, mapping)}
    BY <1>4 DEF ReadPart, HandOut
  <2> HIDE DEF n
  <2> QED BY <1>4, <2>3, <2>4, <2>5
          DEF ReadPart, Unlock, rwlock, callVars
<1>5. ASSUME NEW t \in Thread, WritePart(t)
      PROVE  TypeOK'
  <2> DEFINE n == arg[t]
  <2>1. n \in Nat /\ op[t] = "write"
    BY <1>0, <1>5 DEF WritePart
  <2>2. Needed(n) \in Nat
    BY <2>1, WrapType DEF Needed
  <2>3. size' \in Nat /\ disk' \in Nat /\ mapping' \in Nat
    BY <1>5, <2>2 DEF WritePart, Grow
  <2>4. Part(t, offset, n, mapping') \in
          [owner : Owners, op : {"read", "write"}, from : Int, to : Int,
           mapping : Nat]
    <3> HIDE DEF n
    <3> QED BY <2>1, <2>3, PartType
  <2>5. offset' \in Int
    BY <1>5, <2>1, WrapType DEF WritePart
  <2>6. held' = held \cup {Part(t, offset, n, mapping')}
    BY <1>5 DEF WritePart, HandOut
  <2> HIDE DEF n
  <2> QED BY <1>5, <2>3, <2>4, <2>5, <2>6
          DEF WritePart, Unlock, rwlock, callVars
<1>6. ASSUME NEW t \in Thread, WriteFails(t)
      PROVE  TypeOK'
  <2>1. held' = held \cup {Part(t, offset, 0, mapping)} /\ op[t] = "write"
    BY <1>6 DEF WriteFails, HandOut
  <2>2. Part(t, offset, 0, mapping) \in
          [owner : Owners, op : {"read", "write"}, from : Int, to : Int,
           mapping : Nat]
    BY <2>1, PartType
  <2> QED BY <1>6, <2>1, <2>2
          DEF WriteFails, ReturnLocked, fileVars, rwlock, callVars
<1>7. ASSUME NEW t \in Thread, Seek(t)
      PROVE  TypeOK'
  <2>1. arg[t] \in [by : Int,
                    whence : {"SEEK_SET", "SEEK_CUR", "SEEK_END", "other"}]
    BY <1>0, <1>7 DEF Seek
  <2>2. offset' \in Int
    BY <1>7, <2>1 DEF Seek, SeekTarget
  <2> QED BY <1>7, <2>2 DEF Seek, Unlock, callVars
<1>8. ASSUME NEW t \in Thread, SeekFails(t) \/ Close(t)
      PROVE  TypeOK'
  <2>1. CASE SeekFails(t)
    BY <2>1 DEF SeekFails, ReturnLocked, fileVars, rwlock, callVars
  <2>2. CASE Close(t)
    BY <2>2 DEF Close, Unlock, rwlock, callVars, historyVars
  <2> QED BY <1>8, <2>1, <2>2
<1>9. ASSUME NEW t \in Thread, ReadEnd(t) \/ WriteEnd(t)
      PROVE  TypeOK'
  BY <1>9 DEF ReadEnd, WriteEnd, PartsOf, fileVars, callVars, historyVars
<1>10. CASE UNCHANGED vars
  BY <1>10 DEF vars, fileVars, rwlock, callVars, historyVars
<1> QED BY <1>1, <1>2, <1>3, <1>4, <1>5, <1>6, <1>7, <1>8, <1>9, <1>10
        DEF Next, Inside, Ends, Operations

\* Type correctness, for any threads, sizes and seeks (zc_io.c).
THEOREM TypeCorrect == Spec => []TypeOK
BY TypeInit, TypeNext, PTL DEF Spec

-----------------------------------------------------------------------------
\* The locks.  Every part that is out, and every call past the readers-writer
\* lock, has its lock; locks of different calls are told apart by their owners.

LockOfParts ==
  \A p \in held : /\ p.op = "read" => p.owner \in readers
                  /\ p.op = "write" => p.owner \in writers

LockOfCalls ==
  \A t \in Thread : pc[t] = "mutex" =>
    /\ op[t] = "read" => This(t) \in readers
    /\ op[t] \in {"write", "lseek"} => This(t) \in writers

OwnersDiffer ==
  /\ \A p \in held : /\ p.owner[2] <= calls[p.owner[1]]
                     /\ pc[p.owner[1]] # "idle" => p.owner[2] < calls[p.owner[1]]
  /\ \A p, q \in held : p.owner = q.owner => p = q

LockInv ==
  /\ writers # {} => readers = {}
  /\ \A v, w \in writers : v = w
  /\ LockOfParts /\ LockOfCalls /\ OwnersDiffer

\* zc_close is called when nothing is out or in progress, and is the last call.
CloseInv ==
  /\ ~open => held = {} /\ \A t \in Thread : pc[t] # "idle" => op[t] = "close"
  /\ \A t \in Thread : pc[t] # "idle" /\ op[t] = "close" => ~open

LEMMA LockInit == Init => LockInv /\ CloseInv
BY DEF Init, LockInv, LockOfParts, LockOfCalls, OwnersDiffer, CloseInv

\* The part a call hands out is not owned by an earlier one.
LEMMA NewOwner ==
  ASSUME TypeOK, OwnersDiffer, NEW t \in Thread, pc[t] # "idle", NEW p \in held
  PROVE  p.owner # This(t)
<1>1. p.owner \in Thread \X Nat /\ calls[t] \in Nat
  BY DEF TypeOK, Owners
<1>2. ASSUME p.owner = This(t) PROVE FALSE
  <2>1. p.owner[1] = t /\ p.owner[2] = calls[t]
    BY <1>2 DEF This
  <2> QED BY <1>1, <2>1 DEF OwnersDiffer
<1> QED BY <1>2

\* A write or an lseek past the lock is alone: nothing is out.
LEMMA Alone ==
  ASSUME TypeOK, LockInv, NEW t \in Thread, pc[t] = "mutex",
         op[t] \in {"write", "lseek"}
  PROVE  held = {} /\ readers = {} /\ writers = {This(t)}
<1>1. This(t) \in writers /\ readers = {} /\ writers = {This(t)}
  BY DEF LockInv, LockOfCalls
<1>2. ASSUME NEW p \in held PROVE FALSE
  <2>1. p.op \in {"read", "write"}
    BY DEF TypeOK
  <2>2. p.owner = This(t)
    BY <1>1, <2>1 DEF LockInv, LockOfParts
  <2> QED BY <2>2, NewOwner DEF LockInv
<1> QED BY <1>1, <1>2

LEMMA CloseNext == TypeOK /\ CloseInv /\ [Next]_vars => CloseInv'
<1> SUFFICES ASSUME TypeOK, CloseInv, [Next]_vars PROVE CloseInv'
  OBVIOUS
<1> USE DEF TypeOK, CloseInv
<1>1. ASSUME NEW t \in Thread, NEW o \in Operations, NEW a, Enter(t, o, a)
      PROVE  CloseInv'
  BY <1>1 DEF Enter
<1>2. ASSUME NEW t \in Thread, RdLock(t) \/ WrLock(t)
      PROVE  CloseInv'
  BY <1>2 DEF RdLock, WrLock, callVars
<1>3. ASSUME NEW t \in Thread, pc[t] # "idle", op[t] # "close",
             UNCHANGED <<open, op>>, pc' = [pc EXCEPT ![t] = "idle"]
      PROVE  CloseInv'
  BY <1>3
<1>4. ASSUME NEW t \in Thread, ReadAtEnd(t) \/ ReadPart(t) \/ WritePart(t)
                               \/ WriteFails(t) \/ Seek(t) \/ SeekFails(t)
      PROVE  CloseInv'
  <2>1. /\ pc[t] # "idle" /\ op[t] # "close"
        /\ UNCHANGED <<open, op>> /\ pc' = [pc EXCEPT ![t] = "idle"]
    BY <1>4 DEF ReadAtEnd, ReadPart, WritePart, WriteFails, Seek, SeekFails,
                Locked, Unlock, ReturnLocked, callVars
  <2> QED BY <2>1, <1>3
<1>5. ASSUME NEW t \in Thread, Close(t)
      PROVE  CloseInv'
  BY <1>5 DEF Close, Unlock, callVars
<1>6. ASSUME NEW t \in Thread, ReadEnd(t) \/ WriteEnd(t)
      PROVE  CloseInv'
  BY <1>6 DEF ReadEnd, WriteEnd, PartsOf, callVars
<1>7. CASE UNCHANGED vars
  BY <1>7 DEF vars, callVars
<1> QED BY <1>1, <1>2, <1>4, <1>5, <1>6, <1>7 DEF Next, Inside, Ends, Operations

\* A call that hands out a part, in terms of the locks: it turns its lock as a
\* call into the lock of the part.
LEMMA HandOutLock ==
  ASSUME TypeOK, LockInv, NEW t \in Thread, pc[t] = "mutex",
         op[t] \in {"read", "write"}, NEW n, NEW map,
         held' = held \cup {Part(t, offset, n, map)},
         pc' = [pc EXCEPT ![t] = "idle"],
         UNCHANGED <<readers, writers, op, calls>>
  PROVE  LockInv'
<1> DEFINE new == Part(t, offset, n, map)
<1>1. new.owner = This(t) /\ new.op = op[t]
  BY DEF Part
<1>2. This(t)[1] = t /\ This(t)[2] = calls[t] /\ calls[t] \in Nat
  BY DEF This, TypeOK
<1>3. \A p \in held : p.owner # This(t)
  BY NewOwner DEF LockInv
<1>4. \A p \in held' : p \in held \/ p = new
  OBVIOUS
<1> HIDE DEF new
<1>5. LockOfParts'
  BY <1>1, <1>4 DEF LockInv, LockOfParts, LockOfCalls
<1>6. LockOfCalls'
  BY DEF LockInv, LockOfCalls, This, TypeOK
<1>7. OwnersDiffer'
  <2>1. \A p \in held : p.owner[1] \in Thread
    BY DEF TypeOK, Owners
  <2>2. \A p \in held' : /\ p.owner[2] <= calls'[p.owner[1]]
                         /\ pc'[p.owner[1]] # "idle" =>
                              p.owner[2] < calls'[p.owner[1]]
    BY <1>1, <1>2, <1>4, <2>1 DEF LockInv, OwnersDiffer, TypeOK
  <2>3. \A p, q \in held' : p.owner = q.owner => p = q
    BY <1>1, <1>3, <1>4 DEF LockInv, OwnersDiffer
  <2> QED BY <2>2, <2>3 DEF OwnersDiffer
<1> QED BY <1>5, <1>6, <1>7 DEF LockInv

LEMMA LockNext == TypeOK /\ LockInv /\ [Next]_vars => LockInv'
<1> SUFFICES ASSUME TypeOK, LockInv, [Next]_vars PROVE LockInv'
  OBVIOUS
<1>0. \A p \in held : p.owner \in Thread \X Nat /\ p.op \in {"read", "write"}
  BY DEF TypeOK, Owners
<1>1. ASSUME NEW t \in Thread, NEW o \in Operations, NEW a, Enter(t, o, a)
      PROVE  LockInv'
  <2>1. /\ pc[t] = "idle" /\ calls' = [calls EXCEPT ![t] = @ + 1]
        /\ op' = [op EXCEPT ![t] = o]
        /\ pc' = [pc EXCEPT ![t] = IF o = "close" THEN "mutex" ELSE "rwlock"]
        /\ UNCHANGED <<held, readers, writers>>
    BY <1>1 DEF Enter, rwlock
  <2>2. LockOfCalls'
    BY <2>1 DEF LockInv, LockOfCalls, This, TypeOK
  <2>3. OwnersDiffer'
    BY <1>0, <2>1 DEF LockInv, OwnersDiffer, TypeOK
  <2> QED BY <2>1, <2>2, <2>3 DEF LockInv, LockOfParts
<1>2. ASSUME NEW t \in Thread, RdLock(t) \/ WrLock(t)
      PROVE  LockInv'
  <2>1. /\ pc[t] = "rwlock" /\ pc' = [pc EXCEPT ![t] = "mutex"]
        /\ UNCHANGED <<held, op, calls>>
    BY <1>2 DEF RdLock, WrLock, callVars
  <2>2. \/ /\ op[t] = "read" /\ writers = {} /\ writers' = {}
           /\ readers' = readers \cup {This(t)}
        \/ /\ op[t] \in {"write", "lseek"} /\ readers = {} /\ readers' = {}
           /\ writers = {} /\ writers' = {This(t)}
    BY <1>2 DEF RdLock, WrLock
  <2>3. LockOfCalls'
    BY <2>1, <2>2 DEF LockInv, LockOfCalls, This, TypeOK
  <2>4. OwnersDiffer'
    BY <1>0, <2>1 DEF LockInv, OwnersDiffer, TypeOK
  <2>5. LockOfParts'
    BY <2>1, <2>2 DEF LockInv, LockOfParts
  <2> QED BY <2>2, <2>3, <2>4, <2>5 DEF LockInv
<1>3. ASSUME NEW t \in Thread, ReadAtEnd(t) \/ ReadPart(t) \/ WritePart(t)
                               \/ WriteFails(t)
      PROVE  LockInv'
  <2>1. /\ pc[t] = "mutex" /\ op[t] \in {"read", "write"}
        /\ \E n, map : held' = held \cup {Part(t, offset, n, map)}
        /\ pc' = [pc EXCEPT ![t] = "idle"]
        /\ UNCHANGED <<readers, writers, op, calls>>
    BY <1>3 DEF ReadAtEnd, ReadPart, WritePart, WriteFails, Locked, Unlock,
                ReturnLocked, HandOut, rwlock, callVars
  <2> QED BY <2>1, HandOutLock
<1>4. ASSUME NEW t \in Thread, Seek(t)
      PROVE  LockInv'
  <2>1. /\ held = {} /\ held' = {} /\ readers = {} /\ readers' = {}
        /\ writers = {This(t)} /\ writers' = {}
    BY <1>4, Alone DEF Seek, Locked
  <2>2. /\ pc[t] = "mutex" /\ pc' = [pc EXCEPT ![t] = "idle"]
        /\ UNCHANGED <<op, calls>>
    BY <1>4 DEF Seek, Locked, Unlock, callVars
  <2>3. LockOfCalls'
    <3>1. \A u \in Thread \ {t} : pc[u] = "mutex" =>
             op[u] \notin {"read", "write", "lseek"}
      BY <2>1 DEF LockInv, LockOfCalls, This
    <3> QED BY <2>2, <3>1 DEF LockOfCalls, TypeOK
  <2> QED BY <2>1, <2>3 DEF LockInv, LockOfParts, OwnersDiffer
<1>5. ASSUME NEW t \in Thread, SeekFails(t) \/ Close(t)
      PROVE  LockInv'
  <2>1. /\ pc' = [pc EXCEPT ![t] = "idle"]
        /\ UNCHANGED <<held, readers, writers, op, calls>>
    BY <1>5 DEF SeekFails, Close, Unlock, ReturnLocked, rwlock, callVars
  <2>2. LockOfCalls'
    BY <2>1 DEF LockInv, LockOfCalls, This, TypeOK
  <2>3. OwnersDiffer'
    BY <1>0, <2>1 DEF LockInv, OwnersDiffer, TypeOK
  <2> QED BY <2>1, <2>2, <2>3 DEF LockInv, LockOfParts
<1>6. ASSUME NEW t \in Thread, ReadEnd(t) \/ WriteEnd(t)
      PROVE  LockInv'
  <2>1. PICK p \in held :
          /\ p.owner[1] = t /\ pc[t] = "idle" /\ held' = held \ {p}
          /\ UNCHANGED <<pc, op, calls>>
          /\ \/ p.op = "read" /\ readers' = readers \ {p.owner}
                /\ UNCHANGED writers
             \/ p.op = "write" /\ writers' = {} /\ UNCHANGED readers
    BY <1>6 DEF ReadEnd, WriteEnd, PartsOf, callVars
  <2>2. \A q \in held' : q \in held /\ q.owner # p.owner
    BY <2>1 DEF LockInv, OwnersDiffer
  <2>3. \A u \in Thread : pc[u] # "idle" => This(u) # p.owner
    <3> SUFFICES ASSUME NEW u \in Thread, pc[u] # "idle", This(u) = p.owner
                 PROVE  FALSE
      OBVIOUS
    <3>1. p.owner[1] = u
      BY DEF This
    <3> QED BY <2>1, <3>1
  <2>4. p.op = "write" => writers = {p.owner}
    BY <2>1 DEF LockInv, LockOfParts
  <2>5. LockOfParts'
    BY <1>0, <2>1, <2>2, <2>4 DEF LockInv, LockOfParts
  <2>6. LockOfCalls'
    BY <2>1, <2>3, <2>4 DEF LockInv, LockOfCalls, This
  <2>7. OwnersDiffer'
    BY <2>1, <2>2 DEF LockInv, OwnersDiffer
  <2>8. (writers' # {} => readers' = {}) /\ \A v, w \in writers' : v = w
    BY <2>1 DEF LockInv
  <2> QED BY <2>5, <2>6, <2>7, <2>8 DEF LockInv
<1>7. CASE UNCHANGED vars
  BY <1>7 DEF vars, rwlock, callVars, LockInv, LockOfParts, LockOfCalls,
              OwnersDiffer, This
<1> QED BY <1>1, <1>2, <1>3, <1>4, <1>5, <1>6, <1>7
        DEF Next, Inside, Ends, Operations
THEOREM LocksHold == Spec => [](TypeOK /\ LockInv /\ CloseInv)
<1>1. Init => TypeOK /\ LockInv /\ CloseInv
  BY TypeInit, LockInit
<1>2. TypeOK /\ LockInv /\ CloseInv /\ [Next]_vars =>
        (TypeOK /\ LockInv /\ CloseInv)'
  BY TypeNext, LockNext, CloseNext
<1> QED BY <1>1, <1>2, PTL DEF Spec

\* What an operation holds while it lasts.
LEMMA DoingHolds ==
  ASSUME TypeOK, LockInv, NEW t \in Thread
  PROVE  /\ Doing(t, {"read"}) => readers # {}
         /\ Doing(t, {"write", "lseek"}) => \E w \in writers : w[1] = t
<1>1. This(t)[1] = t
  BY DEF This
<1>2. Doing(t, {"read"}) => readers # {}
  BY DEF Doing, PartsOf, LockInv, LockOfCalls, LockOfParts
<1>3. ASSUME pc[t] = "mutex", op[t] \in {"write", "lseek"}
      PROVE  \E w \in writers : w[1] = t
  BY <1>1, <1>3 DEF LockInv, LockOfCalls
<1>4. ASSUME NEW p \in PartsOf(t), p.op \in {"write", "lseek"}
      PROVE  \E w \in writers : w[1] = t
  BY <1>4 DEF PartsOf, LockInv, LockOfParts, TypeOK
<1> QED BY <1>2, <1>3, <1>4 DEF Doing

LEMMA LocksExclude == TypeOK /\ LockInv => OneWriter
<1> SUFFICES ASSUME TypeOK, LockInv, NEW t \in Thread, NEW u \in Thread,
                    Doing(t, {"write", "lseek"})
             PROVE  /\ ~Doing(u, {"read"})
                    /\ Doing(u, {"write", "lseek"}) => t = u
  BY DEF OneWriter
<1>1. PICK w \in writers : w[1] = t
  BY DoingHolds
<1>2. readers = {} /\ \A v \in writers : v = w
  BY <1>1 DEF LockInv
<1> QED BY <1>1, <1>2, DoingHolds

\* Readers and writers, for any number of threads (zc_io.c; lab5.pdf,
\* exercise 4).
THEOREM WritersAreAlone == Spec => []OneWriter
BY LocksHold, LocksExclude, PTL

-----------------------------------------------------------------------------
\* The parts.  Until an lseek leaves the file, whatever is out lies before the
\* offset, and the offset in the file.

Behind(p) == /\ 0 <= p.from /\ p.from <= p.to /\ p.to <= offset
             /\ p.from < p.to => p.mapping = mapping

MappedInv == /\ size \in 0..MaxSize /\ size = disk
             /\ open /\ size > 0 => mapping > 0

PartsInv == ~strayed => /\ 0 <= offset /\ offset <= size
                        /\ \A p \in held : Behind(p)
                        /\ ReadsDisjoint

IInv == TypeOK /\ LockInv /\ CloseInv /\ MappedInv /\ PartsInv

LEMMA PartsInit == Init => MappedInv /\ PartsInv
BY SizesAssumption DEF Init, MappedInv, PartsInv, ReadsDisjoint

\* A part handed out at the offset, which moves to its end.
LEMMA HandOutPart ==
  ASSUME TypeOK, PartsInv, ~strayed, NEW t \in Thread, NEW n \in Nat,
         held' = held \cup {Part(t, offset, n, mapping)},
         offset' = offset + n, offset + n <= size,
         UNCHANGED <<size, mapping>>
  PROVE  PartsInv'
<1> DEFINE new == Part(t, offset, n, mapping)
<1>1. new.from = offset /\ new.to = offset + n /\ new.mapping = mapping
  BY DEF Part
<1>2. \A p \in held : p.from \in Int /\ p.to \in Int
  BY DEF TypeOK
<1>3. offset \in Int /\ size \in Nat
  BY DEF TypeOK
<1>4. \A p \in held' : p \in held \/ p = new
  OBVIOUS
<1> HIDE DEF new
<1>5. \A p \in held' : Behind(p)'
  BY <1>1, <1>2, <1>3, <1>4 DEF PartsInv, Behind
<1>6. ReadsDisjoint'
  BY <1>1, <1>2, <1>3, <1>4 DEF PartsInv, Behind, ReadsDisjoint
<1> QED BY <1>3, <1>5, <1>6 DEF PartsInv

\* Nothing is out, or fewer parts than before.
LEMMA FewerParts ==
  ASSUME PartsInv, held' \subseteq held,
         held # {} => UNCHANGED <<offset, mapping>>,
         ~strayed' => ~strayed /\ 0 <= offset' /\ offset' <= size'
  PROVE  PartsInv'
BY DEF PartsInv, ReadsDisjoint, Behind

LEMMA PartsNext == IInv /\ [Next]_vars => (MappedInv /\ PartsInv)'
<1> SUFFICES ASSUME IInv, [Next]_vars PROVE (MappedInv /\ PartsInv)'
  OBVIOUS
<1>0. TypeOK /\ LockInv /\ CloseInv /\ MappedInv /\ PartsInv
  BY DEF IInv
<1>a. /\ MaxSize \in Nat /\ SizeT \in Nat /\ MaxSize < SizeT
      /\ \A n \in Sizes : n \in Nat /\ n < SizeT
  BY SizesAssumption
<1>b. offset \in Int /\ size \in 0..MaxSize /\ mapping \in Nat
  BY <1>0 DEF TypeOK, MappedInv
\* What follows when the fields of the zc_file are left alone.
<1>c. ASSUME UNCHANGED <<offset, size, disk, mapping, strayed>>, open' => open
      PROVE  /\ MappedInv'
             /\ held' \subseteq held => PartsInv'
  <2>1. MappedInv'
    BY <1>0, <1>c DEF MappedInv
  <2>2. ASSUME held' \subseteq held PROVE PartsInv'
    <3>1. ~strayed' => ~strayed /\ 0 <= offset' /\ offset' <= size'
      BY <1>0, <1>c DEF PartsInv
    <3> QED BY <1>0, <1>c, <2>2, <3>1, FewerParts
  <2> QED BY <2>1, <2>2
<1>1. ASSUME NEW t \in Thread,
             \/ \E o, a : Enter(t, o, a)
             \/ RdLock(t) \/ WrLock(t) \/ SeekFails(t)
             \/ ReadEnd(t) \/ WriteEnd(t)
      PROVE  (MappedInv /\ PartsInv)'
  <2>1. /\ UNCHANGED <<offset, size, disk, mapping, strayed>>
        /\ open' => open
        /\ held' \subseteq held
    BY <1>1 DEF Enter, RdLock, WrLock, SeekFails, ReadEnd, WriteEnd, fileVars,
                historyVars
  <2> QED BY <2>1, <1>c
<1>2. ASSUME NEW t \in Thread, ReadAtEnd(t) \/ WriteFails(t)
      PROVE  (MappedInv /\ PartsInv)'
  <2>1. /\ UNCHANGED <<open, offset, size, disk, mapping, strayed>>
        /\ held' = held \cup {Part(t, offset, 0, mapping)}
    BY <1>2 DEF ReadAtEnd, WriteFails, HandOut, fileVars
  <2>2. CASE strayed
    BY <2>1, <2>2, <1>c DEF PartsInv
  <2>3. CASE ~strayed
    <3>1. offset' = offset + 0 /\ offset + 0 <= size /\ 0 \in Nat
      BY <1>0, <1>b, <2>1, <2>3 DEF PartsInv
    <3> QED BY <1>0, <1>c, <2>1, <2>3, <3>1, HandOutPart
  <2> QED BY <2>2, <2>3
<1>3. ASSUME NEW t \in Thread, ReadPart(t)
      PROVE  (MappedInv /\ PartsInv)'
  <2> DEFINE n == Readable(arg[t])
  <2>1. /\ UNCHANGED <<open, size, disk, mapping>>
        /\ held' = held \cup {Part(t, offset, n, mapping)}
        /\ offset' = Signed(U(offset + n)) /\ U(offset) # size
        /\ op[t] = "read" /\ (strayed' <=> strayed \/ Wraps(arg[t]))
    BY <1>3 DEF ReadPart, HandOut
  <2>2. MappedInv'
    BY <1>0, <2>1 DEF MappedInv
  <2>3. CASE strayed'
    BY <2>2, <2>3 DEF PartsInv
  <2>4. CASE ~strayed'
    <3>1. ~strayed /\ offset \in 0..MaxSize /\ offset <= size /\ ~Wraps(arg[t])
      BY <1>0, <1>a, <1>b, <2>1, <2>4 DEF PartsInv
    <3>2. arg[t] \in Nat
      BY <1>0, <1>a, <2>1 DEF TypeOK
    <3>3. /\ offset + arg[t] \in Nat /\ offset + arg[t] < SizeT
          /\ size - offset \in 0..MaxSize
          /\ size < offset + arg[t] => size - offset \in Nat /\ size - offset < SizeT
      BY <1>a, <1>b, <3>1, <3>2 DEF Wraps
    <3>4. n = IF size < offset + arg[t] THEN size - offset ELSE arg[t]
      BY <3>3, NoWrap DEF Readable
    <3>5. n \in Nat /\ offset + n <= size
      BY <1>b, <3>1, <3>2, <3>4
    <3>6. offset + n \in Nat /\ offset + n <= MaxSize /\ offset + n < SizeT
      BY <1>a, <1>b, <3>1, <3>5
    <3> HIDE DEF n
    <3>7. offset' = offset + n
      BY <2>1, <3>6, NoWrap
    <3> QED BY <1>0, <2>1, <2>2, <3>1, <3>5, <3>7, HandOutPart
  <2> QED BY <2>3, <2>4
<1>4. ASSUME NEW t \in Thread, WritePart(t)
      PROVE  (MappedInv /\ PartsInv)'
  <2> DEFINE n == arg[t]
  <2>1. /\ pc[t] = "mutex" /\ op[t] = "write" /\ UNCHANGED open
        /\ (strayed' <=> strayed \/ Wraps(n))
        /\ offset' = Signed(U(offset + n))
        /\ held' = held \cup {Part(t, offset, n, mapping')}
        /\ \/ Needed(n) = size /\ size > 0 /\ UNCHANGED <<size, disk, mapping>>
           \/ Needed(n) <= MaxSize /\ Grow(n)
    BY <1>4 DEF WritePart, HandOut, Locked
  <2>2. held = {}
    BY <1>0, <2>1, Alone
  <2>3. n \in Nat
    BY <1>0, <1>a, <2>1 DEF TypeOK
  <2>4. Needed(n) \in Nat
    <3>1. n + offset \in Int /\ offset + n \in Int
      BY <1>b, <2>3
    <3> QED BY <1>b, <2>3, <3>1, WrapType DEF Needed
  <2>5. size' = Needed(n) /\ disk' = size' /\ mapping' \in Nat
        /\ (mapping' = mapping \/ mapping' > 0) /\ size' \in 0..MaxSize
    BY <1>0, <1>b, <2>1, <2>4 DEF Grow, MappedInv
  <2>6. open' /\ size' > 0 => mapping' > 0
    BY <1>0, <1>b, <2>1 DEF Grow, MappedInv
  <2>7. MappedInv'
    BY <2>5, <2>6 DEF MappedInv
  <2>8. CASE strayed'
    BY <2>7, <2>8 DEF PartsInv
  <2>9. CASE ~strayed'
    <3>1. offset \in 0..MaxSize /\ offset <= size /\ ~Wraps(n)
      BY <1>0, <1>a, <1>b, <2>1, <2>9 DEF PartsInv
    <3>2. n + offset = offset + n /\ offset + n \in Nat /\ offset + n < SizeT
      BY <1>a, <2>3, <3>1 DEF Wraps
    <3>4. U(offset + n) = offset + n /\ U(n + offset) = offset + n
      BY <3>2, NoWrap
    <3>5. offset + n <= size'
      BY <1>b, <2>3, <2>5, <3>1, <3>4 DEF Needed
    <3>3. offset' = offset + n
      <4>1. offset + n <= MaxSize
        BY <1>a, <2>5, <3>2, <3>5
      <4> QED BY <2>1, <3>2, <4>1, NoWrap
    <3> DEFINE new == Part(t, offset, n, mapping')
    <3>6. new.from = offset /\ new.to = offset + n /\ new.mapping = mapping'
      BY DEF Part
    <3>7. held' = {new}
      BY <2>1, <2>2
    <3> HIDE DEF n, new
    <3>8. \A p \in held' : Behind(p)'
      BY <2>3, <3>1, <3>3, <3>6, <3>7 DEF Behind
    <3>9. ReadsDisjoint'
      BY <3>7 DEF ReadsDisjoint
    <3> QED BY <2>3, <2>7, <3>1, <3>3, <3>5, <3>8, <3>9 DEF PartsInv
  <2> QED BY <2>8, <2>9
<1>5. ASSUME NEW t \in Thread, Seek(t)
      PROVE  (MappedInv /\ PartsInv)'
  <2>1. /\ pc[t] = "mutex" /\ op[t] = "lseek" /\ held' = held
        /\ UNCHANGED <<open, size, disk, mapping>>
        /\ strayed' = (strayed \/ offset' \notin 0..size)
    BY <1>5 DEF Seek, Locked
  <2>2. held = {}
    BY <1>0, <2>1, Alone
  <2>3. ~strayed' => ~strayed /\ 0 <= offset' /\ offset' <= size'
    <3>1. ~strayed' => ~strayed /\ offset' \in 0..size
      BY <2>1, Zenon
    <3> QED BY <1>b, <2>1, <3>1
  <2>4. PartsInv'
    BY <1>0, <2>1, <2>2, <2>3, FewerParts
  <2> QED BY <1>0, <2>1, <2>4 DEF MappedInv
<1>6. ASSUME NEW t \in Thread, Close(t)
      PROVE  (MappedInv /\ PartsInv)'
  <2>1. /\ pc[t] # "idle" /\ op[t] = "close" /\ held' = held
        /\ UNCHANGED <<open, offset, size, disk, strayed>>
    BY <1>6 DEF Close, Locked, historyVars
  <2>2. ~open /\ held = {}
    BY <1>0, <2>1 DEF CloseInv
  <2>3. ~strayed' => ~strayed /\ 0 <= offset' /\ offset' <= size'
    BY <1>0, <2>1 DEF PartsInv
  <2>4. PartsInv'
    BY <1>0, <2>1, <2>2, <2>3, FewerParts
  <2> QED BY <1>0, <2>1, <2>2, <2>4 DEF MappedInv
<1>7. CASE UNCHANGED vars
  BY <1>7, <1>c DEF vars, fileVars, historyVars
<1> QED BY <1>1, <1>2, <1>3, <1>4, <1>5, <1>6, <1>7 DEF Next, Inside, Ends

LEMMA Inductive == Spec => []IInv
<1>1. Init => IInv
  BY TypeInit, LockInit, PartsInit DEF IInv
<1>2. IInv /\ [Next]_vars => IInv'
  BY TypeNext, LockNext, CloseNext, PartsNext DEF IInv
<1> QED BY <1>1, <1>2, PTL DEF Spec

\* What is handed out lies in the file and in its mapping, for any threads and
\* sizes, until a seek leaves the file or a size wraps around (zc_io.c:83-154).
THEOREM PartsLieInFile == Spec => []PartsInFile
<1>1. IInv => PartsInFile
  <2> SUFFICES ASSUME IInv, ~strayed, NEW p \in held, p.from < p.to
               PROVE  /\ 0 <= p.from /\ p.to <= size /\ size = disk
                      /\ p.mapping = mapping /\ mapping > 0
    BY DEF PartsInFile
  <2>1. p.from \in Int /\ p.to \in Int /\ offset \in Int /\ size \in Nat
    BY DEF IInv, TypeOK
  <2>2. Behind(p) /\ offset <= size /\ size = disk
    BY DEF IInv, PartsInv, MappedInv
  <2>3. open
    BY DEF IInv, CloseInv
  <2> QED BY <2>1, <2>2, <2>3 DEF IInv, Behind, MappedInv
<1> QED BY <1>1, Inductive, PTL

\* Parts that are out at the same time have no byte in common, for any number
\* of readers, again until a seek leaves the file or a size wraps around
\* (zc_io.c:95-102).
THEOREM PartsAreDisjoint == Spec => []ReadsDisjoint
<1>1. ASSUME IInv PROVE ReadsDisjoint
  BY <1>1 DEF IInv, PartsInv, ReadsDisjoint
<1> QED BY <1>1, Inductive, PTL

=============================================================================
