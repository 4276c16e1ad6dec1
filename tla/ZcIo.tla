--------------------------------- MODULE ZcIo ---------------------------------
(***************************************************************************)
(* zc_io.c (lab 5): a file that is read and written in place, through its  *)
(* mapping.  zc_read_start and zc_write_start hand out a part of the       *)
(* mapping and keep the readers-writer lock until the matching _end; the   *)
(* mutex guards the fields of the zc_file.  All accesses to the fields are *)
(* made under the mutex, so what a call does between taking and releasing  *)
(* it is one step; paths that return without releasing keep it.            *)
(*                                                                         *)
(* Several threads use one zc_file.  As the library requires, every start  *)
(* is followed by its end, and the file is closed when no call is open.    *)
(* The bytes themselves are left out.                                      *)
(***************************************************************************)
EXTENDS Integers

CONSTANTS
  Thread,
  NoThread,    \* nobody
  FileSizes,   \* the sizes the file may have when it is opened
  Sizes,       \* the sizes asked for
  Seeks,       \* the seeks made: records [by, whence]
  SizeT,       \* size_t counts modulo SizeT
  MaxSize,     \* the largest mapping the kernel grants
  MaxCalls,    \* bound on the calls of each thread
  MayFail      \* whether mmap and mremap may also fail below MaxSize

ASSUME SizesAssumption ==
  /\ SizeT \in Nat /\ MaxSize \in Nat /\ MaxCalls \in Nat
  /\ 2 * MaxSize < SizeT
  /\ Sizes \subseteq 0..(SizeT - 1) /\ FileSizes \subseteq 0..MaxSize
  /\ NoThread \notin Thread /\ MayFail \in BOOLEAN
  /\ Seeks \subseteq [by : Int,
                      whence : {"SEEK_SET", "SEEK_CUR", "SEEK_END", "other"}]

VARIABLES
  open,          \* zc_close has not been called
  offset, size,  \* fields of the zc_file; offset is signed
  mapping,       \* which mapping start_addr points to; 0 when there is none
  disk,          \* the length of the file, which ftruncate sets
  readers,       \* the calls that hold rwlock for reading
  writers,       \* the call that holds it for writing
  mutex,         \* who holds the mutex, or NoThread
  pc,            \* pc[t]: "idle", or the lock the call waits for
  op, arg,       \* the operation and its argument: a size or a seek
  held,          \* the parts handed out and not ended
  calls,         \* how many calls each thread has made
  failed,        \* history: some call has returned by a failing path
  strayed        \* history: a seek has left the offset outside the file, or
                 \* the end of a part has wrapped around

fileVars == <<offset, size, mapping, disk>>
historyVars == <<failed, strayed>>
rwlock == <<readers, writers>>
callVars == <<op, arg, calls>>
vars == <<open, fileVars, rwlock, mutex, pc, callVars, held, historyVars>>

U(x) == x % SizeT                                     \* conversion to size_t
Signed(x) == IF 2 * x >= SizeT THEN x - SizeT ELSE x  \* and back to off_t

\* The call thread t is in, or the last it was in.
This(t) == <<t, calls[t]>>

Part(t, from, n, map) ==
  [owner |-> This(t), op |-> op[t], from |-> from, to |-> from + n,
   mapping |-> map]
Operations == {"read", "write", "lseek", "close"}

\* zc_open: a file of size 0 is not mapped.
Init ==
  /\ open = TRUE
  /\ offset = 0
  /\ size \in FileSizes
  /\ mapping = (IF size = 0 THEN 0 ELSE 1)
  /\ disk = size
  /\ readers = {}
  /\ writers = {}
  /\ mutex = NoThread
  /\ pc = [t \in Thread |-> "idle"]
  /\ op = [t \in Thread |-> "close"]
  /\ arg = [t \in Thread |-> 0]
  /\ held = {}
  /\ calls = [t \in Thread |-> 0]
  /\ failed = FALSE
  /\ strayed = FALSE

PartsOf(t) == {p \in held : p.owner[1] = t}

\* A thread that holds a part may only ask for another one to read.
Enter(t, o, a) ==
  /\ open /\ pc[t] = "idle" /\ calls[t] < MaxCalls
  /\ \A p \in PartsOf(t) : p.op = "read" /\ o = "read"
  /\ o = "close" => held = {} /\ \A u \in Thread : pc[u] = "idle"
  /\ op' = [op EXCEPT ![t] = o]
  /\ arg' = [arg EXCEPT ![t] = a]
  /\ pc' = [pc EXCEPT ![t] = IF o = "close" THEN "mutex" ELSE "rwlock"]
  /\ calls' = [calls EXCEPT ![t] = @ + 1]
  /\ open' = (o # "close")
  /\ UNCHANGED <<fileVars, rwlock, mutex, held, historyVars>>

RdLock(t) ==
  /\ pc[t] = "rwlock" /\ op[t] = "read"
  /\ writers = {}
  /\ readers' = readers \cup {This(t)}
  /\ pc' = [pc EXCEPT ![t] = "mutex"]
  /\ UNCHANGED <<open, fileVars, writers, mutex, callVars, held, historyVars>>

\* Names of the form Definition_Defect are mutants of Definition: the defects a
\* change of the library could introduce.
WrLock_PassesReaders(t) ==
  /\ pc[t] = "rwlock" /\ op[t] \in {"write", "lseek"}
  /\ writers = {}
  /\ writers' = {This(t)}
  /\ pc' = [pc EXCEPT ![t] = "mutex"]
  /\ UNCHANGED <<open, fileVars, readers, mutex, callVars, held, historyVars>>

WrLock(t) ==
  /\ pc[t] = "rwlock" /\ op[t] \in {"write", "lseek"}
  /\ writers = {} /\ readers = {}
  /\ writers' = {This(t)}
  /\ pc' = [pc EXCEPT ![t] = "mutex"]
  /\ UNCHANGED <<open, fileVars, readers, mutex, callVars, held, historyVars>>

-----------------------------------------------------------------------------
\* What a call does under the mutex.

Locked(t) == pc[t] = "mutex" /\ mutex = NoThread

Unlock(t) ==
  /\ mutex' = NoThread
  /\ pc' = [pc EXCEPT ![t] = "idle"]

\* A path that returns without unlocking anything.
ReturnLocked(t) ==
  /\ mutex' = t
  /\ pc' = [pc EXCEPT ![t] = "idle"]
  /\ failed' = TRUE

\* The caller has a part to end, also when it was given NULL.
HandOut(part) == held' = held \cup {part}

ReadAtEnd(t) ==
  /\ Locked(t) /\ op[t] = "read"
  /\ U(offset) = size
  /\ ReturnLocked(t)
  /\ HandOut(Part(t, offset, 0, mapping))
  /\ UNCHANGED <<open, fileVars, rwlock, callVars, strayed>>

\* *size is cut down to what is left.
Readable_Uncut(n) == n
Readable(n) == IF size < U(offset + n) THEN U(size - offset) ELSE n

\* *size is not checked: from about SIZE_MAX on, offset + *size is a small number
\* again.  The part is then not cut, and the offset moves back.
Wraps(n) == offset + n >= SizeT

ReadPart_KeepsOffset(t) ==
  LET n == Readable(arg[t]) IN
  /\ Locked(t) /\ op[t] = "read"
  /\ U(offset) # size
  /\ strayed' = (strayed \/ Wraps(arg[t]))
  /\ Unlock(t)
  /\ HandOut(Part(t, offset, n, mapping))
  /\ UNCHANGED <<open, fileVars, rwlock, callVars, failed>>

ReadPart(t) ==
  LET n == Readable(arg[t]) IN
  /\ Locked(t) /\ op[t] = "read"
  /\ U(offset) # size
  /\ offset' = Signed(U(offset + n))
  /\ strayed' = (strayed \/ Wraps(arg[t]))
  /\ Unlock(t)
  /\ HandOut(Part(t, offset, n, mapping))
  /\ UNCHANGED <<open, size, mapping, disk, rwlock, callVars, failed>>

\* The size the file must be given for a write of n bytes, the present one if
\* it does not grow.  A file of size 0 is mapped anew, with n bytes.
Needed(n) ==
  IF size = 0 THEN n
  ELSE IF U(n + offset) > size THEN U(offset + n) ELSE size

\* mremap may move the mapping; mmap makes one.
Grow(n) ==
  /\ size' = Needed(n)
  /\ disk' = Needed(n)
  /\ mapping' \in (IF mapping = 0 THEN {1} ELSE {mapping, mapping + 1})

WritePart(t) ==
  LET n == arg[t] IN
  /\ Locked(t) /\ op[t] = "write"
  /\ \/ Needed(n) = size /\ size > 0 /\ UNCHANGED <<size, disk, mapping>>
     \/ Needed(n) # size /\ Needed(n) <= MaxSize /\ Grow(n)
  /\ offset' = Signed(U(offset + n))
  /\ strayed' = (strayed \/ Wraps(n))
  /\ Unlock(t)
  /\ HandOut(Part(t, offset, n, mapping'))
  /\ UNCHANGED <<open, rwlock, callVars, failed>>

\* mremap or mmap fails; mmap does for 0 bytes.
WriteFails(t) ==
  LET n == arg[t] IN
  /\ Locked(t) /\ op[t] = "write"
  /\ Needed(n) # size \/ size = 0
  /\ Needed(n) = 0 \/ Needed(n) > MaxSize \/ MayFail
  /\ ReturnLocked(t)
  /\ HandOut(Part(t, offset, 0, mapping))
  /\ UNCHANGED <<open, fileVars, rwlock, callVars, strayed>>

SeekTarget(to) ==
  CASE to.whence = "SEEK_SET" -> to.by
    [] to.whence = "SEEK_CUR" -> offset + to.by
    [] to.whence = "SEEK_END" -> size + to.by

Seek(t) ==
  LET to == arg[t] IN
  /\ Locked(t) /\ op[t] = "lseek"
  /\ to.whence # "other"
  /\ offset' = SeekTarget(to)
  /\ strayed' = (strayed \/ offset' \notin 0..size)
  /\ Unlock(t)
  /\ writers' = {}
  /\ UNCHANGED <<open, size, mapping, disk, readers, callVars, held, failed>>

\* An unknown whence is answered with -1; nothing is unlocked.
SeekFails(t) ==
  /\ Locked(t) /\ op[t] = "lseek"
  /\ arg[t].whence = "other"
  /\ ReturnLocked(t)
  /\ UNCHANGED <<open, fileVars, rwlock, callVars, held, strayed>>

Close(t) ==
  /\ Locked(t) /\ op[t] = "close"
  /\ mapping' = 0
  /\ Unlock(t)
  /\ UNCHANGED <<open, offset, size, disk, rwlock, callVars, held, historyVars>>

-----------------------------------------------------------------------------
\* zc_read_end and zc_write_end, of any of the parts the thread holds

ReadEnd(t) ==
  /\ open /\ pc[t] = "idle"
  /\ \E p \in PartsOf(t) :
       /\ p.op = "read"
       /\ held' = held \ {p}
       /\ readers' = readers \ {p.owner}
  /\ UNCHANGED <<open, fileVars, writers, mutex, pc, callVars, historyVars>>

WriteEnd_KeepsLock(t) ==
  /\ open /\ pc[t] = "idle"
  /\ \E p \in PartsOf(t) : p.op = "write" /\ held' = held \ {p}
  /\ UNCHANGED <<open, fileVars, rwlock, mutex, pc, callVars, historyVars>>

WriteEnd(t) ==
  /\ open /\ pc[t] = "idle"
  /\ \E p \in PartsOf(t) : p.op = "write" /\ held' = held \ {p}
  /\ writers' = {}
  /\ UNCHANGED <<open, fileVars, readers, mutex, pc, callVars, historyVars>>

Inside(t) ==
  \/ RdLock(t) \/ WrLock(t)
  \/ ReadAtEnd(t) \/ ReadPart(t)
  \/ WritePart(t) \/ WriteFails(t)
  \/ Seek(t) \/ SeekFails(t)
  \/ Close(t)

Ends(t) == ReadEnd(t) \/ WriteEnd(t)

Next == \E t \in Thread :
  \/ \E n \in Sizes : Enter(t, "read", n) \/ Enter(t, "write", n)
  \/ \E to \in Seeks : Enter(t, "lseek", to)
  \/ Enter(t, "close", 0)
  \/ Inside(t) \/ Ends(t)

Spec == Init /\ [][Next]_vars

\* A thread that can go on does, and ends what it has started; whether it makes
\* another call is its own affair.
FairSpec == Spec /\ \A t \in Thread : WF_vars(Inside(t)) /\ WF_vars(Ends(t))

-----------------------------------------------------------------------------
Owners == Thread \X Nat

\* Types; a thread is in one call at a time, and the parts of earlier ones are
\* told apart.
TypeOK ==
  /\ open \in BOOLEAN
  /\ offset \in Int /\ size \in Nat /\ disk \in Nat /\ mapping \in Nat
  /\ readers \subseteq Owners /\ writers \subseteq Owners
  /\ mutex \in Thread \cup {NoThread}
  /\ pc \in [Thread -> {"idle", "rwlock", "mutex"}]
  /\ op \in [Thread -> Operations] /\ DOMAIN arg = Thread
  /\ \A t \in Thread : /\ op[t] \in {"read", "write"} => arg[t] \in Sizes
                       /\ op[t] = "lseek" => arg[t] \in Seeks
  /\ calls \in [Thread -> 0..MaxCalls]
  /\ held \subseteq [owner : Owners, op : {"read", "write"},
                    from : Int, to : Int, mapping : Nat]
  /\ failed \in BOOLEAN /\ strayed \in BOOLEAN

\* Readers and writers (lab5.pdf, exercise 4): while a part is out for writing,
\* or an lseek is in progress, no other operation is.
Doing(t, ops) == \/ pc[t] = "mutex" /\ op[t] \in ops
                 \/ \E p \in PartsOf(t) : p.op \in ops
OneWriter ==
  \A t, u \in Thread :
    Doing(t, {"write", "lseek"}) =>
      ~Doing(u, {"read"}) /\ (Doing(u, {"write", "lseek"}) => t = u)

\* A part that is out lies in the file and in the mapping as they are now: no
\* growth moves or shortens what another thread is using.  (What is handed out
\* after an lseek has left the file, or for a size that wraps around, may not.)
PartsInFile ==
  ~strayed => \A p \in held :
    p.from < p.to => /\ 0 <= p.from /\ p.to <= size /\ size = disk
                     /\ p.mapping = mapping /\ mapping > 0

\* Concurrent reads are given different bytes: the offset is read and moved on
\* under the mutex (runner.c:422-423, 442).  A size that wraps around moves the
\* offset back, and an lseek can: after those they may be the same.
ReadsDisjoint ==
  ~strayed => \A p, q \in held :
    p # q => p.to <= q.from \/ q.to <= p.from

\* Every call returns, provided that none has returned with its locks.
CallReturns(t) == pc[t] # "idle" ~> (pc[t] = "idle" \/ failed)
CallsReturn == \A t \in Thread : CallReturns(t)

=============================================================================
