------------------------------- MODULE ShmRunner -------------------------------
(***************************************************************************)
(* runner_ex3.c (lab 4): the main process creates the shared heap and      *)
(* drives its children through two pipes each.  It sends all commands of a *)
(* line and then reads the answers in the same order, so that the commands *)
(* of one line run concurrently.  runner_ex2.c, which answers every        *)
(* command before it sends the next, does what this one does with one      *)
(* command a line.                                                         *)
(*                                                                         *)
(* The children carry out the calls of ShmHeap.  A child that gets NULL    *)
(* from shmheap_alloc dies when it writes to it.  Pipes have room for all  *)
(* of a line.  The input is any that a user may sensibly write: children   *)
(* are connected before they work, objects are used after the line that    *)
(* allocates them, and no line frees or allocates an object it also uses.  *)
(***************************************************************************)
EXTENDS ShmHeap, Sequences, SequencesExt

CONSTANTS
  NumObjects,   \* num_objects
  MaxLine,      \* bound on the commands of a line
  MaxCommands   \* bound on the commands of the input, connections not counted

ASSUME RunnerAssumption ==
  /\ Proc \subseteq Nat \ {0}
  /\ NumObjects \in Nat /\ MaxLine \in Nat /\ MaxCommands \in Nat

VARIABLES
  mpc,      \* main: "send", "collect", "wait", "done" or "dead"
  line,     \* the commands sent and not answered
  sent,     \* how many of the commands to count have been sent
  in, out,  \* the pipes of each child: commands and answers
  doing,    \* the command each child carries out, or Nothing
  child,    \* child[p]: "run", "exited" or "crashed"
  mapped,   \* the children that have been connected
  objects   \* objects_arr with sizes_arr: records [ptr, size]; ptr 0 at first

Object == 1..NumObjects
NoObject == 0
pipes == <<in, out>>
runnerVars == <<heapVars, mpc, line, sent, pipes, doing, child, mapped, objects>>

Command(t, p, id, n) == [type |-> t, index |-> p, id |-> id, sz |-> n]
Nothing == Command("none", 0, NoObject, 0)
Unset == [ptr |-> 0, size |-> 0]
Dummy == 0

RunnerInit ==
  /\ Init
  /\ mpc = "send"
  /\ line = <<>>
  /\ sent = 0
  /\ in = [p \in Proc |-> <<>>]
  /\ out = [p \in Proc |-> <<>>]
  /\ doing = [p \in Proc |-> Nothing]
  /\ child = [p \in Proc |-> "run"]
  /\ mapped = {}
  /\ objects = [id \in Object |-> Unset]

Mentioned(id) == \E c \in ToSet(line) : c.id = id
Freed(id) == \E c \in ToSet(line) : c.id = id /\ c.type # "read"
Toggled(p) == \E c \in ToSet(line) : c.index = p /\ c.type \in {"connect", "disconnect"}

\* The commands a user may write next on the line; a new object gets the first
\* number that is free.
Commands ==
  {Command("connect", p, NoObject, 0) :
      p \in {q \in Proc \ mapped : ~Toggled(q)}}
  \cup {Command("disconnect", p, NoObject, 0) :
      p \in {q \in mapped : ~Toggled(q)}}
  \cup {Command("alloc", p, id, n) :
      p \in {q \in mapped : ~Toggled(q)}, n \in Sizes,
      id \in {o \in Object : objects[o] = Unset /\ ~Mentioned(o)
                              /\ \A l \in 1..(o - 1) :
                                   objects[l] # Unset \/ Mentioned(l)}}
  \cup {Command("read", p, id, 0) :
      p \in {q \in mapped : ~Toggled(q)},
      id \in {o \in Object : objects[o].ptr > 0 /\ ~Freed(o)}}
  \cup {Command("free", p, id, 0) :
      p \in {q \in mapped : ~Toggled(q)},
      id \in {o \in Object : objects[o].ptr > 0 /\ ~Mentioned(o)}}

MainSend_HandleFirst(c) ==
  /\ mpc = "send" /\ Len(line) < MaxLine /\ sent < MaxCommands
  /\ c \in Commands /\ child[c.index] # "crashed"
  /\ sent' = IF c.type = "connect" THEN sent ELSE sent + 1
  /\ line' = Append(line, c)
  /\ in' = [in EXCEPT ![c.index] =
              Append(@, IF c.id = NoObject THEN c
                        ELSE [c EXCEPT !.sz = objects[c.id].ptr])]
  /\ UNCHANGED <<heapVars, mpc, out, doing, child, mapped, objects>>

\* The first loop over the commands of a line.  Writing to a child that has
\* died kills main.  The handle is looked up when the command is sent.
MainSend(c) ==
  LET x == IF c.type = "free" THEN objects[c.id].ptr ELSE c.sz
  IN /\ mpc = "send" /\ Len(line) < MaxLine /\ sent < MaxCommands
     /\ c \in Commands
     /\ sent' = IF c.type = "connect" THEN sent ELSE sent + 1
     /\ IF child[c.index] = "crashed"
        THEN /\ mpc' = "dead"
             /\ UNCHANGED <<line, in>>
        ELSE /\ line' = Append(line, c)
             /\ in' = [in EXCEPT ![c.index] = Append(@, [c EXCEPT !.sz = x])]
             /\ UNCHANGED mpc
     /\ UNCHANGED <<heapVars, out, doing, child, mapped, objects>>

MainEndOfLine ==
  /\ mpc = "send" /\ line # <<>>
  /\ mpc' = "collect"
  /\ UNCHANGED <<heapVars, line, sent, pipes, doing, child, mapped, objects>>

\* What the answer a to command c changes in objects_arr and sizes_arr.
Recorded(c, a) ==
  CASE c.type = "alloc" -> [objects EXCEPT ![c.id] = [ptr |-> a, size |-> c.sz]]
    [] c.type = "free" -> [objects EXCEPT ![c.id] = Unset]
    [] OTHER -> objects

Answered(c) == out[c.index] # <<>>

MainCollect_AnyOrder ==
  /\ mpc = "collect"
  /\ \E i \in 1..Len(line) :
       /\ Answered(line[i])
       /\ objects' = Recorded(line[i], Head(out[line[i].index]))
       /\ out' = [out EXCEPT ![line[i].index] = Tail(@)]
       /\ line' = RemoveAt(line, i)
  /\ mpc' = IF Len(line) = 1 THEN "send" ELSE "collect"
  /\ UNCHANGED <<heapVars, sent, in, doing, child, mapped>>

\* The second loop, which reads the answers in the order of the commands.
MainCollect ==
  LET c == Head(line)
  IN /\ mpc = "collect"
     /\ Answered(c)
     /\ objects' = Recorded(c, Head(out[c.index]))
     /\ out' = [out EXCEPT ![c.index] = Tail(@)]
     /\ line' = Tail(line)
     /\ mpc' = IF Len(line) = 1 THEN "send" ELSE "collect"
     /\ UNCHANGED <<heapVars, sent, in, doing, child, mapped>>

\* The pipe of a dead child is at its end: the read leaves the handle as it is,
\* and the input, which cannot rely on it, does not use the object again.
MainCollectNothing ==
  LET c == Head(line)
  IN /\ mpc = "collect"
     /\ ~Answered(c) /\ child[c.index] = "crashed"
     /\ objects' = IF c.type = "alloc"
                   THEN [objects EXCEPT ![c.id] = [ptr |-> 0, size |-> c.sz]]
                   ELSE objects
     /\ line' = Tail(line)
     /\ mpc' = IF Len(line) = 1 THEN "send" ELSE "collect"
     /\ UNCHANGED <<heapVars, sent, pipes, doing, child, mapped>>

\* The end of the input: main closes its ends of the command pipes.
MainEof ==
  /\ mpc = "send" /\ line = <<>>
  /\ mpc' = "wait"
  /\ UNCHANGED <<heapVars, line, sent, pipes, doing, child, mapped, objects>>

\* main has waited for all children: shmheap_destroy.
MainDestroy ==
  /\ mpc = "wait"
  /\ \A p \in Proc : child[p] # "run"
  /\ mpc' = "done"
  /\ UNCHANGED <<heapVars, line, sent, pipes, doing, child, mapped, objects>>

Main ==
  \/ \E c \in Commands : MainSend(c)
  \/ MainEndOfLine \/ MainCollect \/ MainCollectNothing \/ MainEof \/ MainDestroy

\* shmheap_connect and shmheap_disconnect.
Mapping(p, c) ==
  CASE c.type = "connect" -> mapped \cup {p}
    [] c.type = "disconnect" -> mapped \ {p}
    [] OTHER -> mapped

\* child_proc: the next command.  Those that use the heap call the library.
Take(p) ==
  LET c == Head(in[p])
  IN /\ child[p] = "run" /\ doing[p] = Nothing /\ in[p] # <<>>
     /\ doing' = [doing EXCEPT ![p] = c]
     /\ in' = [in EXCEPT ![p] = Tail(@)]
     /\ mapped' = Mapping(p, c)
     /\ CASE c.type = "alloc" -> CallAlloc(p, c.sz)
          [] c.type = "free" -> \E b \in live : b.ptr = c.sz /\ CallFree(p, b)
          [] OTHER -> UNCHANGED heapVars
     /\ UNCHANGED <<mpc, line, sent, out, child, objects>>

\* The answers of a child are read by main and, since they have inherited the
\* pipe, could be by the children created later.
Heard(p) == mpc # "dead" \/ \E q \in Proc : q > p /\ child[q] = "run"

Ends(p, how) ==
  /\ child' = [child EXCEPT ![p] = how]
  /\ doing' = [doing EXCEPT ![p] = Nothing]

\* The call has returned; data[0] is written before the answer.
Answer(p) ==
  /\ doing[p] # Nothing /\ pc[p] = "idle"
  /\ ~(doing[p].type = "alloc" /\ res[p] = 0)
  /\ IF Heard(p)
     THEN /\ out' = [out EXCEPT ![p] =
                       Append(@, IF doing[p].type = "alloc" THEN res[p] ELSE Dummy)]
          /\ doing' = [doing EXCEPT ![p] = Nothing]
          /\ UNCHANGED child
     ELSE Ends(p, "crashed") /\ UNCHANGED out
  /\ UNCHANGED <<heapVars, mpc, line, sent, in, mapped, objects>>

WriteToNull(p) ==
  /\ doing[p].type = "alloc" /\ pc[p] = "idle" /\ res[p] = 0
  /\ Ends(p, "crashed")
  /\ UNCHANGED <<heapVars, mpc, line, sent, pipes, mapped, objects>>

\* A command pipe is at its end when main has closed it and so have the
\* children created later, which have inherited the end main writes to.
InputOver_PipesFirst(p) ==
  mpc \in {"wait", "dead"} /\ \A q \in Proc \ {p} : child[q] # "run"
InputOver(p) ==
  mpc \in {"wait", "dead"} /\ \A q \in Proc : q > p => child[q] # "run"

Exit(p) ==
  /\ child[p] = "run" /\ doing[p] = Nothing /\ in[p] = <<>>
  /\ InputOver(p)
  /\ Ends(p, "exited")
  /\ UNCHANGED <<heapVars, mpc, line, sent, pipes, mapped, objects>>

InCall(p) ==
  /\ Step(p)
  /\ UNCHANGED <<mpc, line, sent, pipes, doing, child, mapped, objects>>

Child(p) == Take(p) \/ InCall(p) \/ Answer(p) \/ WriteToNull(p) \/ Exit(p)

RunnerNext == Intact /\ (Main \/ \E p \in Proc : Child(p))

RunnerSpec == RunnerInit /\ [][RunnerNext]_runnerVars

\* Main and every child go on while they can; the input ends some time.
FairRunnerSpec ==
  /\ RunnerSpec
  /\ WF_runnerVars(Intact /\ Main)
  /\ \A p \in Proc : WF_runnerVars(Intact /\ Child(p))

--------------------------------------------------------------------------------
\* The runner uses the heap as its callers must: it asks for no block of a size
\* that was not in the input, and frees no block twice.
UsesHeap == Init /\ [][Next]_heapVars

\* Every object main has a handle of, and that the current line does not free,
\* is the live block that was allocated for it: the answers of a line are given
\* to the right commands although the children work concurrently (while the heap
\* is intact).
HandlesNameBlocks ==
  LET kept == {id \in Object : objects[id].ptr > 0 /\ ~Freed(id)}
  IN Intact =>
       \A id \in kept :
         /\ objects[id] \in live
         /\ \A other \in kept \ {id} : objects[other] # objects[id]

\* The run comes to its end, whatever the children were asked to do and even if
\* some of them have died: closing the command pipes ends the children one after
\* the other, since each keeps the pipes of the earlier ones open.  It hangs when
\* the semaphore was created with 0; what it does once the heap is not intact is
\* left open.
RunEnds == <>(mpc \in {"done", "dead"} \/ ~Intact \/ semStart = 0)
================================================================================
