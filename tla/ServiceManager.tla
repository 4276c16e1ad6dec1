---------------------------- MODULE ServiceManager ----------------------------
(***************************************************************************)
(* sm.c, main.c and smc.c (lab 2): a daemon that starts services, each a   *)
(* pipeline of processes, and the client that talks to it through two      *)
(* named pipes, one for commands (IN) and one for answers (OUT).           *)
(*                                                                         *)
(* Descriptors are modelled as they are, number by number: the daemon has  *)
(* closed 0, 1 and 2, so that what it opens takes their place, and a child *)
(* inherits all it has.  A step of the daemon between two system calls     *)
(* that nobody else can notice is part of the one before it.  Programs     *)
(* exist and start; they are "once", which ends by itself, "filter", which *)
(* ends when its input does, or "writer", which writes until it cannot.    *)
(***************************************************************************)
EXTENDS Naturals, Sequences, FiniteSets, SequencesExt

CONSTANTS
  Starts,        \* the services that may be started: records [line, log] of a
                 \* sequence of programs and whether there is a log (startlog)
  MaxServices,   \* at most SM_MAX_SERVICES are started in a lifetime
  MaxLength,     \* of a pipeline
  MaxFd,         \* bound: the highest descriptor
  MaxCommands, MaxClients, MaxInterrupts   \* bounds of the model

ASSUME ManagerAssumption ==
  /\ Starts \subseteq [line : Seq({"once", "filter", "writer"}), log : BOOLEAN]
  /\ \A l \in Starts : Len(l.line) \in 1..MaxLength
  /\ {MaxServices, MaxLength, MaxFd, MaxCommands, MaxClients, MaxInterrupts}
       \subseteq Nat

VARIABLES
  \* the daemon
  dpc,           \* what it does next
  cmd,           \* the command being carried out
  fd,            \* what each of its descriptors is
  outputFd,
  services,      \* serviceList: the pipelines started, with their logs
  todo,          \* the processes that stop, wait or shutdown has still to see
  prevPipe,      \* of sm_start_internal
  launched,      \* processCount of the service being started
  \* the processes of the services
  proc,
  \* the named pipes
  inFifo,        \* commands sent and not read
  outFifo,       \* answers written and not read
  \* the client
  client,        \* "prompt", "open", "read" or "gone"
  last,          \* the last command it has typed
  typed,         \* the number of commands of all clients so far
  clients, interrupts,
  abandoned      \* history: a client has left before it had its answer

sending == <<inFifo, typed>>
starting == <<services, prevPipe, launched>>
daemonVars == <<dpc, cmd, fd, outputFd, todo>>
clientVars == <<client, last, clients, interrupts, abandoned>>
vars == <<daemonVars, starting, proc, sending, outFifo, clientVars>>

Service == 1..MaxServices
Pid == Service \X (1..MaxLength)
Fd == 0..MaxFd

\* What a descriptor may be.
Closed == <<"closed", 0, 0>>
In == <<"in", 0, 0>>
Out == <<"out", 0, 0>>
LogFile == <<"log", 0, 0>>
ReadEnd(p) == <<"r", p[1], p[2]>>
WriteEnd(p) == <<"w", p[1], p[2]>>

\* A table of descriptors is a function on those that are open.
At(f, n) == IF n \in DOMAIN f THEN f[n] ELSE Closed
LowestFree(f) == CHOOSE n \in Fd \ DOMAIN f : \A m \in Fd \ DOMAIN f : n <= m
Full(f) == Fd \subseteq DOMAIN f
Bind(f, n, o) == [m \in DOMAIN f \cup {n} |-> IF m = n THEN o ELSE f[m]]
Opened(f, o) == Bind(f, LowestFree(f), o)
Dup2(f, old, new) == IF old \in DOMAIN f THEN Bind(f, new, f[old]) ELSE f
Shut(f, ns) == Restrict(f, DOMAIN f \ ns)
AllClosed == <<>>

NoCommand == [op |-> "none", index |-> 0, line |-> <<>>, log |-> FALSE, n |-> 0]
NoProcess ==
  [st |-> "none", kind |-> "once", fds |-> AllClosed, cur |-> <<0, 0>>,
   prev |-> <<0, 0>>, isLast |-> FALSE, log |-> FALSE, term |-> FALSE]

Alive(p) == proc[p].st \in {"forked", "running"}
ProcsOf(s) == {p \in Pid : p[1] = s /\ proc[p].st # "none"}
Holds(f, o) == \E n \in DOMAIN f : f[n] = o
HeldByProcess(o) == \E p \in Pid : Holds(proc[p].fds, o)
Held(o) == Holds(fd, o) \/ HeldByProcess(o)

\* main of the daemon, after the fork; and a client that has opened IN.
Init ==
  /\ dpc = "getline"
  /\ cmd = NoCommand
  /\ fd = [n \in {3} |-> In]
  /\ outputFd = 0
  /\ services = <<>>
  /\ todo = <<>>
  /\ prevPipe = <<0, 0>>
  /\ launched = 0
  /\ proc = [p \in Pid |-> NoProcess]
  /\ inFifo = <<>> /\ outFifo = <<>>
  /\ client = "prompt"
  /\ last = NoCommand
  /\ typed = 0
  /\ clients = 1 /\ interrupts = 0
  /\ abandoned = FALSE

--------------------------------------------------------------------------------
\* The daemon: process_commands

GetLine ==
  /\ dpc = "getline" /\ inFifo # <<>>
  /\ cmd' = Head(inFifo)
  /\ inFifo' = Tail(inFifo)
  /\ dpc' = "open"
  /\ UNCHANGED <<fd, outputFd, todo, starting, proc, typed, outFifo, clientVars>>

PidsOf(s) == [j \in 1..Cardinality(ProcsOf(s)) |-> <<s, j>>]
AllPids == FlattenSeq([s \in 1..Len(services) |-> PidsOf(s)])

\* open waits for a client that opens OUT or has it open; then handle_command.
OpenOutput ==
  LET n == LowestFree(fd)
  IN /\ dpc = "open" /\ client \in {"open", "read"}
     /\ ~Full(fd)
     /\ outputFd' = n
     /\ fd' = Dup2(Opened(fd, Out), n, 1)
     /\ client' = "read"
     /\ dpc' = cmd.op
     /\ todo' = CASE cmd.op \in {"stop", "wait"} -> PidsOf(cmd.index)
                  [] cmd.op = "shutdown" -> AllPids
                  [] OTHER -> <<>>
     /\ UNCHANGED <<cmd, starting, proc, sending, outFifo, last, clients,
                    interrupts, abandoned>>

\* What OUT holds after a step: it is lost when nobody has OUT open.
OutHolds(q) == outFifo' = IF client' = "read" \/ Held(Out)' THEN q ELSE <<>>

\* printf and fflush, which kill a daemon whose client has gone.
Prints(text) ==
  IF client = "read"
  THEN /\ dpc' = "close"
       /\ outFifo' = Append(outFifo, [n |-> cmd.n, says |-> text])
       /\ UNCHANGED fd
  ELSE /\ dpc' = "dead"
       /\ fd' = AllClosed
       /\ OutHolds(outFifo)

\* Names of the form Definition_Defect are mutants of Definition: the defects a
\* change of the program could introduce.
CloseOutput_KeepsStdout ==
  /\ dpc = "close"
  /\ IF cmd.op = "shutdown"
     THEN dpc' = "done" /\ fd' = AllClosed
     ELSE dpc' = "getline" /\ fd' = Shut(fd, {outputFd})
  /\ cmd' = NoCommand
  /\ UNCHANGED <<outputFd, todo, starting, proc, sending, clientVars>>
  /\ OutHolds(outFifo)

\* When the daemon and its children have closed OUT, the answer is complete.
CloseOutput ==
  /\ dpc = "close"
  /\ IF cmd.op = "shutdown"
     THEN dpc' = "done" /\ fd' = AllClosed
     ELSE dpc' = "getline" /\ fd' = Shut(fd, {1, outputFd})
  /\ cmd' = NoCommand
  /\ UNCHANGED <<outputFd, todo, starting, proc, sending, clientVars>>
  /\ OutHolds(outFifo)

--------------------------------------------------------------------------------
\* sm_start_internal

ParentFds_KeepsPipe(f, j) == f
ParentFds(f, j) == IF j > 1 THEN Shut(f, ToSet(prevPipe)) ELSE f

\* One turn of the loop: pipe, fork, and what the parent does then.
Launch ==
  LET line == cmd.line
      s == Len(services) + 1
      j == launched + 1
      r == LowestFree(fd)
      f1 == Opened(fd, ReadEnd(<<s, j>>))
      w == LowestFree(f1)
      f2 == Opened(f1, WriteEnd(<<s, j>>))
      isLast == j = Len(line)
  IN /\ dpc = "start"
     /\ ~Full(fd) /\ ~Full(f1)
     /\ proc' = [proc EXCEPT ![<<s, j>>] =
                   [st |-> "forked", kind |-> line[j], fds |-> f2, cur |-> <<r, w>>,
                    prev |-> prevPipe, isLast |-> isLast, log |-> cmd.log,
                    term |-> FALSE]]
     /\ fd' = ParentFds(f2, j)
     /\ IF isLast
        THEN /\ services' = Append(services, [log |-> cmd.log, line |-> line])
             /\ launched' = 0 /\ prevPipe' = <<0, 0>>
             /\ dpc' = "close"
        ELSE /\ launched' = j
             /\ prevPipe' = <<r, w>>
             /\ UNCHANGED <<services, dpc>>
     /\ UNCHANGED <<cmd, outputFd, todo, sending, outFifo, clientVars>>

\* What a child does with the descriptors it has inherited, before execv.
ChildFds(p) ==
  LET me == proc[p]
      f == me.fds
      n == LowestFree(f)
      f1 == IF ~me.isLast THEN Dup2(f, me.cur[2], 1)
            ELSE IF me.log THEN Dup2(Dup2(Opened(f, LogFile), n, 1), n, 2)
            ELSE Shut(f, {1, 2})
  IN IF p[2] > 1
     THEN Shut(Dup2(f1, me.prev[1], 0), ToSet(me.prev))
     ELSE Shut(f1, {0})

Exec(p) ==
  /\ proc[p].st = "forked"
  /\ proc' = [proc EXCEPT ![p].st = "running", ![p].fds = ChildFds(p),
                           ![p].cur = <<0, 0>>]
  /\ UNCHANGED <<daemonVars, starting, sending, clientVars>>
  /\ OutHolds(outFifo)

InputOver(p) ==
  LET o == At(proc[p].fds, 0)
  IN o[1] = "r" => ~Held(WriteEnd(<<o[2], o[3]>>))

NobodyReads(p) ==
  LET o == At(proc[p].fds, 1)
  IN o = Closed \/ (o[1] = "w" /\ ~Held(ReadEnd(<<o[2], o[3]>>)))

\* A process comes to its end, or is killed by SIGTERM.
End(p) ==
  /\ Alive(p)
  /\ \/ proc[p].term
     \/ /\ proc[p].st = "running"
        /\ CASE proc[p].kind = "once" -> TRUE
             [] proc[p].kind = "filter" -> InputOver(p)
             [] proc[p].kind = "writer" -> NobodyReads(p)
  /\ proc' = [proc EXCEPT ![p] =
                [NoProcess EXCEPT !.st = "zombie", !.isLast = proc[p].isLast,
                                  !.log = proc[p].log /\ proc[p].st = "running"]]
  /\ UNCHANGED <<daemonVars, starting, sending, clientVars>>
  /\ OutHolds(outFifo)

--------------------------------------------------------------------------------
\* The other commands of sm.c

Reaped(p) == [proc EXCEPT ![p].st = "reaped"]

StopOne_Returns ==
  /\ dpc \in {"stop", "shutdown"} /\ todo # <<>>
  /\ LET p == Head(todo)
     IN /\ proc' = IF Alive(p) THEN [proc EXCEPT ![p].term = TRUE] ELSE Reaped(p)
        /\ todo' = IF Alive(p) THEN Tail(todo) ELSE <<>>
  /\ UNCHANGED <<dpc, cmd, fd, outputFd, starting, sending, outFifo, clientVars>>

\* sm_stop, one process of its first loop: one that runs gets SIGTERM, one that
\* has ended is reaped.  The second loop starts where the first has ended, and
\* waits for nobody.
StopOne ==
  /\ dpc \in {"stop", "shutdown"} /\ todo # <<>>
  /\ LET p == Head(todo)
     IN proc' = IF Alive(p) THEN [proc EXCEPT ![p].term = TRUE] ELSE Reaped(p)
  /\ todo' = Tail(todo)
  /\ UNCHANGED <<dpc, cmd, fd, outputFd, starting, sending, outFifo, clientVars>>

\* sm_wait, one process.
WaitOne ==
  /\ dpc = "wait" /\ todo # <<>>
  /\ ~Alive(Head(todo))
  /\ proc' = Reaped(Head(todo))
  /\ todo' = Tail(todo)
  /\ UNCHANGED <<dpc, cmd, fd, outputFd, starting, sending, outFifo, clientVars>>

AllSeen ==
  /\ dpc \in {"stop", "shutdown", "wait"} /\ todo = <<>>
  /\ dpc' = "close"
  /\ UNCHANGED <<cmd, fd, outputFd, todo, starting, proc, sending, outFifo, clientVars>>

\* sm_status and its output: the last process of each service, which is reaped
\* when it has ended.
Status ==
  LET last_(s) == <<s, Len(services[s].line)>>
      lasts == {last_(s) : s \in 1..Len(services)}
  IN /\ dpc = "status"
     /\ proc' = [p \in Pid |-> IF p \in lasts /\ ~Alive(p)
                               THEN [proc[p] EXCEPT !.st = "reaped"] ELSE proc[p]]
     /\ UNCHANGED <<cmd, outputFd, todo, starting, sending, clientVars>>
     /\ IF services = <<>>
        THEN dpc' = "close" /\ UNCHANGED <<fd, outFifo>>
        ELSE Prints([s \in 1..Len(services) |-> Alive(last_(s))])

\* sm_showlog: a helper prints the log, or the daemon that there is none.  The
\* death of a helper is not the daemon's.  The log of a service is there when its
\* last process has opened it; before, one of an earlier daemon may be.
LogOpened(s) ==
  LET p == <<s, Len(services[s].line)>>
  IN proc[p].log /\ proc[p].st # "forked"
ShowLog ==
  /\ dpc = "showlog"
  /\ UNCHANGED <<cmd, outputFd, todo, starting, proc, sending, clientVars>>
  /\ \E there \in BOOLEAN :
       /\ LogOpened(cmd.index) => there
       /\ IF there /\ client # "read"
          THEN dpc' = "close" /\ UNCHANGED <<fd, outFifo>>
          ELSE Prints(<<there>>)

Daemon ==
  \/ GetLine \/ OpenOutput \/ CloseOutput
  \/ Launch \/ StopOne \/ WaitOne \/ AllSeen \/ Status \/ ShowLog

--------------------------------------------------------------------------------
\* The client

\* What may be typed: a service is named after it has been started.
StartsSent ==
  Len(services) + Len(SelectSeq(inFifo, LAMBDA c : c.op = "start"))
    + (IF dpc \in {"open", "start"} /\ cmd.op = "start" THEN 1 ELSE 0)
Inputs ==
  LET started == 1..Len(services)
      c(o, s, l, g) == [op |-> o, index |-> s, line |-> l, log |-> g, n |-> typed + 1]
  IN {c("start", 0, l.line, l.log) :
           l \in IF StartsSent < MaxServices THEN Starts ELSE {}}
     \cup {c(o, s, <<>>, FALSE) : o \in {"stop", "wait", "showlog"}, s \in started}
     \cup {c(o, 0, <<>>, FALSE) : o \in {"status", "shutdown", "exit", "eof"}}

\* getline and what the client sends.  At the end of its input it asks for a
\* shutdown and leaves; it sends nothing for "exit", but looks for an answer.
Type(c) ==
  /\ client = "prompt" /\ typed < MaxCommands
  /\ dpc \notin {"done", "dead"}
  /\ c \in Inputs
  /\ last' = c
  /\ typed' = typed + 1
  /\ inFifo' = CASE c.op = "exit" -> inFifo
                 [] c.op = "eof" -> Append(inFifo, [c EXCEPT !.op = "shutdown"])
                 [] OTHER -> Append(inFifo, c)
  /\ IF c.op = "eof"
     THEN client' = "gone" /\ abandoned' = TRUE
     ELSE client' = "open" /\ UNCHANGED abandoned
  /\ UNCHANGED <<daemonVars, starting, proc, outFifo, clients, interrupts>>

\* open of OUT, when somebody has it open for writing already (see OpenOutput
\* for when the daemon is just opening it).
OpenInput ==
  /\ client = "open" /\ Held(Out)
  /\ client' = "read"
  /\ UNCHANGED <<daemonVars, starting, proc, sending, outFifo, last, clients,
                 interrupts, abandoned>>

Read ==
  /\ client = "read" /\ outFifo # <<>>
  /\ outFifo' = Tail(outFifo)
  /\ UNCHANGED <<daemonVars, starting, proc, sending, clientVars>>

ReadEof_NoData ==
  /\ client = "read" /\ outFifo = <<>>
  /\ client' = IF last.op \in {"shutdown", "exit"} THEN "gone" ELSE "prompt"
  /\ UNCHANGED <<daemonVars, starting, proc, sending, outFifo, last, clients,
                 interrupts, abandoned>>

\* getc returns EOF.
ReadEof ==
  /\ client = "read" /\ outFifo = <<>> /\ ~Held(Out)
  /\ client' = IF last.op \in {"shutdown", "exit"} THEN "gone" ELSE "prompt"
  /\ UNCHANGED <<daemonVars, starting, proc, sending, outFifo, last, clients,
                 interrupts, abandoned>>

\* The user kills a client that waits, as has to be done after "exit".
Interrupt ==
  /\ client \in {"open", "read"} /\ interrupts < MaxInterrupts
  /\ client' = "gone"
  /\ interrupts' = interrupts + 1
  /\ abandoned' = TRUE
  /\ UNCHANGED <<daemonVars, starting, proc, sending, last, clients>>
  /\ OutHolds(outFifo)

NewClient ==
  /\ client = "gone" /\ clients < MaxClients /\ dpc \notin {"done", "dead"}
  /\ client' = "prompt"
  /\ clients' = clients + 1
  /\ UNCHANGED <<daemonVars, starting, proc, sending, outFifo, last, interrupts,
                 abandoned>>

ClientGoesOn == OpenInput \/ Read \/ ReadEof
Client == (\E c \in Inputs : Type(c)) \/ ClientGoesOn \/ Interrupt \/ NewClient

Processes == \E p \in Pid : Exec(p) \/ End(p)

Next == Daemon \/ Client \/ Processes

Spec == Init /\ [][Next]_vars

\* Processes run, and those that can end end; the client reads on.  Nobody has
\* to type anything.
FairSpec ==
  /\ Spec
  /\ WF_vars(Daemon) /\ WF_vars(ClientGoesOn)
  /\ WF_vars(Processes)

--------------------------------------------------------------------------------
\* Types of what travels between the client and the daemon, and of their states.
Asked == {"start", "stop", "wait", "showlog", "status", "shutdown"}
Command(ops) ==
  [op : ops, index : Nat, line : Seq({"once", "filter", "writer"}),
   log : BOOLEAN, n : Nat]
Named(c) ==
  c.op \in {"stop", "wait", "showlog"} => c.index \in 1..Len(services)
Answer == [n : Nat, says : Seq(BOOLEAN)]
Handling == Asked \cup {"close"}
TypeOK ==
  /\ dpc \in Handling \cup {"getline", "open", "done", "dead"}
  /\ cmd \in Command(Asked \cup {"none"})
  /\ dpc = "open" => cmd.op \in Asked
  /\ dpc \in Asked => cmd.op = dpc
  /\ Named(cmd) /\ \A i \in 1..Len(inFifo) : Named(inFifo[i])
  /\ last \in Command(Asked \cup {"none", "exit", "eof"})
  /\ inFifo \in Seq(Command(Asked))
  /\ outFifo \in Seq(Answer)
  /\ services \in Seq([log : BOOLEAN, line : Seq({"once", "filter", "writer"})])
  /\ launched \in Nat /\ (dpc # "start" => launched = 0)
  /\ DOMAIN proc = Pid
  /\ client \in {"prompt", "open", "read", "gone"}
  /\ typed \in Nat /\ abandoned \in BOOLEAN

\* When a process of a pipeline has ended, the next one finds the end of its
\* input: neither the daemon nor anybody else keeps the pipe open.
EndOfInputArrives ==
  \A p \in Pid :
    proc[p].st \in {"zombie", "reaped"} /\ ~proc[p].isLast
    /\ (\A q \in Pid : proc[q].st # "forked") /\ dpc # "start" =>
      ~Held(WriteEnd(p))

\* What a client reads is the answer to what it has typed, as long as no client
\* has left without its answer; and it never is one to a later command.
OwnAnswer ==
  client = "read" =>
    \A i \in 1..Len(outFifo) :
      outFifo[i].n <= last.n /\ (~abandoned => outFifo[i].n = last.n)

\* All processes end some time after the daemon has shut down, whatever they
\* were doing (sm_shutdown).
ShutdownEndsAll == dpc = "done" ~> \A p \in Pid : ~Alive(p)

\* Whoever waits for an answer gets one: main.c opens OUT for it and in the end
\* nobody holds OUT any more, neither the daemon nor what it has started.  Except
\* where the daemon has gone, for "exit", for which nothing is sent, and for a
\* wait for a service that has a writer in it for ever (smc.c, process_commands).
WritesOn ==
  dpc = "wait" /\ \E p \in ProcsOf(cmd.index) : Alive(p) /\ proc[p].kind = "writer"
Answered ==
  [](client \in {"open", "read"} =>
       <>(\/ client \notin {"open", "read"}
          \/ last.op = "exit"
          \/ dpc \in {"done", "dead"}
          \/ []WritesOn))
================================================================================
