------------------------ MODULE ServiceManager_proofs ------------------------
(***************************************************************************)
(* Proofs about ServiceManager: the types of what travels through the two  *)
(* named pipes, and that the client takes no answer for that of another    *)
(* command.  The end of an answer is the end of file of OUT, so the second *)
(* rests on who holds which descriptor: while the daemon handles a command *)
(* its descriptor 1 is OUT, and a client that has read to the end knows    *)
(* that neither the daemon nor any child of it holds OUT any more.  The     *)
(* last part follows the pipes of a service: who holds the end of each     *)
(* that is written to, until the process that writes to it has ended.      *)
(***************************************************************************)
EXTENDS ServiceManager, WellFoundedInduction, TLAPS

USE DEF Asked, Handling, Named

LEMMA StartTypes ==
  ASSUME NEW l \in Starts
  PROVE  l.log \in BOOLEAN /\ l.line \in Seq({"once", "filter", "writer"})
BY ManagerAssumption

LEMMA ShutdownType ==
  ASSUME NEW ops, NEW c \in Command(ops)
  PROVE  [c EXCEPT !.op = "shutdown"] \in Command(Asked)
BY DEF Command

LEMMA InputTypes ==
  ASSUME TypeOK, NEW c \in Inputs
  PROVE  /\ c \in Command(Asked \cup {"exit", "eof"}) /\ c.n = typed + 1
         /\ Named(c)
<1>0. <<>> \in Seq({"once", "filter", "writer"})
  OBVIOUS
<1>1. CASE \E l \in Starts : c = [op |-> "start", index |-> 0, line |-> l.line,
                                  log |-> l.log, n |-> typed + 1]
  BY <1>1, StartTypes DEF Command, TypeOK
<1>2. CASE \E o \in {"stop", "wait", "showlog"}, s \in 1..Len(services) :
             c = [op |-> o, index |-> s, line |-> <<>>, log |-> FALSE, n |-> typed + 1]
  BY <1>0, <1>2 DEF Command, TypeOK
<1>3. CASE \E o \in {"status", "shutdown", "exit", "eof"} :
             c = [op |-> o, index |-> 0, line |-> <<>>, log |-> FALSE, n |-> typed + 1]
  BY <1>0, <1>3 DEF Command, TypeOK
<1> QED BY <1>1, <1>2, <1>3 DEF Inputs

LEMMA NoCommandType == \A ops : "none" \in ops => NoCommand \in Command(ops)
<1>1. <<>> \in Seq({"once", "filter", "writer"})
  OBVIOUS
<1> QED BY <1>1 DEF NoCommand, Command

LEMMA TypeInit == Init => TypeOK
<1>1. /\ <<>> \in Seq(Command(Asked)) /\ <<>> \in Seq(Answer) /\ Len(<<>>) = 0
      /\ <<>> \in Seq([log : BOOLEAN, line : Seq({"once", "filter", "writer"})])
  OBVIOUS
<1>2. Named(NoCommand)
  BY DEF Named, NoCommand
<1>3. NoCommand \in Command(Asked \cup {"none"})
      /\ NoCommand \in Command(Asked \cup {"none", "exit", "eof"})
  BY NoCommandType
<1> SUFFICES ASSUME Init PROVE TypeOK
  OBVIOUS
<1>4. inFifo = <<>> /\ outFifo = <<>> /\ services = <<>> /\ cmd = NoCommand
      /\ last = NoCommand /\ launched = 0 /\ dpc = "getline" /\ client = "prompt"
      /\ typed = 0 /\ abandoned = FALSE /\ DOMAIN proc = Pid
  BY DEF Init
<1>5. Named(cmd) /\ \A i \in 1..Len(inFifo) : Named(inFifo[i])
  BY <1>1, <1>2, <1>4
<1>6. /\ cmd \in Command(Asked \cup {"none"})
      /\ last \in Command(Asked \cup {"none", "exit", "eof"})
      /\ inFifo \in Seq(Command(Asked)) /\ outFifo \in Seq(Answer)
      /\ services \in Seq([log : BOOLEAN, line : Seq({"once", "filter", "writer"})])
  BY <1>1, <1>3, <1>4
<1> QED BY <1>4, <1>5, <1>6 DEF TypeOK

\* What a step may leave in OUT.
LEMMA OutTypes ==
  ASSUME TypeOK, NEW q \in Seq(Answer), OutHolds(q)
  PROVE  outFifo' \in Seq(Answer)
BY DEF OutHolds

LEMMA PrintTypes ==
  ASSUME TypeOK, NEW text \in Seq(BOOLEAN), Prints(text)
  PROVE  /\ dpc' \in {"close", "dead"}
         /\ outFifo' \in Seq(Answer)
<1>1. [n |-> cmd.n, says |-> text] \in Answer
  BY DEF TypeOK, Command, Answer
<1>2. CASE client = "read"
  <2>1. Append(outFifo, [n |-> cmd.n, says |-> text]) \in Seq(Answer)
    BY <1>1 DEF TypeOK
  <2> QED BY <1>2, <2>1 DEF Prints
<1>3. CASE client # "read"
  BY <1>3, OutTypes DEF Prints, TypeOK
<1> QED BY <1>2, <1>3

LEMMA TypeDaemon == TypeOK /\ Daemon => TypeOK'
<1> SUFFICES ASSUME TypeOK, Daemon PROVE TypeOK'
  OBVIOUS
<1> USE DEF sending, starting, clientVars
<1>1. CASE GetLine
  <2>1. /\ Head(inFifo) \in Command(Asked) /\ Tail(inFifo) \in Seq(Command(Asked))
        /\ cmd' = Head(inFifo)
    BY <1>1 DEF GetLine, TypeOK
  <2>2. cmd'.op \in Asked /\ cmd' \in Command(Asked \cup {"none"})
    BY <2>1 DEF Command
  <2>3. Named(cmd)' /\ \A i \in 1..Len(inFifo') : Named(inFifo[i])'
    BY <1>1, <2>1 DEF GetLine, TypeOK
  <2> QED BY <1>1, <2>1, <2>2, <2>3 DEF GetLine, TypeOK
<1>2. CASE OpenOutput
  BY <1>2 DEF OpenOutput, TypeOK, Command
<1>3. CASE CloseOutput
  <2>1. outFifo' \in Seq(Answer)
    BY <1>3, OutTypes DEF CloseOutput, TypeOK
  <2> QED BY <1>3, <2>1 DEF CloseOutput, TypeOK, Command, NoCommand
<1>4. CASE Launch
  <2> DEFINE S == [log : BOOLEAN, line : Seq({"once", "filter", "writer"})]
             s == [log |-> cmd.log, line |-> cmd.line]
  <2>1. s \in S /\ services \in Seq(S)
    BY DEF TypeOK, Command
  <2> HIDE DEF S, s
  <2>2. services' = services \/ services' = Append(services, s)
    BY <1>4 DEF Launch, s
  <2>3. services' \in Seq(S) /\ Len(services') >= Len(services)
    BY <2>1, <2>2
  <2>4. cmd' = cmd /\ inFifo' = inFifo
    BY <1>4 DEF Launch
  <2>5. Named(cmd) /\ \A i \in 1..Len(inFifo) : Named(inFifo[i])
    BY DEF TypeOK
  <2>6. 1..Len(services) \subseteq 1..Len(services')
    <3>1. Len(services) \in Nat /\ Len(services') \in Nat
      BY <2>1, <2>3
    <3> QED BY <2>3, <3>1
  <2>7. Named(cmd)' /\ \A i \in 1..Len(inFifo') : Named(inFifo[i])'
    BY <2>4, <2>5, <2>6
  <2> QED BY <1>4, <2>3, <2>7 DEF Launch, TypeOK, S
<1>5. CASE StopOne
  BY <1>5 DEF StopOne, TypeOK, Reaped
<1>6. CASE WaitOne
  BY <1>6 DEF WaitOne, TypeOK, Reaped
<1>7. CASE AllSeen
  BY <1>7 DEF AllSeen, TypeOK
<1>8. CASE Status
  <2>1. [s \in 1..Len(services) |-> Alive(<<s, Len(services[s].line)>>)] \in Seq(BOOLEAN)
    BY DEF TypeOK, Alive
  <2>2. /\ dpc' \in {"close", "dead"}
        /\ outFifo' \in Seq(Answer)
    BY <1>8, <2>1, PrintTypes DEF Status, TypeOK
  <2> QED BY <1>8, <2>2 DEF Status, TypeOK
<1>9. CASE ShowLog
  <2>1. PICK there \in BOOLEAN :
          IF there /\ client # "read"
          THEN dpc' = "close" /\ UNCHANGED <<fd, outFifo>>
          ELSE Prints(<<there>>)
    BY <1>9 DEF ShowLog
  <2>2. /\ dpc' \in {"close", "dead"}
        /\ outFifo' \in Seq(Answer)
    <3>1. <<there>> \in Seq(BOOLEAN)
      OBVIOUS
    <3>2. dpc = "showlog" /\ UNCHANGED <<cmd, services>>
      BY <1>9 DEF ShowLog, starting
    <3> QED BY <2>1, <3>1, <3>2, PrintTypes, <1>9 DEF TypeOK, ShowLog
  <2> QED BY <1>9, <2>2 DEF ShowLog, TypeOK
<1> QED
  BY <1>1, <1>2, <1>3, <1>4, <1>5, <1>6, <1>7, <1>8, <1>9 DEF Daemon

LEMMA TypeOthers == TypeOK /\ (Client \/ Processes \/ UNCHANGED vars) => TypeOK'
<1> SUFFICES ASSUME TypeOK, Client \/ Processes \/ UNCHANGED vars PROVE TypeOK'
  OBVIOUS
<1> USE DEF sending, starting, daemonVars, clientVars
<1>1. ASSUME NEW c \in Inputs, Type(c) PROVE TypeOK'
  <2>1. /\ c \in Command(Asked \cup {"exit", "eof"}) /\ c.n = typed + 1
        /\ Named(c) /\ [c EXCEPT !.op = "shutdown"] \in Command(Asked)
    BY InputTypes, ShutdownType
  <2>2. /\ c \in Command(Asked \cup {"none", "exit", "eof"})
        /\ c.op \notin {"exit", "eof"} => c \in Command(Asked)
        /\ Named([c EXCEPT !.op = "shutdown"])
    BY <2>1 DEF Command
  <2>3. /\ inFifo' \in Seq(Command(Asked))
        /\ \A i \in 1..Len(inFifo') : Named(inFifo'[i])
    BY <1>1, <2>1, <2>2 DEF Type, TypeOK
  <2>4. UNCHANGED services
    BY <1>1 DEF Type
  <2>5. last' = c /\ typed' = typed + 1 /\ client' \in {"gone", "open"}
        /\ abandoned' \in BOOLEAN
        /\ UNCHANGED <<dpc, cmd, outFifo, launched, proc>>
    BY <1>1 DEF Type, TypeOK
  <2>6. Named(cmd)'
    BY <2>4, <2>5 DEF TypeOK
  <2> QED BY <2>2, <2>3, <2>4, <2>5, <2>6 DEF TypeOK
<1>2. CASE ClientGoesOn
  <2>1. CASE Read
    BY <2>1 DEF Read, TypeOK
  <2>2. CASE OpenInput \/ ReadEof
    BY <2>2 DEF OpenInput, ReadEof, TypeOK
  <2> QED BY <1>2, <2>1, <2>2 DEF ClientGoesOn
<1>3. CASE Interrupt
  <2>1. outFifo' \in Seq(Answer)
    BY <1>3, OutTypes DEF Interrupt, TypeOK
  <2> QED BY <1>3, <2>1 DEF Interrupt, TypeOK
<1>4. CASE NewClient
  BY <1>4 DEF NewClient, TypeOK
<1>5. ASSUME NEW p \in Pid, Exec(p) \/ End(p) PROVE TypeOK'
  <2>1. outFifo' \in Seq(Answer)
    BY <1>5, OutTypes DEF Exec, End, TypeOK
  <2>2. DOMAIN proc' = Pid
    BY <1>5 DEF Exec, End, TypeOK
  <2> QED BY <1>5, <2>1, <2>2 DEF Exec, End, TypeOK
<1>6. CASE UNCHANGED vars
  BY <1>6 DEF vars, TypeOK
<1> QED BY <1>1, <1>2, <1>3, <1>4, <1>5, <1>6 DEF Client, Processes

\* Commands and answers keep their form, whatever services are started and
\* whoever is killed (process_commands of main.c and smc.c).
THEOREM TypeCorrect == Spec => []TypeOK
BY TypeInit, TypeDaemon, TypeOthers, PTL DEF Spec, Next
-----------------------------------------------------------------------------
\* Tables of descriptors.

\* As long as there is a free number, LowestFree is one.
LEMMA FreeIsFree ==
  ASSUME NEW f, ~Full(f)
  PROVE  LowestFree(f) \notin DOMAIN f
<1> DEFINE S == Fd \ DOMAIN f
<1>1. MaxFd \in Nat
  BY ManagerAssumption
<1>2. S \subseteq Nat /\ S # {}
  BY <1>1 DEF Full, Fd
<1>3. \E n \in S : \A m \in S : ~(<<m, n>> \in OpToRel(<, Nat))
  <2> HIDE DEF S
  <2> QED BY <1>2, NatLessThanWellFounded, WFMin
<1>4. \A a, b \in Nat : <<a, b>> \in OpToRel(<, Nat) <=> a < b
  BY DEF OpToRel
<1>5. \A a, b \in Nat : a <= b <=> ~(b < a)
  OBVIOUS
<1>6. \E n \in S : \A m \in S : n <= m
  <2> HIDE DEF S
  <2> QED BY <1>2, <1>3, <1>4, <1>5, Zenon
<1> QED BY <1>6 DEF LowestFree

LEMMA OpenedHolds ==
  ASSUME NEW f, NEW o, NEW x, Holds(Opened(f, o), x)
  PROVE  o = x \/ Holds(f, x)
BY DEF Opened, Bind, Holds

LEMMA OpenedKeeps ==
  ASSUME NEW f, NEW o, ~Full(f), NEW n \in DOMAIN f
  PROVE  /\ n # LowestFree(f)
         /\ n \in DOMAIN Opened(f, o) /\ Opened(f, o)[n] = f[n]
BY FreeIsFree DEF Opened, Bind

LEMMA Dup2Holds ==
  ASSUME NEW f, NEW old, NEW new, NEW x, Holds(Dup2(f, old, new), x)
  PROVE  Holds(f, x)
BY DEF Dup2, Bind, Holds

LEMMA ShutHolds ==
  ASSUME NEW f, NEW ns, NEW x, Holds(Shut(f, ns), x)
  PROVE  Holds(f, x)
BY DEF Shut, Restrict, Holds

\* A child opens nothing but its log, so it holds OUT only if it was forked with
\* it (sm_start_internal).
LEMMA ChildFdsHold ==
  ASSUME NEW p, Holds(ChildFds(p), Out)
  PROVE  Holds(proc[p].fds, Out)
<1> DEFINE me == proc[p]
           f == me.fds
           n == LowestFree(f)
           logged == Dup2(Dup2(Opened(f, LogFile), n, 1), n, 2)
           f1 == IF ~me.isLast THEN Dup2(f, me.cur[2], 1)
                 ELSE IF me.log THEN logged ELSE Shut(f, {1, 2})
<1>1. Holds(f1, Out)
  <2>1. CASE p[2] > 1
    <3>1. Holds(Shut(Dup2(f1, me.prev[1], 0), ToSet(me.prev)), Out)
      BY <2>1 DEF ChildFds
    <3> HIDE DEF f1
    <3> QED BY <3>1, ShutHolds, Dup2Holds
  <2>2. CASE ~(p[2] > 1)
    <3>1. Holds(Shut(f1, {0}), Out)
      BY <2>2 DEF ChildFds
    <3> HIDE DEF f1
    <3> QED BY <3>1, ShutHolds
  <2> QED BY <2>1, <2>2
<1>2. Holds(logged, Out) => Holds(f, Out)
  <2>1. Holds(logged, Out) => Holds(Opened(f, LogFile), Out)
    BY Dup2Holds
  <2>2. LogFile # Out
    BY DEF LogFile, Out
  <2> QED BY <2>1, <2>2, OpenedHolds
<1> HIDE DEF logged
<1> QED BY <1>1, <1>2, Dup2Holds, ShutHolds

-----------------------------------------------------------------------------
\* Every process has a table of descriptors.
Shaped == \A p \in Pid : DOMAIN proc[p] = DOMAIN NoProcess

\* Numbers of commands are given in turn.
NumbersUsed ==
  /\ last.n = typed /\ cmd.n <= typed
  /\ \A i \in 1..Len(inFifo) : inFifo[i].n <= typed
  /\ \A i \in 1..Len(outFifo) : outFifo[i].n <= typed

\* While a command is carried out, stdout of the daemon is OUT.
DaemonHasOut ==
  /\ dpc \in Handling => 1 \in DOMAIN fd /\ fd[1] = Out
  /\ dpc = "start" /\ launched > 0 => 1 \notin ToSet(prevPipe)

\* Where the daemon and the client are in a command, until a client leaves.
Quiet == outFifo = <<>> /\ ~Held(Out)
Idle ==
  /\ client # "read" /\ Quiet
  /\ dpc \in {"getline", "done", "dead"} /\ inFifo = <<>>
Sent ==
  /\ client = "open" /\ Quiet
  /\ dpc = "getline" /\ Len(inFifo) = 1 /\ inFifo[1].n = last.n
Received ==
  /\ client = "open" /\ Quiet
  /\ dpc = "open" /\ inFifo = <<>> /\ cmd.n = last.n
Answering ==
  /\ client = "read" /\ dpc # "open" /\ inFifo = <<>>
  /\ dpc \in Handling => cmd.n = last.n
  /\ \A i \in 1..Len(outFifo) : outFifo[i].n = last.n
InStep == abandoned \/ Idle \/ Sent \/ Received \/ Answering

IInv == TypeOK /\ Shaped /\ NumbersUsed /\ DaemonHasOut /\ InStep

LEMMA InvInit == Init => IInv
<1> SUFFICES ASSUME Init PROVE IInv
  OBVIOUS
<1>1. \A p \in Pid : proc[p] = NoProcess
  BY DEF Init
<1>2. Shaped
  BY <1>1 DEF Shaped
<1>3. NumbersUsed /\ DaemonHasOut
  BY DEF Init, NumbersUsed, DaemonHasOut, NoCommand
<1>4. ~Held(Out)
  <2>1. \A p \in Pid : proc[p].fds = <<>>
    BY <1>1 DEF NoProcess, AllClosed
  <2>2. ~HeldByProcess(Out)
    BY <2>1 DEF HeldByProcess, Holds
  <2>3. ~Holds(fd, Out)
    BY DEF Init, Holds, In, Out
  <2> QED BY <2>2, <2>3 DEF Held
<1>5. Idle
  BY <1>4 DEF Init, Idle, Quiet
<1> QED BY TypeInit, <1>2, <1>3, <1>5 DEF IInv, InStep

LEMMA ShapedStep ==
  ASSUME TypeOK, Shaped, [Next]_vars
  PROVE  Shaped'
<1> DEFINE fields == {"st", "kind", "fds", "cur", "prev", "isLast", "log", "term"}
<1>0. DOMAIN NoProcess = fields
  BY DEF NoProcess
<1>1. DOMAIN proc = Pid /\ \A p \in Pid : DOMAIN proc[p] = fields
  BY <1>0 DEF TypeOK, Shaped
<1>2. CASE UNCHANGED proc
  BY <1>2 DEF Shaped
<1>3. CASE Launch
  <2> DEFINE q == <<Len(services) + 1, launched + 1>>
  <2>1. \E r : DOMAIN r = fields /\ proc' = [proc EXCEPT ![q] = r]
    <3> DEFINE r(f2, cur) ==
          [st |-> "forked", kind |-> cmd.line[launched + 1], fds |-> f2, cur |-> cur,
           prev |-> prevPipe, isLast |-> launched + 1 = Len(cmd.line),
           log |-> cmd.log, term |-> FALSE]
    <3>1. \A f2, cur : DOMAIN r(f2, cur) = fields
      OBVIOUS
    <3>2. \E f2, cur : proc' = [proc EXCEPT ![q] = r(f2, cur)]
      BY <1>3 DEF Launch
    <3> HIDE DEF r, q, fields
    <3> QED BY <3>1, <3>2
  <2> HIDE DEF q, fields
  <2> QED BY <1>0, <1>1, <2>1 DEF Shaped
<1>4. ASSUME NEW p \in Pid, Exec(p) \/ End(p) PROVE Shaped'
  <2>1. \E r : DOMAIN r = fields /\ proc' = [proc EXCEPT ![p] = r]
    <3>1. CASE Exec(p)
      <4> DEFINE r == [[[proc[p] EXCEPT !.st = "running"] EXCEPT !.fds = ChildFds(p)]
                         EXCEPT !.cur = <<0, 0>>]
      <4>1. DOMAIN r = fields
        BY <1>1
      <4>2. proc' = [proc EXCEPT ![p] = r]
        BY <1>1, <3>1 DEF Exec
      <4> QED BY <4>1, <4>2
    <3>2. CASE End(p)
      BY <3>2, <1>0 DEF End
    <3> QED BY <1>4, <3>1, <3>2
  <2> HIDE DEF fields
  <2> QED BY <1>0, <1>1, <2>1 DEF Shaped
<1>5. CASE StopOne \/ WaitOne
  <2>1. \A p \in Pid : DOMAIN proc'[p] = DOMAIN proc[p]
    BY <1>1, <1>5 DEF StopOne, WaitOne, Reaped
  <2> QED BY <2>1 DEF Shaped
<1>6. CASE Status
  <2>1. \A p \in Pid : DOMAIN proc'[p] = DOMAIN proc[p]
    BY <1>1, <1>6 DEF Status
  <2> QED BY <2>1 DEF Shaped
<1>7. CASE GetLine \/ OpenOutput \/ CloseOutput \/ AllSeen \/ ShowLog
  <2>1. UNCHANGED proc
    BY <1>7 DEF GetLine, OpenOutput, CloseOutput, AllSeen, ShowLog
  <2> QED BY <1>2, <2>1
<1>8. CASE Client
  <2>1. UNCHANGED proc
    BY <1>8 DEF Client, ClientGoesOn, Type, OpenInput, Read, ReadEof, Interrupt,
                NewClient
  <2> QED BY <1>2, <2>1
<1>9. CASE UNCHANGED vars
  BY <1>2, <1>9 DEF vars
<1> QED
  BY <1>3, <1>4, <1>5, <1>6, <1>7, <1>8, <1>9 DEF Next, Daemon, Processes

LEMMA NumbersStep ==
  ASSUME TypeOK, NumbersUsed, [Next]_vars
  PROVE  NumbersUsed'
<1> USE DEF NumbersUsed, sending, starting, daemonVars, clientVars
<1>0. /\ typed \in Nat /\ cmd.n \in Nat
      /\ inFifo \in Seq(Command(Asked)) /\ outFifo \in Seq(Answer)
  BY DEF TypeOK, Command
<1>1. ASSUME UNCHANGED <<last, typed, inFifo>>, cmd' \in {cmd, NoCommand},
             outFifo' \in {outFifo, <<>>}
      PROVE  NumbersUsed'
  BY <1>0, <1>1 DEF NoCommand
<1>2. ASSUME NEW text, Prints(text), UNCHANGED <<last, typed, cmd, inFifo>>
      PROVE  NumbersUsed'
  <2>1. CASE client = "read"
    <3> DEFINE a == [n |-> cmd.n, says |-> text]
    <3>1. outFifo' = Append(outFifo, a)
      BY <1>2, <2>1 DEF Prints
    <3>2. a.n <= typed
      OBVIOUS
    <3>3. Len(outFifo) \in Nat /\ Len(outFifo') = Len(outFifo) + 1
          /\ \A i \in 1..Len(outFifo') :
               outFifo'[i] = IF i = Len(outFifo) + 1 THEN a ELSE outFifo[i]
      <4> HIDE DEF a
      <4> QED BY <1>0, <3>1
    <3>4. \A i \in 1..Len(outFifo') : i = Len(outFifo) + 1 \/ i \in 1..Len(outFifo)
      BY <3>3
    <3>5. \A i \in 1..Len(outFifo') : outFifo'[i].n <= typed
      <4> HIDE DEF a
      <4> QED BY <3>2, <3>3, <3>4
    <3> QED BY <1>2, <3>5
  <2>2. CASE client # "read"
    BY <1>1, <1>2, <2>2 DEF Prints, OutHolds
  <2> QED BY <2>1, <2>2
<1>3. CASE GetLine
  <2>1. inFifo' = Tail(inFifo) /\ cmd' = inFifo[1] /\ 1 \in 1..Len(inFifo)
        /\ UNCHANGED <<last, typed, outFifo>>
    BY <1>0, <1>3 DEF GetLine
  <2>2. \A i \in 1..Len(inFifo') : i + 1 \in 1..Len(inFifo) /\ inFifo'[i] = inFifo[i + 1]
    BY <1>0, <2>1
  <2> QED BY <2>1, <2>2
<1>4. CASE OpenOutput \/ Launch \/ StopOne \/ WaitOne \/ AllSeen
  BY <1>1, <1>4 DEF OpenOutput, Launch, StopOne, WaitOne, AllSeen
<1>5. CASE CloseOutput
  BY <1>1, <1>5 DEF CloseOutput, OutHolds
<1>6. CASE Status
  BY <1>1, <1>2, <1>6 DEF Status
<1>7. CASE ShowLog
  BY <1>1, <1>2, <1>7 DEF ShowLog
<1>8. ASSUME NEW c \in Inputs, Type(c) PROVE NumbersUsed'
  <2>1. c.n = typed + 1 /\ [c EXCEPT !.op = "shutdown"].n = typed + 1
    BY InputTypes DEF Command
  <2>2. last' = c /\ typed' = typed + 1 /\ UNCHANGED <<cmd, outFifo>>
    BY <1>8 DEF Type
  <2>3. inFifo' = inFifo \/ \E x : x.n = typed + 1 /\ inFifo' = Append(inFifo, x)
    BY <1>8, <2>1 DEF Type
  <2>6. /\ \A i \in 1..Len(inFifo) : inFifo[i].n \in Nat
        /\ \A i \in 1..Len(outFifo) : outFifo[i].n \in Nat
    <3>1. \A x \in Command(Asked) : x.n \in Nat
      BY DEF Command
    <3>2. \A x \in Answer : x.n \in Nat
      BY DEF Answer
    <3> QED BY <1>0, <3>1, <3>2
  <2>4. \A i \in 1..Len(inFifo') : inFifo'[i].n <= typed + 1
    <3>1. CASE inFifo' = inFifo
      BY <1>0, <2>6, <3>1
    <3>2. CASE \E x : x.n = typed + 1 /\ inFifo' = Append(inFifo, x)
      <4>1. PICK x : x.n = typed + 1 /\ inFifo' = Append(inFifo, x)
        BY <3>2
      <4>2. /\ Len(inFifo') = Len(inFifo) + 1 /\ Len(inFifo) \in Nat
            /\ inFifo'[Len(inFifo) + 1] = x
            /\ \A i \in 1..Len(inFifo) : inFifo'[i] = inFifo[i]
        BY <1>0, <4>1
      <4> QED BY <1>0, <2>6, <4>1, <4>2
    <3> QED BY <2>3, <3>1, <3>2
  <2>5. cmd.n <= typed + 1 /\ \A i \in 1..Len(outFifo) : outFifo[i].n <= typed + 1
    BY <1>0, <2>6
  <2> QED BY <2>1, <2>2, <2>4, <2>5
<1>9. CASE OpenInput \/ ReadEof \/ Interrupt \/ NewClient
  BY <1>1, <1>9 DEF OpenInput, ReadEof, Interrupt, NewClient, OutHolds
<1>10. CASE Read
  <2>1. \A i \in 1..Len(outFifo') :
          i + 1 \in 1..Len(outFifo) /\ outFifo'[i] = outFifo[i + 1]
    BY <1>0, <1>10 DEF Read
  <2> QED BY <1>10, <2>1 DEF Read
<1>11. ASSUME NEW p \in Pid, Exec(p) \/ End(p) PROVE NumbersUsed'
  BY <1>1, <1>11 DEF Exec, End, OutHolds
<1>12. CASE UNCHANGED vars
  BY <1>1, <1>12 DEF vars
<1> QED
  BY <1>3, <1>4, <1>5, <1>6, <1>7, <1>8, <1>9, <1>10, <1>11, <1>12
  DEF Next, Daemon, Client, ClientGoesOn, Processes

LEMMA DaemonHasOutStep ==
  ASSUME TypeOK, DaemonHasOut, [Next]_vars
  PROVE  DaemonHasOut'
<1> USE DEF DaemonHasOut, starting, daemonVars, clientVars
<1>1. ASSUME UNCHANGED <<dpc, fd, prevPipe, launched>> PROVE DaemonHasOut'
  BY <1>1
<1>2. CASE Launch
  <2> DEFINE s == Len(services) + 1
             j == launched + 1
             r == LowestFree(fd)
             f1 == Opened(fd, ReadEnd(<<s, j>>))
             w == LowestFree(f1)
             f2 == Opened(f1, WriteEnd(<<s, j>>))
  <2>1. dpc = "start" /\ ~Full(fd) /\ ~Full(f1) /\ fd' = ParentFds(f2, j)
        /\ \/ dpc' = "close"
           \/ dpc' = "start" /\ prevPipe' = <<r, w>>
    BY <1>2 DEF Launch
  <2>2. 1 \in DOMAIN fd /\ fd[1] = Out
    BY <2>1
  <2>3. 1 # r /\ 1 \in DOMAIN f1 /\ f1[1] = Out
    BY <2>1, <2>2, OpenedKeeps
  <2>4. 1 # w /\ 1 \in DOMAIN f2 /\ f2[1] = Out
    <3> HIDE DEF f1
    <3> QED BY <2>1, <2>3, OpenedKeeps
  <2>5. 1 \in DOMAIN fd' /\ fd'[1] = Out
    <3> HIDE DEF f2
    <3>1. launched \in Nat
      BY DEF TypeOK
    <3>2. j > 1 => 1 \notin ToSet(prevPipe)
      BY <2>1, <3>1
    <3> QED BY <2>1, <2>4, <3>2 DEF ParentFds, Shut, Restrict
  <2>6. ToSet(<<r, w>>) = {r, w}
    BY DEF ToSet
  <2> QED BY <2>1, <2>3, <2>4, <2>5, <2>6
<1>3. CASE OpenOutput
  <2> DEFINE f == Opened(fd, Out)
  <2>1. LowestFree(fd) \in DOMAIN f /\ f[LowestFree(fd)] = Out
    BY DEF Opened, Bind
  <2>2. fd' = Dup2(f, LowestFree(fd), 1) /\ dpc' = cmd.op /\ dpc = "open"
        /\ UNCHANGED <<launched, prevPipe>>
    BY <1>3 DEF OpenOutput
  <2>3. 1 \in DOMAIN fd' /\ fd'[1] = Out
    <3> HIDE DEF f
    <3> QED BY <2>1, <2>2 DEF Dup2, Bind
  <2>4. launched = 0
    BY <2>2 DEF TypeOK
  <2> QED BY <2>2, <2>3, <2>4
<1>4. CASE GetLine \/ CloseOutput
  BY <1>4 DEF GetLine, CloseOutput
<1>5. CASE StopOne \/ WaitOne
  BY <1>1, <1>5 DEF StopOne, WaitOne
<1>6. ASSUME UNCHANGED fd, dpc \in Handling, dpc' \in {"close", "dead"} PROVE DaemonHasOut'
  BY <1>6
<1>7. CASE AllSeen
  BY <1>6, <1>7 DEF AllSeen
<1>8. CASE Status \/ ShowLog
  <2>1. dpc \in Handling
    BY <1>8 DEF Status, ShowLog
  <2>2. dpc' = "dead" \/ (dpc' = "close" /\ UNCHANGED fd)
    <3>1. ASSUME NEW text, Prints(text)
          PROVE  dpc' = "dead" \/ (dpc' = "close" /\ UNCHANGED fd)
      <4>1. CASE client = "read"
        BY <3>1, <4>1 DEF Prints
      <4>2. CASE client # "read"
        BY <3>1, <4>2 DEF Prints
      <4> QED BY <4>1, <4>2
    <3>2. CASE Status
      BY <3>1, <3>2 DEF Status
    <3>3. CASE ShowLog
      BY <3>1, <3>3 DEF ShowLog
    <3> QED BY <1>8, <3>2, <3>3
  <2> QED BY <2>1, <2>2
<1>9. CASE Client
  <2>1. UNCHANGED <<dpc, fd, prevPipe, launched>>
    BY <1>9 DEF Client, ClientGoesOn, Type, OpenInput, Read, ReadEof, Interrupt,
                NewClient
  <2> QED BY <1>1, <2>1
<1>10. ASSUME NEW p \in Pid, Exec(p) \/ End(p) PROVE DaemonHasOut'
  BY <1>1, <1>10 DEF Exec, End
<1>11. CASE UNCHANGED vars
  BY <1>1, <1>11 DEF vars
<1> QED
  BY <1>2, <1>3, <1>4, <1>5, <1>7, <1>8, <1>9, <1>10, <1>11 DEF Next, Daemon, Processes

-----------------------------------------------------------------------------
\* Between two commands nobody gets hold of OUT.
LEMMA NoNewHolder ==
  ASSUME TypeOK, Shaped, NEW p \in Pid, Exec(p) \/ End(p), ~Held(Out)
  PROVE  ~Held(Out)'
<1>1. DOMAIN proc = Pid /\ "fds" \in DOMAIN proc[p]
  BY DEF TypeOK, Shaped, NoProcess
<1>2. \A q \in Pid : ~Holds(proc[q].fds, Out)
  BY DEF Held, HeldByProcess
<1>3. \A q \in Pid \ {p} : proc'[q] = proc[q]
  BY <1>1 DEF Exec, End
<1>4. ~Holds(proc'[p].fds, Out)
  <2>1. CASE Exec(p)
    <3>1. proc'[p].fds = ChildFds(p)
      BY <1>1, <2>1 DEF Exec
    <3> QED BY <1>2, <3>1, ChildFdsHold
  <2>2. CASE End(p)
    <3>1. proc'[p].fds = <<>>
      BY <1>1, <2>2 DEF End, NoProcess, AllClosed
    <3> QED BY <3>1 DEF Holds
  <2> QED BY <2>1, <2>2
<1>5. ~Holds(proc'[p].fds, Out) /\ \A q \in Pid : ~Holds(proc'[q].fds, Out)
  BY <1>2, <1>3, <1>4
<1>6. fd' = fd /\ ~Holds(fd, Out)
  BY DEF Exec, End, daemonVars, Held
<1> QED BY <1>5, <1>6 DEF Held, HeldByProcess

\* Held depends on the tables of descriptors only.
LEMMA HeldSame ==
  ASSUME UNCHANGED <<fd, proc>>
  PROVE  Held(Out)' = Held(Out)
BY DEF Held, HeldByProcess, Holds

\* The daemon carries out one command at a time, for the client that reads.
LEMMA InStepDaemon ==
  ASSUME IInv, Daemon
  PROVE  InStep'
<1> USE DEF sending, starting, clientVars
<1>1. CASE abandoned
  <2>1. UNCHANGED abandoned
    BY DEF Daemon, GetLine, OpenOutput, CloseOutput, Launch, StopOne, WaitOne, AllSeen,
           Status, ShowLog
  <2> QED BY <1>1, <2>1 DEF InStep
<1>2. ~Idle
  BY DEF Idle, Daemon, GetLine, OpenOutput, CloseOutput, Launch, StopOne, WaitOne,
         AllSeen, Status, ShowLog
<1>3. CASE Sent
  <2>1. GetLine
    BY <1>3 DEF Sent, Daemon, GetLine, OpenOutput, CloseOutput, Launch, StopOne,
                WaitOne, AllSeen, Status, ShowLog
  <2>2. cmd' = inFifo[1] /\ inFifo' = <<>>
    BY <1>3, <2>1 DEF Sent, GetLine, IInv, TypeOK
  <2>3. Held(Out)' = Held(Out)
    BY <2>1, HeldSame DEF GetLine
  <2>4. Received'
    BY <1>3, <2>1, <2>2, <2>3 DEF Sent, Received, Quiet, GetLine
  <2> QED BY <2>4 DEF InStep
<1>4. CASE Received
  <2>1. OpenOutput
    BY <1>4 DEF Received, Daemon, GetLine, OpenOutput, CloseOutput, Launch, StopOne,
                WaitOne, AllSeen, Status, ShowLog
  <2>2. cmd.op \in Asked
    BY <1>4 DEF Received, IInv, TypeOK
  <2>3. Answering'
    BY <1>4, <2>1, <2>2 DEF Received, Answering, Quiet, OpenOutput
  <2> QED BY <2>3 DEF InStep
<1>5. CASE Answering
  <2> USE DEF Answering
  <2>0. client = "read" /\ inFifo = <<>> /\ dpc # "open"
    BY <1>5
  <2>1. ASSUME UNCHANGED <<client, inFifo, last>>, dpc' # "open",
               dpc' \in Handling => dpc \in Handling /\ cmd' = cmd,
               outFifo' \in {outFifo, <<>>}
        PROVE  InStep'
    BY <1>5, <2>1 DEF InStep
  <2>2. ASSUME NEW text, Prints(text), dpc \in Handling,
               UNCHANGED <<client, inFifo, last, cmd>>
        PROVE  InStep'
    <3> DEFINE a == [n |-> cmd.n, says |-> text]
    <3>1. outFifo' = Append(outFifo, a) /\ dpc' = "close"
      BY <2>0, <2>2 DEF Prints
    <3>2. outFifo \in Seq(Answer) /\ a.n = last.n
      BY <1>5, <2>2 DEF IInv, TypeOK
    <3>3. Len(outFifo) \in Nat /\ Len(outFifo') = Len(outFifo) + 1
          /\ \A i \in 1..Len(outFifo') :
               outFifo'[i] = IF i = Len(outFifo) + 1 THEN a ELSE outFifo[i]
      <4> HIDE DEF a
      <4> QED BY <3>1, <3>2
    <3>4. \A i \in 1..Len(outFifo') : i = Len(outFifo) + 1 \/ i \in 1..Len(outFifo)
      BY <3>3
    <3>5. \A i \in 1..Len(outFifo') : outFifo'[i].n = last.n
      <4> HIDE DEF a
      <4> QED BY <1>5, <3>2, <3>3, <3>4
    <3> QED BY <1>5, <2>2, <3>1, <3>5 DEF InStep
  <2>3. ~GetLine /\ ~OpenOutput
    BY <2>0 DEF GetLine, OpenOutput
  <2>4. CASE CloseOutput
    BY <2>1, <2>4 DEF CloseOutput, OutHolds
  <2>5. CASE Launch
    BY <2>0, <2>1, <2>5 DEF Launch
  <2>6. CASE StopOne \/ WaitOne \/ AllSeen
    BY <2>0, <2>1, <2>6 DEF StopOne, WaitOne, AllSeen
  <2>7. CASE Status
    BY <2>0, <2>1, <2>2, <2>7 DEF Status
  <2>8. CASE ShowLog
    BY <2>0, <2>1, <2>2, <2>8 DEF ShowLog
  <2> QED BY <2>3, <2>4, <2>5, <2>6, <2>7, <2>8 DEF Daemon
<1> QED BY <1>1, <1>2, <1>3, <1>4, <1>5 DEF IInv, InStep

\* The client types when the last answer has ended, and an answer ends when
\* nobody holds OUT: then the daemon is between two commands.
LEMMA InStepClient ==
  ASSUME IInv, Client
  PROVE  InStep'
<1> USE DEF sending, starting, daemonVars, clientVars
<1>1. CASE abandoned
  <2>1. abandoned'
    BY <1>1 DEF Client, ClientGoesOn, Type, OpenInput, Read, ReadEof, Interrupt,
                NewClient
  <2> QED BY <2>1 DEF InStep
<1>2. ASSUME NEW c \in Inputs, Type(c), ~abandoned PROVE InStep'
  <2>1. Idle /\ dpc = "getline"
    BY <1>2 DEF IInv, InStep, Sent, Received, Answering, Type, Idle
  <2>2. Held(Out)' = Held(Out)
    BY <1>2, HeldSame DEF Type
  <2>3. CASE c.op = "eof"
    BY <1>2, <2>3 DEF Type, InStep
  <2>4. CASE c.op = "exit"
    <3>1. Idle'
      BY <1>2, <2>1, <2>2, <2>4 DEF Type, Idle, Quiet
    <3> QED BY <3>1 DEF InStep
  <2>5. CASE c.op \notin {"eof", "exit"}
    <3>1. inFifo' = <<c>> /\ client' = "open" /\ last' = c
          /\ UNCHANGED <<dpc, outFifo>>
      BY <1>2, <2>1, <2>5 DEF Type, Idle
    <3>2. Sent'
      BY <2>1, <2>2, <3>1 DEF Sent, Idle, Quiet
    <3> QED BY <3>2 DEF InStep
  <2> QED BY <2>3, <2>4, <2>5
<1>3. CASE OpenInput /\ ~abandoned
  BY <1>3 DEF OpenInput, IInv, InStep, Idle, Sent, Received, Answering, Quiet
<1>4. CASE Read /\ ~abandoned
  <2>1. Answering /\ outFifo \in Seq(Answer)
    BY <1>4 DEF Read, IInv, InStep, Idle, Sent, Received, TypeOK
  <2>2. \A i \in 1..Len(outFifo') :
          i + 1 \in 1..Len(outFifo) /\ outFifo'[i] = outFifo[i + 1]
    BY <1>4, <2>1 DEF Read
  <2>3. Answering'
    BY <1>4, <2>1, <2>2 DEF Answering, Read
  <2> QED BY <2>3 DEF InStep
<1>5. CASE ReadEof /\ ~abandoned
  <2>1. Answering /\ ~Held(Out) /\ outFifo = <<>>
    BY <1>5 DEF ReadEof, IInv, InStep, Idle, Sent, Received
  <2>2. dpc \notin Handling
    BY <2>1 DEF IInv, DaemonHasOut, Held, Holds
  <2>3. dpc \in {"getline", "done", "dead"}
    BY <2>1, <2>2 DEF IInv, TypeOK, Answering
  <2>4. Held(Out)' = Held(Out)
    BY <1>5, HeldSame DEF ReadEof
  <2>5. Idle'
    BY <1>5, <2>1, <2>3, <2>4 DEF ReadEof, Idle, Quiet, Answering
  <2> QED BY <2>5 DEF InStep
<1>6. CASE Interrupt
  BY <1>6 DEF Interrupt, InStep
<1>7. CASE NewClient /\ ~abandoned
  <2>1. Held(Out)' = Held(Out)
    BY <1>7, HeldSame DEF NewClient
  <2>2. Idle'
    BY <1>7, <2>1 DEF NewClient, IInv, InStep, Idle, Sent, Received, Answering, Quiet
  <2> QED BY <2>2 DEF InStep
<1> QED
  BY <1>1, <1>2, <1>3, <1>4, <1>5, <1>6, <1>7 DEF Client, ClientGoesOn

LEMMA InStepOthers ==
  ASSUME IInv, Processes \/ UNCHANGED vars
  PROVE  InStep'
<1> USE DEF sending, starting, daemonVars, clientVars
<1>1. CASE UNCHANGED vars
  <2>1. Held(Out)' = Held(Out)
    BY <1>1, HeldSame DEF vars
  <2> QED BY <1>1, <2>1 DEF vars, IInv, InStep, Idle, Sent, Received, Answering, Quiet
<1>2. ASSUME NEW p \in Pid, Exec(p) \/ End(p) PROVE InStep'
  <2>1. /\ UNCHANGED <<dpc, cmd, inFifo, client, last, abandoned>>
        /\ outFifo' \in {outFifo, <<>>}
    BY <1>2 DEF Exec, End, OutHolds
  <2>2. ~Held(Out) => ~Held(Out)'
    BY <1>2, NoNewHolder DEF IInv
  <2>3. Quiet => Quiet'
    BY <2>1, <2>2 DEF Quiet
  <2> QED BY <2>1, <2>3 DEF IInv, InStep, Idle, Sent, Received, Answering
<1> QED BY <1>1, <1>2 DEF Processes

\* A client reads the answer to what it has typed, and no client ever reads that
\* of a later command (process_commands of main.c and smc.c).
THEOREM AnswerToOwnCommand == Spec => []OwnAnswer
<1>1. IInv => OwnAnswer
  BY DEF IInv, InStep, NumbersUsed, OwnAnswer, Idle, Sent, Received, Answering
<1>2. TypeOK' /\ IInv /\ [Next]_vars => IInv'
  <2> SUFFICES ASSUME TypeOK', IInv, [Next]_vars PROVE IInv'
    OBVIOUS
  <2>1. Shaped' /\ NumbersUsed' /\ DaemonHasOut'
    BY ShapedStep, NumbersStep, DaemonHasOutStep DEF IInv
  <2>2. InStep'
    BY InStepDaemon, InStepClient, InStepOthers DEF Next
  <2> QED BY <2>1, <2>2 DEF IInv
<1> QED BY <1>1, <1>2, InvInit, TypeCorrect, PTL DEF Spec

-----------------------------------------------------------------------------
\* Who holds the end of a pipe that is written to.

\* The pipes made so far.
Used(x) == x[1] <= Len(services) \/ (x[1] = Len(services) + 1 /\ x[2] <= launched)

\* Nobody reads from the last process of a service: its pipe is left open.
Spare(x) == proc[x].isLast = TRUE

\* The daemon keeps the pipe of the process started last until the next one.
DaemonEnds ==
  \A n \in DOMAIN fd, x \in Pid : fd[n] = WriteEnd(x) =>
    /\ Used(x)
    /\ \/ Spare(x)
       \/ /\ launched > 0 /\ x = <<Len(services) + 1, launched>>
          /\ n = prevPipe[2] /\ prevPipe[1] # n

\* A process holds its own pipe, and that of the one before it until its exec.
ChildEnds(q) ==
  /\ \A n \in DOMAIN proc[q].fds, x \in Pid : proc[q].fds[n] = WriteEnd(x) =>
       /\ Used(x)
       /\ \/ Spare(x) \/ x = q
          \/ /\ proc[q].st = "forked" /\ q[2] > 1
             /\ n = proc[q].prev[2] /\ proc[q].prev[1] # n
  /\ proc[q].st = "forked" =>
       /\ proc[q].cur[2] \in DOMAIN proc[q].fds
            => proc[q].fds[proc[q].cur[2]] = WriteEnd(q)
       /\ proc[q].prev = <<proc[q].prev[1], proc[q].prev[2]>>
  /\ ~Alive(q) => proc[q].fds = AllClosed

\* Whoever holds an end of a pipe has a use for it.
PipeInv ==
  /\ prevPipe = <<prevPipe[1], prevPipe[2]>>
  /\ DaemonEnds
  /\ \A q \in Pid : ChildEnds(q)

\* Each process has a pipe of its own.
LEMMA WriteEndsDiffer == \A x, y \in Pid : WriteEnd(x) = WriteEnd(y) => x = y
BY DEF WriteEnd, Pid

\* What a child that becomes its program keeps.
LEMMA ExecEnds ==
  ASSUME NEW p \in Pid, ChildEnds(p), proc[p].st = "forked",
         NEW n \in DOMAIN ChildFds(p), NEW x \in Pid, ChildFds(p)[n] = WriteEnd(x)
  PROVE  Used(x) /\ (Spare(x) \/ x = p)
<1> DEFINE me == proc[p]
           f == me.fds
           l == LowestFree(f)
           g == Opened(f, LogFile)
           logged == Dup2(Dup2(g, l, 1), l, 2)
           f1 == IF ~me.isLast THEN Dup2(f, me.cur[2], 1)
                 ELSE IF me.log THEN logged ELSE Shut(f, {1, 2})
<1>1. ASSUME NEW m \in DOMAIN f1, f1[m] = WriteEnd(x)
      PROVE  (m \in DOMAIN f /\ f[m] = WriteEnd(x)) \/ (x = p /\ Used(p))
  <2>1. CASE ~me.isLast
    <3>1. m \in DOMAIN Dup2(f, me.cur[2], 1) /\ Dup2(f, me.cur[2], 1)[m] = WriteEnd(x)
      BY <1>1, <2>1
    <3>2. CASE me.cur[2] \in DOMAIN f /\ m = 1
      <4>1. f[me.cur[2]] = WriteEnd(p)
        BY <3>2 DEF ChildEnds
      <4>2. WriteEnd(x) = WriteEnd(p)
        BY <3>1, <3>2, <4>1 DEF Dup2, Bind
      <4> QED BY <3>2, <4>1, <4>2, WriteEndsDiffer DEF ChildEnds
    <3>3. CASE ~(me.cur[2] \in DOMAIN f /\ m = 1)
      BY <3>1, <3>3 DEF Dup2, Bind
    <3> QED BY <3>2, <3>3
  <2>2. CASE me.isLast /\ me.log
    <3>1. m \in DOMAIN logged /\ logged[m] = WriteEnd(x)
      BY <1>1, <2>2
    <3>2. WriteEnd(x) # LogFile
      BY DEF WriteEnd, LogFile
    <3>3. l \in DOMAIN g /\ g[l] = LogFile
      BY DEF Opened, Bind
    <3>4. \A k \in DOMAIN g : k # l => k \in DOMAIN f /\ g[k] = f[k]
      BY DEF Opened, Bind
    <3> DEFINE h == Dup2(g, l, 1)
    <3> HIDE DEF g, l
    <3>5. /\ l \in DOMAIN h /\ h[l] = LogFile
          /\ \A k \in DOMAIN h : h[k] = LogFile \/ (k \in DOMAIN g /\ h[k] = g[k])
      BY <3>3 DEF Dup2, Bind
    <3>6. \A k \in DOMAIN logged : logged[k] = LogFile \/ (k \in DOMAIN h /\ logged[k] = h[k])
      <4> HIDE DEF h
      <4>1. \A k \in DOMAIN Dup2(h, l, 2) :
              Dup2(h, l, 2)[k] = LogFile \/ (k \in DOMAIN h /\ Dup2(h, l, 2)[k] = h[k])
        BY <3>5 DEF Dup2, Bind
      <4> QED BY <4>1 DEF h
    <3> HIDE DEF h, logged
    <3> QED BY <3>1, <3>2, <3>3, <3>4, <3>5, <3>6
  <2>3. CASE me.isLast /\ ~me.log
    BY <1>1, <2>3 DEF Shut, Restrict
  <2> QED BY <2>1, <2>2, <2>3
<1> HIDE DEF f1
<1>2. CASE p[2] > 1
  <2> DEFINE d == Dup2(f1, me.prev[1], 0)
  <2>1. ChildFds(p) = Shut(d, ToSet(me.prev))
    BY <1>2 DEF ChildFds, f1
  <2>2. me.prev = <<me.prev[1], me.prev[2]>>
    BY DEF ChildEnds
  <2>3. PICK a, b : a = me.prev[1] /\ b = me.prev[2] /\ ToSet(me.prev) = {a, b}
    <3>1. \A a, b : ToSet(<<a, b>>) = {a, b}
      BY DEF ToSet
    <3> QED BY <2>2, <3>1
  <2>4. n \in DOMAIN d /\ n # a /\ n # b /\ d[n] = WriteEnd(x)
    <3> HIDE DEF d
    <3> QED BY <2>1, <2>3 DEF Shut, Restrict
  <2>5. \E m \in DOMAIN f1 : f1[m] = WriteEnd(x) /\ (m = a \/ (m # b /\ m # a))
    BY <2>3, <2>4 DEF Dup2, Bind
  <2>6. PICK m \in DOMAIN f1 : f1[m] = WriteEnd(x) /\ (m = a \/ (m # b /\ m # a))
    BY <2>5
  <2>7. (m \in DOMAIN f /\ f[m] = WriteEnd(x)) \/ (x = p /\ Used(p))
    BY <1>1, <2>6
  <2> QED BY <2>3, <2>6, <2>7 DEF ChildEnds
<1>3. CASE ~(p[2] > 1)
  <2>1. ChildFds(p) = Shut(f1, {0})
    BY <1>3 DEF ChildFds, f1
  <2>2. n \in DOMAIN f1 /\ f1[n] = WriteEnd(x)
    BY <2>1 DEF Shut, Restrict
  <2> QED BY <1>1, <1>3, <2>2 DEF ChildEnds
<1> QED BY <1>2, <1>3

\* Outside of Launch nobody gets an end of a pipe, and processes stay what they
\* are in the pipeline.
LEMMA EndsFrame ==
  ASSUME PipeInv, UNCHANGED <<services, launched, prevPipe>>,
         \A n \in DOMAIN fd', x \in Pid :
           fd'[n] = WriteEnd(x) => n \in DOMAIN fd /\ fd[n] = WriteEnd(x),
         \A q \in Pid :
           /\ proc'[q].isLast = proc[q].isLast
           /\ \/ /\ proc'[q].st = proc[q].st /\ proc'[q].fds = proc[q].fds
                 /\ proc'[q].cur = proc[q].cur /\ proc'[q].prev = proc[q].prev
              \/ proc'[q].st \in {"zombie", "reaped"} /\ proc'[q].fds = AllClosed
              \/ /\ proc'[q].st = "running"
                 /\ \A n \in DOMAIN proc'[q].fds, x \in Pid :
                      proc'[q].fds[n] = WriteEnd(x) => Used(x) /\ (Spare(x) \/ x = q)
  PROVE  PipeInv'
<1>1. \A x \in Pid : Used(x)' = Used(x) /\ Spare(x)' = Spare(x)
  BY DEF Used, Spare
<1>2. DaemonEnds'
  BY <1>1 DEF PipeInv, DaemonEnds, WriteEnd
<1>3. ASSUME NEW q \in Pid PROVE ChildEnds(q)'
  <2>1. ChildEnds(q)
    BY DEF PipeInv
  <2>2. CASE /\ proc'[q].st = proc[q].st /\ proc'[q].fds = proc[q].fds
             /\ proc'[q].cur = proc[q].cur /\ proc'[q].prev = proc[q].prev
    BY <1>1, <2>1, <2>2 DEF ChildEnds, Alive, WriteEnd
  <2>3. CASE proc'[q].st \in {"zombie", "reaped"} /\ proc'[q].fds = AllClosed
    BY <2>3 DEF ChildEnds, AllClosed
  <2>4. CASE /\ proc'[q].st = "running"
             /\ \A n \in DOMAIN proc'[q].fds, x \in Pid :
                  proc'[q].fds[n] = WriteEnd(x) => Used(x) /\ (Spare(x) \/ x = q)
    BY <1>1, <2>4 DEF ChildEnds, Alive, WriteEnd
  <2> QED BY <2>2, <2>3, <2>4
<1> QED BY <1>2, <1>3 DEF PipeInv

\* The turn of the loop that starts a process.
LEMMA LaunchEnds ==
  ASSUME TypeOK, PipeInv, Launch
  PROVE  PipeInv'
<1>y. PICK y : y = <<Len(services) + 1, launched + 1>>
  OBVIOUS
<1> DEFINE j == launched + 1
           last_ == j = Len(cmd.line)
           r == LowestFree(fd)
           f1 == Opened(fd, ReadEnd(y))
           w == LowestFree(f1)
           f2 == Opened(f1, WriteEnd(y))
<1>0. Len(services) \in Nat /\ launched \in Nat /\ DOMAIN proc = Pid
  BY DEF TypeOK
<1>1. /\ ~Full(fd) /\ ~Full(f1) /\ fd' = ParentFds(f2, j)
      /\ proc' = [proc EXCEPT ![y] =
                   [st |-> "forked", kind |-> cmd.line[j], fds |-> f2, cur |-> <<r, w>>,
                    prev |-> prevPipe, isLast |-> last_, log |-> cmd.log,
                    term |-> FALSE]]
      /\ IF last_
         THEN /\ services' = Append(services, [log |-> cmd.log, line |-> cmd.line])
              /\ launched' = 0 /\ prevPipe' = <<0, 0>>
         ELSE launched' = j /\ prevPipe' = <<r, w>> /\ UNCHANGED services
  BY <1>y DEF Launch
<1>2. /\ r \notin DOMAIN fd /\ r \in DOMAIN f1 /\ w \notin DOMAIN f1 /\ r # w
      /\ w \in DOMAIN f2 /\ f2[w] = WriteEnd(y)
      /\ \A n \in DOMAIN f2 : n # w => /\ n \in DOMAIN fd \/ f2[n] = ReadEnd(y)
                                       /\ n \in DOMAIN fd => f2[n] = fd[n]
  <2>1. r \notin DOMAIN fd /\ DOMAIN f1 = DOMAIN fd \cup {r} /\ f1[r] = ReadEnd(y)
        /\ \A n \in DOMAIN fd : f1[n] = fd[n]
    BY <1>1, FreeIsFree DEF Opened, Bind
  <2> HIDE DEF f1
  <2>2. w \notin DOMAIN f1 /\ DOMAIN f2 = DOMAIN f1 \cup {w} /\ f2[w] = WriteEnd(y)
        /\ \A n \in DOMAIN f1 : f2[n] = f1[n]
    BY <1>1, FreeIsFree DEF Opened, Bind
  <2> HIDE DEF f2, r, w
  <2> QED BY <2>1, <2>2
<1> HIDE DEF f1, f2, r, w, last_
<1>3. \A n \in DOMAIN f2, x \in Pid : f2[n] = WriteEnd(x) =>
        \/ n \in DOMAIN fd /\ fd[n] = WriteEnd(x)
        \/ n = w /\ x = y
  <2>1. \A x \in Pid : WriteEnd(x) # ReadEnd(y) /\ (WriteEnd(x) = WriteEnd(y) => x = y)
    BY <1>y DEF WriteEnd, ReadEnd, Pid
  <2> QED BY <1>2, <2>1
<1>4. /\ \A x \in Pid : Used(x) => Used(x)' /\ x # y
      /\ Used(y)'
  <2>1. y[1] = Len(services) + 1 /\ y[2] = launched + 1
    BY <1>y
  <2>2. \A x \in Pid : x[1] \in Nat /\ x[2] \in Nat
    BY ManagerAssumption DEF Pid, Service
  <2>3. ASSUME NEW x \in Pid, Used(x) PROVE x # y
    BY <1>0, <2>1, <2>2, <2>3 DEF Used
  <2>4. CASE last_
    <3>1. Len(services') = Len(services) + 1 /\ launched' = 0
      BY <1>1, <2>4 DEF TypeOK
    <3> QED BY <1>0, <2>1, <2>2, <2>3, <3>1 DEF Used
  <2>5. CASE ~last_
    <3>1. Len(services') = Len(services) /\ launched' = launched + 1
      BY <1>1, <2>5
    <3> QED BY <1>0, <2>1, <2>2, <2>3, <3>1 DEF Used
  <2> QED BY <2>4, <2>5
<1>5. /\ \A x \in Pid : x # y => proc'[x] = proc[x]
      /\ y \in Pid => /\ proc'[y].st = "forked" /\ proc'[y].fds = f2
                      /\ proc'[y].cur = <<r, w>> /\ proc'[y].prev = prevPipe
                      /\ (last_ => proc'[y].isLast = TRUE)
  <2> QED BY <1>0, <1>1
<1>6. \A x \in Pid : Used(x) => (Spare(x) => Spare(x)')
  BY <1>4, <1>5 DEF Spare
<1>7. PICK a, b : prevPipe = <<a, b>> /\ a = prevPipe[1] /\ b = prevPipe[2]
  BY DEF PipeInv
<1>8. \A n \in DOMAIN fd', x \in Pid : fd'[n] = WriteEnd(x) =>
        \/ n = w /\ x = y
        \/ n \in DOMAIN fd /\ fd[n] = WriteEnd(x) /\ Spare(x)
  <2>1. CASE j > 1
    <3>1. ToSet(prevPipe) = {a, b}
      <4>1. ToSet(<<a, b>>) = {a, b}
        BY DEF ToSet
      <4> QED BY <1>7, <4>1
    <3>2. fd' = [n \in DOMAIN f2 \ {a, b} |-> f2[n]]
      BY <1>1, <2>1, <3>1 DEF ParentFds, Shut, Restrict
    <3> QED BY <1>3, <1>7, <3>2 DEF PipeInv, DaemonEnds
  <2>2. CASE ~(j > 1)
    <3>1. launched = 0 /\ fd' = f2
      BY <1>0, <1>1, <2>2 DEF ParentFds
    <3> QED BY <1>3, <3>1 DEF PipeInv, DaemonEnds
  <2> QED BY <2>1, <2>2
<1>9. DaemonEnds'
  <2> SUFFICES ASSUME NEW n \in DOMAIN fd', NEW x \in Pid, fd'[n] = WriteEnd(x)
               PROVE  /\ Used(x)'
                      /\ \/ Spare(x)'
                         \/ /\ launched' > 0 /\ x = <<Len(services') + 1, launched'>>
                            /\ n = prevPipe'[2] /\ prevPipe'[1] # n
    BY DEF DaemonEnds, WriteEnd
  <2>1. CASE n \in DOMAIN fd /\ fd[n] = WriteEnd(x) /\ Spare(x)
    BY <1>4, <1>6, <2>1 DEF PipeInv, DaemonEnds
  <2>2. CASE n = w /\ x = y /\ last_
    BY <1>4, <1>5, <2>2 DEF Spare
  <2>3. CASE n = w /\ x = y /\ ~last_
    <3>1. launched' > 0 /\ x = <<Len(services') + 1, launched'>>
      BY <1>y, <1>0, <1>1, <2>3
    <3>2. prevPipe'[2] = w /\ prevPipe'[1] = r
      BY <1>1, <2>3
    <3> QED BY <1>2, <1>4, <2>3, <3>1, <3>2
  <2> QED BY <1>8, <2>1, <2>2, <2>3
<1>10. ASSUME NEW q \in Pid PROVE ChildEnds(q)'
  <2>1. CASE q # y
    <3>1. proc'[q] = proc[q] /\ ChildEnds(q)
      BY <1>5, <2>1 DEF PipeInv
    <3> QED BY <1>4, <1>6, <3>1 DEF ChildEnds, Alive, WriteEnd
  <2>2. CASE q = y
    <3>1. proc'[q].st = "forked" /\ proc'[q].fds = f2 /\ proc'[q].prev = <<a, b>>
          /\ proc'[q].cur[2] = w
      BY <1>5, <1>7, <2>2
    <3>2. ASSUME NEW n \in DOMAIN f2, NEW x \in Pid, f2[n] = WriteEnd(x)
          PROVE  /\ Used(x)'
                 /\ \/ Spare(x)' \/ x = q
                    \/ q[2] > 1 /\ n = b /\ a # n
      <4>1. CASE n = w /\ x = y
        BY <1>4, <2>2, <4>1
      <4>2. CASE n \in DOMAIN fd /\ fd[n] = WriteEnd(x)
        <5>1. /\ Used(x)
              /\ Spare(x) \/ (launched > 0 /\ n = b /\ a # n)
          BY <1>7, <4>2 DEF PipeInv, DaemonEnds
        <5>2. launched > 0 => q[2] > 1
          BY <1>y, <1>0, <2>2
        <5> QED BY <1>4, <1>6, <5>1, <5>2
      <4> QED BY <1>3, <3>2, <4>1, <4>2
    <3>3. f2[w] = WriteEnd(q)
      BY <1>2, <2>2
    <3>4. <<a, b>>[1] = a /\ <<a, b>>[2] = b
      OBVIOUS
    <3> QED BY <3>1, <3>2, <3>3, <3>4 DEF ChildEnds, Alive, WriteEnd
  <2> QED BY <2>1, <2>2
<1>11. prevPipe' = <<prevPipe'[1], prevPipe'[2]>>
  BY <1>1
<1> QED BY <1>9, <1>10, <1>11 DEF PipeInv

\* Every step of the daemon, the client and the processes.
LEMMA PipeStep ==
  ASSUME TypeOK, Shaped, PipeInv, [Next]_vars
  PROVE  PipeInv'
<1> USE DEF sending, starting, daemonVars, clientVars
<1>0. /\ DOMAIN proc = Pid
      /\ \A q \in Pid : {"st", "fds", "cur", "prev", "isLast"} \subseteq DOMAIN proc[q]
  BY DEF TypeOK, Shaped, NoProcess
<1>1. ASSUME UNCHANGED <<services, launched, prevPipe, proc>>, fd' = fd \/ fd' = AllClosed
      PROVE  PipeInv'
  <2>1. \A n \in DOMAIN fd', x \in Pid :
           fd'[n] = WriteEnd(x) => n \in DOMAIN fd /\ fd[n] = WriteEnd(x)
    BY <1>1 DEF AllClosed
  <2> QED BY <1>1, <2>1, EndsFrame
<1>2. CASE OpenOutput
  <2> DEFINE l == LowestFree(fd)
             g == Opened(fd, Out)
  <2>1. fd' = Dup2(g, l, 1) /\ UNCHANGED <<services, launched, prevPipe, proc>>
    BY <1>2 DEF OpenOutput
  <2>2. l \in DOMAIN g /\ g[l] = Out /\ \A n \in DOMAIN g : g[n] = Out \/ (n \in DOMAIN fd /\ g[n] = fd[n])
    BY DEF Opened, Bind
  <2> HIDE DEF g, l
  <2>3. \A n \in DOMAIN fd' : fd'[n] = Out \/ (n \in DOMAIN g /\ fd'[n] = g[n])
    BY <2>1, <2>2 DEF Dup2, Bind
  <2>4. \A x \in Pid : WriteEnd(x) # Out
    BY DEF WriteEnd, Out
  <2>5. \A n \in DOMAIN fd', x \in Pid :
           fd'[n] = WriteEnd(x) => n \in DOMAIN fd /\ fd[n] = WriteEnd(x)
    BY <2>2, <2>3, <2>4
  <2> QED BY <2>1, <2>5, EndsFrame
<1>3. CASE CloseOutput
  <2>1. \A n \in DOMAIN fd' : n \in DOMAIN fd /\ fd'[n] = fd[n]
    BY <1>3 DEF CloseOutput, AllClosed, Shut, Restrict
  <2>2. UNCHANGED <<services, launched, prevPipe, proc>>
    BY <1>3 DEF CloseOutput
  <2> QED BY <2>1, <2>2, EndsFrame
<1>4. CASE GetLine \/ AllSeen
  BY <1>1, <1>4 DEF GetLine, AllSeen
<1>5. ASSUME UNCHANGED <<services, launched, prevPipe, fd>>,
             \A q \in Pid :
               /\ proc'[q].isLast = proc[q].isLast
               /\ proc'[q].fds = proc[q].fds /\ proc'[q].cur = proc[q].cur
               /\ proc'[q].prev = proc[q].prev
               /\ proc'[q].st = proc[q].st \/ (~Alive(q) /\ proc'[q].st = "reaped")
      PROVE  PipeInv'
  <2>1. \A q \in Pid : ~Alive(q) => proc[q].fds = AllClosed
    BY DEF PipeInv, ChildEnds
  <2> QED BY <1>5, <2>1, EndsFrame
<1>6. CASE StopOne \/ WaitOne
  <2>1. PICK p : \/ proc' = [proc EXCEPT ![p].term = TRUE]
                 \/ ~Alive(p) /\ proc' = [proc EXCEPT ![p].st = "reaped"]
    <3>1. CASE StopOne
      BY <3>1 DEF StopOne, Reaped
    <3>2. CASE WaitOne
      BY <3>2 DEF WaitOne, Reaped
    <3> QED BY <1>6, <3>1, <3>2
  <2>2. UNCHANGED <<services, launched, prevPipe, fd>>
    BY <1>6 DEF StopOne, WaitOne
  <2>3. ASSUME NEW q \in Pid
        PROVE  /\ proc'[q].isLast = proc[q].isLast
               /\ proc'[q].fds = proc[q].fds /\ proc'[q].cur = proc[q].cur
               /\ proc'[q].prev = proc[q].prev
               /\ proc'[q].st = proc[q].st \/ (~Alive(q) /\ proc'[q].st = "reaped")
    BY <1>0, <2>1
  <2> QED BY <1>5, <2>2, <2>3
<1>7. ASSUME NEW text, Prints(text) PROVE fd' = fd \/ fd' = AllClosed
  BY <1>7 DEF Prints
<1>8. CASE ShowLog
  <2>1. fd' = fd \/ fd' = AllClosed
    BY <1>7, <1>8 DEF ShowLog
  <2> QED BY <1>1, <1>8, <2>1 DEF ShowLog
<1>9. CASE Status
  <2>1. /\ UNCHANGED <<services, launched, prevPipe>>
        /\ fd' = fd \/ fd' = AllClosed
    BY <1>7, <1>9 DEF Status
  <2>2. ASSUME NEW q \in Pid
        PROVE  proc'[q] = proc[q] \/ (~Alive(q) /\ proc'[q] = [proc[q] EXCEPT !.st = "reaped"])
    BY <1>9 DEF Status
  <2>3. ASSUME NEW q \in Pid
        PROVE  /\ proc'[q].isLast = proc[q].isLast
               /\ proc'[q].fds = proc[q].fds /\ proc'[q].cur = proc[q].cur
               /\ proc'[q].prev = proc[q].prev
               /\ proc'[q].st = proc[q].st \/ (~Alive(q) /\ proc'[q].st = "reaped")
    BY <1>0, <2>2
  <2>4. \A n \in DOMAIN fd', x \in Pid :
           fd'[n] = WriteEnd(x) => n \in DOMAIN fd /\ fd[n] = WriteEnd(x)
    BY <2>1 DEF AllClosed
  <2>5. \A q \in Pid : ~Alive(q) => proc[q].fds = AllClosed
    BY DEF PipeInv, ChildEnds
  <2> QED BY <2>1, <2>3, <2>4, <2>5, EndsFrame
<1>10. CASE Client
  <2>1. UNCHANGED <<services, launched, prevPipe, proc, fd>>
    BY <1>10 DEF Client, ClientGoesOn, Type, OpenInput, Read, ReadEof, Interrupt,
                 NewClient
  <2> QED BY <1>1, <2>1
<1>11. ASSUME NEW p \in Pid, Exec(p) PROVE PipeInv'
  <2>1. /\ UNCHANGED <<services, launched, prevPipe, fd>> /\ proc[p].st = "forked"
        /\ proc' = [proc EXCEPT ![p].st = "running", ![p].fds = ChildFds(p),
                                ![p].cur = <<0, 0>>]
    BY <1>11 DEF Exec
  <2>2. \A q \in Pid : q # p => proc'[q] = proc[q]
    BY <1>0, <2>1
  <2>3. /\ proc'[p].st = "running" /\ proc'[p].fds = ChildFds(p)
        /\ proc'[p].isLast = proc[p].isLast
    BY <1>0, <2>1
  <2>4. \A n \in DOMAIN proc'[p].fds, x \in Pid :
           proc'[p].fds[n] = WriteEnd(x) => Used(x) /\ (Spare(x) \/ x = p)
    BY <2>1, <2>3, ExecEnds DEF PipeInv
  <2>5. ASSUME NEW q \in Pid
        PROVE  /\ proc'[q].isLast = proc[q].isLast
               /\ \/ /\ proc'[q].st = proc[q].st /\ proc'[q].fds = proc[q].fds
                     /\ proc'[q].cur = proc[q].cur /\ proc'[q].prev = proc[q].prev
                  \/ /\ proc'[q].st = "running"
                     /\ \A n \in DOMAIN proc'[q].fds, x \in Pid :
                          proc'[q].fds[n] = WriteEnd(x) => Used(x) /\ (Spare(x) \/ x = q)
    <3>1. CASE q = p
      BY <2>3, <2>4, <3>1
    <3>2. CASE q # p
      BY <2>2, <3>2
    <3> QED BY <3>1, <3>2
  <2> QED BY <2>1, <2>5, EndsFrame
<1>12. ASSUME NEW p \in Pid, End(p) PROVE PipeInv'
  <2>1. /\ UNCHANGED <<services, launched, prevPipe, fd>>
        /\ proc' = [proc EXCEPT ![p] =
                [NoProcess EXCEPT !.st = "zombie", !.isLast = proc[p].isLast,
                                  !.log = proc[p].log /\ proc[p].st = "running"]]
    BY <1>12 DEF End
  <2>2. \A q \in Pid : q # p => proc'[q] = proc[q]
    BY <1>0, <2>1
  <2>3. /\ proc'[p].st = "zombie" /\ proc'[p].fds = AllClosed
        /\ proc'[p].isLast = proc[p].isLast
    BY <1>0, <2>1 DEF NoProcess
  <2> QED BY <2>1, <2>2, <2>3, EndsFrame
<1>13. CASE UNCHANGED vars
  BY <1>1, <1>13 DEF vars
<1> QED
  BY <1>2, <1>3, <1>4, <1>6, <1>8, <1>9, <1>10, <1>11, <1>12, <1>13, LaunchEnds
  DEF Next, Daemon, Processes

\* When a process of a pipeline has ended and the service is started, nobody
\* holds the end of its pipe that is written to (sm_start_internal).
THEOREM InputsEnd == Spec => []EndOfInputArrives
<1>1. Init => PipeInv
  <2> SUFFICES ASSUME Init PROVE PipeInv
    OBVIOUS
  <2>1. DaemonEnds
    <3>1. \A x : WriteEnd(x) # In
      BY DEF WriteEnd, In
    <3> QED BY <3>1 DEF Init, DaemonEnds
  <2>2. ASSUME NEW q \in Pid PROVE ChildEnds(q)
    <3>1. proc[q].fds = AllClosed /\ proc[q].st = "none"
      BY DEF Init, NoProcess
    <3> QED BY <3>1 DEF ChildEnds, AllClosed
  <2>3. prevPipe = <<prevPipe[1], prevPipe[2]>>
    BY DEF Init
  <2> QED BY <2>1, <2>2, <2>3 DEF PipeInv
<1>2. TypeOK /\ PipeInv => EndOfInputArrives
  <2> SUFFICES ASSUME TypeOK, PipeInv, NEW p \in Pid,
                      proc[p].st \in {"zombie", "reaped"}, ~proc[p].isLast,
                      \A q \in Pid : proc[q].st # "forked", dpc # "start"
               PROVE  ~Held(WriteEnd(p))
    BY DEF EndOfInputArrives
  <2>1. ~Holds(fd, WriteEnd(p))
    <3>1. launched = 0 /\ ~Spare(p)
      BY DEF TypeOK, Spare
    <3> QED BY <3>1 DEF PipeInv, DaemonEnds, Holds
  <2>2. ASSUME NEW q \in Pid PROVE ~Holds(proc[q].fds, WriteEnd(p))
    <3>1. ChildEnds(q) /\ ChildEnds(p) /\ ~Alive(p) /\ ~Spare(p)
      BY DEF PipeInv, Alive, Spare
    <3>2. proc[p].fds = <<>>
      BY <3>1 DEF ChildEnds, AllClosed
    <3> QED BY <3>1, <3>2 DEF ChildEnds, Holds
  <2> QED BY <2>1, <2>2 DEF Held, HeldByProcess
<1>3. Init => Shaped
  BY InvInit DEF IInv
<1>4. TypeOK /\ Shaped /\ PipeInv /\ [Next]_vars => (Shaped /\ PipeInv)'
  BY ShapedStep, PipeStep
<1> QED BY <1>1, <1>2, <1>3, <1>4, TypeCorrect, PTL DEF Spec
=============================================================================
