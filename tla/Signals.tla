------------------------------- MODULE Signals -------------------------------
(***************************************************************************)
(* multiprocess.c and multithread.c: generators send SIGUSR1 and SIGUSR2   *)
(* in turn to a reporter and to receivers of either kind, and count what   *)
(* they have sent; receivers count what arrives; the reporter prints the   *)
(* counts after every so many signals of its own.  In multiprocess.c the   *)
(* signals interrupt the listeners and run a handler; in multithread.c     *)
(* they are blocked and taken by sigwait.                                  *)
(*                                                                         *)
(* A signal that is already pending is not remembered twice.  Only the     *)
(* reporter can be interrupted between locking a mutex and unlocking it:   *)
(* for all others such a section is one step.  Times and their averages    *)
(* are left out, except for the number of signals an average is over.      *)
(***************************************************************************)
EXTENDS Naturals, Sequences, FiniteSets

CONSTANTS
  Generator, Receiver, Reporter,
  usr1, usr2,       \* the two kinds of signals
  Listens,          \* the kind of each receiver
  tids,             \* the listeners in the order of the table of threads
  Every,            \* signals between two reports, 10 in the code
  NumberOfSignals,
  MaxSignals        \* bound of the model: multithread.c ends by the clock only

Kind == {usr1, usr2}
Listener == Receiver \cup {Reporter}
Version == {"processes", "threads"}

ASSUME SignalsAssumption ==
  /\ usr1 # usr2
  /\ Reporter \notin Receiver
  /\ Listens \in [Receiver -> Kind]
  /\ tids \in Seq(Listener) /\ tids # <<>>
  /\ \A m, n \in DOMAIN tids : tids[m] = tids[n] => m = n
  /\ IsFiniteSet(Receiver) /\ IsFiniteSet(Generator)
  /\ Every \in Nat \ {0}
  /\ NumberOfSignals \in Nat /\ MaxSignals \in Nat

VARIABLES
  version,
  handles,        \* the kinds each listener has a handler for, or waits for
  pending,
  receiving,      \* the receivers that have taken a signal and not counted it
  frames,         \* the calls of sigHandled of the reporter, the innermost last
  mutex,          \* the reporter holds it
  at,             \* of each generator
  sig, i,         \* what it sends, and in multithread.c to whom next
  sent, received, \* sigUser1SentCount, ..., sigUser2ReceivedCount
  handledCounter,
  count,          \* countUsr1, countUsr2
  signalsCounter, done,
  ended           \* SIGTERM has ended them all

generators == <<at, sig, i, sent, signalsCounter>>
reports == <<handledCounter, count>>
vars == <<version, handles, pending, receiving, frames, mutex, generators, received,
          reports, done, ended>>

Wanted(l) == IF l = Reporter THEN Kind ELSE {Listens[l]}

\* main: children inherit that both signals are ignored; threads that both are
\* blocked.
Init ==
  /\ version \in Version
  /\ handles = [l \in Listener |-> IF version = "threads" THEN Wanted(l) ELSE {}]
  /\ pending = [l \in Listener |-> {}]
  /\ receiving = {}
  /\ frames = <<>>
  /\ mutex = FALSE
  /\ at = [g \in Generator |-> "asleep"]
  /\ sig = [g \in Generator |-> usr1]
  /\ i = [g \in Generator |-> 1]
  /\ sent = [k \in Kind |-> 0] /\ received = [k \in Kind |-> 0]
  /\ handledCounter = 0
  /\ count = [k \in Kind |-> 0]
  /\ signalsCounter = 0 /\ done = FALSE
  /\ ended = FALSE

\* signal: from now on the kind is no longer ignored.
Install(l) ==
  /\ \E k \in Wanted(l) \ handles[l] :
       /\ k = usr2 => usr1 \notin Wanted(l) \ handles[l]
       /\ handles' = [handles EXCEPT ![l] = @ \cup {k}]
  /\ UNCHANGED <<version, pending, receiving, frames, mutex, generators, received,
                 reports, done, ended>>

-----------------------------------------------------------------------------
\* Generators

\* What becomes pending: an ignored signal is discarded.
Delivered(k, l) ==
  IF version = "threads" \/ k \in handles[l] THEN pending[l] \cup {k} ELSE pending[l]

\* A new signal is due: a generator sleeps for milliseconds, in which main, that
\* does nothing but look at the counter, has seen that there are enough.
KillGroup(g) ==
  /\ version = "processes"
  /\ at[g] = "asleep" /\ (signalsCounter < NumberOfSignals \/ done)
  /\ pending' = [l \in Listener |-> Delivered(sig[g], l)]
  /\ at' = [at EXCEPT ![g] = "sent"]
  /\ UNCHANGED <<version, handles, receiving, frames, mutex, sig, i, sent,
                 signalsCounter, received, reports, done, ended>>

KillThread(g) ==
  /\ version = "threads"
  /\ \/ at[g] = "asleep" /\ signalsCounter < MaxSignals
     \/ at[g] = "sending"
  /\ pending' = [pending EXCEPT ![tids[i[g]]] = Delivered(sig[g], tids[i[g]])]
  /\ IF i[g] = Len(tids)
     THEN at' = [at EXCEPT ![g] = "sent"] /\ i' = [i EXCEPT ![g] = 1]
     ELSE at' = [at EXCEPT ![g] = "sending"] /\ i' = [i EXCEPT ![g] = @ + 1]
  /\ UNCHANGED <<version, handles, receiving, frames, mutex, sig, sent,
                 signalsCounter, received, reports, done, ended>>

\* incrementSentSigCount; the next signal is of the other kind.
CountSent(g) ==
  /\ at[g] = "sent" /\ ~mutex
  /\ sent' = [sent EXCEPT ![sig[g]] = @ + 1]
  /\ sig' = [sig EXCEPT ![g] = IF @ = usr1 THEN usr2 ELSE usr1]
  /\ at' = [at EXCEPT ![g] = "counted"]
  /\ UNCHANGED <<version, handles, pending, receiving, frames, mutex, i,
                 signalsCounter, received, reports, done, ended>>

CountSignal_Goes(g) ==
  /\ at[g] = "counted"
  /\ signalsCounter' = signalsCounter + 1
  /\ at' = [at EXCEPT ![g] = "asleep"]
  /\ UNCHANGED <<version, handles, pending, receiving, frames, mutex, sig, i, sent,
                 received, reports, done, ended>>

\* Under countMutex; in multiprocess.c with the end of the whole group.
CountSignal(g) ==
  /\ at[g] = "counted"
  /\ signalsCounter' = signalsCounter + 1
  /\ at' = [at EXCEPT ![g] = "asleep"]
  /\ ended' = (version = "processes" /\ done)
  /\ UNCHANGED <<version, handles, pending, receiving, frames, mutex, sig, i, sent,
                 received, reports, done>>

\* main: the loop over the counter, or the end of the sleep.
Main ==
  /\ IF version = "processes"
     THEN ~done /\ signalsCounter >= NumberOfSignals /\ done' = TRUE /\ UNCHANGED ended
     ELSE ended' = TRUE /\ UNCHANGED done
  /\ UNCHANGED <<version, handles, pending, receiving, frames, mutex, generators,
                 received, reports>>

-----------------------------------------------------------------------------
\* Receivers: one process or thread is interrupted by, or waits for, one kind.

Take_Keeps(r) ==
  /\ r \notin receiving /\ Listens[r] \in pending[r]
  /\ receiving' = receiving \cup {r}
  /\ UNCHANGED <<version, handles, pending, frames, mutex, generators, received,
                 reports, done, ended>>

Take(r) ==
  /\ r \notin receiving /\ Listens[r] \in pending[r]
  /\ pending' = [pending EXCEPT ![r] = @ \ {Listens[r]}]
  /\ receiving' = receiving \cup {r}
  /\ UNCHANGED <<version, handles, frames, mutex, generators, received, reports, done,
                 ended>>

\* incrementReceivedSigCount
CountReceived(r) ==
  /\ r \in receiving /\ ~mutex
  /\ receiving' = receiving \ {r}
  /\ received' = [received EXCEPT ![Listens[r]] = @ + 1]
  /\ UNCHANGED <<version, handles, pending, frames, mutex, generators, reports, done,
                 ended>>

-----------------------------------------------------------------------------
\* The reporter: sigHandled, which a signal of the other kind may interrupt
\* anywhere in multiprocess.c.

NoReport == [k \in Kind |-> 0]

Interrupt(k) ==
  /\ k \in pending[Reporter] \cap handles[Reporter]
  /\ IF version = "threads" THEN frames = <<>>
     ELSE \A n \in DOMAIN frames : frames[n].sig # k
  /\ pending' = [pending EXCEPT ![Reporter] = @ \ {k}]
  /\ frames' = Append(frames, [sig |-> k, at |-> "enter", tells |-> NoReport])
  /\ UNCHANGED <<version, handles, receiving, mutex, generators, received, reports,
                 done, ended>>

\* sigMutex is held by a call from its place "full" or "counted" on.
HasSigMutex(f) == f.at \in {"full", "reading", "counted"}
SigMutexFree == \A n \in DOMAIN frames : ~HasSigMutex(frames[n])

\* The innermost call is the one that goes on, from one place to the next.
Top == Len(frames)
IsAt(place) == frames # <<>> /\ frames[Top].at = place
Goes(to, report) ==
  /\ frames' = [frames EXCEPT ![Top] = [sig |-> @.sig, at |-> to, tells |-> report]]
  /\ UNCHANGED <<version, handles, pending, receiving, generators, received, done,
                 ended>>

\* A signal is counted, with its time and that of the last one.
Enter ==
  /\ IsAt("enter") /\ SigMutexFree
  /\ Goes(IF handledCounter + 1 = Every THEN "full" ELSE "counted", NoReport)
  /\ handledCounter' = handledCounter + 1
  /\ count' = [count EXCEPT ![frames[Top].sig] = @ + 1]
  /\ UNCHANGED mutex

TakeCounts ==
  /\ IsAt("full") /\ ~mutex
  /\ Goes("reading", count)
  /\ mutex' = TRUE
  /\ UNCHANGED reports

GiveBack_KeepsCount ==
  /\ IsAt("reading")
  /\ Goes("counted", frames[Top].tells)
  /\ mutex' = FALSE
  /\ handledCounter' = 0
  /\ count' = [count EXCEPT ![usr1] = 0]

GiveBack_KeepsMutex ==
  /\ IsAt("reading")
  /\ Goes("counted", frames[Top].tells)
  /\ handledCounter' = 0
  /\ count' = [k \in Kind |-> 0]
  /\ UNCHANGED mutex

GiveBack ==
  /\ IsAt("reading")
  /\ Goes("counted", frames[Top].tells)
  /\ mutex' = FALSE
  /\ handledCounter' = 0
  /\ count' = [k \in Kind |-> 0]

\* sigMutex is released, and what is to be told is printed.
Leave ==
  /\ IsAt("counted") /\ frames[Top].tells # NoReport
  /\ Goes("print", frames[Top].tells)
  /\ UNCHANGED <<mutex, reports>>

Return ==
  /\ IsAt("print") \/ (IsAt("counted") /\ frames[Top].tells = NoReport)
  /\ frames' = SubSeq(frames, 1, Top - 1)
  /\ UNCHANGED <<version, handles, pending, receiving, mutex, generators, received,
                 reports, done, ended>>

Report == Enter \/ TakeCounts \/ GiveBack \/ Leave \/ Return
-----------------------------------------------------------------------------
Generate(g) == KillGroup(g) \/ KillThread(g) \/ CountSent(g) \/ CountSignal(g)

Next ==
  /\ ~ended
  /\ \/ Main
     \/ \E l \in Listener : Install(l)
     \/ \E g \in Generator : Generate(g)
     \/ \E r \in Receiver : Take(r) \/ CountReceived(r)
     \/ \E k \in Kind : Interrupt(k)
     \/ Report

Spec == Init /\ [][Next]_vars

\* All are scheduled, and a mutex that is free again and again is had in the end.
FairSpec ==
  /\ Spec
  /\ WF_vars(~ended /\ Main)
  /\ WF_vars(~ended /\ Report)
  /\ \A g \in Generator :
       /\ WF_vars(~ended /\ (KillGroup(g) \/ KillThread(g) \/ CountSignal(g)))
       /\ SF_vars(~ended /\ CountSent(g))

-----------------------------------------------------------------------------
\* Properties

\* Counters, signals and calls have their types, and a call of sigHandled is
\* interrupted by the other kind only.
TypeOK ==
  /\ version \in Version
  /\ handles \in [Listener -> SUBSET Kind]
  /\ pending \in [Listener -> SUBSET Kind]
  /\ receiving \subseteq Receiver
  /\ frames \in Seq([sig : Kind, at : {"enter", "full", "reading", "counted", "print"},
                     tells : [Kind -> Nat]])
  /\ \A m, n \in DOMAIN frames : m # n => frames[m].sig # frames[n].sig
  /\ mutex \in BOOLEAN /\ done \in BOOLEAN /\ ended \in BOOLEAN
  /\ at \in [Generator -> {"asleep", "sending", "sent", "counted"}]
  /\ sig \in [Generator -> Kind]
  /\ i \in [Generator -> Nat]
  /\ sent \in [Kind -> Nat] /\ received \in [Kind -> Nat] /\ count \in [Kind -> Nat]
  /\ handledCounter \in Nat /\ signalsCounter \in Nat

\* A receiver counts no more signals than were sent to it: merged ones are lost,
\* never invented, and a generator counts after it has sent.
NoMoreReceivedThanSent ==
  \A k \in Kind :
    received[k] <=
      Cardinality({r \in Receiver : Listens[r] = k})
        * (sent[k] + Cardinality({g \in Generator :
                                    at[g] \in {"sending", "sent"} /\ sig[g] = k}))

\* The averages of a report are over as many signals as are counted between two
\* reports, whatever has interrupted what.
ReportTellsTen ==
  \A n \in DOMAIN frames :
    frames[n].tells # NoReport =>
      frames[n].tells[usr1] + frames[n].tells[usr2] = Every

\* The reporter was interrupted while it held both mutexes, and waits for itself.
Stuck == Len(frames) = 2 /\ frames[1].at = "reading" /\ frames[2].at = "enter"

\* All of them end: nothing else keeps generators and receivers from going on.
GroupEnds == <>[](ended \/ Stuck)
=============================================================================
