---------------------------- MODULE Signals_proofs ----------------------------
(***************************************************************************)
(* What a report tells, and how many signals are counted as received, for  *)
(* any listeners, generators, limits and interruptions.                    *)
(***************************************************************************)
EXTENDS Signals, FiniteSetTheorems, TLAPS

Frame == [sig : Kind, at : {"enter", "full", "reading", "counted", "print"},
          tells : [Kind -> Nat]]

\* The receivers, generators and main leave the reporter's calls alone.
Others ==
  \/ Main
  \/ \E l \in Listener : Install(l)
  \/ \E g \in Generator : Generate(g)
  \/ \E r \in Receiver : Take(r) \/ CountReceived(r)

-----------------------------------------------------------------------------
\* Types

LEMMA TypeInit == Init => TypeOK
<1> SUFFICES ASSUME Init PROVE TypeOK
  OBVIOUS
<1>1. \A l \in Listener : Wanted(l) \in SUBSET Kind
  BY SignalsAssumption DEF Wanted, Listener, Kind
<1>2. handles \in [Listener -> SUBSET Kind]
  BY <1>1 DEF Init
<1>3. frames \in Seq(Frame) /\ \A m, n \in DOMAIN frames : m # n => frames[m].sig # frames[n].sig
  BY DEF Init
<1>4. sig \in [Generator -> Kind] /\ at \in [Generator -> {"asleep", "sending", "sent", "counted"}]
  BY DEF Init, Kind
<1>5. version \in Version /\ pending \in [Listener -> SUBSET Kind] /\ receiving \subseteq Receiver
  BY DEF Init
<1> QED BY <1>2, <1>3, <1>4, <1>5 DEF Init, TypeOK, Frame

LEMMA TypeOthers == TypeOK /\ Others => TypeOK'
<1> SUFFICES ASSUME TypeOK, Others PROVE TypeOK'
  OBVIOUS
<1> USE SignalsAssumption DEF TypeOK
<1>1. CASE Main
  BY <1>1 DEF Main, generators, reports
<1>2. ASSUME NEW l \in Listener, Install(l) PROVE TypeOK'
  BY <1>2 DEF Install, Wanted, generators, reports, Kind, Listener
<1>3. ASSUME NEW g \in Generator, KillGroup(g) PROVE TypeOK'
  <2>1. \A l \in Listener : Delivered(sig[g], l) \in SUBSET Kind
    BY DEF Delivered
  <2> QED BY <1>3, <2>1 DEF KillGroup, reports
<1>4. ASSUME NEW g \in Generator, KillThread(g) PROVE TypeOK'
  <2>1. \A l \in Listener : Delivered(sig[g], l) \in SUBSET Kind
    BY DEF Delivered
  <2>2. pending' \in [Listener -> SUBSET Kind]
    BY <1>4, <2>1 DEF KillThread
  <2>3. at' \in [Generator -> {"asleep", "sending", "sent", "counted"}] /\ i' \in [Generator -> Nat]
    <3>1. CASE i[g] = Len(tids)
      <4>1. at' = [at EXCEPT ![g] = "sent"] /\ i' = [i EXCEPT ![g] = 1]
        BY <1>4, <3>1 DEF KillThread
      <4> QED BY <4>1
    <3>2. CASE i[g] # Len(tids)
      <4>1. at' = [at EXCEPT ![g] = "sending"] /\ i' = [i EXCEPT ![g] = @ + 1]
        BY <1>4, <3>2 DEF KillThread
      <4> QED BY <4>1
    <3> QED BY <3>1, <3>2
  <2> QED BY <1>4, <2>2, <2>3 DEF KillThread, reports
<1>5. ASSUME NEW g \in Generator, CountSent(g) PROVE TypeOK'
  BY <1>5 DEF CountSent, reports, Kind
<1>6. ASSUME NEW g \in Generator, CountSignal(g) PROVE TypeOK'
  BY <1>6 DEF CountSignal, reports
<1>7. ASSUME NEW r \in Receiver, Take(r) PROVE TypeOK'
  BY <1>7 DEF Take, generators, reports, Listener
<1>8. ASSUME NEW r \in Receiver, CountReceived(r) PROVE TypeOK'
  BY <1>8 DEF CountReceived, generators, reports
<1> QED BY <1>1, <1>2, <1>3, <1>4, <1>5, <1>6, <1>7, <1>8 DEF Others, Generate

\* The innermost call, its place and what it tells.
LEMMA GoesType ==
  ASSUME TypeOK, NEW to \in {"full", "reading", "counted", "print"},
         NEW report \in [Kind -> Nat], frames # <<>>, Goes(to, report)
  PROVE  /\ Top \in DOMAIN frames /\ DOMAIN frames = 1..Top /\ Top \in Nat
         /\ frames' \in Seq(Frame) /\ DOMAIN frames' = DOMAIN frames
         /\ \A n \in DOMAIN frames : n # Top => frames'[n] = frames[n]
         /\ frames'[Top] = [sig |-> frames[Top].sig, at |-> to, tells |-> report]
<1>1. frames \in Seq(Frame)
  BY DEF TypeOK, Frame
<1>2. Top \in DOMAIN frames /\ DOMAIN frames = 1..Top /\ Top \in Nat
  BY <1>1 DEF Top
<1>3. frames[Top] \in Frame
  BY <1>1, <1>2
<1>4. frames' = [frames EXCEPT ![Top] = [sig |-> frames[Top].sig, at |-> to, tells |-> report]]
  BY DEF Goes
<1>5. [sig |-> frames[Top].sig, at |-> to, tells |-> report] \in Frame
  BY <1>3 DEF Frame
<1> HIDE DEF Top
<1> QED BY <1>1, <1>2, <1>4, <1>5

LEMMA TypeInterrupt == TypeOK /\ (\E k \in Kind : Interrupt(k)) => TypeOK'
<1> SUFFICES ASSUME TypeOK, NEW k \in Kind, Interrupt(k) PROVE TypeOK'
  OBVIOUS
<1> DEFINE f == [sig |-> k, at |-> "enter", tells |-> NoReport]
<1>1. f \in Frame /\ frames \in Seq(Frame) /\ frames' = Append(frames, f)
  BY DEF Interrupt, Frame, NoReport, TypeOK
<1>2. \A n \in DOMAIN frames : frames[n].sig # k
  <2>1. CASE frames = <<>>
    BY <2>1
  <2>2. CASE frames # <<>>
    BY <2>2 DEF Interrupt
  <2> QED BY <2>1, <2>2
<1>3. frames' \in Seq(Frame) /\ DOMAIN frames' = DOMAIN frames \cup {Len(frames) + 1}
      /\ (\A n \in DOMAIN frames : frames'[n] = frames[n]) /\ frames'[Len(frames) + 1].sig = k
  <2>1. f.sig = k
    OBVIOUS
  <2> HIDE DEF f
  <2> QED BY <1>1, <2>1
<1>4. \A m, n \in DOMAIN frames' : m # n => frames'[m].sig # frames'[n].sig
  BY <1>2, <1>3 DEF TypeOK
<1>5. pending' \in [Listener -> SUBSET Kind]
  BY DEF Interrupt, TypeOK
<1> QED BY <1>3, <1>4, <1>5 DEF Interrupt, TypeOK, Frame, generators, reports

\* A step of the innermost call that ends at a place with a report.
LEMMA TypeGoes ==
  ASSUME TypeOK, NEW to \in {"full", "reading", "counted", "print"},
         NEW report \in [Kind -> Nat], frames # <<>>, Goes(to, report),
         mutex' \in BOOLEAN, handledCounter' \in Nat, count' \in [Kind -> Nat]
  PROVE  TypeOK'
<1>1. frames' \in Seq(Frame)
      /\ \A m, n \in DOMAIN frames' : m # n => frames'[m].sig # frames'[n].sig
  <2>1. frames' \in Seq(Frame) /\ DOMAIN frames' = DOMAIN frames
    BY GoesType
  <2>2. frames'[Top].sig = frames[Top].sig
    <3>1. frames'[Top] = [sig |-> frames[Top].sig, at |-> to, tells |-> report]
      BY GoesType
    <3> QED BY <3>1
  <2>3. \A n \in DOMAIN frames : frames'[n].sig = frames[n].sig
    BY GoesType, <2>2
  <2> QED BY <2>1, <2>3 DEF TypeOK
<1> QED BY <1>1 DEF Goes, TypeOK, Frame, generators

LEMMA TypeReport == TypeOK /\ Report => TypeOK'
<1> SUFFICES ASSUME TypeOK, Report PROVE TypeOK'
  OBVIOUS
<1>1. ASSUME frames # <<>>
      PROVE  /\ Top \in DOMAIN frames /\ Top \in Nat
             /\ frames[Top].sig \in Kind /\ frames[Top].tells \in [Kind -> Nat]
  <2>1. frames \in Seq(Frame)
    BY DEF TypeOK, Frame
  <2>2. Top \in DOMAIN frames /\ Top \in Nat
    BY <1>1, <2>1 DEF Top
  <2>3. frames[Top] \in Frame
    BY <2>1, <2>2
  <2> QED BY <2>2, <2>3 DEF Frame
<1>2. NoReport \in [Kind -> Nat]
  BY DEF NoReport
<1>3. CASE Enter
  <2>1. count' \in [Kind -> Nat] /\ handledCounter' \in Nat /\ mutex' \in BOOLEAN
    <3>1. frames # <<>> /\ count' = [count EXCEPT ![frames[Top].sig] = @ + 1]
          /\ handledCounter' = handledCounter + 1 /\ UNCHANGED mutex
      BY <1>3 DEF Enter, IsAt
    <3>2. count \in [Kind -> Nat] /\ handledCounter \in Nat /\ mutex \in BOOLEAN
      BY DEF TypeOK
    <3> QED BY <1>1, <3>1, <3>2
  <2>2. PICK to \in {"full", "counted"} : Goes(to, NoReport) /\ frames # <<>>
    BY <1>3 DEF Enter, IsAt
  <2> QED BY <1>2, <2>1, <2>2, TypeGoes
<1>4. CASE TakeCounts
  <2>1. Goes("reading", count) /\ frames # <<>> /\ mutex' \in BOOLEAN
        /\ count' \in [Kind -> Nat] /\ handledCounter' \in Nat /\ count \in [Kind -> Nat]
    BY <1>4 DEF TakeCounts, IsAt, TypeOK, reports
  <2> QED BY <2>1, TypeGoes
<1>5. CASE GiveBack
  <2>1. Goes("counted", frames[Top].tells) /\ frames # <<>> /\ mutex' \in BOOLEAN
        /\ count' \in [Kind -> Nat] /\ handledCounter' \in Nat
    BY <1>5 DEF GiveBack, IsAt
  <2> QED BY <1>1, <2>1, TypeGoes
<1>6. CASE Leave
  <2>1. Goes("print", frames[Top].tells) /\ frames # <<>> /\ mutex' \in BOOLEAN
        /\ count' \in [Kind -> Nat] /\ handledCounter' \in Nat
    BY <1>6 DEF Leave, IsAt, TypeOK, reports
  <2> QED BY <1>1, <2>1, TypeGoes
<1>7. CASE Return
  <2>1. frames # <<>> /\ frames' = SubSeq(frames, 1, Top - 1) /\ frames \in Seq(Frame)
    BY <1>7 DEF Return, IsAt, TypeOK, Frame
  <2>2. frames' \in Seq(Frame) /\ DOMAIN frames' \subseteq DOMAIN frames
        /\ \A n \in DOMAIN frames' : frames'[n] = frames[n]
    BY <2>1 DEF Top
  <2> QED BY <1>7, <2>2 DEF Return, TypeOK, Frame, generators, reports
<1> QED BY <1>3, <1>4, <1>5, <1>6, <1>7 DEF Report

LEMMA NextSplit ==
  [Next]_vars => Others \/ (\E k \in Kind : Interrupt(k)) \/ Report \/ UNCHANGED vars
BY DEF Next, Others

\* Counters, signals and calls of sigHandled have their types, and no call is
\* interrupted by a signal of its own kind.
THEOREM TypeCorrect == Spec => []TypeOK
<1>1. TypeOK /\ UNCHANGED vars => TypeOK'
  BY DEF TypeOK, vars, generators, reports
<1> QED BY <1>1, TypeInit, TypeOthers, TypeInterrupt, TypeReport, NextSplit, PTL DEF Spec
-----------------------------------------------------------------------------
\* What a report tells

Counting(f) == f.at \in {"full", "reading"}

\* One call at a time holds sigMutex.  As long as none of them is to report, fewer
\* than Every signals have been counted; what one has read is what is counted, and
\* it adds up, until the counters start again.
ReportInv ==
  /\ handledCounter = count[usr1] + count[usr2]
  /\ \A m, n \in DOMAIN frames :
       (HasSigMutex(frames[m]) /\ HasSigMutex(frames[n])) => m = n
  /\ (\E n \in DOMAIN frames : Counting(frames[n])) => handledCounter = Every
  /\ (\A n \in DOMAIN frames : ~Counting(frames[n])) => handledCounter < Every
  /\ ReportTellsTen

LEMMA ReportInit == Init => ReportInv
BY SignalsAssumption DEF Init, ReportInv, ReportTellsTen, Kind

\* The reporter's counters and calls are its own.
LEMMA ReportSame ==
  ReportInv /\ UNCHANGED <<frames, handledCounter, count>> => ReportInv'
BY DEF ReportInv, ReportTellsTen, Counting, HasSigMutex

LEMMA ReportInterrupt ==
  TypeOK /\ ReportInv /\ (\E k \in Kind : Interrupt(k)) => ReportInv'
<1> SUFFICES ASSUME TypeOK, ReportInv, NEW k \in Kind, Interrupt(k) PROVE ReportInv'
  OBVIOUS
<1> DEFINE f == [sig |-> k, at |-> "enter", tells |-> NoReport]
           new == Len(frames) + 1
<1>1. f \in Frame /\ frames \in Seq(Frame) /\ frames' = Append(frames, f)
  BY DEF Interrupt, Frame, NoReport, TypeOK
<1>2. /\ DOMAIN frames' = DOMAIN frames \cup {new} /\ new \notin DOMAIN frames
      /\ \A n \in DOMAIN frames : frames'[n] = frames[n]
      /\ frames'[new] = f
  <2> HIDE DEF f
  <2> QED BY <1>1
<1>3. frames'[new].at = "enter" /\ frames'[new].tells = NoReport
  BY <1>2
<1>4. UNCHANGED <<handledCounter, count>>
  BY DEF Interrupt, reports
<1> HIDE DEF f, new
<1> QED BY <1>2, <1>3, <1>4 DEF ReportInv, ReportTellsTen, Counting, HasSigMutex, NoReport

\* A step of the innermost call changes what is said of the calls in its own
\* place only.
LEMMA ReportReport == TypeOK /\ TypeOK' /\ ReportInv /\ Report => ReportInv'
<1> SUFFICES ASSUME TypeOK, TypeOK', ReportInv, Report PROVE ReportInv'
  OBVIOUS
<1>1. frames \in Seq(Frame) /\ handledCounter \in Nat /\ count \in [Kind -> Nat]
  BY DEF TypeOK, Frame
<1>2. ASSUME frames # <<>> PROVE Top \in DOMAIN frames /\ Top \in Nat /\ frames[Top] \in Frame
  <2>1. Top \in DOMAIN frames /\ Top \in Nat
    BY <1>1, <1>2 DEF Top
  <2> QED BY <1>1, <2>1
<1>3. ASSUME NEW to \in {"full", "reading", "counted", "print"}, NEW report \in [Kind -> Nat],
             frames # <<>>, Goes(to, report)
      PROVE  /\ DOMAIN frames' = DOMAIN frames
             /\ \A n \in DOMAIN frames : n # Top => frames'[n] = frames[n]
             /\ frames'[Top].at = to /\ frames'[Top].tells = report
  <2>1. frames'[Top] = [sig |-> frames[Top].sig, at |-> to, tells |-> report]
    BY <1>3, GoesType
  <2> QED BY <1>3, <2>1, GoesType
<1>4. NoReport \in [Kind -> Nat] /\ usr1 \in Kind /\ usr2 \in Kind /\ usr1 # usr2
  BY SignalsAssumption DEF NoReport, Kind
<1>5. CASE Enter
  <2> DEFINE to == IF handledCounter + 1 = Every THEN "full" ELSE "counted"
  <2>1. Goes(to, NoReport) /\ frames # <<>> /\ SigMutexFree
        /\ count' = [count EXCEPT ![frames[Top].sig] = @ + 1]
        /\ handledCounter' = handledCounter + 1
    BY <1>5 DEF Enter, IsAt
  <2>2. frames[Top].sig \in Kind
    BY <1>2, <2>1 DEF Frame
  <2>3. handledCounter' = count'[usr1] + count'[usr2]
    BY <1>1, <1>4, <2>1, <2>2 DEF ReportInv, Kind
  <2>4. handledCounter < Every
    BY <2>1 DEF ReportInv, SigMutexFree, HasSigMutex, Counting
  <2>5. to \in {"full", "counted"} /\ (to = "full" <=> handledCounter' = Every)
        /\ (to = "counted" <=> handledCounter' < Every)
    BY <1>1, <2>1, <2>4, SignalsAssumption
  <2> HIDE DEF to
  <2>6. DOMAIN frames' = DOMAIN frames
        /\ (\A n \in DOMAIN frames : n # Top => frames'[n] = frames[n])
        /\ frames'[Top].at = to /\ frames'[Top].tells = NoReport /\ Top \in DOMAIN frames
    BY <1>2, <1>3, <1>4, <2>1, <2>5
  <2>7. \A n \in DOMAIN frames : n # Top => ~HasSigMutex(frames'[n])
    BY <2>1, <2>6 DEF SigMutexFree
  <2>8. ReportTellsTen'
    BY <2>6 DEF ReportInv, ReportTellsTen, NoReport
  <2> QED BY <2>3, <2>5, <2>6, <2>7, <2>8 DEF ReportInv, Counting, HasSigMutex
<1>6. CASE TakeCounts
  <2>1. Goes("reading", count) /\ frames # <<>> /\ frames[Top].at = "full"
        /\ UNCHANGED <<handledCounter, count>>
    BY <1>6 DEF TakeCounts, IsAt, reports
  <2>2. DOMAIN frames' = DOMAIN frames
        /\ (\A n \in DOMAIN frames : n # Top => frames'[n] = frames[n])
        /\ frames'[Top].at = "reading" /\ frames'[Top].tells = count /\ Top \in DOMAIN frames
    BY <1>1, <1>2, <1>3, <2>1
  <2>3. count[usr1] + count[usr2] = Every
    BY <2>1, <2>2 DEF ReportInv, Counting
  <2>4. ReportTellsTen'
    BY <2>2, <2>3 DEF ReportInv, ReportTellsTen, NoReport
  <2> QED BY <2>1, <2>2, <2>4 DEF ReportInv, Counting, HasSigMutex
<1>7. CASE GiveBack
  <2>1. Goes("counted", frames[Top].tells) /\ frames # <<>> /\ frames[Top].at = "reading"
        /\ handledCounter' = 0 /\ count' = [k \in Kind |-> 0]
    BY <1>7 DEF GiveBack, IsAt
  <2>2. frames[Top].tells \in [Kind -> Nat]
    BY <1>2, <2>1 DEF Frame
  <2>3. DOMAIN frames' = DOMAIN frames
        /\ (\A n \in DOMAIN frames : n # Top => frames'[n] = frames[n])
        /\ frames'[Top].at = "counted" /\ frames'[Top].tells = frames[Top].tells
        /\ Top \in DOMAIN frames
    BY <1>2, <1>3, <2>1, <2>2
  <2>4. \A n \in DOMAIN frames : ~Counting(frames'[n])
    BY <2>1, <2>3 DEF ReportInv, Counting, HasSigMutex
  <2>5. ReportTellsTen'
    BY <2>3 DEF ReportInv, ReportTellsTen, NoReport
  <2>6. handledCounter' = count'[usr1] + count'[usr2] /\ handledCounter' < Every
    BY <1>4, <2>1, SignalsAssumption
  <2>7. \A m, n \in DOMAIN frames :
          (HasSigMutex(frames'[m]) /\ HasSigMutex(frames'[n])) => m = n
    BY <2>1, <2>3 DEF ReportInv, HasSigMutex
  <2> QED BY <2>3, <2>4, <2>5, <2>6, <2>7 DEF ReportInv, Counting, HasSigMutex
<1>8. CASE Leave
  <2>1. Goes("print", frames[Top].tells) /\ frames # <<>> /\ frames[Top].at = "counted"
        /\ UNCHANGED <<handledCounter, count>>
    BY <1>8 DEF Leave, IsAt, reports
  <2>2. frames[Top].tells \in [Kind -> Nat]
    BY <1>2, <2>1 DEF Frame
  <2>3. DOMAIN frames' = DOMAIN frames
        /\ (\A n \in DOMAIN frames : n # Top => frames'[n] = frames[n])
        /\ frames'[Top].at = "print" /\ frames'[Top].tells = frames[Top].tells
        /\ Top \in DOMAIN frames
    BY <1>2, <1>3, <2>1, <2>2
  <2>4. ReportTellsTen'
    BY <2>3 DEF ReportInv, ReportTellsTen, NoReport
  <2> QED BY <2>1, <2>3, <2>4 DEF ReportInv, Counting, HasSigMutex
<1>9. CASE Return
  <2>1. frames # <<>> /\ frames' = SubSeq(frames, 1, Top - 1)
        /\ frames[Top].at \in {"print", "counted"} /\ UNCHANGED <<handledCounter, count>>
    BY <1>9 DEF Return, IsAt, reports
  <2>2. DOMAIN frames' = DOMAIN frames \ {Top}
        /\ \A n \in DOMAIN frames' : frames'[n] = frames[n]
    BY <1>1, <2>1 DEF Top
  <2>3. ~Counting(frames[Top])
    BY <2>1 DEF Counting
  <2>4. ReportTellsTen'
    BY <2>2 DEF ReportInv, ReportTellsTen, NoReport
  <2> QED BY <2>1, <2>2, <2>3, <2>4 DEF ReportInv
<1> QED BY <1>5, <1>6, <1>7, <1>8, <1>9 DEF Report

\* A report's averages are over exactly Every signals, although its handler runs
\* inside another and both count.
THEOREM ReportsAreOverTen == Spec => []ReportTellsTen
<1>1. ReportInv => ReportTellsTen
  BY DEF ReportInv
<1>2. TypeOK /\ TypeOK' /\ ReportInv /\ [Next]_vars => ReportInv'
  <2>1. Others => UNCHANGED <<frames, handledCounter, count>>
    BY DEF Others, Main, Install, Generate, KillGroup, KillThread, CountSent, CountSignal,
           Take, CountReceived, reports
  <2>2. UNCHANGED vars => UNCHANGED <<frames, handledCounter, count>>
    BY DEF vars, reports
  <2> QED BY <2>1, <2>2, NextSplit, ReportSame, ReportInterrupt, ReportReport
<1> QED BY <1>1, <1>2, ReportInit, TypeCorrect, PTL DEF Spec

-----------------------------------------------------------------------------
\* Signals on their way.

\* The receivers of a kind, those that have taken a signal, and those for which
\* one is pending.
Of(k) == {r \in Receiver : Listens[r] = k}
Taken(k) == {r \in Of(k) : r \in receiving}
Waiting(k) == {r \in Of(k) : k \in pending[r]}

\* To whom a generator has sent the signal it has not counted yet.
Told(g) ==
  IF at[g] = "sent" THEN Receiver
  ELSE IF at[g] = "sending" THEN {tids[n] : n \in 1..(i[g] - 1)} ELSE {}
Due(k) ==
  {m \in Generator \X Of(k) : sig[m[1]] = k /\ m[2] \in Told(m[1])}

\* Every signal that is counted, taken or pending was sent once.
FlowInv ==
  /\ \A g \in Generator : i[g] \in DOMAIN tids
  /\ \A k \in Kind :
       received[k] + Cardinality(Taken(k)) + Cardinality(Waiting(k))
         <= Cardinality(Of(k)) * sent[k] + Cardinality(Due(k))

\* Listeners and generators are finitely many.
LEMMA FiniteParts ==
  ASSUME NEW k
  PROVE  /\ IsFiniteSet(Of(k)) /\ Cardinality(Of(k)) \in Nat
         /\ \A S \in SUBSET Of(k) : /\ IsFiniteSet(S) /\ Cardinality(S) \in Nat
                                    /\ Cardinality(S) <= Cardinality(Of(k))
         /\ \A D \in SUBSET (Generator \X Of(k)) :
              IsFiniteSet(D) /\ Cardinality(D) \in Nat
<1>1. IsFiniteSet(Of(k))
  <2>1. Of(k) \in SUBSET Receiver
    BY DEF Of
  <2> QED BY <2>1, FS_Subset, SignalsAssumption
<1>2. IsFiniteSet(Generator \X Of(k))
  BY <1>1, FS_Product, SignalsAssumption
<1>3. ASSUME NEW S \in SUBSET Of(k)
      PROVE  /\ IsFiniteSet(S) /\ Cardinality(S) \in Nat
             /\ Cardinality(S) <= Cardinality(Of(k))
  BY <1>1, FS_Subset, FS_CardinalityType
<1>4. ASSUME NEW D \in SUBSET (Generator \X Of(k))
      PROVE  IsFiniteSet(D) /\ Cardinality(D) \in Nat
  BY <1>2, FS_Subset, FS_CardinalityType
<1>5. Cardinality(Of(k)) \in Nat
  BY <1>1, FS_CardinalityType
<1> QED BY <1>1, <1>3, <1>4, <1>5

\* The bound as one between numbers that a step changes.
LEMMA FlowStep ==
  ASSUME TypeOK, TypeOK', FlowInv, NEW k \in Kind,
         NEW x \in Nat, NEW y \in Nat,
         received'[k] + Cardinality(Taken(k)') + Cardinality(Waiting(k)')
           <= received[k] + Cardinality(Taken(k)) + Cardinality(Waiting(k)) + x,
         Cardinality(Of(k)) * sent[k] + Cardinality(Due(k)) + x
           <= Cardinality(Of(k)) * sent'[k] + Cardinality(Due(k)')
  PROVE  received'[k] + Cardinality(Taken(k)') + Cardinality(Waiting(k)')
           <= Cardinality(Of(k)) * sent'[k] + Cardinality(Due(k)')
<1> DEFINE a == received[k]
           t == Cardinality(Taken(k))
           w == Cardinality(Waiting(k))
           o == Cardinality(Of(k))
           d == Cardinality(Due(k))
           p == o * sent[k]
           a1 == received'[k]
           t1 == Cardinality(Taken(k)')
           w1 == Cardinality(Waiting(k)')
           d1 == Cardinality(Due(k)')
           p1 == o * sent'[k]
<1>1. /\ Taken(k) \in SUBSET Of(k) /\ Taken(k)' \in SUBSET Of(k)
      /\ Waiting(k) \in SUBSET Of(k) /\ Waiting(k)' \in SUBSET Of(k)
      /\ Due(k) \in SUBSET (Generator \X Of(k)) /\ Due(k)' \in SUBSET (Generator \X Of(k))
  BY DEF Taken, Waiting, Due
<1>2. /\ a \in Nat /\ a1 \in Nat /\ t \in Nat /\ t1 \in Nat /\ w \in Nat /\ w1 \in Nat
      /\ o \in Nat /\ d \in Nat /\ d1 \in Nat /\ sent[k] \in Nat /\ sent'[k] \in Nat
  BY <1>1, FiniteParts DEF TypeOK
<1>3. p \in Nat /\ p1 \in Nat
  <2>1. \A m, n \in Nat : m * n \in Nat
    OBVIOUS
  <2> QED BY <1>2, <2>1
<1>4. a + t + w <= p + d
  BY DEF FlowInv
<1>5. a1 + t1 + w1 <= a + t + w + x /\ p + d + x <= p1 + d1
  OBVIOUS
<1> HIDE DEF a, t, w, o, d, p, a1, t1, w1, d1, p1
<1>6. a1 + t1 + w1 <= p1 + d1
  BY <1>2, <1>3, <1>4, <1>5
<1> QED BY <1>6 DEF a1, t1, w1, o, d1, p1

\* Steps that touch neither signals nor their counts.
LEMMA FlowSame ==
  ASSUME FlowInv, UNCHANGED <<received, receiving, i, sent>>,
         \A r \in Receiver : pending'[r] = pending[r],
         \A g \in Generator : /\ sig'[g] = sig[g]
                              /\ at'[g] = at[g] \/ {at[g], at'[g]} \cap {"sent", "sending"} = {}
  PROVE  FlowInv'
<1>1. \A g \in Generator : Told(g)' = Told(g)
  BY DEF Told
<1>2. \A k : Taken(k)' = Taken(k) /\ Waiting(k)' = Waiting(k) /\ Due(k)' = Due(k)
  BY <1>1 DEF Taken, Waiting, Due, Of
<1> QED BY <1>2 DEF FlowInv

\* A signal to the whole group is pending for all receivers of its kind.
LEMMA FlowKillGroup ==
  ASSUME TypeOK, TypeOK', FlowInv, NEW g \in Generator, KillGroup(g)
  PROVE  FlowInv'
<1>1. /\ UNCHANGED <<received, receiving, i, sent, sig>> /\ at[g] = "asleep"
      /\ at'[g] = "sent" /\ \A h \in Generator : h # g => at'[h] = at[h]
      /\ \A l \in Listener : pending'[l] \ {sig[g]} = pending[l] \ {sig[g]}
  BY DEF KillGroup, TypeOK, Delivered
<1>2. ASSUME NEW k \in Kind
      PROVE  received'[k] + Cardinality(Taken(k)') + Cardinality(Waiting(k)')
               <= Cardinality(Of(k)) * sent'[k] + Cardinality(Due(k)')
  <2>1. Taken(k)' = Taken(k)
    BY <1>1 DEF Taken
  <2>2. \A h \in Generator : h # g => Told(h)' = Told(h)
    BY <1>1 DEF Told
  <2>3. Told(g) = {} /\ Told(g)' = Receiver
    BY <1>1 DEF Told
  <2>4. CASE k # sig[g]
    <3>1. Waiting(k)' = Waiting(k)
      BY <1>1, <2>4 DEF Waiting, Of, Listener
    <3>2. Due(k)' = Due(k)
      BY <1>1, <2>2, <2>4 DEF Due
    <3> QED BY <1>1, <2>1, <3>1, <3>2 DEF FlowInv
  <2>5. CASE k = sig[g]
    <3> DEFINE P == {g} \X Of(k)
    <3>1. Due(k)' = Due(k) \cup P /\ Due(k) \cap P = {}
      BY <1>1, <2>2, <2>3, <2>5 DEF Due, Of
    <3>2. IsFiniteSet(P) /\ Cardinality(P) = Cardinality(Of(k))
      <4>1. IsFiniteSet({g}) /\ Cardinality({g}) = 1
        BY FS_Singleton
      <4>2. IsFiniteSet(P) /\ Cardinality(P) = 1 * Cardinality(Of(k))
        BY <4>1, FS_Product, FiniteParts
      <4> QED BY <4>2, FiniteParts
    <3>3. Cardinality(Due(k)') = Cardinality(Due(k)) + Cardinality(Of(k))
      <4> HIDE DEF P
      <4>1. Due(k) \in SUBSET (Generator \X Of(k))
        BY DEF Due
      <4>2. IsFiniteSet(Due(k)) /\ Cardinality(Due(k)) \in Nat /\ Cardinality({}) = 0
        BY <4>1, FiniteParts, FS_EmptySet
      <4>3. Cardinality(Due(k) \cup P) = Cardinality(Due(k)) + Cardinality(P) - 0
        BY <3>1, <3>2, <4>2, FS_Union
      <4> QED BY <3>1, <3>2, <4>2, <4>3, FiniteParts
    <3>4. Cardinality(Waiting(k)') <= Cardinality(Of(k))
      <4>1. Waiting(k)' \in SUBSET Of(k)
        BY DEF Waiting
      <4> QED BY <4>1, FiniteParts
    <3> DEFINE a == received[k]
               t == Cardinality(Taken(k))
               w == Cardinality(Waiting(k))
               w1 == Cardinality(Waiting(k)')
               o == Cardinality(Of(k))
               d == Cardinality(Due(k))
               p == o * sent[k]
    <3>5. a \in Nat /\ t \in Nat /\ w \in Nat /\ w1 \in Nat /\ o \in Nat /\ d \in Nat /\ p \in Nat
      <4>1. Waiting(k) \in SUBSET Of(k) /\ Waiting(k)' \in SUBSET Of(k)
            /\ Taken(k) \in SUBSET Of(k) /\ Due(k) \in SUBSET (Generator \X Of(k))
        BY DEF Waiting, Taken, Due
      <4>2. sent[k] \in Nat /\ a \in Nat /\ \A m, n \in Nat : m * n \in Nat
        BY DEF TypeOK
      <4> QED BY <4>1, <4>2, FiniteParts
    <3>6. w1 <= o
      BY <3>4
    <3> HIDE DEF a, t, w, w1, o, d, p
    <3>7. a + t + w1 <= a + t + w + o /\ p + d + o <= p + (d + o)
      BY <3>5, <3>6
    <3>8. received'[k] = a /\ Cardinality(Taken(k)') = t /\ Cardinality(Due(k)') = d + o
          /\ o * sent'[k] = p
      BY <1>1, <2>1, <3>3 DEF a, t, o, d, p
    <3> QED BY <3>5, <3>7, <3>8, FlowStep DEF a, t, w, w1, o, d, p
  <2> QED BY <2>4, <2>5
<1> QED BY <1>1, <1>2 DEF FlowInv

\* A signal to one thread after the other.
LEMMA FlowKillThread ==
  ASSUME TypeOK, TypeOK', FlowInv, NEW g \in Generator, KillThread(g)
  PROVE  FlowInv'
<1>0. PICK j : j = i[g] /\ j \in 1..Len(tids) /\ j \in Nat
  <2>1. i[g] \in DOMAIN tids
    BY DEF FlowInv
  <2>2. DOMAIN tids = 1..Len(tids) /\ Len(tids) \in Nat
    BY SignalsAssumption
  <2> QED BY <2>1, <2>2
<1>1. PICK l : l = tids[j] /\ l \in Listener
  BY <1>0, SignalsAssumption
<1>2. /\ UNCHANGED <<received, receiving, sent, sig>> /\ at[g] \in {"asleep", "sending"}
      /\ \A h \in Generator : h # g => at'[h] = at[h] /\ i'[h] = i[h]
      /\ at'[g] = IF j = Len(tids) THEN "sent" ELSE "sending"
      /\ i'[g] = IF j = Len(tids) THEN 1 ELSE j + 1
      /\ pending' = [pending EXCEPT ![l] = Delivered(sig[g], l)]
  BY <1>0, <1>1 DEF KillThread, TypeOK
<1>3. \A h \in Generator : i'[h] \in DOMAIN tids
  <2>1. i'[g] \in 1..Len(tids)
    BY <1>0, <1>2, SignalsAssumption
  <2> QED BY <1>2, <2>1, SignalsAssumption DEF FlowInv
<1>4. l \notin Told(g)
  <2>1. CASE at[g] = "sending"
    <3>1. \A n \in 1..(j - 1) : n \in DOMAIN tids /\ n # j
      BY <1>0, SignalsAssumption
    <3>2. \A n \in 1..(j - 1) : tids[n] # l
      BY <1>0, <1>1, <3>1, SignalsAssumption
    <3> QED BY <1>0, <2>1, <3>2 DEF Told
  <2>2. CASE at[g] = "asleep"
    BY <2>2 DEF Told
  <2> QED BY <1>2, <2>1, <2>2
<1>5. \A r \in Receiver : r \in Told(g) \/ r = l => r \in Told(g)'
  <2>1. CASE j = Len(tids)
    BY <1>2, <2>1 DEF Told
  <2>2. CASE j # Len(tids)
    <3>1. Told(g)' = {tids[n] : n \in 1..j}
      <4>1. at'[g] = "sending" /\ i'[g] - 1 = j
        BY <1>0, <1>2, <2>2
      <4> QED BY <4>1 DEF Told
    <3>2. 1..(j - 1) \subseteq 1..j /\ j \in 1..j
      BY <1>0
    <3>3. Told(g) \subseteq {tids[n] : n \in 1..(j - 1)}
      BY <1>0, <1>2 DEF Told
    <3> QED BY <1>1, <3>1, <3>2, <3>3
  <2> QED BY <2>1, <2>2
<1>6. \A h \in Generator : h # g => Told(h)' = Told(h)
  BY <1>2 DEF Told
<1>7. ASSUME NEW k \in Kind
      PROVE  received'[k] + Cardinality(Taken(k)') + Cardinality(Waiting(k)')
               <= Cardinality(Of(k)) * sent'[k] + Cardinality(Due(k)')
  <2>1. Taken(k)' = Taken(k)
    BY <1>2 DEF Taken
  <2>2. CASE k # sig[g] \/ l \notin Of(k)
    <3>1. Waiting(k)' = Waiting(k)
      BY <1>2, <2>2 DEF Waiting, Of, Listener, TypeOK, Delivered
    <3>2. Due(k) \subseteq Due(k)'
      BY <1>2, <1>5, <1>6 DEF Due, Of
    <3>3. Cardinality(Due(k)) <= Cardinality(Due(k)')
      <4>1. Due(k)' \in SUBSET (Generator \X Of(k))
        BY DEF Due
      <4>2. IsFiniteSet(Due(k)')
        BY <4>1, FiniteParts
      <4> QED BY <3>2, <4>2, FS_Subset
    <3> DEFINE x == received[k] + Cardinality(Taken(k)) + Cardinality(Waiting(k))
               p == Cardinality(Of(k)) * sent[k]
               d == Cardinality(Due(k))
               d1 == Cardinality(Due(k)')
    <3>4. x \in Nat /\ p \in Nat /\ d \in Nat /\ d1 \in Nat
      <4>1. Waiting(k) \in SUBSET Of(k) /\ Taken(k) \in SUBSET Of(k)
            /\ Due(k) \in SUBSET (Generator \X Of(k))
            /\ Due(k)' \in SUBSET (Generator \X Of(k))
        BY DEF Waiting, Taken, Due
      <4>2. sent[k] \in Nat /\ received[k] \in Nat /\ \A m, n \in Nat : m * n \in Nat
        BY DEF TypeOK
      <4> QED BY <4>1, <4>2, FiniteParts
    <3>5. d <= d1
      BY <3>3
    <3> HIDE DEF x, p, d, d1
    <3>6. x <= x + 0 /\ p + d + 0 <= p + d1
      BY <3>4, <3>5
    <3>7. /\ received'[k] + Cardinality(Taken(k)') + Cardinality(Waiting(k)') = x
          /\ Cardinality(Of(k)) * sent'[k] = p
      BY <1>2, <2>1, <3>1 DEF x, p
    <3> QED BY <3>6, <3>7, FlowStep DEF x, p, d, d1
  <2>3. CASE k = sig[g] /\ l \in Of(k)
    <3>1. Waiting(k)' \subseteq Waiting(k) \cup {l}
      BY <1>2, <2>3 DEF Waiting, Of, Listener, TypeOK, Delivered
    <3>2. Due(k) \cup {<<g, l>>} \subseteq Due(k)' /\ <<g, l>> \notin Due(k)
      BY <1>2, <1>4, <1>5, <1>6, <2>3 DEF Due, Of
    <3> DEFINE a == received[k]
               t == Cardinality(Taken(k))
               w == Cardinality(Waiting(k))
               w1 == Cardinality(Waiting(k)')
               p == Cardinality(Of(k)) * sent[k]
               d == Cardinality(Due(k))
               d1 == Cardinality(Due(k)')
    <3>3. /\ Waiting(k) \in SUBSET Of(k) /\ Waiting(k)' \in SUBSET Of(k)
          /\ Taken(k) \in SUBSET Of(k)
          /\ Due(k) \in SUBSET (Generator \X Of(k))
          /\ Due(k)' \in SUBSET (Generator \X Of(k))
      BY DEF Waiting, Taken, Due
    <3>4. a \in Nat /\ t \in Nat /\ w \in Nat /\ w1 \in Nat /\ p \in Nat /\ d \in Nat /\ d1 \in Nat
      <4>1. sent[k] \in Nat /\ a \in Nat /\ \A m, n \in Nat : m * n \in Nat
        BY DEF TypeOK
      <4> QED BY <3>3, <4>1, FiniteParts
    <3>5. w1 <= w + 1
      <4>1. IsFiniteSet(Waiting(k))
        BY <3>3, FiniteParts
      <4>2. /\ IsFiniteSet(Waiting(k) \cup {l})
            /\ Cardinality(Waiting(k) \cup {l}) = w \/ Cardinality(Waiting(k) \cup {l}) = w + 1
        BY <4>1, FS_AddElement
      <4>3. w1 <= Cardinality(Waiting(k) \cup {l})
        BY <3>1, <4>2, FS_Subset
      <4> HIDE DEF w, w1
      <4> QED BY <3>4, <4>2, <4>3
    <3>6. d + 1 <= d1
      <4>1. IsFiniteSet(Due(k)) /\ IsFiniteSet(Due(k)')
        BY <3>3, FiniteParts
      <4>2. Cardinality(Due(k) \cup {<<g, l>>}) = d + 1
        BY <3>2, <4>1, FS_AddElement
      <4>3. Cardinality(Due(k) \cup {<<g, l>>}) <= d1
        BY <3>2, <4>1, FS_Subset
      <4> QED BY <4>2, <4>3
    <3> HIDE DEF a, t, w, w1, p, d, d1
    <3>7. a + t + w1 <= a + t + w + 1 /\ p + d + 1 <= p + d1
      BY <3>4, <3>5, <3>6
    <3>8. received'[k] = a /\ Cardinality(Taken(k)') = t /\ Cardinality(Of(k)) * sent'[k] = p
      BY <1>2, <2>1 DEF a, t, p
    <3> QED BY <3>7, <3>8, FlowStep DEF a, t, w, w1, p, d, d1
  <2> QED BY <2>2, <2>3
<1> QED BY <1>3, <1>7 DEF FlowInv

\* The signal is counted after it has been sent to all.
LEMMA FlowCountSent ==
  ASSUME TypeOK, TypeOK', FlowInv, NEW g \in Generator, CountSent(g)
  PROVE  FlowInv'
<1>1. /\ UNCHANGED <<received, receiving, pending, i>>
      /\ at[g] = "sent" /\ at'[g] = "counted"
      /\ sent' = [sent EXCEPT ![sig[g]] = @ + 1]
      /\ \A h \in Generator : h # g => at'[h] = at[h] /\ sig'[h] = sig[h]
  BY DEF CountSent, TypeOK
<1>2. Told(g) = Receiver /\ Told(g)' = {}
      /\ \A h \in Generator : h # g => Told(h)' = Told(h)
  BY <1>1 DEF Told
<1>3. ASSUME NEW k \in Kind
      PROVE  received'[k] + Cardinality(Taken(k)') + Cardinality(Waiting(k)')
               <= Cardinality(Of(k)) * sent'[k] + Cardinality(Due(k)')
  <2>1. Taken(k)' = Taken(k) /\ Waiting(k)' = Waiting(k)
    BY <1>1 DEF Taken, Waiting
  <2>2. CASE k # sig[g]
    <3>1. Due(k)' = Due(k)
      BY <1>1, <1>2, <2>2 DEF Due
    <3>2. sent'[k] = sent[k]
      BY <1>1, <2>2 DEF TypeOK
    <3> QED BY <1>1, <2>1, <3>1, <3>2 DEF FlowInv
  <2>3. CASE k = sig[g]
    <3> DEFINE P == {g} \X Of(k)
    <3>1. Due(k) = Due(k)' \cup P /\ Due(k)' \cap P = {}
      BY <1>1, <1>2, <2>3 DEF Due, Of
    <3>2. IsFiniteSet(P) /\ Cardinality(P) = Cardinality(Of(k))
      <4>1. IsFiniteSet({g}) /\ Cardinality({g}) = 1
        BY FS_Singleton
      <4>2. IsFiniteSet(P) /\ Cardinality(P) = 1 * Cardinality(Of(k))
        BY <4>1, FS_Product, FiniteParts
      <4> QED BY <4>2, FiniteParts
    <3>3. Cardinality(Due(k)) = Cardinality(Due(k)') + Cardinality(Of(k))
      <4> HIDE DEF P
      <4>1. Due(k)' \in SUBSET (Generator \X Of(k))
        BY DEF Due
      <4>2. IsFiniteSet(Due(k)') /\ Cardinality(Due(k)') \in Nat /\ Cardinality({}) = 0
        BY <4>1, FiniteParts, FS_EmptySet
      <4>3. Cardinality(Due(k)' \cup P) = Cardinality(Due(k)') + Cardinality(P) - 0
        BY <3>1, <3>2, <4>2, FS_Union
      <4> QED BY <3>1, <3>2, <4>2, <4>3, FiniteParts
    <3>4. sent'[k] = sent[k] + 1 /\ sent[k] \in Nat
      BY <1>1, <2>3 DEF TypeOK
    <3> DEFINE o == Cardinality(Of(k))
               d1 == Cardinality(Due(k)')
               p == o * sent[k]
    <3>5. o \in Nat /\ d1 \in Nat /\ p \in Nat /\ o * sent'[k] = p + o
      <4>1. Due(k)' \in SUBSET (Generator \X Of(k))
        BY DEF Due
      <4>2. o \in Nat /\ d1 \in Nat
        BY <4>1, FiniteParts
      <4>3. \A m, n \in Nat : m * n \in Nat /\ m * (n + 1) = m * n + m
        OBVIOUS
      <4> QED BY <3>4, <4>2, <4>3
    <3>6. Cardinality(Due(k)) = d1 + o
      BY <3>3
    <3> HIDE DEF o, d1, p
    <3>7. p + (d1 + o) + 0 <= (p + o) + d1
      BY <3>5
    <3>8. o * sent[k] + Cardinality(Due(k)) + 0 <= o * sent'[k] + d1
      BY <3>5, <3>6, <3>7 DEF p
    <3> DEFINE x == received[k] + Cardinality(Taken(k)) + Cardinality(Waiting(k))
    <3>9. x \in Nat
      <4>1. Waiting(k) \in SUBSET Of(k) /\ Taken(k) \in SUBSET Of(k)
        BY DEF Waiting, Taken
      <4>2. received[k] \in Nat
        BY DEF TypeOK
      <4> QED BY <4>1, <4>2, FiniteParts
    <3>10. received'[k] + Cardinality(Taken(k)') + Cardinality(Waiting(k)') = x
      BY <1>1, <2>1
    <3> HIDE DEF x
    <3>11. x <= x + 0
      BY <3>9
    <3> QED BY <3>8, <3>10, <3>11, FlowStep DEF o, d1, x
  <2> QED BY <2>2, <2>3
<1> QED BY <1>1, <1>3 DEF FlowInv

\* A receiver takes a signal, and counts it.
LEMMA FlowTake ==
  ASSUME TypeOK, TypeOK', FlowInv, NEW r \in Receiver, Take(r) \/ CountReceived(r)
  PROVE  FlowInv'
<1>1. UNCHANGED <<i, sent, sig, at>>
  BY DEF Take, CountReceived, generators
<1>2. \A k : Due(k)' = Due(k)
  BY <1>1 DEF Due, Told
<1>3. ASSUME NEW k \in Kind
      PROVE  received'[k] + Cardinality(Taken(k)') + Cardinality(Waiting(k)')
               <= Cardinality(Of(k)) * sent'[k] + Cardinality(Due(k)')
  <2>1. CASE k # Listens[r]
    <3>1. /\ \A q \in Of(k) : /\ q \in receiving' <=> q \in receiving
                              /\ k \in pending'[q] <=> k \in pending[q]
          /\ received'[k] = received[k]
      <4>1. CASE Take(r)
        BY <2>1, <4>1 DEF Of, Take, TypeOK, Listener
      <4>2. CASE CountReceived(r)
        BY <2>1, <4>2 DEF Of, CountReceived, TypeOK
      <4> QED BY <4>1, <4>2
    <3>2. Taken(k)' = Taken(k) /\ Waiting(k)' = Waiting(k)
      BY <3>1 DEF Taken, Waiting, Of
    <3> QED BY <1>1, <1>2, <3>1, <3>2 DEF FlowInv
  <2>2. CASE k = Listens[r]
    <3> DEFINE a == received[k]
               t == Cardinality(Taken(k))
               w == Cardinality(Waiting(k))
    <3>1. /\ Taken(k) \in SUBSET Of(k) /\ Waiting(k) \in SUBSET Of(k)
          /\ r \in Of(k)
      BY <2>2 DEF Taken, Waiting, Of
    <3>2. /\ a \in Nat /\ t \in Nat /\ w \in Nat
          /\ IsFiniteSet(Taken(k)) /\ IsFiniteSet(Waiting(k))
      BY <3>1, FiniteParts DEF TypeOK
    <3>3. CASE Take(r)
      <4>1. /\ Taken(k)' = Taken(k) \cup {r} /\ r \notin Taken(k)
            /\ Waiting(k)' = Waiting(k) \ {r} /\ r \in Waiting(k)
            /\ received' = received
        BY <2>2, <3>1, <3>3 DEF Take, Taken, Waiting, Of, Listener, TypeOK
      <4>2. Cardinality(Taken(k)') = t + 1 /\ Cardinality(Waiting(k)') = w - 1
        <5>1. Cardinality(Taken(k) \cup {r}) = t + 1
          BY <3>2, <4>1, FS_AddElement
        <5>2. Cardinality(Waiting(k) \ {r}) = w - 1
          BY <3>2, <4>1, FS_RemoveElement
        <5> QED BY <4>1, <5>1, <5>2
      <4>3. a + (t + 1) + (w - 1) = a + t + w
        <5> HIDE DEF a, t, w
        <5> QED BY <3>2
      <4> QED BY <1>1, <1>2, <4>1, <4>2, <4>3 DEF FlowInv
    <3>4. CASE CountReceived(r)
      <4>1. /\ Taken(k)' = Taken(k) \ {r} /\ r \in Taken(k)
            /\ Waiting(k)' = Waiting(k)
            /\ received'[k] = a + 1
        BY <2>2, <3>1, <3>4 DEF CountReceived, Taken, Waiting, Of, TypeOK
      <4>2. Cardinality(Taken(k)') = t - 1
        BY <3>2, <4>1, FS_RemoveElement
      <4>3. (a + 1) + (t - 1) + w = a + t + w
        <5> HIDE DEF a, t, w
        <5> QED BY <3>2
      <4> QED BY <1>1, <1>2, <4>1, <4>2, <4>3 DEF FlowInv
    <3> QED BY <3>3, <3>4
  <2> QED BY <2>1, <2>2
<1> QED BY <1>1, <1>3 DEF FlowInv

\* Receivers never count more signals than were sent to them, whatever merges,
\* and in whatever order generators send and count (the handlers and generators
\* of both programs).
THEOREM ReceivedWereSent == Spec => []NoMoreReceivedThanSent
<1>1. Init => FlowInv
  <2> SUFFICES ASSUME Init PROVE FlowInv
    OBVIOUS
  <2>1. \A k : Taken(k) = {} /\ Waiting(k) = {} /\ Due(k) = {}
    BY DEF Init, Taken, Waiting, Due, Told, Of, Listener
  <2>2. \A g \in Generator : i[g] \in DOMAIN tids
    BY SignalsAssumption DEF Init
  <2>3. ASSUME NEW k \in Kind PROVE 0 + 0 + 0 <= Cardinality(Of(k)) * 0 + 0
    BY FiniteParts
  <2>4. \A k \in Kind : received[k] = 0 /\ sent[k] = 0
    BY DEF Init
  <2> QED BY <2>1, <2>2, <2>3, <2>4, FS_EmptySet DEF FlowInv
<1>2. TypeOK /\ TypeOK' /\ FlowInv /\ [Next]_vars => FlowInv'
  <2> SUFFICES ASSUME TypeOK, TypeOK', FlowInv, [Next]_vars PROVE FlowInv'
    OBVIOUS
  <2>1. CASE Main \/ UNCHANGED vars
    BY <2>1, FlowSame DEF Main, vars, generators, reports
  <2>2. ASSUME NEW l \in Listener, Install(l) PROVE FlowInv'
    BY <2>2, FlowSame DEF Install, generators, reports
  <2>3. ASSUME NEW g \in Generator, CountSignal(g) PROVE FlowInv'
    <3>1. /\ UNCHANGED <<received, receiving, i, sent, pending, sig>>
          /\ at[g] = "counted" /\ at' = [at EXCEPT ![g] = "asleep"]
      BY <2>3 DEF CountSignal
    <3>2. \A h \in Generator :
            at'[h] = at[h] \/ {at[h], at'[h]} \cap {"sent", "sending"} = {}
      BY <3>1 DEF TypeOK
    <3> QED BY <3>1, <3>2, FlowSame
  <2>4. ASSUME NEW k \in Kind, Interrupt(k) PROVE FlowInv'
    <3>1. UNCHANGED <<received, receiving, i, sent, sig, at>>
          /\ \A r \in Receiver : pending'[r] = pending[r]
      BY <2>4, SignalsAssumption DEF Interrupt, generators, TypeOK, Listener
    <3> QED BY <3>1, FlowSame
  <2>5. CASE Report
    <3>1. UNCHANGED <<received, receiving, i, sent, sig, at, pending>>
      BY <2>5 DEF Report, Enter, TakeCounts, GiveBack, Leave, Return, Goes, generators
    <3> QED BY <3>1, FlowSame
  <2> QED BY <2>1, <2>2, <2>3, <2>4, <2>5, FlowKillGroup, FlowKillThread, FlowCountSent,
             FlowTake DEF Next, Generate
<1>3. TypeOK /\ FlowInv => NoMoreReceivedThanSent
  <2> SUFFICES ASSUME TypeOK, FlowInv, NEW k \in Kind
               PROVE  received[k] <= Cardinality(Of(k)) * (sent[k] +
                        Cardinality({g \in Generator :
                                       at[g] \in {"sending", "sent"} /\ sig[g] = k}))
    BY DEF NoMoreReceivedThanSent, Of
  <2> DEFINE G == {g \in Generator : at[g] \in {"sending", "sent"} /\ sig[g] = k}
             a == received[k]
             t == Cardinality(Taken(k))
             w == Cardinality(Waiting(k))
             o == Cardinality(Of(k))
             d == Cardinality(Due(k))
             n == Cardinality(G)
  <2>1. IsFiniteSet(G) /\ n \in Nat
    <3>1. IsFiniteSet(G)
      BY SignalsAssumption, FS_Subset
    <3> QED BY <3>1, FS_CardinalityType
  <2>2. d <= n * o
    <3>1. Due(k) \subseteq G \X Of(k)
      BY DEF Due, Told, TypeOK
    <3>2. IsFiniteSet(G \X Of(k)) /\ Cardinality(G \X Of(k)) = n * o
      BY <2>1, FS_Product, FiniteParts
    <3> QED BY <3>1, <3>2, FS_Subset
  <2>3. /\ a \in Nat /\ t \in Nat /\ w \in Nat /\ o \in Nat /\ d \in Nat /\ sent[k] \in Nat
    <3>1. /\ Waiting(k) \in SUBSET Of(k) /\ Taken(k) \in SUBSET Of(k)
          /\ Due(k) \in SUBSET (Generator \X Of(k))
      BY DEF Waiting, Taken, Due
    <3> QED BY <3>1, FiniteParts DEF TypeOK
  <2>4. a + t + w <= o * sent[k] + d
    BY DEF FlowInv
  <2> HIDE DEF G, a, t, w, o, d, n
  <2>5. \A p, q, r \in Nat : p * (q + r) = p * q + r * p /\ p * q \in Nat
    OBVIOUS
  <2>6. o * (sent[k] + n) = o * sent[k] + n * o /\ o * sent[k] \in Nat /\ n * o \in Nat
    BY <2>1, <2>3, <2>5
  <2>7. a <= o * sent[k] + n * o
    <3> DEFINE p == o * sent[k]
               q == n * o
    <3>1. p \in Nat /\ q \in Nat /\ d <= q /\ a + t + w <= p + d
      BY <2>2, <2>4, <2>6
    <3> HIDE DEF p, q
    <3>2. a <= p + q
      BY <2>3, <3>1
    <3> QED BY <3>2 DEF p, q
  <2> QED BY <2>6, <2>7 DEF G, a, o, n
<1> QED BY <1>1, <1>2, <1>3, TypeCorrect, PTL DEF Spec
=============================================================================
