----------------------------- MODULE TrainStation -----------------------------
(***************************************************************************)
(* entry_controller.c, exit_controller.c and train_runner.c (lab 3): every *)
(* train takes a ticket, waits for its turn to use a loading bay, loads,   *)
(* queues for the only exit track, and leaves.  The exit controller exists *)
(* in two versions: that of ex3-4 looks at the next higher priority, that  *)
(* of ex-5 at all higher ones; 0 is the highest.                           *)
(*                                                                         *)
(* The semaphores used as mutexes (entryQueueSem, exitQueueSem,            *)
(* loading_bay_sem, exit_queues_sem) guard all accesses to what is changed *)
(* under them, and nothing waits while it holds one: each such section is  *)
(* one step.  notifyEntry and exitNotification are modelled as they are.   *)
(***************************************************************************)
EXTENDS Integers

CONSTANTS
  Train,
  Priority,       \* an interval that begins with 0; see StationInit
  LoadingBays,    \* the values of loading_bays
  InitialCounts,  \* what the memory of priorityCount may hold at first
  MaxCount        \* bound of the model: a held-back train counts itself forever

ASSUME StationAssumption ==
  /\ Priority \subseteq 0..5
  /\ LoadingBays \subseteq Nat
  /\ InitialCounts \subseteq [Priority -> Int]
  /\ MaxCount \in Int

VARIABLES
  version,               \* of the exit controller: "ex3-4" or "ex-5"
  priority,              \* of each train
  loading_bays,
  lastIndex, headIndex,  \* the next ticket, and the one whose turn it is
  notifyEntry,           \* a semaphore with the free loading bays
  exitNotification,      \* a semaphore: the exit track is free
  priorityCount,
  cleared,               \* history: priorityCount was 0 everywhere at first
  pc,
  ticket,                \* assignedIndex of each train
  trains_in_loading_bays,
  exit_queue,            \* the trains in trains_in_exit_queues
  before,                \* trains_to_exit_before_current of each train
  complaints             \* what the runner has reported as incorrect

parameters == <<version, priority, loading_bays, cleared>>
entry == <<lastIndex, headIndex, notifyEntry>>
exit == <<exitNotification, priorityCount>>
runner == <<trains_in_loading_bays, exit_queue, before, complaints>>
stationVars == <<parameters, entry, exit, pc, ticket, runner>>

\* main, entry_controller_init and exit_controller_init, which does not set the
\* counters.  main has room made for two of them whatever the number of
\* priorities is; what malloc returns has room for six, so that further ones are
\* still counters of their own up to priority 5.
StationInit ==
  /\ version \in {"ex3-4", "ex-5"}
  /\ priority \in [Train -> Priority]
  /\ loading_bays \in LoadingBays
  /\ lastIndex = 0 /\ headIndex = 0
  /\ notifyEntry = loading_bays
  /\ exitNotification = 1
  /\ priorityCount \in InitialCounts
  /\ cleared = (\A i \in Priority : priorityCount[i] = 0)
  /\ pc = [t \in Train |-> "join"]
  /\ ticket = [t \in Train |-> 0]
  /\ trains_in_loading_bays = 0
  /\ exit_queue = {}
  /\ before = [t \in Train |-> {}]
  /\ complaints = {}

Step(t, from, to) == pc[t] = from /\ pc' = [pc EXCEPT ![t] = to]

--------------------------------------------------------------------------------
\* entry_controller_wait

TakeTicket(t) ==
  /\ Step(t, "join", "queue")
  /\ ticket' = [ticket EXCEPT ![t] = lastIndex]
  /\ lastIndex' = lastIndex + 1
  /\ UNCHANGED <<parameters, headIndex, notifyEntry, exit, runner>>

AwaitBay(t) ==
  /\ notifyEntry > 0
  /\ Step(t, "queue", "look")
  /\ notifyEntry' = notifyEntry - 1
  /\ UNCHANGED <<parameters, lastIndex, headIndex, exit, ticket, runner>>

\* Names of the form Definition_Defect are mutants of Definition: the defects a
\* change of the program could introduce.
MyTurn_AnyBay(t) == ticket[t] < headIndex + loading_bays
MyTurn_First(t) == TRUE
MyTurn(t) == ticket[t] = headIndex

CheckTurn(t) ==
  /\ Step(t, "look", IF MyTurn(t) THEN "enter" ELSE "pass_on")
  /\ UNCHANGED <<parameters, entry, exit, ticket, runner>>

PassOn_Keeps(t) ==
  /\ Step(t, "pass_on", "queue")
  /\ UNCHANGED <<parameters, entry, exit, ticket, runner>>

PassOn(t) ==
  /\ Step(t, "pass_on", "queue")
  /\ notifyEntry' = notifyEntry + 1
  /\ UNCHANGED <<parameters, lastIndex, headIndex, exit, ticket, runner>>

\* enter_loading_bays: too many trains end the program.
EnterBays(t) ==
  /\ Step(t, "enter", IF trains_in_loading_bays >= loading_bays
                      THEN "error" ELSE "load")
  /\ trains_in_loading_bays' = trains_in_loading_bays + 1
  /\ UNCHANGED <<parameters, entry, exit, ticket, exit_queue, before, complaints>>

--------------------------------------------------------------------------------
\* exit_loading_bays and exit_controller_wait

JoinExitQueue(t) ==
  /\ Step(t, "load", "exit_queue")
  /\ exit_queue' = exit_queue \cup {t}
  /\ before' = [before EXCEPT ![t] =
                  {u \in exit_queue : priority[u] < priority[t]}]
  /\ UNCHANGED <<parameters, entry, exit, ticket, trains_in_loading_bays,
                 complaints>>

AwaitTrack(t) ==
  /\ exitNotification > 0
  /\ Step(t, "exit_queue", "try")
  /\ exitNotification' = exitNotification - 1
  /\ UNCHANGED <<parameters, entry, priorityCount, ticket, runner>>

\* ex3-4 reads priorityCount[-1] for the highest priority: the upper half of the
\* size malloc keeps in front of the counters, which is 0.
HigherWaits(p) ==
  \E i \in Priority :
    /\ IF version = "ex3-4" THEN i = p - 1 ELSE i < p
    /\ priorityCount[i] # 0

\* A train is counted each time it tries.
TryTrack(t) ==
  /\ priorityCount[priority[t]] < MaxCount
  /\ Step(t, "try", IF HigherWaits(priority[t]) THEN "give_way" ELSE "leave_queue")
  /\ priorityCount' = [priorityCount EXCEPT ![priority[t]] = @ + 1]
  /\ UNCHANGED <<parameters, entry, exitNotification, ticket, runner>>

GiveWay(t) ==
  /\ Step(t, "give_way", "exit_queue")
  /\ exitNotification' = exitNotification + 1
  /\ UNCHANGED <<parameters, entry, priorityCount, ticket, runner>>

LeaveQueue(t) ==
  /\ Step(t, "leave_queue", "leave_bay")
  /\ exit_queue' = exit_queue \ {t}
  /\ UNCHANGED <<parameters, entry, exit, ticket, trains_in_loading_bays, before,
                 complaints>>

LeaveBay(t) ==
  /\ Step(t, "leave_bay", "next_turn")
  /\ trains_in_loading_bays' = trains_in_loading_bays - 1
  /\ UNCHANGED <<parameters, entry, exit, ticket, exit_queue, before, complaints>>

\* entry_controller_post
NextTurn(t) ==
  /\ Step(t, "next_turn", "free_bay")
  /\ headIndex' = headIndex + 1
  /\ UNCHANGED <<parameters, lastIndex, notifyEntry, exit, ticket, runner>>

FreeBay(t) ==
  /\ Step(t, "free_bay", "compare")
  /\ notifyEntry' = notifyEntry + 1
  /\ UNCHANGED <<parameters, lastIndex, headIndex, exit, ticket, runner>>

\* The runner's test: a train that had to exit first is still in the queue.
Compare(t) ==
  /\ Step(t, "compare", "exit")
  /\ complaints' = complaints \cup {<<u, t>> : u \in before[t] \cap exit_queue}
  /\ UNCHANGED <<parameters, entry, exit, ticket, trains_in_loading_bays,
                 exit_queue, before>>

\* exit_controller_post
Uncount(t) ==
  /\ Step(t, "exit", "free_track")
  /\ priorityCount' = [priorityCount EXCEPT ![priority[t]] = @ - 1]
  /\ UNCHANGED <<parameters, entry, exitNotification, ticket, runner>>

FreeTrack(t) ==
  /\ Step(t, "free_track", "done")
  /\ exitNotification' = exitNotification + 1
  /\ UNCHANGED <<parameters, entry, priorityCount, ticket, runner>>

--------------------------------------------------------------------------------
EntryWait(t) == TakeTicket(t) \/ AwaitBay(t) \/ CheckTurn(t) \/ PassOn(t)
ExitWait(t) == AwaitTrack(t) \/ TryTrack(t) \/ GiveWay(t)
Exit(t) ==
  \/ LeaveQueue(t) \/ LeaveBay(t) \/ NextTurn(t) \/ FreeBay(t) \/ Compare(t)
  \/ Uncount(t) \/ FreeTrack(t)

simulate_train(t) ==
  EntryWait(t) \/ EnterBays(t) \/ JoinExitQueue(t) \/ ExitWait(t) \/ Exit(t)

\* pthread_join returns for every train, or the runner has called exit(1), or the
\* model has reached its bound.
Stopped ==
  /\ \/ \A t \in Train : pc[t] = "done"
     \/ \E t \in Train : pc[t] = "error"
     \/ \E t \in Train : pc[t] = "try" /\ priorityCount[priority[t]] >= MaxCount
  /\ UNCHANGED stationVars

StationNext ==
  \/ /\ \A t \in Train : pc[t] # "error"
     /\ \E t \in Train : simulate_train(t)
  \/ Stopped

StationSpec == StationInit /\ [][StationNext]_stationVars

\* Threads run on, and one that can take a semaphore again and again takes it.
FairSpec ==
  /\ StationSpec
  /\ \A t \in Train : /\ WF_stationVars(simulate_train(t))
                      /\ SF_stationVars(AwaitBay(t)) /\ SF_stationVars(AwaitTrack(t))

--------------------------------------------------------------------------------
Places ==
  {"join", "queue", "look", "pass_on", "enter", "error", "load", "exit_queue",
   "try", "give_way", "leave_queue", "leave_bay", "next_turn", "free_bay",
   "compare", "exit", "free_track", "done"}

InBays == {"load", "exit_queue", "try", "give_way", "leave_queue", "leave_bay"}
OnTrack ==
  {"leave_queue", "leave_bay", "next_turn", "free_bay", "compare", "exit",
   "free_track"}
Gone == {"free_bay", "compare", "exit", "free_track", "done"}

\* The types of the controllers and of the runner.
StationTypeOK ==
  /\ version \in {"ex3-4", "ex-5"} /\ priority \in [Train -> Priority]
  /\ loading_bays \in Nat /\ cleared \in BOOLEAN
  /\ lastIndex \in Nat /\ headIndex \in Nat
  /\ notifyEntry \in Int /\ exitNotification \in Int
  /\ priorityCount \in [Priority -> Int]
  /\ pc \in [Train -> Places] /\ ticket \in [Train -> Nat]
  /\ trains_in_loading_bays \in Int
  /\ exit_queue \subseteq Train /\ before \in [Train -> SUBSET Train]
  /\ complaints \subseteq Train \X Train

\* Trains enter the bays in the order in which they joined the queue, although
\* notifyEntry may wake any of them (entry_controller_wait).
EnterInOrder ==
  [][\A t \in Train :
       pc[t] = "enter" /\ pc'[t] # "enter" =>
         \A u \in Train :
           pc[u] # "join" /\ ticket[u] < ticket[t] => pc[u] \in Gone]_stationVars

\* One train is on the exit track, whatever the counters hold
\* (exit_controller_wait, exit_controller_post).
TrackExclusive ==
  \A t, u \in Train : pc[t] \in OnTrack /\ pc[u] \in OnTrack => t = u

\* The runner finds no fault: neither too many trains in the bays nor a train
\* that exits before one of a higher priority that was queueing earlier.
NoComplaint ==
  (loading_bays > 0 => \A t \in Train : pc[t] # "error") /\ complaints = {}

\* Every train leaves the station, if there is a bay and the counters happened to
\* be 0: the trains that wake in vain pass the notification on.
AllLeave == <>(cleared /\ loading_bays > 0 => \A t \in Train : pc[t] = "done")
================================================================================
