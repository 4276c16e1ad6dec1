# Specifications of the concurrent and distributed programs

This directory holds TLA+ specifications of the programs of this repository
whose correctness depends on interleavings, lost messages or long sequences of
calls, the TLC configurations that check them on small instances, and proofs,
checked by TLAPS, of theorems about them for every value of their parameters.

The repository is a collection of independent programs, so the project is a
collection of independent specifications. Paths are relative to `src/`;
`LAB3` is `Upwork/Clifford/lab 3/lab 3`, `PROJ2` is `Upwork/Clifford/proj2/proj2`,
`LAB4` is `Upwork/Clifford/memory management/lab4-20201024/ex123`,
`LAB5` is `Upwork/Clifford/lab5-20201112/lab5 upwork`, `LAB2` is `Upwork/lab/lab`
and `CHAT` is `Himanshu/DistributedChat/DistributedChat/src`.

Contents: 1 inventory; 2 plan; 3 the modules and the code; 4 what the runs show;
5 bounds; 6 fairness; 7 proofs; 8 what is only checked, and what is not modelled.

## 1. Inventory

| Program | Module(s) | Status |
|---|---|---|
| Distributed chat: ordering and delivery (`CHAT/regular/base.h`, `dchat.cpp`) | `ChatOrder` | most of it, proved |
| Distributed chat: heartbeat and election (same files) | `ChatElection` | modelled, its heartbeats proved |
| Distributed chat, decentralised variant (`CHAT/extra`) | `ChatDecentral` | its exchange of proposals and delivery, proved |
| Lab 2 service manager (`LAB2/sm.c`, `main.c`, `smc.c`) | `ServiceManager` | modelled, proved |
| Lab 3 barrier and runner (`LAB3/ex1-2/barrier.c`, `ex1_runner.c`) | `BarrierOps`, `Barrier`, `BarrierRunner`, `Rendezvous` | modelled, proved |
| Lab 3 FizzBuzz (`LAB3/ex1-2/fizzbuzz_workers.c`) | `FizzBuzz` | modelled, proved |
| Lab 3 train station (`LAB3/ex3-4`, `ex-5`) | `TrainStation` | modelled, proved |
| Lab 4 shared heap and its runners (`LAB4/shmheap.c`, `runner_ex3.c`) | `ShmHeap`, `ShmRunner` | modelled, proved |
| Lab 5 zero-copy files (`LAB5/zc_io.c`) | `ZcIo` | all but `zc_copyfile`, proved |
| Proj2 stop-and-wait (`PROJ2/Alice.py`, `Bob.py`, `test/UnreliNET.java`) | `StopAndWait`, `SegmentTransfer` | modelled, proved |
| Signal exercises (`Himanshu/multiprocess-signals`, `multithread-signals`) | `Signals` | modelled, proved |
| Scheduler simulator, mmap wrappers, shared-memory demo, documents | – | not modelled, see 8 |

For each program: the state it keeps, its operations, how its parts interact,
what is hard about it, and the properties that make it correct.

**Distributed chat.** *State*, in every member: the participants, the leader,
a local counter and the buffer of its own requests (`localSeq`, `chatMsg`,
`seqBuffer`); as a sequencer, the global counter, the requests held back per
client and the transmitted lines (`generatedGlobalSeq`, `hold_back_queue`,
`txBuffer`); for its display, the next number, the lines that came too early
and the numbers asked for (`globalSeq`, `holdBackQ`, `globalSeqLost`,
`notificationGlobalSeq`). *Operations*: join, type a line, and one handler per
packet: S0_ a request for a number, S0A its answer, C0_ a numbered line, S3_/S3A/S3N
recovery of a missing number, S4_/S4A recovery of a missing request, N0_/N0A join
and participant list, H0_/H0A heartbeat, E1_/E1A/E2_ election. *Interaction*:
UDP packets between members; inside a member five threads (user, network,
reliability, heartbeat, election) on shared globals. *Hard*: lost, repeated and
reordered packets, retries that race with late answers, joins and removals that
consume numbers, the death of the sequencer. *Correct when*: a request gets one
number, in its sender's order; what is displayed under a number is what the
sequencer gave it to, the same line for everybody; lines appear in the order of their
numbers; gaps are asked
for; everybody shows the same lines; there is one leader, and a new one when it dies.

**Distributed chat, decentralised.** The same program without a sequencer: a
request (S2_) is answered by every member with the next number of its own (S2A),
and the sender takes the largest of the answers. *Hard*: answers are counted, not
told apart, and two members may collect answers at the same time. *Correct when*:
the number is the largest that everybody has proposed, numbers follow the order of
a sender's lines, and every line is shown once by everybody.

**Lab 3 barrier.** *State*: `count`, `threadCount`, the mutex `counterSem`, the
turnstile `barrierSem`; in the runner `waiting_at_barrier` under `common_sem`.
*Operations*: `barrier_init`, `barrier_wait`, `run_thread`. *Interaction*:
semaphores only. *Hard*: arrivals of two batches mixed, posts owed by the last
thread, an unprotected read after the barrier. *Correct when*: nobody leaves
before everybody has come, and everybody leaves.

**Lab 3 FizzBuzz.** *State*: the counter, `mutexLock`, `resumeMutex`, three
two-party barriers. *Operations*: `num_thread` and three helpers. *Interaction*:
num_thread meets a helper at its barrier and waits for `resumeMutex`. *Hard*: the
barriers are used again and again although they are not reusable; the helpers
read the counter without the lock. *Correct when*: numbers and words come in the
order of the counter, each once.

**Proj2 stop-and-wait.** *State*: Alice's input, segment and number, Bob's
expected number and output, the two directions of UnreliNET. *Operations*: cut,
send, time out, take a reply; accept, reject. *Interaction*: packets through a
proxy that drops and damages. *Hard*: duplicates after premature timeouts, stale
replies. *Correct when*: Bob's output is a prefix of the input, all of it when
Alice ends, and she ends.

**Lab 5 zero-copy files.** *State*: `offset`, `size`, `start_addr` of a mapping,
a readers-writer lock held from each start to its end, a mutex for the fields.
*Operations*: open, read start/end, write start/end, lseek, copyfile, close.
*Interaction*: threads on one file; the kernel may move a mapping or refuse it.
*Hard*: parts of a mapping that others may grow and move, paths that return
without unlocking, unsigned arithmetic. *Correct when*: a write or a seek is
alone, what is handed out is inside the file and the mapping, two reads never
get the same bytes, and every call returns.

**Lab 3 train station.** *State*: ticket counters and a semaphore of loading
bays; a count of trains per priority and a semaphore for the exit track; the
runner's own counters. *Operations*: enter, exit, in two versions. *Hard*: a token
wakes any waiter and has to be handed on, counts incremented at every retry, an
array that is never cleared. *Correct when*: never more trains than bays, trains
enter in the order of their tickets, one train is on the exit track, none passes
one of a higher priority that was queueing, every train leaves.

**Lab 4 shared heap.** *State*: a chain of blocks (size, occupied) in shared
memory; in the runner the handles of the objects, two pipes per child and the
commands of a line. *Operations*: create, connect, disconnect, alloc, free,
destroy, by several processes under one named semaphore. *Interaction*: main
sends all commands of a line to its children, then collects the answers. *Hard*:
long sequences of calls, the untouched tail, the end of the heap, children that
die, descriptors inherited by later children. *Correct when*: live blocks are
inside the heap and disjoint, a walk over the chain passes every block, main keeps
the right handles, and the run ends.

**Lab 2 service manager.** *State*: in the daemon a table of services, each a
pipeline of child processes, and its descriptors; in the client the command it
waits for. *Operations*: start, startlog, status, stop, wait, showlog, shutdown.
*Interaction*: two named pipes, IN for commands and OUT for answers; the end of an
answer is the end of file of OUT. *Hard*: descriptors by number, inherited by
every child; children that end at any time and are reaped once; clients that
leave. *Correct when*: the end of input arrives at every process of a pipeline, an
answer is read by the client that asked, shutdown leaves no process behind, every
command is answered.

**Scheduler simulator** (not modelled). *State*: ready, stopped and defunct queues,
a process on the CPU. *Operations*: add, stop, continue, reap, select, one per line of a trace.
*Hard*: list surgery at heads and on empty lists. *Correct when*: every process is
in exactly one place, and the one of the highest priority is selected.

**Signal exercises.** *State*: counters of sent, received and reported signals
under mutexes, pending signals. *Operations*: generate, receive, report every ten;
the same as processes with handlers and as threads with `sigwait`. *Interaction*:
signals to a group, counters in shared memory. *Hard*: pending signals merge; a
handler may interrupt the one that holds the mutex it takes. *Correct when*: no
count exceeds what was sent, a report is over ten signals, all of them end.

The hazards of each program, with their lines, are listed under `hazards` in
`PROJECT.json`.

## 2. Plan

Done, in this order: `BarrierOps`, `Barrier`, `Rendezvous`, `BarrierRunner` and
their proofs; `StopAndWait`, `SegmentTransfer` and their proofs; `ChatOrder` and its
proofs; `ZcIo` and its proofs; `ShmHeap`, `ShmRunner` and their proofs; `TrainStation`
and its proofs; `ServiceManager` and its proofs; `ChatElection`, `ChatDecentral`
and their proofs; `FizzBuzz` and its proofs; `Signals` and its proofs.

Composition: `BarrierRunner` extends `Barrier`; `FizzBuzz` and `Barrier` share the
operators of `BarrierOps`; `ShmRunner` extends `ShmHeap`, whose specification is a
property of the runner's run. Abstract specifications: `Rendezvous` (implemented
by `BarrierRunner`), `SegmentTransfer` (by `StopAndWait`), `ShmHeap` (by
`ShmRunner`). All three refinements are checked and proved.

What would come next, and what it needs:

1. The steps `RemoveMember` and `TakeOver` of `ChatOrder` and the leader changes of
   `ChatElection` as two refinements of one abstract change of leader.
2. Liveness of `ChatOrder` on an instance of one line and one loss with a fair
   network: the model has too many fates of a packet for TLC's liveness check.
3. What an election of more than three members does promise: `OneLeader` is false
   for four (section 4), and the weakest condition under which it holds is open.

Every module that is proved about takes its parameters as CONSTANTS with named
assumptions, has one action per operation, and has no RECURSIVE operator.

## 3. The modules and the code

Definitions named `Definition_Defect` are mutants of `Definition`: a change of the
code (a lost guard, an off-by-one, a missing reset) that a property must notice.
No specification uses them.

**`BarrierOps`, `Barrier`.** `barrier_t` is a record; `Lock`, `CountLast`,
`CountEarly`, `Post` and `Pass` are the semaphore operations of `barrier_wait` in
their order, the section between `sem_wait(&counterSem)` and its `sem_post` being
one step because it is exclusive. `Rounds` bounds the calls:
1 is the use `ex1_runner.c` makes of it.

**`BarrierRunner`** adds `run_thread`: `common_sem` around the increment, the
call, and the read of `waiting_at_barrier` without the semaphore, a step of its
own. **`Rendezvous`** is what the barrier promises.

**`FizzBuzz`** uses the operators of `BarrierOps` for three two-party barriers.
`at` is a thread's place in its function, `visit` its place in `barrier_wait`.
`fizz_thread`, `buzz_thread` and `fizzbuzz_thread` differ in barrier, word and
divisor only and are one definition. The divisors are parameters (3 and 5 in the
code), so that a small `N` has multiples of every kind. `printed` holds all output
in its order; `Expected` is what it should be.

**`StopAndWait`.** One action per statement group of the loop of `Alice.py` and
per branch of `Bob.py`. A packet is intact or damaged: UnreliNET always overwrites
the first byte, so that a damaged packet fails the checksum test; damage to a
reply makes its digit differ from both numbers. `Forward` is a direction of
UnreliNET, the fate of a packet being chosen at each send. `HeaderSize` stands for
the length of the header, whose CRC digits vary. **`SegmentTransfer`** is what the
two programs promise: take a segment, print it, take the next.

**`ChatOrder`.** Every handler of `identify()` is an action `ReceiveX` on a packet
of a set `net`; everything a handler calls is part of it (`sequencer()`,
`sendSequenced()`, `sendParticipantList()`, the draining of `holdBackQ`).
`sequencer()` and `sendSequenced()` are written as a function from the
sequencer's state and a request to its new state and what it sends
(`InOrder`, `Due`, `Apply`, `SendSequenced`). Abstractions:

- members are numbers in the order of their IP:PORT keys, which is the iteration
  order of the maps;
- `net` is a set: packets are received in any order; losses, duplicates and
  resends are bounded;
- C0A is left out: it removes a transmitted line from `txBuffer`, because
  `ackList` is always empty, and `TxExpire` does so at any moment anyway; the
  removal of a member clears `txBuffer` for the same reason, but leaves the
  leader's own requests (`RemoveMember`);
- the participant list, a header and a packet per participant in the code, is one
  packet; the two cases in which the program reads past the end of a map
  (a first line from an unknown member, any packet but the list while joining)
  end the member (`BadPacket`);
- the loops over the requests held back and over `txBuffer` at the removal of a
  member use an iterator they have just erased: the model lets them stop after any
  entry;
- `sequencer()` copies the value of `hold_back_queue.end()` when a client makes its
  first request (`base.h:904`; `extra/base.h:917` in the variant). The number in it is
  overwritten; the requests it would bring along are whatever lies there. The models
  take the copy to be empty, as in a fresh node;
- a silent member is removed, and a new leader takes over, in one step each; how
  members come to do so is `ChatElection`.

The program's loops over a map are functions defined by recursion over numbers:
`SendHeld` over the run of held back requests, `walk` in `Deliverable` over the
keys of `holdBackQ`. `forgotten` is a history of the requests a member has given up.

**`ZcIo`.** The lock is taken in a step of its own (`RdLock`, `WrLock`); what a
call does under the mutex is one step, with one action per way it ends: `ReadPart`
and `WritePart` hand out a part, `ReadAtEnd`, `WriteFails` and `SeekFails` are the
`return` statements that release nothing. `held` are the parts that callers have
not ended; each belongs to a call (`owner`), because a thread may hold several
reads. `mapping` tells one address of the mapping from the next: `mremap` may move
it. Sizes are modulo `SizeT`, and `Signed` converts back to `off_t`. A caller that
was given NULL ends its call like any other, as the assignment prescribes for
every start.

**`ChatElection`.** Three threads of each member are processes with program
counters: `hb` (heartBeatThread), `el` (electionThread) and `net` (networkThread),
over the flags they share. `Signal` is `pthread_cond_signal`: it wakes the
election thread when that waits and is lost otherwise, and needs `electionMutex`,
which the election thread holds through its sleeps (`Electing`). Time is counted in
ticks of 20 ms, the shortest sleep, and passes (`Tick`) when no thread has anything
to do: packets and steps are quick beside the sleeps, on which the code relies.
`Claim`, `Announce` and `Publish` are the three steps of the takeover, a block that
occurs three times in the code: the flags, the leader with the `E2_`, and the list.
No lock lasts from the test of the flags to there, so that networkThread may handle
packets in between: the second test (`HbAlarm`), the removal of whoever is the leader
by then (`HbRemove`), the look at the size of the list (`HbDecide`) and each step of the
takeover are actions of their own. `overtaken` records that a member was told of a
leader in that gap.
Undefined behaviour: `find(self)++` steps past the end of the map when the member is
not in its own list, and never ends in an empty one. The model ends where a member
removes itself (`InOwnList`).

**`ChatDecentral`.** As in `ChatOrder` every handler is an action, but `chan` keeps
the packets between two members in order, except for `Lose`. The proposer's
queue (`hold_back_queue`), the sender's collection of answers (`seqBuffer` with
`ackCount`) and the display are those of the program, with two peculiarities kept:
`txBuffer` is keyed by the sender's own counter and not by the number of the line,
and a proposal for a held back request carries the local number of the request in
hand. C0A packets are commented out in this variant (`extra/dchat.cpp:123`), so that
every line is sent three times (`Retransmit`, then `TxExpire`, which also erases the
request that bears the number, 788). Members have joined before the behaviour starts.

**`ShmHeap`.** `bsize` and `occ` hold the header at each address, in words;
`NextBlock`, `TakeBlock`, `TakeBeyond` and `ReturnNull` are one turn each of the
loop of `shmheap_alloc`, `Clear`, `Merge` and `MergeEnds` of `shmheap_free`.
`strayed` marks the three places where a call leaves the chain: an allocation from
the tail that ends beyond the heap, one that overwrites the last block looked at,
and a merge with a block that is free, whose size the loop reads after clearing it.
What follows depends on the bytes in the blocks, and the model stops there. It stops
as well when a second process comes in (`Crowded`), which a semaphore that starts at
2 or more allows: `sem_open` is given no value (`shmheap.c:55`), and the models take any
number (`SemValues`). `Intact` says that neither has happened.
**`ShmRunner`** has one action per loop body of `main` and `child_proc` of
`runner_ex3.c`. Pipes are sequences with room for a line; who would hear a write
and when a pipe is at its end follow from which later children, having inherited
the descriptors, still run (`Heard`, `InputOver`).

**`TrainStation`.** One action per section between two semaphore operations;
`version` says which exit controller is used. `MyTurn` is the ticket test. The
counters of the exit controller, allocated and never set, start with any value of
`InitialCounts`. There are two of them and a list of trains per priority
(`train_runner.c:72`), but `malloc` gives no less than 24 bytes: six counters are
memory of their own, which is why priorities are numbers up to 5; the check of a
negative index in `ex3-4` reads what `malloc` keeps
in front of the counters, which is 0.

**`ServiceManager`.** Descriptor tables are functions from numbers to what is open
there (`fd` of the daemon, `fds` of each process), and `Opened`, `Dup2`, `Shut` do
what the calls do, the lowest free number included. `Launch` is one turn of the
loop of `sm_start_internal` in the parent, `Exec` what the child does up to
`execv`; between them the child holds everything the daemon had open. `GetLine`,
`OpenOutput`, the command, `CloseOutput` are the stations of `process_commands`;
`dpc` is the command while it is being carried out. `LogOpened` is when the log of a
service is there: the child opens it some time after the fork (`sm.c:206`), and before
that a log of an earlier daemon may be (`ShowLog`). `OutHolds` is the rule of the
kernel that the contents of a FIFO nobody has open are gone.

**`Signals`.** `version` says which program: processes, whose handlers interrupt
(`Interrupt`, on a stack `frames` of calls of `sigHandled`), or threads, which wait
with `sigwait`. A handler is never interrupted by its own signal, which `signal`
blocks. `KillGroup` is `kill(0, ...)`, which reaches everybody at once; `KillThread`
is one of five `pthread_kill`. Only the reporter can be interrupted inside a section
under a mutex, so that all other sections are one step. Main, which polls, is taken
to see the limit before a generator has slept its milliseconds.

## 4. What the runs show

| Run | Shows |
|---|---|
| `barrier_runner` | Four threads, one round. The read of `waiting_at_barrier` after the barrier sees everybody, the barrier implements `Rendezvous`, main joins all. |
| `fizzbuzz` | Up to 6 with divisors 2 and 3: numbers in order whatever the helpers do; and as long as no helper prints a word it has not been called for, the output is what is expected, word by word, and the counter not ahead of it. |
| `stop_and_wait` | Three lines over a network that loses and damages both ways: order without repetition, `SegmentTransfer` implemented, and in the end Alice stops and all of the text is printed. |
| `chat_order` | Two lines of one member with one loss, one duplicate, one resend and a crash of the sequencer, or with a member that joins: one number per request, the sender's order, lines shown under the number they were given, one line for all under a number while the founder is there, no request overtaken, gaps asked for, and only numbers below a notification passed over. |
| `chat_same_order` | *Violated.* Members that have displayed nothing start with whatever line comes first. |
| `chat_election` | Three members, any of them the leader, any phase of their heartbeats, one crash and one lost packet: nobody is suspected without a crash; after one, if no packet is lost, no member removes itself and none is told of a leader between its test and its takeover, there is one leader at a time and all agree again; and nobody follows a dead leader for good, even with the loss and that gap. |
| `chat_decentral` | Two members, up to three lines, a loss, repeated requests, repeated lines: as long as nothing has been lost, numbers follow the order of a sender, and each is the largest of everybody's proposals and larger than that of any line sent before it was typed; a lone talker's lines, each sent three times, are shown once by everybody unless an expiry has taken a request that was collecting proposals. |
| `zc_io` | Two threads, three calls each, files of size 0 and 2, sizes small and near `SIZE_MAX`, seeks out of the file, failing mappings: exclusion of writes and seeks; parts inside file and mapping and disjoint reads, until a seek or a wrapping size has led out of the file; every call returns as long as none has taken its locks with it. |
| `shm_heap` | Two children allocate and free concurrently in a heap of nine words, with a semaphore that starts at 0, 1 or 2: disjoint blocks, a whole chain and the right handles as long as the heap is `Intact`, calls only as `ShmHeap` allows them, and an end of the run unless the semaphore started at 0. |
| `train_station` | Three trains of three priorities, one or two bays, both exit controllers: no complaint of the runner, entry in ticket order, and all leave if the counters were 0. |
| `service_manager` | Two services of up to three processes, three commands, clients that leave: the end of input arrives, answers belong to the command read for, shutdown ends every process, and every command is answered unless the daemon has gone, the command is `exit`, or a `wait` is for a service with a writer that never ends. |
| `signals` | Two generators, a receiver of each kind, a report after every two signals, as processes and as threads: no more received than sent, reports over two signals, and all end unless the reporter has interrupted itself while it reads the counters. |

The conditions in the properties are where the code stops keeping its promise.
They are not there to make a run pass; what happens beyond them was looked at with
TLC and is recorded here.

- *A `|` in the text* (`PROJ2/Bob.py:21`). Bob splits the packet at every `|` and
  rejects more than three fields: Alice sends that segment for ever.
- *A word twice* (`LAB3/ex1-2/fizzbuzz_workers.c:79`). A helper that leaves its
  barrier first returns, takes the token left for `num_thread` and prints again: the
  barriers are not the reusable ones that `ex2_runner.c:46` names. The words may
  therefore come twice; the numbers do not. The second word posts `resumeMutex` once
  more than it was waited for, and num_thread then passes a later value before its
  word is printed. `OutputInOrder` says that there is no other way to a wrong output.
- *A read at the end of a file* (`LAB5/zc_io.c:93`), a failing mapping (129) and a
  seek with an unknown whence (181) return with both locks: the next call waits for
  ever, although a read at the end has not failed. Beyond the end of the file,
  after a seek, the size handed out wraps around.
- *A size near SIZE_MAX* (`LAB5/zc_io.c:95`). `offset + *size` is not checked: when it
  wraps, the part is handed out uncut, reaches out of the file, and the offset moves
  back (102), so that the next read gets the same bytes; a write (125) does not grow
  the file. `PartsInFile` and `ReadsDisjoint` speak of what comes before (`Wraps` sets
  `strayed`).
- *A new sequencer* (`CHAT/regular/base.h:809`) goes on from the number it has
  displayed itself: numbers of the old one are given again. A member that has shown a
  line of the founder's under a number and crashes, and the one that takes over, show
  two lines under it; so do two that stay. `ShownAsSequenced` excludes that while the
  founder is there, and afterwards says only that some sequencer gave the number to
  the line. The other properties about numbers speak of those the first sequencer
  gave, and of senders still in the chat. One that loses the lead to another and
  takes over again sets its
  notification number back below what it has displayed, which is why
  `GapsAreNotifications` leaves out members that have numbered something
  themselves (`TookOver`).
- *A request given up* (`CHAT/regular/dchat.cpp:692`). Its sender answers S4A, and the
  sequencer moves the sender's last number up to it. Requests before it that are
  missing as well, and that the sender still has, are passed over: when they come they
  are taken for old ones. `SenderOrderKept` allows it (`forgotten`); it takes more
  lines and resends than the run has, in which `GiveUp` never happens.
- *A slow election* (`CHAT/regular/dchat.cpp:318`). A member that has just taken
  over and handles the E1_ of a slower one removes its own entry and starts an
  election outside its own list; with three members and a single crash two chats
  may go on side by side, although `documents/testCases.txt:5` calls the basic
  election passed. `OneLeader` and `Settled` require that it has not happened
  (`InOwnList`), and `CrashNoticed` as well: after one loss two members, one of which
  has removed itself, may bow out to each other for ever. With a second crash
  `electionOnGoing` may stay TRUE, which turns the failure detector off; a lost
  participant list is never repeated.
- *A new leader removed* (`CHAT/regular/dchat.cpp:989-1000`). heartBeatThread tests the
  flags and then reads `leader` again, without a lock. If the `E2_` and the list of a
  new leader are handled in between, it is the new leader that is removed, and the
  member, alone or the highest of its list, takes over as well: two lead for good, with
  no packet lost. `overtaken` marks it, and `OneLeader` and `Settled` require that it has
  not happened; `CrashNoticed` does not. TLC finds the two leaders when `overtaken` is
  dropped from `Smooth`.
- *An answer that is not read* (`CHAT/regular/dchat.cpp:344`). A member asks the
  higher ones and waits 20 ms for an answer, with `electionMutex` held. If a lower
  member asks it in that time, its networkThread waits for the same mutex to pass the
  request on and reads nothing more: the answer of a higher member lies in the socket
  until it is too late, and the member takes over although, as the comment at
  `dchat.cpp:853` has it, "none of the higher processes are alive". It takes a member
  below, one above and the leader that crashes, hence four (TLC finds it in a minute
  with `Members` 1 to 4, `Second` 2 and no loss, by the property that no member that
  runs is above one that takes `ElWin`). Two leaders may follow; and they may as
  well when a slow E1_ makes a member drop the leader it has just adopted. This is
  why `OneLeader` is a property of three members and no theorem.
- *How many packets it takes.* `NobodySuspected` is false as soon as `MissLimit`
  packets may be lost, or `Second` - 1: these are the two ways in which a member that
  runs is dropped (by its leader, whom it has not answered in any of the rounds; as
  the leader, by a member whose watch hears nothing for a second). With fewer it is a
  theorem.
- *Two lines under way at a time* (`CHAT/extra/dchat.cpp:484`) may be sent under one
  number, without any fault; each member displays the one it receives first.
  With a lost packet several requests that were held back are answered under the
  label of the request in hand (`base.h:834`): two answers of one member then count
  as two members, and a line of a sender may get a smaller number than an earlier
  one. A lost proposal leaves the line hanging; an answer from
  `txBuffer` goes to the line's sender itself; the number after one given up is
  skipped too.
- *A line that is never sent* (`CHAT/extra/dchat.cpp:788`). When a line has been sent
  three times, the first request with its number is erased. A request that is still
  collecting proposals bears the largest number it has so far, which may be that one:
  its line is then never sent, without any loss and with one member typing.
  `DeliveredWhenQuiet` excepts a member to which it has happened (`forgotten`).
- *Merging with a free block* (`LAB4/shmheap.c:202`) counts its room twice;
  *allocation from the tail* (152) does not look at the room there is. Both set
  `strayed`.
- *The semaphore of the heap* (`LAB4/shmheap.c:55`) is created without a value. If it
  starts at 0 nothing is ever allocated; at 2 or more, two processes change the chain
  at the same time (`Crowded`) and their blocks may overlap. A `sem_open` that fails is
  left out.
- *One bay is used* (`LAB3/ex3-4/entry_controller.c:25`). A train is to wait "if no
  space available on loading bay", but the ticket in turn, `headIndex`, is advanced
  only when a train leaves: with two bays the second is never used (`OneTrain`). The
  runner complains of too many trains only, so `NoComplaint` is kept.
- *Counters that are not 0* (`LAB3/ex3-4/exit_controller.c`, `malloc`) keep lower
  priorities from leaving, and so does a train that was held back once.
- *stop does not wait* (`LAB2/sm.c:93`): its second loop starts where the first has
  ended. `exit` leaves the client waiting; a client killed while the daemon prints
  takes the daemon with it (SIGPIPE); the second process of a pipeline may read the
  wrong descriptor when 2 was free (218). A `wait` for a writer whose reader has gone
  lasts as long as it writes (`WritesOn`): the reading end that stays open (183) keeps
  it from being told. A `showlog` right after `startlog` may find no log, or the one
  an earlier daemon has left.
- *A handler inside a handler* (`multiprocess-signals/multiprocess.c:183`) waits for
  the mutex of the one it has interrupted: no report follows, and if that one was
  reading the counters (204), nobody goes on and SIGTERM is never sent. A report
  may also be printed after a newer one, and the average of a kind that did not occur
  is 0 divided by 0.

## 5. Bounds

- `barrier_runner`: four threads give the last one three posts, so that some are
  consumed while others are owed.
- `fizzbuzz`: with divisors 2 and 3, numbers up to 6 contain multiples of each, of
  both and of none; `MaxPrinted` leaves room for words printed twice.
- `stop_and_wait`: lines shorter than, equal to and longer than a segment; three
  packets in flight per direction hold an original, its duplicate and one of the
  next segment. The number has one bit, so that longer runs repeat these states.
- `chat_order`: recovery needs a gap (one loss, or two lines reordered) and its
  race needs a repetition; a second loss repeats the first. A third member joins in
  behaviours without faults; its join overtakes and is overtaken by lines. With
  both at once the space is out of reach. The bounds are the members of `Budgets`.
- `chat_election`: three members, so that an election has somebody to ask and
  somebody to bow out to. `MissLimit` 2 and `Second` 3 keep the order of the
  sleeps (1 < 2 rounds < a second; 20 ms, 5 rounds and 50 ticks in the code). The
  order matters: with a `Second` of 2 ticks even three members may have two leaders.
- `chat_decentral`: three lines of one member, so that one is held back behind
  another while a third is in order; two lines of one and one of the other for
  concurrent collections; two lines sent three times each; each fault in the smallest
  budget that has it.
- `zc_io`: three calls let a thread write, read and seek while the other does;
  sizes 1 and 2 in a file of 2 give parts that fit, fill and exceed it; `MaxSize`
  5 makes a further growth fail. `SizeT` is 64, more than twice `MaxSize`, as
  in the assumption (files are smaller than half of the address space): negative
  offsets wrap to numbers no file reaches. Size 63, `SIZE_MAX`, wraps from offset 1 on.
- `shm_heap`: nine words hold two blocks with headers and a rest too short for a
  third; sizes 1 and 3 make a freed block one that is split, fits exactly or does
  not fit; lines of two commands run concurrently, four commands allocate, free and
  allocate again. A semaphore that starts at 2 differs from any larger one in nothing
  that two children see.
- `train_station`: three trains are the holder of the bay, the next one and one
  woken in vain; three priorities distinguish the two controllers; `MaxCount`
  bounds the count of a train held back for ever.
- `service_manager`: pipelines of one to three processes have a first, a middle and
  a last one; of two services the second finds what the first has left open;
  descriptors up to 9 suffice for them; three commands start, do and end.
- `signals`: a report after every two signals, so that two reports, and a handler
  inside another, occur within four; the generators send once more after the limit
  of one, as in the code, before they see `done`. `MaxSignals` bounds the threads,
  which only the clock ends.

## 6. Fairness

- `BarrierRunner`: weak fairness of each thread. Each semaphore is taken a bounded
  number of times, so a waiting thread is in the end the only one that can.
- `StopAndWait`: both programs run (weak). Losses are independent draws with a
  rate below one, so what is sent for ever is delivered for ever (strong fairness
  of the delivering sends), and `recvfrom` returns a reply that is there (strong
  fairness of `Receive`). `Timeout` alone is not assumed to happen.
- `ZcIo`: a thread inside a call goes on when it can, and a thread ends what it
  has started (the assignment guarantees the pairing). Whether it makes another
  call is its own affair. Calls are finitely many, so that weak fairness suffices
  although the lock prefers readers.
- `ShmRunner`: main and every child go on while they can (weak): processes are
  scheduled, and the input ends.
- `TrainStation`: threads run (weak), and a train that can take a semaphore again
  and again takes it (strong fairness of `AwaitBay` and `AwaitTrack`): a train woken
  in vain posts and waits again, and the kernel wakes waiters in turn.
- `ServiceManager`: the daemon, a client that waits, and processes that can end go
  on (weak). Nothing is assumed of what is typed or of interrupts.
- `ChatElection`: time passes (`Tick`) and the three threads of a member that runs
  are scheduled (weak). Crashes and losses need not happen.
- `Signals`: main, generators and the reporter run (weak), and a mutex that is free
  again and again is had (strong fairness of `CountSent`). That signals are delivered
  is not assumed.
- `Barrier`, `FizzBuzz`, `ChatOrder`, `ChatDecentral`: safety only.

## 7. Proofs

All proofs hold for every value of the constants that satisfies the named
assumptions of the modules.

**`BarrierRunner_proofs`** (finite non-empty `Threads`,
`Rounds = 1`). `OneShotType`, `OneShotRendezvous`, `RunnerTypeCorrect`,
`NoThreadExitsEarly`, `RunnerRendezvous`, `BarrierImplementsRendezvous`.
`NoEarlyExit` is not inductive: it says nothing of tokens. The invariant splits at
the release. Before any thread has found the batch complete there are no tokens,
and `threadCount` is the number of threads at the turnstile, less than `count`;
afterwards every thread has called and is past the counting. The thread that makes
`threadCount` reach `count` is therefore the last one to arrive, by cardinality,
and only it posts. For the runner, `waiting_at_barrier` is the number of threads
that have counted themselves, hence `count` once anybody is out.

**`Network_proofs`** holds the proofs of three programs over channels that keep the
order of what they do not lose.

*Stop-and-wait* (any `Lines`, segment and queue sizes): `TypeCorrect`,
`SegmentsInOrder`, `NoStaleMatch`, `StopAndWaitImplementsTransfer`. `DeliveredInOrder` is
not inductive: a reply in the queue could match the number in hand without Bob
having printed the segment. The invariant adds what is in the queues: numbers
change at most once along each queue, an intact packet with the number in hand
carries the segment in hand, a reply with that number exists only when Bob has
printed it, and Bob expects that number exactly when he has not.

*The decentralised chat* (any finite set of members, any budgets):
`DecentralTypeCorrect`, `LinesKeepTheirOrder`, `NumbersAgreed`, `LonelyLinesShown`. The
first two properties speak of lines that have been sent; the invariant follows a line
from the typing on,
as long as nothing has been lost. The requests of a member are in the channel to each
other member in the order it typed them, without a gap, from the first the other has
not taken (`RequestsIn`); so nothing is ever held back, and each member proposes once
for each line, larger numbers for later ones (`ProposalsGrow`). An answer on its way
is one of these proposals (`AnswersIn`), none is on its way twice, and the sender has
counted exactly those that were made and are not on their way (`Heard`, `Collected`):
with `ackCount` at the number of members every member has been heard, and the number
taken is the largest (`SentByAll`). For a line typed later, some member's proposal,
made already or still to be made, is above everything that had been sent
(`TypedLater`). One lemma says what a handler does to the packets of a channel
(`Shift`: at most the first taken, some put at the end); each part of the invariant
has a lemma on what such a change keeps.

`LonelyLinesShown` (`DeliveredWhenQuiet`) needs a second invariant, for one talker
(`AloneAt`). Everybody proposes the numbers for its lines without a gap, so that a
line's number is known from its place; the answers of each member come in the order
of the lines (`AnswersFollow`), hence lines are sent in order (`AnsweredUpTo`); the
channel from the talker to another member holds, among other lines, exactly those
sent and not yet seen there, in order (`LinesIn`), and the display shows exactly those
that were (`Displays`). The other lines in the channel are repetitions, behind the
line they repeat (`Repeats`, `Behind`): what is kept for sending again are lines already
sent (`KeptUpTo`), and a line that is held already finds nothing to display
(`NothingFound`). With all channels empty the lines seen are all lines typed, unless an
expiry has erased a request (`forgotten`). `NextFound` evaluates the loop that delivers
what was held back: in order, it finds one line a time.

*Heartbeats and election* (any finite set of members, any of them the leader, any
phase of their heartbeats, any number of crashes): `ElectionTypeCorrect`, and
`NobodyIsSuspected` and `LeaderStays` under

    Patience == MaxLost < MissLimit /\ MaxLost + 1 < Second

which is any four losses with the 5 rounds and 50 ticks of the code. The condition
cannot be weakened: TLC finds `NobodySuspected` violated with `MaxLost` = `MissLimit`
and with `MaxLost` = `Second` - 1. `NobodySuspected` is far from inductive; it holds
because a suspicion takes time, and time passes only when everybody has done its
work. The invariant `Calm` says of every state before a crash that all
threads are in the places where they wait for each other (`CalmMembers`), that only
beats and answers are under way and that all of them are handled before the next
tick (`CalmInboxes`, `Beaten`), so that at each tick the books balance: every round
the leader has counted as missed has cost a packet of its own (`RoundsCost`,
`Reached`), and so has every tick of a follower's watch without a beat, except the
first and the unfinished one (`WatchCost`). No more packets are lost than `MaxLost`:
so the count does not reach `MissLimit` and the watch hears a beat.

**`ChatOrder_proofs`** (any finite set of members, any budgets of lines, losses, duplicates,
resends, joins and crashes). `TypeCorrect`, `SameLineUnderANumber`,
`GapsHaveAReason`, `GapsAreAskedFor`, `NumberedOnce`, `RequestsKeepTheirOrder`: every
safety property of the run `chat_order`. It is assumed that the members' keys are
numbers and the founder is one of them.

The program's two loops are reasoned about step by step. `SendHeldIs` and
`DeliverableIs` show that the recursive functions satisfy their equations (`Climb`,
induction over a set of numbers, from the well-foundedness of the naturals); what
each step of a loop keeps then holds at its end. Two lemmas carry everything else:
`Handled` says what a request changes (a run of consecutive numbers, one request
for each missing one, what stays held), `ChatStep` what a line that arrives changes
(which lines are displayed, up to which number, what is asked for).

- `LinesAreNumbered`: a line in a packet, in `txBuffer`, in `holdBackQ` or on the
  screen has the number that `sequenced` gives it. This is the first half of
  `ShownAsSequenced`, for every sequencer, old or new; with `LogInOrder` it gives the
  second, for the founder.
- `FounderLeads`: while the founder is in, every member follows it, requests go to it
  only, and nobody else keeps sent lines. The properties about its numbers rest on it.
- `ShowsInOrder` and `AsksForGap`, for one member: the number displayed last is still
  held; every number between two displayed ones is held or not above the last
  notification; a line behind a gap means that the gap is in `globalSeqLost`.
- `LogInOrder`: the founder's numbers increase and stay below its counter.
- `RequestsInOrder` follows a request of a member from its making on. `OneNumberPerRequest`
  and `SenderOrderKept` say nothing of requests on their way, repeated or held back.
  The invariant says that whatever number is in a packet, a map or a queue was made;
  that every request made is kept by its sender, given up, or passed on by the
  sequencer (`Pass`); that the numbers given to a member follow its own order; and
  that one passed by was given a number or lies below one given up (`KeptOrPassed`).

The invariants were checked by TLC on the instance of the run, and by simulation on
one with four members and four lines, before they were proved. This showed two
properties to be false beyond the bounds of the run; section 4 says how
(*A new sequencer*, *A request given up*) and what the properties now leave out.

**`ZcIo_proofs`** (any threads and seeks, any sizes a `size_t` holds, files smaller
than half of the address space). `TypeCorrect`, `WritersAreAlone`,
`PartsLieInFile`, `PartsAreDisjoint`. Three invariants are stacked: `LockInv`, every
part that is out and every call past the lock owns its lock, owners are distinct,
and a writer excludes readers; `CloseInv`, a closed file has no parts; `PartsInv`,
until a seek or a size that wraps strays, all parts lie before `offset`, which lies in
the file, and in the present mapping. The key lemma is `Alone`: a call that has the
lock for writing
finds no part out, so growth cannot move what somebody uses. `NoWrap` shows that
the unsigned arithmetic is exact in that range. What the properties leave out, the part
that wraps, is what the code hands out there (section 4).

**`ShmHeap_proofs`** (any size of the heap, requests, processes, input, and any value
the semaphore starts with).
`HeapTypes`, `HeapDisjoint`, `HeapReachable`, `RunnerImplementsHeap`,
`RunnerDisjoint`, `RunnerHandles`. The disjointness of live blocks is not inductive:
it says nothing
of what is free. The invariant says that headers tile the used part of the heap:
from each header the next begins exactly at the end of its block, or it is the last
and only zeros follow; live blocks are exactly the occupied ones; the walk of the
process that has the semaphore stands on a header or at the tail. While somebody is
in its section a semaphore that has started at 0 or 1 is 0, so that no second walk
exists (`OneAtWork`); with more, `Intact` ends at the second. The runner's
theorem shows that it frees only blocks that are live and that nobody else is
freeing, from an invariant about the commands in pipes, in children and in
`objects`; with it, what is proved of the heap holds of the runner.
`HandlesNameBlocks` needs to know which command of the line each command in a pipe,
in a child's hands and each answer belongs to. The invariant `HandleInv` says that
such a numbering exists: each child has the positions of its commands in the line,
in increasing order; the first of them are answered, the next is in hand, the
others wait in its pipe. On top of that it follows a block from the child that gets
it, through the answer, to main's handle, and up to the first step of the free
(`Holds`): whatever is held is live, and held for one object only.

**`Lab3_proofs`** holds the proofs of two programs that have only the lab in common.

*The FizzBuzz workers* (any `N`, any two divisors without a common factor):
`TypeCorrect`, `NumbersComeInOrder`, `CalledWordsInOrder`. `NumberInv`: num_thread
has printed the
values it has reached that are for it, each under its own number, and waits for
`resumeMutex` only at values that are not; it needs nothing of the barriers,
which is why it survives the words printed twice. `CalledWordsInOrder`
(`OutputInOrder`) rests on a balance, `Paid`: what has been printed is the values num_thread has
left, the posts of `resumeMutex` made or due, and a number it has just printed. As
long as no helper has printed more words than it was called for, no more has been
printed than num_thread has begun (cardinalities, summed over the helpers and the
numbers), so that with the balance a post exists only when the word in hand is out, and
what is printed next is the next that is expected (`OrderInv`).

*The train station* (any trains, up to six priorities, any bays and initial counts):
`StationTypes`, `OneTrain`, `OneOnTrack`, `RunnerContent`, `TicketOrder`. Tickets
are distinct and below `lastIndex`; a train past the test holds the ticket
`headIndex` until it advances it; trains that have left hold smaller ones. For the
track, `exitNotification` is 1 only when nobody holds it, and one train does at a
time. The runner never complains because the exit queue never holds two trains.

**`ServiceManager_proofs`** (any services, limits and clients). `TypeCorrect`,
`AnswerToOwnCommand`, `InputsEnd`. The end of an answer is the end of file of OUT, so the
property rests on who holds which descriptor: while a command is carried out,
descriptor 1 of the daemon is OUT (`DaemonHasOut`: the ends of a pipe never take its
place, since `open` returns a free number, whose existence follows from the
well-foundedness of the naturals); a child holds OUT only if it was forked with it;
hence a client that has read to the end finds the daemon between two commands
(`InStep`, by the stage of the exchange: idle, sent, received, answering). For
`EndOfInputArrives` the invariant `PipeInv` says who may hold the end of a pipe that
is written to: the daemon only for the process it has started last, at the number it
closes after the next fork; a forked child its own and, at a number its exec closes,
that of its predecessor; a program its own; anybody those of the last processes of
services, which nobody reads. It needs that the two ends of a pipe have different
numbers and that a new pipe is held by nobody yet.

**`Signals_proofs`** (any listeners, generators and limits). `TypeCorrect`,
`ReportsAreOverTen`, `ReceivedWereSent`. At most one call of `sigHandled` holds
`sigMutex`; fewer signals
than `Every` have been counted unless that one is about to report, when they are
exactly as many; `handledCounter` is the sum of the two counts.
`NoMoreReceivedThanSent` says nothing of signals on their way; the invariant
`FlowInv` does: the signals of a kind counted as received, those taken and not
counted, and those pending at receivers are no more than the receivers times the
signals counted as sent, plus the pairs of a generator that is sending and a receiver
it has sent to already. Cardinalities change by one element a step, or by a row of
pairs when a generator sends to the group or counts. It is assumed that the table of
threads lists each once.

## 8. What is only checked, and what is not modelled

Only model-checked: liveness (`AllJoined`, `Termination`, `CallsReturn`, `RunEnds`,
`AllLeave`, `ShutdownEndsAll`, `Answered`, `Settled`, `CrashNoticed`, `GroupEnds`),
which is out of the prover's reach; and `OneLeader` of `ChatElection`, which holds for
three members only (section 4): there is nothing to prove for any number of them.

Partly modelled: the chat's buffers that threads share without a lock (`msg`,
`response`, `clientAddress`); the participant list as separate packets; joins,
heartbeats and elections of the decentralised variant, which are those of the
regular program; `runner_ex1.c`, one allocation that everybody reads; `zc_copyfile`,
a fixed sequence of the modelled calls on two files; characters of several bytes in
`Bob.py`, on whose damage `decode` raises; commands the service manager does not
understand and programs that cannot be executed.

Not modelled. The scheduler simulator: one sequential program that moves processes
between three lists as a trace says; nothing in it is concurrent or fails. It is
also unfinished: `scheduler_generate` sets neither pid nor priority and
`scheduler_select` returns NULL whatever is ready. Its list surgery (stopping the
first process of a queue drops the rest,
`Himanshu/scheduling/Archive/scheduler.c:97`) is within reach of ordinary unit
tests. `mmf.c`, two wrappers without
state; the shared-memory demonstration, ten lines without synchronisation. The
copies of the chat under `backup`, older states of the same files; the skeletons of
the assignments; the later `shmheap.c`, which does not compile; documents, archives
and data. The copies and skeletons make up more than half of the program text of
the repository.
