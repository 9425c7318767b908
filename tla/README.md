# PriorityQueue in TLA+

A verification project for PriorityQueue, a C++17 program in which client
threads push prioritised packets into a channel and one server thread waits for
them, pops them and logs them. The modules are translated from the sources
under `src/src/`. TLC checks them on small instances, and TLAPS proves for every
value of the constants all the safety properties that these runs confirm, and
that neither the channel nor the program can deadlock. Liveness is left to TLC.

## 1. Inventory

About 700 lines are the program's own; the other 29,000 are vendored (`spdlog`
with `fmt`, `cxxopts.hpp`). Of those the modules have what the program runs
through: the daily file sink, the file under it and the registry of loggers;
the loop of the option parser and its parser of numbers.

| Part | Source | State | Operations |
|---|---|---|---|
| Channel | `Channel/Channel.h`, `ChannelImpl.h`, `ChannelImpl.cpp`, `Base/msg.h` | `queue_`, `mtx_`, `cv_mtx_`, `cv_` | `pushMsg` (two overloads), `popMsg`, `waitForMsg`, `isEmpty` |
| ChannelFactory | `ChannelImpl.cpp:12-20` | `priorityQueueInstance_`, its mutex | `getPriorityQueueInstance` |
| Client | `Client/Client.h`, `Client.cpp` | `id_`, locals of `run`; a static generator with its mutex | `run`, `doAction`, `generateMsg` |
| Server loop | `Server/Server.h`, `Server.cpp:59-64, 101-126` | `bShutDownPending_`, `msgCount_` | `run`, `loop`, `onMsg`, `onIdle`, `scheduleShutDown` |
| Server singleton | `Server.cpp:33-57` | `srvInst_`, `mtx_` | `getInstance`, `releaseInstance` |
| Session log | `Server.cpp:69-99, 128-139`, spdlog's daily sink | `spLogger_`, `strLogFileName_`, the sink's file | `initLog`, `logMsg`, flush on destruction |
| Break handler | `Utils/BreackingHandler.cpp` | `status_`, the action of SIGINT | `reactivateHandler`, `ctrlBreakHandler`, `gl_getCancelStatus` |
| Main program | `main.cpp` | locals of `main`: objects, threads, arguments | `main`, `startServer`, `startClients` |
| Command line | `main.cpp:99-144`, `Utils/cxxopts.hpp:787-1008, 2371-2664` | `m_parsed`, the loop's index, `c_clients`, `c_msgs` | `processArguments`, `OptionParser::parse`, `integer_parser` |
| Application clock | `Utils/apptm.h` | start time | `getTicksSinceAppStart` |
| Tests | `g.tests/src/server-ts.cpp` | | `MsgFlowTest` |

How they interact:

- `main` makes the channel and the server, starts the server thread on
  `Server::run` and one thread per client on `Client::run`. The threads hold
  references to `main`'s locals (`main.cpp:157`, `:176`).
- Clients call `pushMsg`. The server thread alternates `waitForMsg(20ms)` and
  `popMsg(this)`; `popMsg` calls back `onMsg` once per packet, under its lock.
- `main` joins the clients, then sleeps a second and sets `bShutDownPending_`
  (`scheduleShutDown`), joins the server, reads the break status once more for
  its report and releases the objects.
- SIGINT sets `status_`, which every client and the server poll.

What is hard in it:

- `pushMsg`/`popMsg` and `waitForMsg` use different mutexes. A notification can
  fall between the predicate and the block and is then lost; the predicate
  reads the queue while a pusher is inside `emplace`; the answer of
  `waitForMsg` is used under another lock than it was obtained under.
- The server leaves its loop without draining the queue.
- A break may come at any step; the status is read in one place per thread and
  again by `main`.
- Lifetimes depend on the joins alone.
- The log file's name is computed apart from the sink that opens the file, and
  the sink itself reads the clock twice for each file.
- A log file may fail to open; the sink is then without a file and writes
  nothing, in silence. A process that dies loses what is buffered, and so does a
  hand-over that the system refuses: an `fwrite` that fails loses records whose
  own `fwrite` succeeded.
- The server is published before its log is made, and that may throw.
- The parser of numbers computes in the width of `size_t`.

What makes each part correct:

- Channel: one thread at a time in the heap; no packet lost, duplicated or
  overtaken by a less urgent one within a batch; an answer TRUE of `waitForMsg`
  is still true when `popMsg` gets its lock; every wait ends.
- Client and server: after a break, at most what was already under way is done.
- Main: no thread outlives what it refers to; "Done" is printed only for a
  complete run; the program always ends.
- Session log: each packet counted is in the log or was lost in a failure, and
  without a report only by a session that passes midnight; nothing is written
  twice or overwritten, and a process that dies loses the tail only; the file
  named is the file written and has the records of its day.
- Singleton: one instance, not used after its release; who got it through the
  mutex has a server with a log, unless the `initLog` of that server threw; a
  throwing `initLog` leaves no mutex locked.
- Command line: the program starts exactly with arguments that make sense, and
  with the numbers they mean.

`PROJECT.json` lists the hazards line by line with the properties for each.

## 2. Modules

```
PriorityMailbox <--refines-- ChannelImpl <--EXTENDS-- Client --\
                                  ^                             +-- PriorityQueue
                                  |     Breaking <--EXTENDS --\ /   (main.cpp)
                                  +---------------- Server ----+
                                                               \--- MsgFlow
SessionLog    Instances    Arguments    IntegerParser              (server-ts.cpp)

MC<module> EXTENDS <module>, for TLC
PriorityMailboxProofs, ChannelImplProofs, InstancesProofs, SessionLogProofs,
ArgumentsProofs, IntegerParserProofs EXTEND their module and TLAPS
PriorityQueueProofs EXTENDS PriorityQueue, ChannelImplProofs
MsgFlowProofs       EXTENDS MsgFlow, ChannelImplProofs
ChannelImplProofs   instantiates PriorityMailboxProofs
```

**PriorityMailbox** states what `Channel` promises, without mutexes or a heap:
packets are put while no batch is open, an open batch takes the foremost packet
each time and closes on an empty mailbox. What follows for its user
(`MailboxInv`, `NothingLost`, `BatchComplete`) is stated there too.

**ChannelImpl** splits the three functions into the steps another thread can
see. `pc[t]` says where thread `t` is.

| Code | Actions |
|---|---|
| `pushMsg` (`ChannelImpl.cpp:41-53`) | `PushLock`, `PushEmplace`, `PushNotify`, `PushUnlock` |
| `waitForMsg` (`:55-61`) | `WaitCall`, `WaitPredicate`, `WaitBlock`, then `WaitTimeout`, `WaitSpurious` or a pusher's `PushNotify`, `WaitRelock`, `WaitReturn` |
| `popMsg` (`:22-39`) | `PopLock`, per packet `PopTop` (top and `onMsg`) and `PopRemove` (pop), `PopUnlock` |

- The heap is the set of its packets; `Top` is the set of elements the
  comparator allows on top, so ties are broken in every way.
- `condition_variable_any::wait_for` with a predicate is unfolded as the
  standard library defines it: predicate, wait until an absolute deadline,
  predicate again; the last evaluation after a timeout. A notified thread whose
  deadline has passed by then may be told "timeout".
- Registering with the condition variable and releasing `cv_mtx_` is one step,
  because `notify_all` takes the condition variable's own mutex.
- The predicate `!queue_.empty()` is a data race with `emplace`. Its outcomes
  are those a build can produce: `empty()` compares the vector's begin and end
  pointers; while a pusher is between the begin of `emplace` and the locked
  instruction inside `notify_all`, a reader may see either state of an empty
  queue. A non-empty queue never reads as empty: during a reallocation begin
  and end belong to different buffers and are not equal. Popping is done by the
  reading thread itself.
- `received`, `batch` are history variables; `result` keeps `waitForMsg`'s
  answer until the server waits or pops again, which is what lets
  `PopAfterWaitFinds` be stated.
- The observer is never null and `isEmpty` is never called, in the program and
  in the tests; neither is modelled.

**Breaking** has the status and the signal's action. A signal before
`reactivateHandler` kills the process and is not a step.

**Client** is `Client::run` as a small machine (`cli[c]`): the loop condition,
`generateMsg`, and the push, whose steps are those of ChannelImpl.
`Client::mtx_` guards only what one step touches (the generator, a line of
output), so it is inside the step. A packet is its client, its serial number
and its priority. The count of packets to issue is a `size_t`: the comparison
that ends the loop without a break decrements the zero, which wraps to `SizeMax`
(`Client.cpp:28`). After a break it is not evaluated. No one reads the count
again, so that the invariants speak of `issued` where a client is gone.

**Server** is `Server::loop` (`srv`): the break status and the shutdown flag
are read in separate steps, then `waitForMsg`, then `popMsg` or `onIdle`.

**PriorityQueue** composes them under `main`: arguments, handler, objects,
server, clients, joins, the second of sleep, shutdown, report, release. The
sleep takes any time at all relative to the server; `polled` records whether
the server got through one poll of the flag meanwhile. `late` counts what is
queued, or begun to be popped, after a break. An exception that leaves `main`
(`initLog`, `std::thread`) ends the process from any of the steps that can raise
it (`Terminate`).

**MsgFlow** composes the same channel and server loop as `MsgFlowTest` does:
one thread pushes, then runs `Server::run` itself, and `MockOnIdle`, in place of
`OnIdle`, calls `scheduleShutDown`. The test pushes one packet, the module any
set of them.

**SessionLog** is the log through the sink and the file, in days numbered by
local time. A file is known by the day in its name. Each reading of the clock is
a step of its own and `Tick` may come between any two.

| Code | Actions |
|---|---|
| `initLog` (`Server.cpp:75-99`) with the sink's constructor (`daily_file_sink.h:70-96`) | `InitLog` (name of the file), `OpenFirst` or `OpenFirstFails`, `SetRotation`, `NameLog` (the name to print) |
| `onMsg`, `logMsg` (`Server.cpp:117-139`) with `sink_it_` (`daily_file_sink.h:104-120`) | `OnMsg` (count, stamp, decide), `Rotate` or `RotateFails`, `SetRotation`, `Write` or `WriteFails` |
| `~Server`, the end of the process | `Release`, `Exit`; `Kill` at any point |

`buffer` is the C library's. `Write` hands any prefix of it to the system, as
`fwrite` may. A hand-over that fails has passed on the first `k` records, and the
library, as glibc does, forgets the rest (`HandOver`). That can happen in

- `fwrite` (`WriteFails`, `file_helper-inl.h:104`), which loses earlier records
  and the one at hand,
- the `fflush` of `~Server` (`Release`, `file_helper-inl.h:74`),
- the `fclose` of a rotation or at the end (`CloseFile`,
  `file_helper-inl.h:91`).

The first two throw, and the logger catches (`logger-inl.h:135-141, 148-153`): what
they lose is in `failed`, with the records that found no file. Their report is
`err_handler_`'s, at most one message a second. The result of `fclose` is not
looked at: what it loses is in `dropped`. `raced` has the sessions in which
midnight fell between the sink's two readings.

**Instances** is `getInstance`, one step per read of `srvInst_`, by any number
of callers, and `releaseInstance`, called when nobody is inside, as in `main`.
`initLog` succeeds or throws; it always throws when the registry still has the
logger of an earlier server, so that only the first server of a process can have
a log. `threw` has the servers whose `initLog` threw, `locked` the callers that
took the mutex in their latest call.

**Arguments** is the loop of `OptionParser::parse` over arguments classified as
`ParseArgument` does, and the decision of `processArguments`. What a list of
arguments means is said apart from the loop, of the whole list at once:
`Before` has the arguments up to the first `--`, `Sensible` those that alone
make sense, `Given` the places where an option is given, the last of which
counts. **IntegerParser** is `integer_parser<size_t>` digit by digit, with its
arithmetic in the width of the type.

## 3. Runs

| Run | Instance | Shows |
|---|---|---|
| `channel_safety` | 3 clients (symmetric), 4 packets with priorities 0, 7, 255, 255 | The properties of ChannelImpl, the inductive invariant, and `IsMailbox`: the channel implements PriorityMailbox. |
| `channel_liveness` | 2 clients, the same packets | `WaitReturns`: a lost wake-up or an endless run of spurious ones cannot keep a wait from ending. |
| `program_safety` | 0 to 2 clients, 0 to 2 packets each, one priority, a break anywhere | Lifetimes, the meaning of "Done", reaction to a break, and `UsesChannel`: the program keeps to ChannelImpl's protocol, so that everything proved of the channel holds in it. |
| `program_liveness` | 0 to 2 clients, at most one packet each, one priority | The program terminates; a queued packet is received unless the server has ended. |
| `session_log` | 2 sessions of 3 records, 3 local days of 3 ticks, one failure, local time one tick ahead | What is counted is logged or was lost in the failure, without a report only past a midnight; what is on disk has no other gaps and nothing twice; the file printed has the records; each record is in the file of its day unless midnight fell between the sink's readings; nothing is overwritten. |
| `instances` | 3 callers, 3 servers one after the other, one file that cannot be opened | One server at a time, none dangling; who can be given a server without a log; every call ends. |
| `arguments` | all lists of up to 4 of 12 arguments | `OutcomeAsMeant`. |
| `integer_parser` | all texts of up to 3 digits, a type of 6 bits | A number is accepted exactly if it fits. |
| `msg_flow` | 4 packets, two priorities | What the test expects: onIdle last and once, the count; the test ends. |
| `doc_log_per_session` | 2 sessions | A violation: two sessions on one day share a file although `README.md:36` promises "a log file for each session". |
| `sink_two_clocks` | 1 session | A violation: the sink "rotates on given time" (`daily_file_sink.h:69`), but with midnight between its readings (`:88`, `:150`) the new day's records go to the old day's file. |
| `doc_client_limit` | limit 11 | A violation: eleven clients are accepted (`MAX_CLIENTS = 50`, `main.cpp:104`) although `README.md:20` and the comment at `main.cpp:33` say "not above than 10". |

Why the bounds are enough. Two pushers are needed for a push to wait for
another one, a third for one to be inside while two wait; the server is the one
other thread. Four packets with one tie give batches in which a tie has to be
broken and a packet that arrives late is more urgent than the ones already
served. In the program two clients with two packets reach: a break between the
packets of one client, one client gone and one pushing, packets left in the
queue when the server ends, a batch begun after the break. One priority is
enough there: with it the heap may serve its packets in any order, and order is
the subject of the channel's run. The liveness runs
use less, since what they ask is whether a thread can be stuck, not how much is
in the queue. In the log three local days give a session that passes one
midnight or two, the first of them not at the clock's; two sessions share a day
or do not; three records are enough for one to reach the disk, one to be lost in
a hand-over and one to be written after it. The failure may be any of the four
kinds, at any time. Three callers of `getInstance`: one that makes the server, one that
waits for the mutex, one that sees the pointer without it. Arguments: an option
with its value, and one more before or after it. Digits: 63 = 6*10+3 = 3*16+15,
so that a number of two digits reaches either side of both checks. The bounds
are named: `MaxClients`, `MsgLimit`, `SizeMax` (one above `MsgLimit`: a wrapped
count is no count of packets), `Priority`, `Clients`, `Msg`, `LastTick`,
`SessionLimit`, `RecordLimit`, `FailureLimit`, `ServerLimit`, `Argv`, `Texts`.

Properties worth a word:

- `TrueAnswerHolds`, `PopAfterWaitFinds`, `NeverPopsInVain`: the racing
  predicate and the change of mutex do no harm. A TRUE read while the queue was
  still empty means a push past its lock; `popMsg` waits for that lock.
- `NotifiedFindsPacket`: the order of `emplace` and `notify_all` matters to it.
- `BatchInPriorityOrder` is the priority the code gives: within one `popMsg`.
  There is no order between batches.
- `DoneMeansAllReceived` has the premise `polled`. Without it the property is
  false in the model, since nothing in the code ties the second of
  `Server.h:54` to the server's progress: it is a grace period, not a drain.
- `BreakStopsSoon`: one packet per client and one batch at most.
- `CountedIsLogged`: a rotation that cannot open its file leaves the sink
  without one; that the next record tries again rests on the order of
  `daily_file_sink.h:109-110`. On disk it must be when `~Server` has flushed.
- `NoGaps` allows for the records in `failed` and `dropped`, and is false without
  either: a failed `fwrite` or `fclose` leaves a gap in the middle of a log.
- `UnreportedLossNeedsMidnight`: within one day the file is closed once, after
  the flush of `~Server` has emptied the buffer or reported that it could not.
- `WrittenOnceInOrder`: that a hand-over which failed is not made again keeps
  records from being in a file twice.
- `NamedFileHoldsAll` is about a session that does not pass midnight. For one
  that does, the program prints the first of its files.
- `LoglessOnlyAfterThrow`: `Server.cpp:43` publishes the server before its log is
  made. If `initLog` throws, the server stays published without a log, and every
  later caller gets it, through the mutex or not. Short of that, a caller that
  waited for the mutex has a server with a log; one that saw `srvInst_` without
  it may have one whose `initLog` is under way. Nothing prevents that in the
  code; `main` has one caller, and ends if `initLog` throws.

Fairness. Threads that can run are scheduled (weak fairness of each thread).
The timeout is strongly fair: the deadline is a point in time, so spurious
wake-ups do not postpone it for ever. Neither a break nor a spurious wake-up
has to come. Taking a mutex is weakly fair only, and that is enough: `mtx_` is
contended for ever by nobody (each client has finitely many packets), and
`WaitReturns` needs `cv_mtx_`, which only the server takes. A caller of
`getInstance` goes on with its call; it may wait for the mutex, which nobody
needs once there is a server.

Deadlock is checked in every run but those of the log, which stops at its
bounds (`LastTick`, `SessionLimit`). What is finished stutters (`Terminated`,
`Checked`, `Done`, `Finished`).

## 4. Proofs

Eight modules hold the proofs. Every invariant and every action property of a
passing run is the subject of a theorem.

### The channel

`ChannelImplProofs` proves, for any `Clients`, `Server` and `Msg` that satisfy
`ChannelAssumption` (the thread names differ and priorities are bytes):

| Theorem | States |
|---|---|
| `ChannelCorrect` | `ChannelSpec => []ChannelInv` |
| `TypeCorrect`, `Exclusion`, `TrueAnswer`, `Notified`, `BatchOrder` | the invariants the run checks |
| `PopFinds` | `ChannelSpec => PopAfterWaitFinds`, an action property |
| `Refinement` | `ChannelSpec => IsMailbox` |
| `ChannelInOrder`, `ChannelLosesNothing`, `ChannelIsEmptied` | what a mailbox promises, of the channel |
| `NoDeadlockInside` | `ChannelSpec => []InsideMayMove` |

The safety properties are not inductive as they stand. `ChannelInv` adds what
their steps rely on:

- `InsideHoldsLock`: whoever is inside `pushMsg` or `popMsg` holds `mtx_`. With
  it a push cannot slip into an open batch, and a batch cannot open while a
  push is past its lock.
- `PushedPacket`: the packet being pushed is unknown before `emplace` and
  queued until its notification (`Notified` and `Refinement` need it).
- `InHand`: only the packet in the observer's hands is both queued and
  received.
- `AnswerUsedUp`: no answer outlives the `popMsg` after it; else draining the
  queue would break `TrueAnswerHolds`.
- `BatchAheadOfQueue`: what was handed over does not come after what is queued,
  which makes the order of the batch inductive.

There is one lemma per action and in it one step per conjunct. The actions of
`waitForMsg` share `WaitFrame`: they touch neither the queue nor `mtx_`, so
only the two conjuncts on its answer need an argument. The refinement maps
`pending` to the queue without the packet in hand; `EmplacePuts` and `TopTakes`
are its two steps that matter, every other step opens, closes or stutters.

`PriorityMailboxProofs` proves of the abstract mailbox what its users rely on:
`MailboxInOrder` (a packet is taken once; a batch is in priority order, and while
it is open none is there that belongs before one already taken), `MailboxKeeps`
(what is there stays until it is taken, and does not come back) and
`MailboxEmptied` (nothing joins an open batch, which ends when nothing is left).
By the refinement all three hold of the channel, so that order and completeness
are argued where there are no mutexes.

### Deadlock

TLC checks deadlock on the instances of the runs. ENABLED is out of the prover's
reach, so that the theorems state freedom from deadlock by the guards:
`PushMayMove`, `WaitMayMove` and `PopMayMove` say of a thread inside the channel,
`MainMayMove`, `ClientMayMove` and `ServerMayMove` of the threads of the program,
what their actions ask for before they can be taken. `InsideMayMove` and
`SomeoneMayMove` say who waits for whom:

- A thread inside `pushMsg` or `popMsg` holds `mtx_` and asks for nothing more.
  A draining server needs a packet the comparator allows on top: `HeapHasTop`,
  which rests on the least number of a set of naturals (`LeastNumber`).
- A thread inside `waitForMsg` holds `cv_mtx_`, or is blocked without it and may
  time out; nobody else takes it (`WaitHoldsLock`).
- `main` joins threads only that were started (`Started`), and such a thread is
  gone, can go on, or waits for `mtx_`, whose holder can.

They assume nothing but `Priority # {}`: `uid_` (`Client.h:46`) draws from 0
to 255. `NoDeadlockInside` has them of the channel and `NoDeadlock` of the program.
They do not say that a thread that can go on is scheduled; with fairness that is
`Terminates`.

### The program

`PriorityQueueProofs` proves, under the assumptions of the modules it composes,
for any number of clients and packets, with a break or an exception anywhere:

| Theorem | States |
|---|---|
| `ProgramCorrect` | `Spec => []ProgramInv` |
| `ProgramUsesChannel`, `ProgramIsMailbox` | the program keeps to the channel's protocol, hence implements PriorityMailbox |
| `ProgramKeepsPromises` | hence each packet reaches the server at most once, in order, and none is lost |
| `NoDeadlock` | `Spec => []SomeoneMayMove` |
| `ProgramTypeCorrect`, `NoDanglingUse`, `PopsFindPackets`, `BreakIsPrompt`, `DoneIsComplete`, `DoneIsReceived` | the invariants the run checks |
| `ShutDownIsLast` | the action property `NoPushAfterShutDown` |

`ProgramInv` is `ChannelInv` with what ties the threads to one another:

- `Placed`: where a thread is in its own code and where it is in the channel's
  go together. From it every step of the program is a step of the channel or
  leaves it alone, which carries `ChannelInv` over.
- `Counted`, `Serials`, `CountsReceived`: the packets of a client are numbered
  without gaps up to `issued`, each is queued, received or on its way exactly
  once, and `msgCount_` is the number received. `DoneIsComplete` counts them by
  a bijection with the pairs of a client and a number.
- `AllJoined`, `Started`: what `main` has started and joined when it is where it
  is; lifetimes and freedom from deadlock follow from it.
- `Broken`, `LastTurn`, `Reported`: what a break leaves to be done, what one
  turn of the server during the sleep has emptied, and what the word printed
  stands for.

### The test's server

`MsgFlowProofs` proves, for any set of packets, `FlowCorrect`
(`FlowSpec => []FlowInv`), `FlowUsesChannel` (the test keeps to the channel's
protocol), `IdleOnce` (`IdleOnceAtTheEnd`) and `AllCounted` (`CountIsPushed`).
That all packets have been received when `onIdle` is called needs
`FalseAnswerHolds`, the counterpart of `TrueAnswerHolds`: with nobody pushing
while the server runs (`OneThread`), the answer FALSE means an empty queue, which
in the program it does not. `PacketsAccounted` says where each packet is,
`EachCountedOnce` that `msgCount_` is their number, and `IdleEnds` that after the
first idle turn only the poll of the flag is left.

### Singleton, log and command line

`InstancesProofs` proves `InstInv` for any number of callers and servers
(`InstancesCorrect`), and from it `Singleton` (`OneServer`), `NoDanglingServer`
(`ReturnedAlive`) and `NoLogMeansThrown` (`LoglessOnlyAfterThrow`). `InstInv` has
the ownership of the mutex (`HoldsLock`), that pointer and object exist together
(`Published`), that whoever is about to make a server does so where there is none
(`NothingYet`: the second check under the mutex), that `initLog` has returned or
thrown for a published server unless its maker, which holds the mutex, is still in
it (`Whole`), and that a caller which came through the mutex has a server of the
first kind (`WorksWith`).

`SessionLogProofs` proves, for any length of the day, any offset of local time
and any number of sessions, records and failures:

| Theorem | States |
|---|---|
| `LogCorrect` | `LogSpec => []LogInv` |
| `LogTypeCorrect`, `NothingUnaccounted`, `SilentOnlyAtMidnight`, `OnlyTheTailIsLost`, `InOrderOnce`, `NameIsRight`, `InFileOfItsDay` | the invariants the run checks: `LogTypeOK`, `CountedIsLogged`, `UnreportedLossNeedsMidnight`, `NoGaps`, `WrittenOnceInOrder`, `NamedFileHoldsAll`, `UnracedInFileOfItsDay` |
| `FilesOnlyGrow` | the action property `NothingOverwritten` |

What `LogInv` adds to them:

- `FileOpen`: a record is written with a file open only, because after a
  rotation that failed `rotation_tp` is in the past and the next record rotates.
  Without it `Write` could drop a record in silence.
- `Buffered`: the buffer is of the open file, and of its day.
- `OnTime`: unless the session is raced, rotation is due at the midnight that
  ends the file's day; a record stamped before it is of that day, since the
  clock is not set back.
- `WithinSession`: the open file, the printed name and the records on disk are
  of days on which the session has run; if it has run on one only they agree.
- `Accounted` and `Trail`: where the record of each packet is (on disk, in the
  buffer, lost), and what comes before a record in the buffer. They make `NoGaps`
  inductive when a prefix of the buffer reaches the disk, with or without the rest.
- `InSequence` and `Latest`: what is on disk comes before what is buffered, the
  buffer is in order, and no file of the session is of a later day than the open
  one. From them a hand-over keeps `WrittenOnceInOrder`, also after a rotation.
- `NotBeforeMidnight`: no rotation is due before the midnight that ends the day on
  which the session began. A rotation is the one place in which `fclose` finds
  anything in the buffer, and by then that midnight has passed.

A write, a flush and a close differ in what is handed over and in what becomes of
the rest: `Handed` says what a hand-over does to the files, `HandedInOrder` that it
keeps the order if what is handed over is orderly, `HandedOver` and `HandedFiles`
say it of the buffer. The lemmas about the actions cite them.

`ArgumentsProofs` proves, for lists of arguments of any length, `ArgumentsCorrect`
(`ArgumentsSpec => []ArgumentsInv`), `ArgumentsTypeCorrect` (`ArgumentsTypeOK`)
and `OutcomeIsAsMeant` (`OutcomeAsMeant`). `ArgumentsInv` ties the loop to the
meaning of the list: so far every argument made sense and none was `--`
(`SensibleSoFar`); each option that was given has been counted, and the last of
its values stored (`LastValueStored`); the decision is about the whole list
(`Decided`). `ParseOptionInv` is the step that moves the last value; an option
with its value in the next argument moves the loop by two, and the value, as a
word, is in no one's way.

`IntegerParserProofs` proves for every width of at least four bits and every
text that a value is stored only if it is the number written and refused only
if it is none, negative or too large. `ChecksAreExact` is the arithmetic of the
two checks; `exact`, which does not wrap, is the history variable that
`ParserInv` ties `result` to.

Only model-checked: liveness (`WaitReturns`, `Terminates`, `PacketsReceived`,
`CallsReturn`, `TestEnds`), which the prover does not reach, and that the guards
in the deadlock theorems are those of the actions, which is to say ENABLED of
them: a deadlock TLC would find in a run, and a reader sees the guards side by
side with the actions.

## 5. Not modelled

- The rest of the vendored libraries: formatting, patterns, other sinks and
  loggers, containers of values, help texts. They are most of the tree's lines,
  and hold no state of this program.
- The application clock, the packet's text, the console output. They are
  written and never read.
- The Windows half of the break handler; `deactivateHandler` and the statuses
  `Processing` and `Handled`, which nothing uses.
- A second call of the channel's factory, which would return a pointer to a
  channel its first caller deletes (`ChannelImpl.cpp:12-20`): neither the
  program nor the test makes one.
- Exhaustion of memory.
- A write that the system accepts and loses later, and records of which a failed
  hand-over leaves a part in the file: a record is on disk when all of it is. The
  buffer is glibc's, which forgets what the system refused; a library that keeps
  it would write more, and nothing here speaks of one.
- A clock that is set back, and changes of local time's offset. On the day on
  which local time changes, the 24 hours of `daily_file_sink.h:159` are not a
  day, and records of one hour go to the file of another day.
- How long the second of `scheduleShutDown` is against the 20 ms of a wait:
  `polled` stands for all the ways it can turn out.
- The binary heap behind `std::priority_queue`, which is the standard
  library's: `Top` is its contract.

## 6. Plan

Done, in this order: PriorityMailbox, ChannelImpl, Breaking, Client, Server,
PriorityQueue with their runs, ChannelImplProofs; PriorityQueueProofs,
SessionLog and SessionLogProofs, Instances and InstancesProofs, MsgFlow,
IntegerParser and IntegerParserProofs, Arguments; ArgumentsProofs,
MsgFlowProofs, PriorityMailboxProofs, the theorems on deadlock.

Worth adding: the log composed with the server's loop.
