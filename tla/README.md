# FORGE in TLA+

FORGE, the I/O Forwarding Explorer, is an MPI program in C. Some ranks of a run
are *forwarders*, the others are *clients*. A client sends its opens, reads,
writes and closes to its forwarder, which schedules them with AGIOS, issues them
to the file system in batches, and answers. This directory holds a model of
that program, the configurations that check small instances of it, and proofs
that hold for instances of every size.

Paths below are relative to the root of the repository (`src/main.c` is the
benchmark's main program).

## 1. Inventory

| Part | State | Operations | Interacts with |
|---|---|---|---|
| Processes and communicators (`src/main.c` 90-480, 560-597, 662, 1107-1167) | position in the program, collective operations | load and check the setup, split into forwarders and clients, barriers, finalize | every other process |
| Client (`src/main.c` 623-1130) | loop counter, file handle, request identifier, MPI barriers | open, write loop, read loop, close, shutdown message | forwarder, by MPI messages |
| Access pattern (`src/main.c` 26-29, 635-638, 664-670, 729-741) | none | forwarder of a rank, requests per client, offset of a request, path | client, listener |
| Listener thread (`src/server/listener.c`) | `shutdown`, `shutdown_control`, `global_id` | receive a request, queue it; count finished clients | handlers (incoming queue, condition variable) |
| Handler threads (`src/server/handler.c`) | `incoming_queue`, `opened_files` with reference counts | open, close, hand reads and writes to the pool | thread pool, clients |
| Pool jobs `handle_read`, `handle_write` (`src/handler/`) | `requests` hash | acknowledge, receive data, register, give to AGIOS | AGIOS, clients |
| AGIOS (external) and its callbacks (`src/scheduler.c`) | `ready_queue` | one ready request, several ready requests | dispatcher |
| Dispatcher thread (`src/server/dispatcher.c`) | `ready_queue`, batch in hand | pop, look up, aggregate, submit | thread pool |
| Pool jobs `dispatch_*`, `callback_*` (`src/dispatcher/posix.c`) | buffers, `requests` hash, the files | pread and pwrite, answer the clients | file system, clients |
| Thread pool (`src/thpool.c`) | job queue, binary semaphore, counters | add work, run, wait, destroy | all server threads |
| Start and stop of a server (`src/main.c` 510-622) | thread handles | create, join, destroy the pool | all server threads |
| Configuration (`src/main.c` 204-364) | `simulation_*` | parse, validate | everything |
| PVFS dispatcher (`src/dispatcher/orangefs.c`) | as `posix.c` | as `posix.c` | only in a PVFS build, which CMake turns off |
| Linked lists (`src/fwd_list.c`, `include/fwd_list.h`) | `prev` and `next` of heads and entries | set up, add, delete, test for empty, walk | the queues of the server |
| Identifiers (`src/utils.c` 8-34) | `global_id`, `pvfs_fh_id` | the next request identifier, the next PVFS handle | listener, handlers |
| `src/pqueue.c`, `src/jsmn.c`, `include/uthash.h`, `src/log.c` | | library code | |
| `docs/_build/html` | | the generated HTML manual with its scripts | none |

What is hard here, and what the properties are about:

* A request crosses seven threads and five queues. Every hand-over reads shared
  state under one lock and uses it under another.
* The two acknowledgements of a write have one tag and come from different
  threads; only the protocol keeps them apart.
* The identifier of a request is also the MPI tag of its data and the key of the
  hash, and it wraps around.
* The clients of a shared file share one descriptor by a reference count.
* AGIOS may hand requests back one by one or several at a time, at any time and
  in any order. It may do so before the thread that gave it a request goes on.
* A write or a read has its effect long before its client hears of it, in a batch
  of requests of several clients, which a PVFS build sorts first. The client may
  nevertheless treat the forwarder as a file system of its own.
* All ranks have to pass the same collective operations of three communicators
  in one order, although their programs differ, and the barriers have to keep
  servers up while they are needed, phases apart, and what is timed free of
  anything else.
* The server stops on a count of messages. The threads are told by a flag and by
  condition variables that are signalled without their mutex.

## 2. Modules

`AccessPattern` has the arithmetic; `ForgeState` the constants, variables, data
and initial state of one forwarder and its clients. Over that state
`ForgeClient` has the client branch of `main`, `ForgeServer` the listener and
the handlers, `ForgeJobs` the jobs of the thread pool, `ForgeDispatch` AGIOS and
the dispatcher. `Forwarder` composes them and states the properties,
`MCForwarder` gives the values of constants that a `.cfg` cannot write down.

```
AccessPattern --- ForgeState --+-- ForgeClient ---+
      |   \                    +-- ForgeServer ---+
      |    \                   +-- ForgeJobs -----+-- Forwarder --> FileService
      |     Configuration      +-- ForgeDispatch -+
      |
      +--- Exploration (its forwarders are FileService, in one step)

ServerThreads      ThreadPool --> JobPool      FwdList
```

A line is EXTENDS, an arrow a refinement that is checked.

| Action | Code |
|---|---|
| `ClientOpen`, `ClientHandle`, `ClientStart` | send OPEN, receive the handle, barrier (`src/main.c` 684-722; 897-935 for the read phase) |
| `ClientIssue` | one request with its offset (722-750, 935-962) |
| `ClientSendData`, `ClientWriteDone` | identifier, data, acknowledgement of a write (752-779) |
| `ClientReadId`, `ClientReadDone` | identifier, data and validation of a read (964-1008) |
| `ClientLoopEnd`, `ClientClose`, `ClientClosed`, `ClientNext`, `ClientShutdown` | barrier, CLOSE, barrier, next phase, empty message (781-894, 1010-1127) |
| `ListenerRequest`, `ListenerShutdown` | one turn of the listener's loop |
| `HandlerPop`, `HandlerOpen`, `HandlerSendHandle`, `HandlerDelegate`, `HandlerClose`, `HandlerAckClose` | one turn of a handler's loop, cut where it releases a lock |
| `HandleAck`, `HandleWriteWait`, `HandleHash`, `HandleAgios` | `handle_read` and `handle_write` |
| `AgiosCallback`, `AgiosCallbackAggregated` | AGIOS calling `callback`, `callback_aggregated` |
| `DispatcherPop`, `DispatcherFind`, `DispatcherBatch`, `DispatcherSubmit` | one turn of the dispatcher's loop |
| `DispatchSort` | PVFS build: the sort and the look-up of the handle (`src/dispatcher/orangefs.c` 57-125) |
| `DispatchRead`, `DispatchWrite`, `DispatchDone` | one `pread`, one `pwrite`, or one piece of the PVFS list; the end of the batch |
| `CallbackDel`, `CallbackReply` | one turn of the loop of `callback_read`, `callback_write` |

A critical section is one action, and whatever happens between two of them is
interleaved. Blocking on a condition variable is the guard of the action that
follows it; `ServerThreads` models the condition variables themselves. MPI
messages from one rank to another with one tag are a FIFO channel; the data
messages, each with its own tag, are a set. `MPI_Abort` and a null pointer
dereference stop everything and leave their reason in `aborted`.

Abstractions: a request's data is the rank of the client that wrote it. Offsets
count requests instead of bytes, which the lemma `OffsetIsBlock` justifies. Paths
are numbers. Buffers begin zeroed as `calloc` leaves them, or, with `direct_io`,
with whatever `posix_memalign` returns (`Stale`). `open` succeeds.
`FileSystem` chooses the build: with POSIX an open takes any free descriptor;
with PVFS it takes the next of `generate_pfs_identifier`, which wraps around,
and a batch may be sorted into any order, for the comparison function of `qsort`
never says that one offset is smaller. A finished request's object is reset to `NoRequest`, although
`callback_read` never frees it, because nothing can reach it any more.

`FileService` is what all this amounts to for the clients: a file system in which
each open, read, write and close has its effect once, at one instant between
call and return. `Forwarder` implements it, which TLC checks on three
instances and section 4 proves. An open or close takes
effect where the handler updates the table of open files, a transfer at its
`pread`, `pwrite` or piece of the list (`Effected`); a client has an operation
under way from when it sends it to when it receives the last answer (`Called`),
and what a read is going to return is in the buffer of its request and later
in the message with the data (`Found`). Where transfers may fall short,
`Reliable` is false, and the service may leave out a write or return a fresh
buffer.

`Exploration` is `main` in every process: the configuration file that may be
missing on a rank, the check of the setup, the split into forwarders and clients,
and all collective operations. The program of a rank is a sequence of steps
(`ClientProgram`, `ServerProgram`), written in the order of the code; a barrier
and the creation of a communicator wait for all members, a gather or a
reduction only at its root. A client's calls are answered by its forwarder in
one step (`Serve`): the handlers, jobs and dispatcher of `src/server` as the
`FileService` that `Forwarder` is shown to implement.

| Action | Code |
|---|---|
| `Load`, `Verify` | the configuration file, the check of the ranks (`src/main.c` 110-146, 345-354) |
| `Collective` | every `MPI_Barrier`, `MPI_Comm_create`, `MPI_Gather` and `MPI_Reduce` |
| `Branch`, `Call`, `Return`, `LoopEnd`, `Shutdown` | the client's phases, requests and last message (672-1125) |
| `Refuse` | a validation that fails (984-999) |
| `Start` | the pool, AGIOS and the threads of a forwarder (525-571) |
| `CountFinished` | the listener counts a client that has finished; the last one makes it broadcast (`src/server/listener.c` 70-84) |
| `Join` | the joins and the destruction of the pool (576-587) |
| `Teardown` | PVFS and AGIOS are stopped (589-597) |
| `Finalize` | the three names are freed, `MPI_Finalize` (1132-1167) |
| `Terminate` | the launcher, which ends a run that a rank has left without `MPI_Finalize` |

What the modules of a single server find out about its end is here too. A thread
of a forwarder may miss the broadcast (`missed`, finding 1), and then `Join` is
never enabled for it; the pool may be freed under a thread (finding 2), which
may kill the process; and so may the `free` of a name that the file does not
have, for it is an empty string literal then (`src/main.c` 173-175, 1153-1155).
`Hung` is the state a run gets into by a missed broadcast.

`FwdList` has the linked lists of the queues with their pointers, each operation
as an operator on a memory of `prev` and `next`, the assignments in the order of
the code. `IsList(m, head, s)` says that the memory holds the sequence `s`
behind the head. The other modules use sequences; `ForwarderProofs` is why they may.

`ServerThreads` takes the threads of one server apart where `Forwarder` has a
guard: mutexes, condition variables, the shutdown flag, the joins of the main
thread. A request is only counted there, on its way through `unsent`,
`incoming`, `scheduled`, `ready`, `submitted` and `answered`.

| Action | Code |
|---|---|
| `ListenerReceives`, `ListenerEnqueues`, `ListenerSignals` | a request (`src/server/listener.c` 88-111) |
| `ListenerFlags`, `ListenerBroadcastsIncoming`, `ListenerBroadcastsReady` | the last shutdown message, and the end of the loop (44-59, 71-86) |
| `HandlerLocks`, `HandlerTests`, `HandlerWaits`, `HandlerHandles`, `HandlerBroadcasts` | `src/server/handler.c` 17-46, with the branches 50-244 as one step |
| `AgiosSchedules`, `AgiosSignals` | `src/scheduler.c` 7-76 |
| `DispatcherLocks`, `DispatcherTests`, `DispatcherWaits`, `DispatcherSubmits`, `DispatcherSignalsHandlers` | `src/server/dispatcher.c` 28-158 |
| `PoolAnswers` | the last step of `callback_read`, `callback_write` |
| `MainJoins` | `src/main.c` 576-587 |
| `SpuriousWakeup` | `pthread_cond_wait` returning unprompted |

`ThreadPool` is `src/thpool.c`: the queue, its binary semaphore with a mutex and
a condition variable, the two counters, the threads (`ThreadStart` to
`ThreadGone`, one action per critical section or test of `thread_do`), and the
owner of the pool (`OwnerInit` to `OwnerFree`: `thpool_init`,
`thpool_add_work`, `thpool_wait`, `thpool_destroy`). `JobPool` is what the rest
of the server expects of it: jobs start in the order of adding, once each, and
end; only the destruction of the pool, when nothing runs, drops any.
`ThreadPool` implements `JobPool` under the mapping that takes `queue` for
`pending` and the jobs of the threads that execute one for `running`.
`Forwarder` relies on the same promise with its variable `jobs`.

`Configuration` is the part of `main` that every process runs first: the loop
over the tokens (one action per kind of key, `IgnoreKey` for the others), the
checks (`Verify`) and the number of requests (`Plan`). A document is its
sequence of tokens and the positions of the keys of the root object. The
constants of the accepted run are those that `Forwarder` takes for granted.

The modules named `MC...` hold the values of constants, and those named
`...Proofs` the theorems. `ForwarderInvariant` has the inductive invariant of
`Forwarder`. `ForwarderProofs` proves what single steps do to it, and
`ForwarderSafety` that it holds, and the theorems that rest on it. An operator
whose name extends that of another by an underscore, such as `Skip_None`, is the
other with a mistake in it; no model uses it. It documents which mistake which
property finds.

## 3. What is checked

| Run | Instance | Distinct states | Shows |
|---|---|---|---|
| `ForwarderBatches` | 3 clients, one strided write each to a shared file, POSIX, 2 handlers, 2 pool threads, batches of 2 | 309,394 | `EachRequestInOnePlace`, `ScheduledAreHashed`, `BatchesAreSound`, `DoneWritesAreOnDisk`, `ReferencesCountUsers` |
| `ForwarderPhases` | 2 clients, two writes and two reads each of a shared file, POSIX, `direct_io`, three identifiers | 137,238 | `TypeOK`, `NeverAborts`, `OneAnswerPerRequest`, `HandlesStayOpen`, `StopsOnlyWhenDrained`, `IdsAreNotReused`, `ImplementsFileService` |
| `ForwarderFailures` | 2 clients, one strided write and read each of a shared file, PVFS, two handles, short transfers | 54,954 | `NeverAborts`, `NoForeignBytes`, `ImplementsFileService` |
| `ForwarderCompletes` | 2 clients, two writes each to files of their own, PVFS, time limit | 32,542 | `EveryRunCompletes`, `ImplementsFileService` |
| `Exploration` | 3 or 4 ranks with one or two forwarders, 6 with two, one or both phases, two requests; reads that are validated, a file without names; two setups that are refused | 105,367 | `TypeOK`, `ServersOutliveClients`, `NoTeardownWhileServing`, `TimedAlone`, `ReadsFollowWrites`, `NoneRunsAlone`, `EveryRankFinalizes` |
| `ThreadPoolJobs` | 3 threads, 3 jobs | 118,589 | the pool implements `JobPool`, with its liveness; `NoLostWakeup`, `WaitMeansDone`, `JobsAreDistinct`, `CallsReturn` |
| `ThreadPoolFreed` | 2 threads, 2 jobs | | violated: finding 2 |
| `ServerThreads` | 3 handlers, 3 requests, any finite number of spurious wake-ups | 40,609 | `TypeOK`, `NoSleepOverWork`, `EveryRequestAnswered`, `HandlersStop` |
| `ServerThreadsShutdown` | 1 handler, 1 request | | violated: finding 1 |
| `ConfigurationSetup` | 3,500 files, 1 to 6 processes | 156,155 | `ParsedAsWritten`, `ServersAreBalanced`, `RequestsAreDisjoint`, `RequestsStayInside` |
| `ConfigurationReadme`, `ConfigurationNested` | one file each | | violated: findings 3 and 4 |

Why these bounds are enough. A batch has a first request and others, and one
that finds it full: three requests in a batch of two. A file with a reference
count needs a second user while the first closes it; reopening needs a second
phase. Identifiers wrap around when there are fewer than requests: three
for the sixteen that two clients issue in two phases, and never fewer than
the two that may be under way. A reused PVFS handle needs no more than two of
them, for one file that is closed and opened again; two files need three to see
that an open never takes the other's. Two handlers and two pool threads give each
critical section a competitor of its own kind. In `ServerThreads` a
third handler tells a signal, which wakes one of two sleepers, from a broadcast;
a single handler has nobody to wake it. In `ThreadPool` the binary semaphore
needs two threads asleep and one at work. Numbers in `Configuration` go on both
sides of each check. A barrier of the clients of two forwarders needs two clients
of each for one of them to be ahead of both its neighbour and a stranger, which
six ranks have; a barrier of the forwarders needs two of them; the time limit
exists only where there is one phase.

`EveryRankFinalizes` has the exceptions that the code has: a rank without a
configuration file, `MPI_Abort` (ranks that cannot be shared out, a failed
validation), a killed process (finding 2, the `free` of a literal), and `Hung`.
A process is killed only where the undefined behaviour is, and `Hung`
holds only when every client has sent its last word, some forwarder waits in
`pthread_join` for a thread that missed the broadcast, and all others are in the
same wait or at the barrier of the forwarders. A run that stops for any other
reason, such as a barrier that some rank never enters, violates it.

Deadlock is checked but for `ServerThreads` and `ServerThreadsShutdown`,
where the server really may come to a halt (finding 1). In `Exploration` only a
run that is through, was ended or is `Hung` may stop.

### Fairness

* `Forwarder`: weak fairness of every client, of each thread and of AGIOS.
  They are processes and threads which the operating system schedules, and AGIOS
  is a scheduler that keeps running; MPI delivers every message. The mutexes
  need no more, because no action holds one across steps.
* `ServerThreads`: weak fairness of every thread, with mutexes held across
  steps. The threads that compete for a mutex go to sleep or on with it, and the
  liveness properties hold without strong fairness. POSIX allows spurious
  wake-ups, but promises none: `FairSpec` adds `<>[][Prompted]_vars`, that from
  some moment on nobody wakes up unprompted, so that no liveness rests on them.
* `Exploration`: weak fairness of all its processes and threads together
  (`WF_vars(Move)`): the run goes on as long as any of them can. Nothing can be
  undone and no program has a loop without a bound, so that this is enough, and
  it is less than what an operating system gives each process. It does not
  promise that a join returns: a thread that missed the broadcast sleeps for
  good, whatever the others do, and `Join` is not enabled for its forwarder.
* `ThreadPool`: weak fairness of the threads and of calls the owner has begun.
  Nobody has to add a job or to wait for all.

## 4. What is proved

For every number of clients, threads, requests, jobs, processes, and every
configuration file with natural numbers, TLAPS checks:

* `AccessPatternProofs`: requests of a phase never overlap on a shared file and
  stay inside it; each client has a forwarder, and each forwarder as many clients
  as it counts shutdown messages. The argument is that an offset is a block
  number times the request size, and the block number a number of two digits,
  client and request, whose order the spatiality chooses: different pairs of
  digits make different numbers, of a known range.
* `ConfigurationProofs`: `TypeOK`, and that `ServersAreBalanced`,
  `RequestsAreDisjoint` and `RequestsStayInside` hold whatever natural numbers the
  file has (negative ones are not modelled, see section 6).
  The inductive invariant adds `Sound`: the outcome of a check still holds in
  the states after it, and the plan is the one that was computed. The rest is
  `AccessPatternProofs`. `ParsedAsWritten` is proved for `PlainDocuments`: files
  in which the name of a parameter stands only as a key of the root object or as
  the value of a parameter. Missing, duplicate and unknown keys are allowed; what
  is excluded is what finding 4 is about, and all files of `ConfigurationSetup`
  are plain. The invariant is that the loop never looks at the value of a
  parameter, and that each parameter has the value of the last such key behind
  the loop (`Parsed`).
* `ForwarderProofs` and `ForwarderSafety`: all safety properties of `Forwarder`
  that the runs check, its refinement of `FileService`, that it is never stuck
  and that it cannot go on for ever; see below.
* `ExplorationProofs`: `TypeOK`, `ServersOutliveClients`,
  `NoTeardownWhileServing`, `TimedAlone`, `ReadsFollowWrites` and
  `NoneRunsAlone`, for any number of ranks, forwarders and requests. Two tables
  (`ClientEntries`, `ServerEntries`) say which collective operations are at
  which places of the programs. A barrier counts how often each rank has arrived
  at barriers of its communicator, and the tables turn that count into a place:
  a rank that is past a barrier finds every other member at it or past it.
  `PlacesInv` has what follows for the places alone (the setup was checked, all ranks are
  up before requests, clients are in one phase, and forwarders leave together),
  `RunInv` what follows for a client and its forwarder: a call under way, a file
  open, and who has been counted as finished. That a forwarder which has counted
  its clients has counted all of them is `ServersShareClients` of
  `AccessPatternProofs`. From the same invariant: before every rank has finalized,
  some rank can take a step, unless the run is `Hung` (`RunIsStuckOnlyInJoin`):
  the wait of a forwarder for a thread that missed the broadcast is all that a run
  can hang on. Every step of a rank takes
  it to a later place of its program, or to the same place with fewer requests
  left (`EveryStepCounts`), in an order without infinite descent
  (`EveryRankHasAnEnd`). The three together are the safety half of
  `EveryRankFinalizes`, with its exceptions.
* `FileServiceProofs`: in the service that `Forwarder` implements, a
  client reads only what clients of its own file wrote (`ReadsFindOwnBytes`),
  and the users of a file are counted as many as have it open
  (`UsersAreCounted`), for any finite set of clients and any sharing of files.
  The strengthening is `OpensOnce`: only a client that has its file open has a
  read, write or close under way, and an open or close that is done has changed
  the set of the users exactly then.
* `ForwarderProofs`, first part, for `FwdList`: setting up, appending, deleting
  and the test for empty do to the sequence behind a head what `<<>>`, `Append`,
  `Without` and `= <<>>` say, and leave every list that shares no node with it as it is. A list is a ring
  in which `next` and `prev` are each other's inverse (`IsList`); an operation
  changes four or six pointers, and the proof says which link of the new ring is
  which. An entry that is deleted points to itself, which is why the loops over
  a list read its successor before (`fwd_list_for_each_entry_safe`).
* `ServerThreadsProofs`: `NoSleepOverWork` and `TypeOK`. A handler that
  is about to sleep has seen an empty queue under a mutex it still holds
  (`Locks`), so that a request can only arrive after it sleeps or when another is awake.
  That the counters stay in their range is a conservation law (`Counts`): what
  the clients have sent is in some queue or in some thread's hands. And
  `OnlyTheShutdownIsMissed`: a forwarder gets stuck in one way only, with all
  requests answered and one thread asleep that missed the shutdown, and a handler
  does so only where it is the only one; this is the extent of finding 1.
* `ThreadPoolProofs`: `TypeOK`, `NoLostWakeup`, `WaitMeansDone`,
  `JobsAreDistinct`, and that `ThreadPool` implements `JobPool`. Counters are the
  cardinalities of the sets of threads they count (`CountsAgree`); with them
  `Busy` false means that no job is in the queue or in a thread, and `alive = 0`
  that no job runs when the pool is freed. `SleepersWait` says that only a
  thread in `bsem_wait` sleeps on the semaphore. `CallsGoOn`: where
  neither the owner in a call nor any thread can go on, no call is under way and no
  job is queued. Its invariant (`Course`) ties the threads' places to the
  owner's: the owner sleeps in `thpool_wait` only over a job that is queued or
  runs, and threads leave their loop only when it polls for that.

### The forwarder

`TypeOK` of `Forwarder` is inductive as it stands, for both file systems and both
kinds of buffer: it says that a client in the loop has requests left, that
batches and jobs are not empty, and that the position of a job stays within its
requests. The other properties need each other, and are proved from one
invariant, `IInv` of `ForwarderInvariant`. It says that two functions exist which
the state determines but no variable holds: `stage` gives how far the server is
with each identifier, `own` the identifier of the request that it has of each
client. Each action then moves one identifier, or the members of a batch, from
one stage to the next, and most of the proof is that no other part of the
invariant depends on a stage that was left. The parts:

| Part | Says |
|---|---|
| `StageInv` | each queue, thread and job holds exactly the identifiers of its stages, each once; the hash has those in `Hashed` |
| `OwnInv` | an identifier that is not free is its client's own, and its request is what that client asked for |
| `ClientInv` | where a client is, which messages it has under way, and at which stages its request may be |
| `BarrierInv` | no client is ahead of another by more than a barrier |
| `AgeInv` | an identifier in use was given out no longer ago than other clients can have taken identifiers since |
| `FileInv` | the reference count of a file counts those who have it open; handles and descriptors that clients know are those of their files, and for PVFS also young |
| `DataInv` | buffers and messages have bytes of their own client or none; a write that is done is on disk |
| `ShutdownInv` | the listener has counted the clients whose message it has taken |

`AgeInv` is why identifiers do not collide although they wrap around. Clients
pass barriers together, so that while a request waits each other client can take
at most `MostTaken` identifiers: as many as a phase has requests, and one for an
open or a close. Hence the hypothesis `IdsSuffice`: `(NClients - 1) *
MostTaken < NIds`. The program has 8,000,001 identifiers
(`generate_identifier`, `src/utils.c` 8-18), so that the clients of one forwarder
have to issue eight million requests in a phase to violate it. The hypothesis is
sharp: `ForwarderPhases` has two clients, two requests and three identifiers, and with two
identifiers instead TLC finds `IdsAreNotReused` violated.

A second hypothesis is needed where a failed validation must be excluded:
`ReadsOwnWrites`, a run that validates what it reads writes it first, and its
transfers are complete. Without it `src/main.c` (996) may stop the run, as it is
meant to. `NeverAborts`, `OneAnswerPerRequest` and the refinement have it; the
other properties do not.

The refinement maps each step by its effect: the steps between threads change
nothing that `FileService` sees, and are stutters; the handler's change of the
table of open files and each transfer are the effect of one operation, whose
client `own` and `stage` name; a client's steps are the calls and returns. That
two requests never are one operation twice, and that none is effected after its
return, is what `StageInv` and `ClientInv` say.

`ServerIsNeverStuck` is the absence of deadlock, for any number of clients,
handlers and pool threads: as long as nobody has called `MPI_Abort`, some thread
or client can take a step, unless the server has been told to stop and all
clients are done. The argument follows a request from the end
of its way. A handler that has the answer, or a message, in its hands can go on, so
that handlers are idle or wait in the list of ready requests; the dispatcher takes what is
ready; a pool thread waits for nothing but the data of a client, and that
client is about to send it. If nothing of this can move, every identifier is
free (`RestingIsEmpty`); then no client waits for an answer, so that each
stands at a barrier, and the barrier of the rearmost is complete
(`BarriersOpen`). It needs `IdsSuffice`, and at least one handler and one thread
of the pool: the two numbers that `src/main.c` (357) reads and does not check.
For PVFS and POSIX alike a descriptor is free when one is needed, by
`FdAssumption`.

`StepsRunOut` is the other half of progress: a number of steps to go
(`StepsToGo`) falls with every step but an abort. A client's place in its program
only moves on: it is the barriers that the client has entered and the steps that it
has taken since (`Place`). A request has as many steps left as its stage says
(`StepsLeft`), from 20 for a message that nobody has taken to none for an answer;
what the dispatcher does with a batch, and the sorting for PVFS, are steps which
leave the stage as it is and count within it. `Course` puts the two together, so that
each step moves one client on, or the requests of a batch, and sets no other
client back (`Further`). The stage of a request is the one that `StageInv` gives,
which the state determines (`OneStage`). The number is never above `MostSteps`,
`NClients * 147 * (3 * NRequests + 3)`: a bound on the length of every run. The
queues and threads pass nothing in a circle, and no loop of theirs needs a bound.

The two theorems together are `EveryRunCompletes` up to fairness: a run in which
nothing aborts has a last step, after which nothing changes; some thread or
client could still go on unless the run is complete; and weak fairness of that
one lets it.

In the theorems about progress the guards are written out
(`ClientMayGoOn` and its like): they are the conjuncts of the actions that have
no primed variable. `ENABLED` itself is out of the prover's reach; on instances
of `Forwarder`, TLC found the written guards and `ENABLED` equal in
every state.

TLC checked `IInv` before it was proved, with `stage` and `own` computed from the
state: on the instances of the four passing runs of `Forwarder` and on three more
(individual files with both phases on PVFS with `direct_io` and short transfers;
a phase of reads with a time limit; validation with short transfers), of about
70,000 states each.

### Assumptions

The assumptions are those the modules declare. `SizesAssumption`,
`LayoutAssumption`, `IdAssumption` and `FdAssumption` (in `ForgeState`) give
constants their types, leave at least two identifiers, and say that the time
limit goes with one phase, which `src/main.c` checks (338).
`ThreadsAssumption` and `PoolAssumption` say that sets of threads are finite and
not empty. `DocumentsAssumption` says that numbers are natural and that no key
is the last token, as in every JSON object; `SetupsAssumption` that a run has a
process, a forwarder and a phase (and, with no constant for it, that each
forwarder has a handler and a thread in its pool); `WorldsAssumption` that there is a
process. `FdAssumption` also says that there are at least as many descriptors
or handles as files. TLC evaluates all of them on the instances it checks.

Four hypotheses of theorems are not among them, for they are no matter of
course: `IdsSuffice`, `ReadsOwnWrites` and `PlainDocuments`, and for
`ServerIsNeverStuck` that there is a handler and a thread in the pool.
All are explained above.

Only model-checked: all liveness (`EveryRunCompletes`, `EveryRankFinalizes`,
`EveryRequestAnswered`, `HandlersStop`, `EachJobRuns`, `CallsReturn`), for the
proof system has neither fairness nor `ENABLED`. What is proved of it is its
safety half: that something can always go on (`RunIsStuckOnlyInJoin`,
`ServerIsNeverStuck`, `CallsGoOn`, `OnlyTheShutdownIsMissed`), and, for
`Exploration` and `Forwarder`, that it cannot go on for ever (`EveryStepCounts`,
`StepsRunOut`).
Every invariant, and every action property and refinement without liveness,
that a passing run checks is proved.

## 5. Findings

1. The server may never stop. The listener sets the flag and broadcasts without
   the mutexes of the queues (`src/server/listener.c` 78-81), while the handlers
   and the dispatcher test the flag and go to sleep under them. A broadcast
   between the test and the sleep is lost, and the main thread waits forever
   (`ServerThreadsShutdown`). Several handlers help each other, for each
   broadcasts again before it ends (`HandlersStop`); a single handler and the
   dispatcher have nobody. The other forwarders then wait at their barrier
   (`src/main.c` 589) and the clients at the last one, so that no rank reaches
   `MPI_Finalize`: `Hung` in `Exploration`.
2. `thpool_destroy` frees the pool while its last thread has still to unlock a
   mutex of it (`src/thpool.c` 241, 379-381; `ThreadPoolFreed`).
3. The example of `README.md` (78-90) asks for no operation and is refused
   (`src/main.c` 332; `ConfigurationReadme`).
4. An unknown key is not ignored with its value: the loop goes on with the
   tokens inside it (`src/main.c` 317-319; `ConfigurationNested`).

Without a run of its own, for nothing in the repository speaks of it: a file
without `path`, `number_of_files` or `spatiality` leaves the name the empty
literal of its declaration (`src/main.c` 173-175), and `free` is called with
it (1153-1155). `Exploration` has it as `Killed` in `Finalize`.

## 6. What is not modelled

* The inside of several forwarders at once. Forwarders share no state, and a
  client talks to one; what joins them is the barriers, and `Exploration` has
  those, with each forwarder as the service that `Forwarder` is shown to be.
* A failing `open`, an operation that is none of the four, MPI errors and
  allocation failures: each of them calls `MPI_Abort` or is not looked at.
* Negative numbers in a configuration file, which no check of the code refuses.
* How requests and credentials of PVFS are built, and `generic_open`.
* `thpool_pause` and `thpool_resume`, which nothing calls; `src/pqueue.c`, which
  is compiled but which nothing calls either.
* `include/uthash.h` and `src/jsmn.c`, which are copies of other projects' code:
  a hash is a set or a function, and a document the sequence of its tokens.
* `src/log.c`, statistics and result files: output, on which nothing depends.
* `generate.py`, which writes the files of an experiment and is run by hand.
* The scripts in `docs/_build/html` (jQuery, underscore, Sphinx and its theme):
  generated or third-party code of the HTML manual. They are no part of FORGE,
  which is a C program, and nothing is said of them here.

## 7. Plan

The system is modelled as far as the list above, and every safety property is proved.
What may be added: `ServerThreads` and `Forwarder` share no theorem yet, that a
request of `ServerThreads` is an identifier of `Forwarder` with the details left
out.
