# Verification of unix_IPC_note

This directory holds TLA+ models of the concurrent programs of the repository
(notes and test programs on Unix inter-process communication and threads), the
TLC runs that check them on small instances, and TLAPS proofs that hold for
every instance. `PROJECT.json` names, for every definition, the source lines it
models; this file explains the whole.

## 1. Inventory

`main.cpp` is a menu: it reads a number, calls one test function and exits. Each
test is a program of its own, with its processes or threads; tests share only
names in the system (a queue, a segment, a FIFO, a file) when the user starts two
of them side by side. So what is hard is *inside* each component below, in the
processes or threads the user starts together.

| Component (source) | State | Operations and interaction | What is hard | What makes it correct |
|---|---|---|---|---|
| Circular buffer, n producers and n consumers (`Posix_semaphore/semaphore_test.cpp` 352-461) | slots, two totals, `mutex`, `empty_num`, `stored_num` | `produce`, `consume`; main creates and joins | interleavings; leaving threads post tokens for nothing | FIFO, no overwriting, exact tokens, all threads end |
| Other semaphore programs (same file, 117-348 and 470-553) | slots, semaphores; named ones outlive the process | one or many producers, one consumer; file double buffering | stale named semaphores after a crash; end marker | items in order, semaphores end as they began |
| Thread pool (`thread_C++/thread_pool`) | task list, mutex, condition variable, exit flag, one task object | `funcThread_Control`, `addTask_Control`, `stopAllThread_Control` | signals with and without the lock, spurious wake-ups, aliasing | every task is run, the stop ends every thread |
| Logger (`thread_C++/logger`) | queue, `mExit`, condition variable, file | `log`, `processEntries`, destructor | wait without predicate, destructor before the first wait | nothing lost or reordered, destructor returns |
| Notification of a POSIX queue (`Posix_message_queue/mqueue_test.cpp` 400-785) | queue, one-shot registration, signal mask and pending signal, flag, pipe | four consumers, one sender | registration against arrival, signals | no message stranded, no notification lost or doubled |
| POSIX queue service and client (same file, 325-398) | one queue for both directions, an old queue | request and answer | a process receives its own message; a queue of an earlier run | a stale message only from an old queue |
| Shared-memory messages (`Posix_shared_memory/mman_test.cpp` 470-571) | ring in shared memory, four semaphores, overflow counter | service, clients | clients that drop; several clients | each message printed once or counted |
| Shared counters (same file, 169-335, 411-468) | a counter, a semaphore, both with names | parent and child, service and clients | start-up race on an old semaphore, killed processes | no lost increment |
| System V queues (`System_V_message_queue/msg_test.cpp`) | queues, message types | service and client, echo through private types, fork per request, `sig_chld` | same type both ways, removal while others wait, merged SIGCHLD | each request answered once to its sender |
| FIFOs and pipes (`pipe_FIFO`) | FIFO of the service, one per client | open, request, answer | open order, coalesced requests, SIGPIPE, ends of file | each client answered, no mutual wait |
| Signals (`process_signal`) | mask, pending set, handlers | scripts of parent and child | signals that coalesce, interrupted reads | realtime ones counted and ordered, standard ones at least once |
| Record and file locks (`process_file_lock`) | record and file locks, the PID file | parents and children | inheritance, release on close, killed holders | readers or one writer, one instance |
| Threads, locks, atomics, futures (`thread_C++/*`, `thread_POSIX/pthread.cpp`) | a few words each | many short programs | condition variables, `call_once`, double-checked locking, cancellation | balances, initialised once, everyone ends |
| Processes (`process`) | children, commands, sockets | fork, exec, `system`, `popen` | every way a command can end | lists stop or go on as written, connections closed |
| Wrappers and I/O (`common_lib`, `unix_I_O_FILE`) | streams, descriptors, files | readers and writers of lines, records, datagrams | short reads, ends, resets, dead stack frames | what is read is what was sent |

The hazards of the code, each at its line and with the properties that watch it
(or why none does), are listed under `hazards` in `PROJECT.json`.

## 2. Plan

The order was: the circular buffer with its abstract FIFO, the thread pool, the
logger, the notification programs, the shared-memory messages, each in a module
and with a run of its own; then the programs that talk through queues and FIFOs
(`Channels`), those that share memory, semaphores and files (`Storage`), and
those about threads, signals and processes (`Programs`). Since a choice of the
menu starts one kind of program and nothing else, each of these three composes
its parts as alternatives, and one run checks them all.

Proofs followed the runs: the circular buffer and its refinement, the pool, the
logger, the notification programs, and the shared-memory messages. What a
continuation could add is in section 6.

## 3. Modules

### Components with a run of their own

**`BoundedFifo`** is the abstract specification: a queue of at most `Capacity`
items, `Put` and `Get`, items numbered in the order they are put in.

**`SemBuffer`** models `shared_unnamed_02` and `test_semaphore_unnamed_02`. One
action per semaphore call (`WaitEmpty`, `WaitMutex`, `PostMutex`, `PostStored`,
...) and one for each critical section (`Produce`, `Consume`, `EndProduceStored`,
`EndConsumeStored`): inside it a thread touches only what the mutex protects.
`EndProduceStored` and `EndProduceEmpty` are the two posts of a leaving producer,
made with the mutex held. `pc` is each thread's place, `output` is a history of
what the consumers log. The slots are 0 at first, not -1, as `bzero` leaves
them; the loop counters of the threads are kept, since the test reports them.
`MCSemBuffer` is the instance TLC checks.

**`ThreadPool`** models `thread_pool.cpp` and its `main.cpp`. Steps are finer
than critical sections where the code touches shared data without the lock: the
exit flag (`TestPredicate`, `TestExit` against `Stop`, `Broadcast`), the size of
the list (`Poll`), the data of main's one task object (`SetData` against `Run`).
`pthread_cond_wait` gives up the mutex and becomes a waiter in one step
(`CondWait`), may return without a signal (`SpuriousWakeup`), and takes the
mutex again before the loop tests its predicate (`Lock` from `relock`).

**`Logger`** models `Logger.cpp` and its `main.cpp`. All of it runs under one
mutex, so that a step is one critical section and the mutex is no state.
`Begin` is the first lock, with the test of `mExit` and the wait *without*
a predicate; `WriteEntry` and `Drained` are the draining loop; the file may fail
to open (`OpenFile`).

**`MqNotify`** models the four consumers, chosen by `program`, and the sender.
`Register` is the first `Mq_notify`, `Renotify` the one after each notification,
`Receive` / `ReceiveNone` the draining loop; `TestFlag`, `Suspend`, `Block`,
`Unblock`, `Sigwait`, `Select`, `ReadPipe` are the calls between. `Notification`
(external: the kernel) uses up the registration and raises the signal or starts
a thread. An error of `Mq_notify` ends the consumer (`dead`), as `err_sys` does,
and a send to the full queue ends the sender (435), so that what was sent is in
the queue or `received`, but for one message.

**`ShmMessages`** models the service's loop and the clients of
`test_mman_3_producer_client`, one action per semaphore call or access. Only
`Sem_trywait` never blocks (`TryEmpty`). The overflow counter is incremented in
the argument of a log macro, which this build does evaluate (`error_print.h`).

### Programs that talk through channels (`Channels`)

**`MqPair`**: `test_mq_service` and `test_mq_client`. The name of the queue and
the queues themselves are separate state, as `mq_unlink` and a queue of an
earlier run, empty or with a message, make them differ (`named`, `mqd`).

**`MsgService`**: the three System V services with their clients. A message
carries its type and the pid of the process to answer. `ServiceReceive`,
`ChildReceive` and `ClientReceive` take the first message of a type they accept,
as `msgrcv` does. The forking service makes a child for a client's first message
and ignores the others. `SigChld` interrupts its `msgrcv`, which returns an empty
message that it ignores too; the handler reaps up to its `break` at
`process_signal.cpp:591` (`Reaped`), and a SIGCHLD that comes while one is pending
is merged. Who finds its queue removed or missing ends in `err_sys` (`"failed"`).

**`FifoService`**: the iterative service with one FIFO per client. One `Read`
returns everything the FIFO holds, so that two requests may come as one; an open
for writing waits for a reader; a write without one is SIGPIPE.

**`FifoPair`**: the four pairs of processes on two pipes or FIFOs. Opens block
until both ends are there; one read returns one message, since the two take
turns, and 0 once the last writer has closed; a write without a reader is SIGPIPE;
either process may be killed at any step.

### Programs that share memory, semaphores or files (`Storage`)

**`SharedCounter`**: the counters of parent and child, and of the service with
its clients. Names and objects are separate: the service makes a new segment
before it unlinks the old semaphore, and whoever opened the old one keeps it. Until
`ServiceMaps` the new segment is empty, and a client that reads it is killed.

**`SemPrograms`**: the semaphore programs but the n-to-n buffer. `Crash` kills the
process, which is then run again; `MainOpens` opens the named semaphores that are
`left`, with the values they have (`dirty` says that they came from a killed run).

**`FileLocks`**: each program of `file_lock.cpp` as a script of lock calls of its
processes. A record lock belongs to a process, is not inherited and goes with
it; an `flock` belongs to an open description that `dup` and `fork` share.

**`Files`**: the file programs as scripts of system calls on names, inodes,
descriptors and record locks.

**`Streams`**: one helper that reads or writes against a peer that writes, closes,
resets or breaks at its own pace; the values returned are the code's, the -1234 of a
non-blocking descriptor among them, and `Read` strips a last line end unless it is
alone, so that 0 always means the end. **`Datagrams`**: helpers
that pass descriptors, flags and stream numbers in messages, with the arrays
that `struct_msghdr_cmsghdr` leaves in a dead frame (intact or overwritten).

### Programs about threads, signals and processes (`Programs`)

**`ThreadScripts`** holds one script per thread function of `thread_C++/` and
`pthread.cpp`, each step an atomic call or a memory access; **`Threads`** is the
machine that runs them: locks (some taken with a timeout), a condition variable,
`call_once` and double-checked locking, futures, joins, cancellation and cleanup
handlers, signals of `pthread_kill`. The undefined join of a detached thread
returns, or ends the process in a state of its own (`"undefined"`).

**`Signals`** runs the scripts of the signal programs: a standard signal pends
once, realtime ones queue and are delivered in the order of their numbers;
handlers run between steps and interrupt reads; a `Fork` that fails ends its
caller. **`Processes`** runs the lists of commands with every status a command can
end with, and the forking server. A status is an exit code, a signal number, or one
with a core dump; `pclose` may also fail itself (`NoStatus`). `Word` is the number
`pclose` returns for each and `ExitCode` the eight bits that `exit(ret)` leaves of
it (559): an exit code becomes 0, a core dump adds 128, and -1 becomes 255.

### Proofs

`SemBuffer_proofs`, `ThreadPool_proofs`, `Logger_proofs`, `MqNotify_proofs`,
`ShmMessages_proofs`, `Channels_proofs`, `Storage_proofs`, `Programs_proofs`: section 5.

Definitions whose comment begins "Wrong on purpose" are variants of the action or
script after them, with a plausible mistake; no specification uses them. Each
property has one that breaks it. Several `main` functions are under `#if 0`;
their functions are modelled as programs that somebody may call.

## 4. Runs

| Run | Instance | What it shows |
|---|---|---|
| `sem_buffer` | 2 producers, 2 consumers, 2 slots, 5 items | types; the slots hold the window of unconsumed items; tokens are exact; every pass takes; refinement of `BoundedFifo`; all threads end |
| `thread_pool` | 3 workers, 3 tasks | no take from an empty list, everything added is run, data never older than the addition |
| `thread_pool_stop` | 2 workers, 1 task | **violation**: `stopAllThread_Control` may leave a thread asleep for ever |
| `logger` | 3 threads, 2 entries each | nothing lost or reordered, no sleep on entries after the first wait, the destructor returns |
| `mq_notify` | 4 programs, queue of 2, 6 sends | what was sent is queued, received or refused to a sender that then exits; one notification in the world, nothing stranded, only the sigwait program can be killed, messages received |
| `mq_notify_early` | 3 programs, 2 sends | **violation**: a message before the first registration is never received |
| `shm_messages` | 1 client, 2 slots, 7 messages | printed once and in order, or counted; both sides get through |
| `shm_messages_many` | 2 clients, 2 slots, 1 message each | **violation**: with two clients, `overflow` misses a loss |
| `channels` | 2 clients, 2 lines each | one message in flight per client and about its own line; zombies only from merged signals; requests on the FIFO accounted for; a pair's missing answer only from a killed service; nobody waits for ever |
| `msg_fork_answer` | 1 client, 1 line | **violation**: a child of the forking service may answer itself |
| `storage` | 2 counting clients, 3 producers on 2 slots, 2 crashes, 2 users of files, a stream of 4 bytes, 2 messages | increments lost only to an old semaphore; items in order unless a killed run left its semaphores; appended records survive; one PID in the PID file; nothing misread |
| `programs` | 3 threads of 2 turns, 2 signals of each kind, exit codes 0, 1, 127, signals 9 and 6 (which may dump core) | balances; single initialisation; results arrive; signals handled as sent; failures stop what they should; everyone ends |

Bounds. Two threads of a kind (three in the pool and among the producers) give
every interleaving of a thread with one of its kind and one of the other; one
more adds a symmetric copy. Two slots or messages make the states empty, partly
full and full; the items outnumber the slots, so that slots are used again. Six
sends let a second notification come while the first is served and the queue
fill up. Two clients and two lines give two requests in one read, two children
that end together, and a second line that finds what the first left. Two crashes
give a run that starts from what a restarted run left. Four bytes through a
buffer of three give a line that does not fit. `Every = 2` and `Limit = 4` put
the condition waiter to sleep twice (10 and 100 in the code). `SendsNum`,
`Lines`, `MaxKilled`, `MaxCrashes`, `MaxFiles`, `MaxBytes`, `MaxMail`, `MaxSent`
and `MaxLines` are bounds of the environment, which the code does not bound; `Turns`,
`Queued` and `Numbers` stand for larger constants of the code.

Deadlock. `CHECK_DEADLOCK FALSE` is said where programs end, or wait for ever for
what their user or sender no longer sends; that nobody is stuck who should go on
is then a property: `AllServed`, `EveryoneGoesOn`, `LocksGoOn`, the last clause of
`IntactUnlessLeftDirty`, `EveryoneEnds`. The others end in an explicit
`Terminated` step, so any other halt is an error.

Fairness. Threads and processes are scheduled preemptively and each runs a
finite piece of code between waits, so a step that stays possible is taken: weak
fairness for each thread or process, and for the delivery of signals. Strong
fairness is assumed where one waits for what others take and release again and
again: `AddTask`, `ServeWaitMutex`, `ServeWaitOverflow`, `Acquire` of a lock in
`Threads` (threads sleep between two turns, and a lock is not kept for ever from one
that asks again and again), and `ClientReceive` in `MsgService` (a client blocked
in `msgrcv` is handed the message as it is sent, so it cannot be passed over for
ever; in the finding below the client is not yet in `msgrcv` when its child takes
the answer back). No user is obliged to type, send, start or interrupt; nobody is
forced to be killed, and spurious wake-ups are never forced. `Storage` states no fairness, as its properties are all safety.

### Findings

* `thread_pool.cpp:121`: the flag is set and the broadcast sent without the
  mutex. A worker that has tested the predicate and not yet called
  `pthread_cond_wait` misses it; the join at 126 never returns.
* `mqueue_test.cpp:494`, 642, 778: nothing drains the queue after the first
  registration; a message that arrived before it blocks all notification.
* `mman_test.cpp:551`: the slot index is local to each client, so two clients
  overwrite each other's messages without counting an overflow.
* `msg_test.cpp:475`: the child of the forking service answers on the queue it
  receives any type from. If its client is not yet in `msgrcv`, the child may
  take its own answer back, answers itself from then on, and the client waits.

Smaller observations, which the models contain and no run singles out: the
comments at `file_lock.h:128-131` and `file_lock.cpp:164-168` give a rule on lock
upgrades that `fcntl` does not follow; `file_lock.cpp:258` takes a read lock
where its message says write lock.

## 5. Proofs

Each module is proved under the assumption it declares about its constants, so
for any number of threads, slots, entries, sends or messages. Each invariant is
proved by an inductive strengthening `IInv` that TLC checked first, with one
lemma or step for each action.

| Theorem | Says |
|---|---|
| `TypeCorrect` | circular buffer: `mutex` stays binary, the totals stay within `items_num` |
| `MutexExcludes` | at most one thread is inside the critical section |
| `WindowIsHeld` | `[]BufferHoldsWindow`: no unconsumed item is overwritten |
| `TokensAreExact` | `[]TokensMatchSlots` |
| `PassesTake` | `[]EveryPassTakes` |
| `FifoRefinement` | `Spec => ImplementsFifo`: the code implements `BoundedFifo` |
| `PoolTypeCorrect`, `PoolTakesTasks`, `PoolRunsAll`, `PoolDataNeverOlder` | the safety properties of `ThreadPool` |
| `LoggerTypeCorrect`, `LoggerLosesNothing`, `LoggerSleepsOnEmptyQueue` | the safety properties of `Logger` |
| `MqTypeCorrect`, `NotifiedOnce`, `NothingStranded` | the safety properties of `MqNotify`; the first accounts for every message sent |
| `ShmTypeCorrect` | `ShmMessages`, any number of clients: the semaphores stay in range |
| `PrintedOnceInOrder`, `OverflowIsExact` | `ShmMessages` with one client (with two, `shm_messages_many` refutes the second) |
| `ChannelsInvariant` | the inductive invariants of the four kinds of channels, any number of clients and lines |
| `ChannelsTypes`, `OneMessageOnItsWay`, `ZombiesMerged`, `RequestsAccounted`, `AnswersMatch` | the safety properties of `Channels` |
| `LocksInvariant`, `PidFileHolder` | `FileLocks`, any number of runs: the PID file names the holder of its lock, waiters for locks never all wait for each other |
| `ProgramsInvariant`, `SignalsKept`, `ListStops` | `Signals` and `Processes`, any number of signals, inputs, exit codes and signal numbers: `SignalsHandled`, `FailuresStopTheList` |
| `CounterInvariant`, `CounterKeepsIncrements` | `SharedCounter`, any number of clients and turns: increments are lost only to an old semaphore, a permit is held once |
| `SemaphoresInvariant`, `ItemsIntact` | `SemPrograms`, any number of producers, slots, items and crashes: `IntactUnlessLeftDirty` |
| `FilesInvariant`, `RecordsStay` | `Files`, any number of users and files: `WritesSurvive` |

**Circular buffer.** None of these is inductive alone. `TypeOK` needs mutual
exclusion: a post is in range only because the poster holds the mutex. That
`Produce` overwrites nothing needs the token balance: the producer holds a token
of `empty_num`, so fewer than `BuffLen` items are stored, and two numbers less
than `BuffLen` apart never share a slot (`DistinctSlots`). The balance needs that
each consumer's pass takes an item (`PassTakes`), or a slot would be given away
twice; and that holds since the only spare tokens of `stored_num` are those of
producers that left, which they do only when all items are produced
(`LeaversSawAll`). `IInv` conjoins the five, with one lemma per conjunct and one
step per action. The counting behind the balance (`CountMove`: the move of one
thread changes a count by the places it leaves and enters) is proved once.

For the refinement, `BufferHoldsWindow` makes the mapped queue a run of
consecutive numbers (`QueueIsRun`); `RunAppend` and `RunTail` then turn `Produce`
into `Put` and `Consume` into `Get`, and every other step changes none of the
variables the mapping reads.

**Thread pool.** `NoEmptyTake` rests on mutual exclusion (`MutualExclusion`) and
on what each place knows of the list (`ListWhenNeeded`): a worker reads list,
flag and list again, and only the flag can change in between. `PoolRanEverything`
rests on `Balance`, added = run + taken + queued, and on `StoppedWhenEmpty`: main
stops the pool only when it has added all and saw the list empty. `DataNeverOlder`
follows from `Balance` and `DataCurrent`, as the task object holds the data of the
last addition or already of the next.

**Logger.** `NothingLost` is the invariant `logFile \o mQueue = logged`, carried
through each critical section, with what `mExit` means for main's places. Sleeping
on entries is possible only before the first entry is written.

**Notification.** `OneNotification` counts tokens: the registration, a pending
signal, the flag, the bytes in the pipe and the threads that are about to
register. That each step moves exactly one token rests on `PlacesMean`: a flag
that is reset was set, a byte that is read was written, and sigwait's program has
the signal blocked for good once it is past its first two places, and its pipe,
which it does not use, empty. The self-pipe holds at most one byte by the same count.
What was sent is in the queue, received or the one message that the full queue
refused; that holds since the sender exits with it (`Accounted`).

**Shared-memory messages.** For the ranges, each semaphore's value and the
processes that hold what it counts add up to its initial value (`MutexBalance`,
`OverflowBalance`, `SlotBalance`). With one client, the written and unprinted
slots are the `Length` ones of the ring from `First` on, their numbers grow and
exceed all printed ones, and every other slot holds a blank or a printed message;
so a `Write` loses nothing, and the messages that are kept and those counted in
`overflow` are together those the client has dealt with (`Losses`).

**System V messages** (`MsgInv`). `OneMessageInFlight` is a count and not
inductive: who receives a letter must know that it is the only one of its client.
So `Once` says that no two letters are of one client, in one queue or in two, and
that being in a queue, in the service's hands and in a worker's hands exclude one
another; `OnItsWay`, that a client that waits has a letter somewhere and one that
types has none; `LastLine`, that a letter is about the last line its client typed;
`Letters`, that its type leads to that client. From these the count follows by an
injection from letters to clients. `Reaping` bounds the zombies and the merged
signals by the workers that ended, so that the numbers stay within the clients.

**FIFO service** (`FifoInv`). A client has asked once, and its FIFO holds nothing
until the service has the request in hand (`AsksOnce`); what it then holds is as
far as the service has come (`HandAnswer`); afterwards it is the whole answer
unless the request shared a read with another (`Accounted`).

**Pairs** (`PairInv`, `MqInv`). The two channels together hold at most one letter.
On FIFOs the labels of the two sides say which ends are open and whose turn it is;
on pipes the parent writes first, and the child's place decides where the line is.
On the POSIX queue only the queue that an earlier run left can hold its message,
and the service unlinks that name before it opens its own.

**Locks** (`LockInv`). What a process has still to do is a suffix of its script,
so "has written its PID" is a number of steps done (`Gone`). An instance past its
first step holds the write lock (`OneInstanceHolds`), and since locks of different
owners are read locks (`Compatible`) it is the only one; therefore nobody else
truncates or writes the file between its write and its end. The child shares
the parent's offset, so it writes behind a hole (`OffsetCounts`). No cycle of waiters arises, since who holds a record lock has no
blocking call left in its script (`Holders`), and the two descriptions of
`flock_01` ask for read locks only.

**Counters** (`CounterInv`). A semaphore is 0 or 1, and when it is 0 exactly one
process holds its permit, or an earlier run left it so (`Permits`). A counter is
`Clean` when all who count in it opened the same semaphore and none before the
service reset it; then the count is the number of additions, and who is about to
write has read the present value (`CleanCounts`). The rest says when a semaphore
can already be known to a process: not before its creator made it.

**Semaphore programs** (`SemInv`). The permits of `mutex`, `empty` and `stored` are
in their values or with a thread (`MutexBalance`, `EmptyBalance`, `StoredBalance`),
where the mark that ends "double" counts as an item and as a slot in use; so who
puts has room (`RoomToPut`) and who takes sees the next item or the mark
(`TakerSees`), and the items not yet taken stay in their slots (`Window`). A step
need only be shown to keep what its thread holds (`PermitsKept`, `TakerKeeps`): the
balances follow for any number of producers. If no thread could go on, `mutex` would
be free and the two other balances would contradict each other, so all have ended
(`ThreadsGoOn`). All this holds while `dirty` is empty, since the semaphores are
fresh whenever the main thread opens or unlinks them and no run was killed between
(`SemMain`): `"stored"` is the last name to be unlinked.

**Files** (`FileInv`). What is left of a script keeps the rules of the script
(`CallFits`, `PairFits`), so who calls something on a descriptor next has it open,
with `O_APPEND` in the program that appends (`Opened`); each inode has as many
links as names (`LinkCounts`), so an inode that is free for a new file has no name.
Where no tool empties or removes files, the name stays, files only grow, and each
record stands or was overwritten by a write at an offset found before
(`FilesOnlyGrow`). Whoever has a record lock is told from those it excludes by
`NoWriteLockShared`.

**Signals** (`SigInv`). For each signal, what was sent is handled or pending
(`SigAccount`): exactly and in order for realtime ones while the receiver lives,
at least once for standard ones; so who is killed by a signal was sent one more
than it handled, and had no handler. `SigShield` says where the realtime child
blocks, `SigReads` that the reader of `process_sigaction` is at most one `read`
past its test of `running`, `SigFate` what a child is before it is forked. The
scripts are looked up once, in `SigRules`: which steps are where, for the parent
of the realtime program whatever the number of values it queues.

**Commands** (`ProcInv`). A list has one result for each command it is past; only
the last of popen's can be a failure, and a stream is open only at a command. What
popen's program exits with is computed from the status of its last command
(`Words`): a code `c` gives `256 * c`, of which `exit` leaves 0, a signal its number
with or without the core bit, -1 gives 255 (`MinusOne`).

The assumptions of `Channels` and `Storage` say that the processes are distinct
(no client is called `"public"`, `"parent"`, `"child"` or `"service"`), that
clients are finitely many (their workers are counted), and that a user types at
least one line, a counter makes at least one turn, a page has at least one cell
and there is room for a file; those of `Programs`, that an
exit code is one byte, a signal number is one of 1 to 126 (127 in a wait status
marks a stopped process), there are two workers at least, and the bounds are numbers.

Only model-checked: liveness (`Termination` and the other `<>` and `~>`
properties), which the prover cannot treat; of `Storage`, `TypeOK` and
`NothingMisread`, since what `Streams` parses is defined with operators that
recurse over a line (`SetToSortSeq` and `FlattenSeq` in `strtovec` and its use,
`SelectSeq` in `Letters`), and what they yield for every line needs induction over
data; of `Programs`, `TypeOK` and `BooksBalance` (the threads),
which are about scripts of fixed length for the threads the code creates, where
the bounds of the run are close to those of the code.

## 6. Not modelled

* Text: the layout of what is printed (`err_doit`, `get_time_debug`,
  `file_stat_print`), thread numbers of the pool, priorities of queues.
* `test_mq_create` (options from argv, attributes are printed), `test_mman_01`
  and `cat_proc_pid_maps` (one process, no interaction), `readv` and `writev`,
  `ioctl`, the variants of the wrappers that quit on a flag, the `if_file_*`
  predicates, the programs `atomic/01` and `atomic/05`.
* Duplicates: `pthread_lock_*.cpp` and `thread_lock_semaphore.cpp` are disabled
  and repeat programs of `thread_C++` and `Posix_semaphore` that are modelled.
* `System_V_semaphore` and `System_V_shared_memory` hold comments only.
* The start of the message service while clients run (`mman_test.cpp:511`): a
  wait on a semaphore that is initialised under it is undefined. A client killed
  with the mutex (561) stops everyone, which the code does not try to repair. A
  sender that holds an unlinked queue (`mqueue_test.cpp:460`) reaches nobody.
* Times: sleeping is left out everywhere, so that every order that any timing
  allows is in the models, and some that no timing of an idle machine shows.

What a continuation could add: proofs of `BooksBalance` for any number of workers
and of `NothingMisread` for any number of bytes, and the refinement of an abstract channel by
`FifoPair` and `MsgService`.
