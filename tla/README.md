# ORCOS: a TLA+ model of the kernel

ORCOS is a configurable real-time operating system in C++ (`src/source`). This
directory models the parts of its kernel that run concurrently — threads, the
dispatcher, the rate monotonic scheduler, the kernel's worker threads, mutexes
with priority inheritance, the heap, the life of resources and their deferred
deletion, and TCP sockets —, checks them with TLC and proves nearly all safety
properties, three refinements among them, with TLAPS.
File names below are relative to `src/source`.

## 1. The system

### Components, their state and operations

| Component | State | Operations |
|---|---|---|
| `db/LinkedList` | head, tail, size; every thread has one `LinkedListItem`, whose `host_db` names the list it is in | `addHead`, `addTail`, `insertAfter`, `remove`, `removeHead`; an insertion takes the item out of its old list first |
| `scheduler/SingleCPUDispatcher` | sleep, blocked, wait and condition list, `pCurrentRunningThread`, `needReschedule` | `dispatch` (never returns), `sleep`, `block`, `unblock`, `sigwait`, `signal`, `terminate_thread` |
| `scheduler/RateMonotonicThreadScheduler`, `PriorityThreadScheduler` | the ready queue | `enter`, `getNext`, `getNextTimerEvent` (wakes sleepers), `computePriority` |
| `process/Thread`, `PriorityThread`, `RealTimeThread` | status flags, sleep time, block timeout, signal, priorities, inheritance slots, arrival, instance | `run`, `sleep`, `block`, `unblock`, `sigwait`, `stop`, `resume`, `terminate`, `pushPriority`, `popPriority` |
| `process/KernelTask`, `KernelThread` | pool of worker threads, job of each | `getPeriodicThread`, `getCallbackThread`, `getIRQThread`, `work`, `workFinished` |
| `kernel/KernelServiceThread` | a periodic job | the walk of the blocked list that ends timed out blocks |
| `synchro/Mutex` | lock word, holder, number of waiting threads | `acquire`, `release` |
| `syscalls/sc_*` | none | decode arguments, call the above, dispatch |
| interrupts (`handleInterrupt.cc`, `hal/InterruptManager`), timer | interrupt table, programmed time | timer interrupt dispatches; device interrupts unblock a worker |
| `process/Task`, `TaskManager`, `filesystem/Resource` | threads and resources of a task, reference counts | create, terminate, stop, resume, acquire, release |
| `mem/SequentialFitMemManager`, `PagedRamMemManager` | chunk list, page tables, ring of deferred deletions | alloc, free, split, merge, service |
| `db/ArrayList`, `hal/BufferDevice`, `comm/Socket` and protocols, file systems | ring buffers, connections, media | read, write, send, receive |

### How they interact

There is one CPU. Threads enter the kernel by system calls, which run with
interrupts disabled unless the build sets `ENABLE_NESTED_INTERRUPTS`
(`syscalls/sc_table.cc`); kernel threads run with interrupts enabled and disable
them around critical sections. A handler that gives the CPU away ends in
`dispatch()`, which reinserts the running thread, wakes the sleepers that are
due, programs the timer for the next one that preempts, and runs the head of the
ready queue. All components share the one list item of each thread: sleeping,
blocking, waiting, stopping and being ready are a matter of which list the item
is in, while the flags, the sleep time and the signal of the thread say a second
time what it waits for. Device interrupts, timeouts, signals and mutexes change
both from the outside.

### What is hard

* The flags and the list of a thread are changed in different steps, with
  windows in `Thread::block` and `Thread::sigwait`.
* Many operations move the same list item; a wrong sequence of legal calls
  inserts an item behind itself (an assertion stops the system) or loses it.
* The timer is programmed once per dispatch from a scan that stops early.
* Priorities change while threads are queued, and `release()` and
  `popPriority()` let interrupts in at the worst places.
* A missing wake-up is invisible until something waits for ever.
* `free()` changes the heap without a lock, while other threads allocate.
* A resource can be removed while tasks hold it, spin for its mutex or end, and
  its memory is given back later, by a ring that two kernel threads walk without
  a common lock.
* The callbacks of the network thread and the threads of a task change the state
  of a socket together; one field, `blockedThread`, says who is to be woken.

`PROJECT.json` lists these hazards at their lines, with the properties that
would catch each of them, and the ones no property covers yet.

### What makes each part correct

* Lists: an item is in one list at most; nothing is lost.
* Scheduler: the ready queue is sorted; the most urgent ready thread runs; the
  timer is never later than the next preemption; nobody is released early.
* Threads: flags and list agree, so that the call that is to wake a thread
  works; timeouts and sleeps end; a wait for a signal ends only by the signal.
* Mutex: mutual exclusion; waiters are counted; inherited priority lets the
  holder run and is given back.
* Heap: the chunks tile the segment, blocks in use keep apart, a search finds
  what fits, the statistics are exact.
* Resources: reference counts equal the entries in the tables, a task that ends
  gives everything back, memory is freed once, not while it is in use, and in
  the end.
* Sockets: the ring of messages is a queue; one sender at a time; a thread that
  waits for what has arrived is woken.

## 2. Modules

| Module | Content |
|---|---|
| `ThreadLists` | the scheduling lists as a function from list names to sequences, and the list operations on it |
| `Dispatcher` | dispatcher, scheduler, threads, workers, timeout service, system calls, interrupts: the state machine |
| `Lock` | abstract: what a mutex promises |
| `PriorityMutex` | `Mutex` with priority inheritance on top of the lists; refines `Lock` |
| `Allocator` | abstract: what a memory manager promises |
| `Heap` | `SequentialFitMemManager::alloc` and `free` on one segment; refines `Allocator` |
| `Resources` | `Resource`, the table of `Task`, `TaskManager`, `scheduleDeletion`, `service`, `idleEnter` |
| `MessageQueue` | abstract: a bounded queue that drops what it has no room for |
| `Sockets` | `Socket`, `FixedSizePBufList`, `TCPTransportProtocol`; its ring refines `MessageQueue` |
| `MCDispatcher`, `MCPriorityMutex`, `MCHeap`, `MCResources`, `MCSockets` | small instances for TLC |
| `ThreadListTheorems` | lemmas about the list operations |
| `DispatcherProofs` | where threads are: types, one place, order of the ready queue |
| `WakeupProofs` | on top of it: no thread is lost, all can be woken, none early, the most urgent runs |
| `TimerProofs` | on top of both: the timer is programmed early enough, and the walk of the sleep list may stop early |
| `PriorityMutexProofs`, `HeapProofs`, `ResourcesProofs`, `SocketsProofs` | inductive invariants, theorems and refinements of the other models |

A definition whose comment says "Mutation of X" is a faulty variant of X. It is
part of no specification; it serves to confirm that a property notices the
fault.

### Dispatcher

The variables carry the names of the fields (`status`, `sleepTime`,
`blockTimeout`, `arrivalTime`, `instance`, `effectivePriority`, `signal`);
`lists` holds the ready queue and the three lists of the dispatcher, `cur` is
`pCurrentRunningThread` (`None`: idle). A step is a stretch of code with
interrupts disabled, or one that touches nothing shared. As `dispatch()` never
returns, `phase` says what the CPU does: a thread runs (`run`), `dispatch()` has
been entered (`dispatch`) or scans the sleep list (`scan`, one step per
iteration), `signal()` walks the wait list (`signal`), or an assertion has
stopped the system (`halt`). `inCall` marks the window between the flags and the
list in `Thread::block` and `Thread::sigwait`; interrupts get into it only if
`NestedInterrupts` is set.

Abstractions:
* Time is a counter of ticks up to `MaxTime`; sleeps, jobs and timeouts beyond it
  are not started. It passes only while a thread or the idle thread runs.
* `computePriority` gives a constant per thread, which is what it does in the
  rate monotonic scheduler for a given period and initial priority. `instance`
  counts 1 or "more".
* An idle worker for a new job is any one, not the most recently freed one; a
  user task that is stopped has one thread.
* All threads belong to one task as far as signals are concerned:
  `SIG_CHILD_TERMINATED` of a thread that ends reaches every waiter for it.
* Kernel code that unblocks another thread (sockets, devices) is one action,
  `UnblockOther`.
* The worker at priority 0 that Kernel start-up gives the idle loop to is not
  modelled; the CPU idles with `cur = None`, as it does without worker threads.
* The service thread is due at once at boot (offset 0) and then every
  `JobPeriod`.

`CallersFollowContract` restricts two system calls to the use they are made for:
a thread is started once, and only stopped threads are resumed. The code checks
neither; the run `dispatcher_thread_run` drops the restriction and shows what
happens.

### PriorityMutex

Dispatching is one step here. A thread that does not get a mutex spins
(`pc = "spin"`), and each attempt lifts the holder above it and raises the timer
interrupt. `release()` is three steps — the critical section, the first and the
second half of `popPriority` — between which interrupts are let in only for
`KernelThreads`. Threads take mutexes in ascending order; they sleep while they
hold one only if they are in `MayNap`.

`release()` does not ask who holds the mutex. A thread that holds one may release
it; in addition `Releasers` names the pairs of a thread and a mutex that it releases
without holding it. The code has three such callers: a thread of the task that owns
a resource, in `Resource::release`; `listen()` on a socket without a pcb; and the
outer of two nested users of a mutex, after the inner one, whose `acquire()` returned
at once because the thread had the mutex already, has released it. `popPriority` is
then called for the caller, not for the thread that had the mutex, so that this
thread may keep an inherited priority; the history variable `robbed` has the
threads this has happened to. `BoostEnds` is about all others, and
`UrgentAcquires` promises nothing once there is one, since a thread that keeps a
boost can starve the most urgent one. `MaxRobbed` bounds their number.

The failed non-blocking call leaves `waitingThreads` counted up, as the code does,
so the guard caps the count by the number of threads.

### Heap

`chunk` maps the address of each header to its fields. `alloc()` holds a lock
from the search to the end of `split()` and is one step. `free()` takes none: it
is one step for each access to shared data (`pc`: `last`, `reset`, `first`,
`lower`, `mark`, `load`, `store`), and a thread of `KernelThreads`, which runs with
interrupts enabled, is preempted between any two of them; a system call is not
(`OnCPU`). Addresses are numbers, sizes are numbers below `Word`, the range of a
`size_t`: the sum of a request and `SAFETY_BUFFER` (`Padded`) and `usedBytes` wrap
around there. A request so large that its sum wraps gets a block of a few bytes, and
the words of `SAFETY_CHAR` that mark the end of a block are then written over the
header of the chunk (`WriteGuard`): the list of chunks is broken. `alloc()` does not
reject such a request. `RequestsFit` is the contract that no caller makes one;
`Tiling`, `UsedBytesExact` and `ImplementsAllocator` are false without it, and the
proofs of the others rest on `Tiling`. The size field of a header has a bit less
than a `size_t`; the segment is assumed to be at most half of its range, and
`SizesFitField` shows that this is enough.
`free()` of an address that is no valid chunk is rejected and changes nothing;
`free()` of a chunk that is free already is not noticed by the code, and callers that
do it are outside the model.
`lastFit` is the build option `MEM_LAST_FIT`. `merge()` returns before it merges,
so chunks only get smaller, which the model shows as it is.

`overlap` is a history variable: it counts the calls made while another thread
is inside `free()`. Two properties need it. With an overlap the statistics
really can go wrong (`usedBytes` is read and written back in two steps), and two
overlapping calls of `free()` really can lose the lower value of `firstFreed`;
`Tiling` and `ImplementsAllocator` hold with any overlap.

### Resources

A resource is a file or, with a mutex, a partition; threads are resources, too,
as far as deletion is concerned. `linked` stands for the paths, `valid` for
`myResourceId`, `acquired` for the tables of the tasks, `holder` for the mutex.
System calls run with interrupts disabled and are one step, unless they spin for
the mutex; `service()` is one step for each critical section and each iteration,
`idleEnter()` one for the load and one for the store. Who runs is left open,
except that the idle thread needs everyone else to be asleep.

Three history variables mark what the code gives up on. `forced`: with the list
of deletions full, an item is deleted at once, even if a thread spins for it.
`refused`: an `acquire()` that fails after it took the mutex leaves it locked.
`late`: the idle thread stored a count that `service()` had lowered in between;
what follows is not modelled, and `TypeOK` states that nothing else makes
`schedDeletionSafeNum` larger than the list. Each property names the ones it
excludes, and only those.

### Sockets

One bound TCP socket, used by several threads of a task. A system call is one
step between the points where it blocks or spins for `comStackMutex`; the network
thread runs with interrupts enabled, so that a callback of lwIP is one step for
each access outside `m_lock` (`npc`). Messages are numbers in the order of arrival;
those in `Long` do not fit a small receive buffer.

lwIP is part of the repository (`comm/lwip`); the module follows it as far as the
socket depends on it. `peer` is the state of the pcb: it decides which
callbacks may come and what `tcp_connect()` and `tcp_listen()` do, which accept a pcb
that is `CLOSED` and refuse any other. A reset sets a pcb to `CLOSED` and frees it,
but the socket keeps the pointer, so that a later `connect()` uses it again
(`reset`, `resyn`); a pcb that is given up after too many retransmissions is freed
with its old state, and refused (`dead`). What happens once lwIP has given the
freed memory to another connection is not modelled.

Two history variables mark what the code gives up on. `cut`: the blocked threads
whose entry in `blockedThread` was overwritten by another thread or by `connected()`;
nobody but a timeout wakes them, and the wake-up properties are about all the others.
`overtaken`: `connected()` has announced a new connection while a sender of an
earlier one, which was reset, was still inside `send()`; the assignment of the
whole state drops its `SOCKET_SENDING`, and a second thread gets in. The first part of
`SendExclusive` is about all other situations. Its second part says when
`comStackMutex` is left locked: a `send()` on a socket without a pcb returns with the
mutex, as the code does, and the pcb is gone because the peer has closed the
connection or because another thread has, with `connect()`.

`connected()` tests `blockedThread` and then calls `unblock()` on it; a thread
whose timeout ends in between has set it to 0. In the model `unblock()` of no thread
does nothing; in the code it is a call through a null pointer, unless the compiler
has kept the tested value.

## 3. Runs

| Run | Instance | Shows |
|---|---|---|
| `dispatcher_threads` | 3 user threads, one periodic with a later arrival, an interrupt worker, clock to 5 | list, flag, order and timer invariants with device interrupts at any time; no early release; a wait for a signal ends by the signal; the most urgent sleeper runs again |
| `dispatcher_workers` | 2 user threads (one stopped and resumed) that block with and without timeout, a worker for jobs, the service thread, clock to 4, look-ahead 1 | the invariants with stop and resume, jobs and timeouts; every block with a timeout ends |
| `mutex` | 3 threads, 2 mutexes, 2 slots, non-blocking calls by one thread, release by a sibling for one mutex | `Lock` is implemented; inheritance works and ends, but for threads another one has taken a mutex from |
| `heap` | 2 kernel threads, a user thread, both builds, 2 sizes and the largest one that does not wrap, a segment of 24 with alignment 2 | `Allocator` is implemented; the chunks tile the segment; statistics and search are exact unless calls overlap |
| `resources` | 2 tasks, 3 threads, a file and a partition, 1 descriptor per task, 2 places in the list of deletions | tables, mutexes and deletions stay consistent; what is scheduled is deleted |
| `sockets` | 2 threads, 2 messages, a ring of 2, backlog 1 | the ring is a queue of capacity 1; one sender; no waiting thread is forgotten, and the network serves it |
| `dispatcher_rm_timer` | 2 workers with jobs of delay 1 and 2 | *violated*: the scan does not stop at the earliest time, as jobs are appended to the sleep list |
| `dispatcher_thread_run` | callers outside the contract | *violated*: `thread_run` releases a sleeping periodic thread early |
| `dispatcher_nested` | nested interrupts | *violated*: an `unblock` in the window of `Thread::block` leaves a thread no timeout finds |
| `mutex_boost` | kernel threads | *violated*: a holder keeps an inherited priority after its last release |
| `mutex_sleep` | a holder that sleeps | *violated*: inheritance ends the sleep |
| `sockets_capacity` | as `sockets` | *violated*: a ring of `SIZE` entries loses a message although fewer than `SIZE` wait |

The six violated runs each state one sentence of a comment in the code and are
explained, with their lines, under `findings` in `PROJECT.json`.

Properties, in the words of the code: `OnePlace` (one list item per thread),
`NoThreadLost`, `Wakeable` (the list agrees with the flags `unblock` and
`signal` test), `ReadySorted`, `NoPriorityInversion` (unless a timer interrupt
is pending the running thread is the most urgent ready one),
`TimerCoversSleepers`, `NoSelfInsert` (the assertion of `insertAfter`),
`NoEarlyRelease`, `WaitEndsBySignal`, `TimeoutWakes`, `UrgentSleeperRuns`;
`ImplementsLock`, `WaitersCounted`, `BoostEnds`, `UrgentAcquires`; `Tiling` (what
`debug()` checks never fails), `UsedBytesExact`, `NoFitMissed` (no allocation
fails although a chunk fits), `ImplementsAllocator`; `TablesSound` (reference
counts are exact and no table holds freed memory), `NoUseAfterFree`,
`LockedIsOwned` (no mutex outlives the ownership of its task), `ScheduledOnce`
(the list of deletions holds each item once, also while it is requeued),
`DeletedWhenIdle`; `ImplementsQueue` (with the capacity the ring really has),
`HoldsSizeMessages` (with the one the comment gives it, violated),
`NoLostReceiver`, `SendExclusive`, `ReceiverServed`.

**Bounds.** Three threads are enough for a list to have a head, a middle and a
tail while another thread runs, and for a low, a middle and a high priority, the
classical inversion. Two mutexes let a thread inherit through one while it holds
another; two slots make it possible to run out of them. The clock reaches far
enough for a sleep, its end and a second sleep, and in `dispatcher_workers` for
two rounds of the service after a timeout (a walk ends at the first thread it
wakes, and both threads may time out at once). The periodic job of the service
adds a dimension to the state, so signals are left to `dispatcher_threads`. The clock bound is also why deadlock is not checked in the dispatcher
runs: at the last tick an idle CPU has nothing left to do. `mutex` has no such
bound and checks it, as do the next three. One `robbed` thread shows what a foreign
release does to it and to the others.

In `heap` the segment has room for four chunks of the small size, so that a chunk
in the middle is freed and taken again, and for one of the large size, for which
the search must skip a hole; `Word` is 64, and the request of 62 is the largest
whose sum with the safety buffer does not wrap around: it must fail. `MaxOverlap` allows two calls inside an
interrupted `free()`, enough for a chunk to be handed out and freed again between
two steps of the first call. In `resources` two threads and two resources can be
scheduled for deletion, more than the list of deletions holds, and one
descriptor per task makes `acquire()` fail; two tasks compete for one mutex while
a third party removes the partition or kills a task. In `sockets` two messages
fill the ring (one slot stays free), wrap around and overflow; a connection can be
reset and made again any number of times; two threads are
enough for each of the races on `blockedThread` and `SOCKET_SENDING`, which are
between a thread and another one or the network.

**Fairness.** `Dispatcher`: weak fairness of kernel code with interrupts
disabled (the CPU goes on) and of the jobs of kernel workers (they are finite);
strong fairness of the clock and of the timer interrupt, which the hardware
counts and keeps pending whatever the running thread does. User threads may do
nothing for ever. `PriorityMutex`: the timer interrupt is taken, kernel code
goes on, and a thread that gets the CPU again and again releases its mutex one
day; without this no mutex makes a promise. `Resources`: the service thread is
periodic, so it is weakly fair; the idle thread runs whenever no thread is ready,
strong fairness of its two steps; that all threads are asleep again and again is a
premise of the property, not an assumption, because a busy system may never
idle. `Sockets`: weak fairness of the network thread only, which waits for nothing
while it works on a packet; threads of the task may stop anywhere, also with
`comStackMutex`, and timeouts are not relied on, as a caller may block without one.
`Heap` promises nothing that needs fairness.

## 4. Proofs

All theorems hold for arbitrary sets of threads, priorities, periods, delays,
timeouts, signals, mutexes, segments, tasks, resources, messages and table sizes,
under the named assumptions on constants in `Dispatcher` (`ThreadsAssumption`,
`NumbersAssumption`), `PriorityMutex` (`MutexAssumption`), `Heap`
(`HeapAssumption`), `Resources` (`ResourcesAssumption`) and `Sockets`
(`SocketsAssumption`), which TLC evaluates in the runs. Some theorems have
hypotheses on the constants of the build or on the applications in addition; the
table names them, and what happens without them.

All modules but `Dispatcher`, which has the constant `NestedInterrupts`, assume that
a system call runs with interrupts disabled between the points where it blocks or
spins. This is a matter of the build: the configuration of the BeagleBone prototype
sets `ENABLE_NESTED_INTERRUPTS` (and `SYSFS_SUPPORT`), and neither the runs nor the
theorems about `PriorityMutex` (for threads outside `KernelThreads`), `Heap` (for
threads outside `KernelThreads`), `Resources` and `Sockets` speak about it. In
`PriorityMutex` and `Heap` such a build is the instance in which all threads are
kernel threads; the theorems that have no hypothesis on `KernelThreads` cover it.

| Theorem | Property | Hypotheses | Without them |
|---|---|---|---|
| `DispatcherProofs!TypeCorrect` | `TypeOK` | none | |
| `ThreadsHaveOnePlace`, `AssertionHolds` | `OnePlace`, `NoSelfInsert` | contract | violated: `task_resume` of a thread that is not stopped enters it although it runs or is queued |
| `QueueStaysSorted`, `ThreadsAreKept`, `MostUrgentRuns` | `ReadySorted`, `NoThreadLost`, `NoPriorityInversion` | contract | no violation in small instances; the proofs rest on `OnePlace` |
| `SleepIsNotCutShort` | `NoEarlyRelease` | contract | violated: run `dispatcher_thread_run` |
| `ThreadsStayWakeable` | `Wakeable` | contract, no nested interrupts | violated: run `dispatcher_nested` shows one consequence |
| `SignalsEndOtherWaits` | `UnstoppedWaitsEnd`: `WaitEndsBySignal` for threads outside `MayStop` | contract, no nested interrupts | violated: a waiter that is preempted inside `sigwait` is restored without the signal |
| `SignalsEndWaits` | `WaitEndsBySignal` | the same, no task is stopped | violated: a waiter that is stopped and resumed is restored without the signal |
| `TimerIsEarlyEnough`, `WalkEndsAtEarliest` | `TimerCoversSleepers`, `NextTimerEventIsEarliest` | contract, `NoTailInserts` | violated: run `dispatcher_rm_timer`; likewise with a task that is stopped while it sleeps |
| `PriorityMutexProofs!TypeCorrect`, `ThreadsHaveOnePlace`, `QueueStaysSorted`, `MutexIsLock`, `WaitersAreCounted` | `TypeOK`, `OnePlace`, `ReadySorted`, `ImplementsLock`, `WaitersCounted` | none; any set of `Releasers` | |
| `UserBoostsEnd` | `BoostEnds`, for threads outside `KernelThreads` | a slot, priorities above 0; any set of `Releasers` | `popPriority` takes 0 for "none" |
| `BoostsEnd` | `BoostEnds` | the same, no kernel threads | violated: run `mutex_boost` |
| `InheritanceLetsSleep` | `SleepOfOthersLasts`: `SleepLasts` for threads outside `MayNap` | none | |
| `SleepsLast` | `SleepLasts` | no thread sleeps while it holds a mutex | violated: run `mutex_sleep` |
| `HeapProofs`: `TypeCorrect`, `ChunksTile`, `HeapIsAllocator`, `SearchIsComplete`, `StatisticsAreExact` | `TypeOK`, `Tiling`, `ImplementsAllocator`, `NoFitMissed`, `UsedBytesExact` | `RequestsFit` | `Tiling`, `UsedBytesExact` and `ImplementsAllocator` are violated: the block is shorter than asked for, its header is overwritten |
| `HeapProofs`: `SizesFitField`, `NoByteIsLost` | `SizesFit`, `Accounted` | `RequestsFit` | an overwritten header has a size of its own |
| `ResourcesProofs`: `TypeCorrect`, `TablesAreSound`, `FreedIsUnused`, `MutexFollowsOwner`, `DeletionsListedOnce` | `TypeOK`, `TablesSound`, `NoUseAfterFree`, `LockedIsOwned`, `ScheduledOnce` | none | |
| `SocketsProofs`: `TypeCorrect`, `OneSender`, `ReceiversAreWoken`, `RingIsQueue` | `TypeOK`, `SendExclusive`, `NoLostReceiver`, `ImplementsQueue` | none | |

"Contract" is `CallersFollowContract`. Every set of hypotheses holds in a passing
run in which the steps the theorem speaks of happen, so no theorem is empty:
`dispatcher_threads` and, with a task that is stopped, `dispatcher_workers` for
the dispatcher, `mutex` for the mutex (its threads sleep between their critical
sections). Each inductive invariant below was an invariant of TLC runs before
it was proved.

`WalkEndsAtEarliest` and `SleepsLast` are the other side of two findings: the runs
`dispatcher_rm_timer` and `mutex_sleep` show that the comment in the code is wrong
in general, the theorems show under which use of the kernel it is right.

`ThreadListTheorems` has the lemmas: what detaching, appending and inserting in
order do to the types, the members, the absence of duplicates, the order of
the ready queue and the order of the sleep list. The library operators they
unfold to (`SelectLastInSeq`, `RemoveFirst`, `InsertAt`) are reasoned about once,
here.

### Dispatcher

`DispatcherProofs`. `OnePlace`, `ReadySorted` and `NoSelfInsert` are not
inductive. That an insertion cannot hit the item itself needs
to know that the thread is not in the list, hence which list or CPU each step
finds it in. `IInv` adds: a thread that is ready, asleep or running is neither
blocked nor stopped, unless it is inside `Thread::block` (`Clean`);
a blocked or stopped thread is in a list or runs (`HeldListed`), so that `unblock`
and `resume` move a thread that is not queued as ready; a user thread that runs
has been dispatched before, so that `thread_run` cannot name it (`UserStarted`);
workers are never stopped and never inside `Thread::block` (`WorkersServe`); the
threads a `signal()` walk has still to visit are in the wait list (`TodoWaits`);
no thread runs during the scan (`ScanIdle`). There is one lemma per action, with
one step per conjunct it can disturb.

`WakeupProofs` adds layers to `IInv`, each with the hypotheses it needs:
* `KeptInv`: a sleeping thread has a wake-up time and a ready or running one has
  none (`SleepTimes`), a thread that has ended is nowhere (`EndedGone`), and
  `NoThreadLost`. That `unblock()` chooses between sleep list and ready queue by
  the sleep time makes the first part necessary, for `NoEarlyRelease` as well.
* `CallInv`, without nested interrupts: only the running thread is in a window of
  `Thread::block` or `Thread::sigwait` (`WindowRuns`), and there it has set its
  flags (`WindowFlags`), so that the lists it enters agree with them
  (`WaitersWait`, `BlockedHeld`). These give `Wakeable`.
* `SignalInv`, for the threads that no `task_stop` names: one with a signal to wait
  for is in the wait list, about to enter it, or `signal()` has taken its flag,
  and stopping and resuming other threads does not disturb this. As
  `restoreContext()`, also on the way out of an interrupt, clears the signal of
  the thread it resumes, this is what `WaitEndsBySignal` rests on.
* `UrgencyInv`: unless the timer is pending, no thread of the ready queue is more
  urgent than the running one. It says this of all queued threads, not of the
  head only, as the head changes; and that the clock has started, as `unblock()`
  makes the timer pending by setting it to 1.

`TimerProofs`: `getNextTimerEvent` stops at the first sleeper that can preempt,
which is the earliest one only if the sleep list is ordered by wake-up time.
`TimerInv` states this order (`SleepOrdered`), that the threads the scan has
passed cannot preempt the one at the head of the ready queue (`ScanPassed`; the
scan may put more urgent threads there meanwhile, which only helps:
`HeadRises`), and that a thread which `unblock()` or `signal()` may wake has no
sleep time left (`AwakeElsewhere`), so that neither appends to the sleep list.
`NoTailInserts` excludes the two uses that do: callbacks of kernel workers, and a
task that is stopped while it sleeps. `WalkEndsAtEarliest` reads the invariant
after the step with which `dispatch()` ends.

### PriorityMutex

* `MutexIsLock` is by the mapping that makes the spinning threads the waiting
  clients and `m_pThread` the holder; a release by a thread of `Releasers` is one by a client that
is `Entitled`, and the theorem holds for any such set. It needs that
  a mutex is locked exactly when it has a holder, that a thread in a call has a
  mutex as its argument, and that a spinning thread is not the holder.
* `WaitersAreCounted` is by cardinality of the set of spinning threads.
* `UserBoostsEnd` and `BoostsEnd`: `BoostInv` treats the slots as the record of
  the boosts. A thread above its own priority has a slot (`BoostHasSlot`, in
  the middle of `popPriority` said of the priority it is about to get); the mutex
  of a slot is held, or is being released, and still has `waitingThreads > 0`
  (`SlotsCounted`), so that the `release()` to come calls `popPriority`; and this
  `release()` is not preempted (`ReleaseRuns`). The last two are said of threads
  that are not `robbed` only: a release by another thread leaves their slots behind,
  and no later `release()` need clear them. The build has five slots
  (`MAX_PIP_PRIORITIES`).
* `InheritanceLetsSleep` and `SleepsLast`: `pushPriority` takes the holder out of
  whatever list it is in. A thread outside `MayNap` holds nothing while it is in
  the sleep list (`SleepersHoldNothing`): it enters the list without a mutex, and
  a mutex goes to the running thread only. `SleepStep` says what any step does to
  the sleep list, to the holders and to priorities.

### Heap

`HeapIsAllocator`: the blocks of `Allocator` are
the payloads of the occupied chunks without their safety buffer; `alloc()` maps
to `Alloc`, the step `mark` of `free()` to `Free`, all others to stuttering.

The invariant `IInv` adds to `Tiling` that every payload starts inside the segment
(so that a block has an address there) and that a thread inside `free()` has a
chunk (so that the lookup is set to one). The core is `SplitPoint` — the header
of the rest lies behind what is handed out, inside the chunk, at no address that
has a header, and in front of an aligned payload — which rests on the arithmetic
of `alignCeil` and on a padded size that has not wrapped, and `SplitLinks`, which checks the links chunk by chunk: the one
that is split, the new one, the one behind, and all others. That two chunks never
overlap then gives the distance between blocks.

`SearchIsComplete` needs `SearchInv`: a free chunk below `firstFreed` is only the
rest at the end of the segment, where the search gets to from everywhere
(`FreedCovered`), and `free()` lowers `firstFreed` before it marks the chunk
(`MarkCovered`), with one thread at most inside `free()` (`OneInFree`) unless
calls overlap.

`StatisticsAreExact` is about a sum over all occupied chunks. The section on sums
shows what the fold of the library computes: adding up a finite set in the order
in which its elements are picked gives one number, taking an element out
takes its number off (`SumSplit`), and so a sum does not depend on the order. Where
this needs induction over the size of the set, the proofs take a smallest
counterexample, as the natural numbers are well founded, and refute it. `StatInv`
has three parts. `Accounted`: the payloads of all chunks and the headers that
`split()` has added make up the payload of the one chunk at the start, whatever
calls overlap; it is also what keeps `usedBytes` from wrapping around.
`FreeStates`: the chunk of a thread inside `free()` is in use until it is marked.
`UsedExact`: `usedBytes` is the sum over the occupied chunks and over the one that
is marked but not yet taken off, and what `free()` is about to write back is the
sum without that one. The last two hold while no call is made into an
interrupted `free()`.

### Resources

`IInv` has two halves. `ListInv`: what a path leads to or a living thread is has not
been given up (`InUseValid`); `service()` looks at a prefix of the list that nobody
shortens (`ScanSound`); an item that was given up has one entry that is still to
be visited (`ListedOnce`, `ScheduledOnce` without cardinality); and no thread spins
for an entry that may be freed now (`SafeNotSpun`), which is why `idleEnter()` may
take the count only while all threads are asleep. `TableInv`: a task has one
descriptor per resource, the owner of a partition is the task of the holder of its
mutex, and the sets of references are finite, so that `refCounter` counts them.

### Sockets

`IInv` relates `state`, the pcb and the network thread: a socket loses its pcb only
with its connection (`PcbKnown`), the network thread has `comStackMutex` until a
`listen()` without a pcb takes it away, after which no pcb comes back (`NetHolds`),
the flag of a sender is overwritten only by a state that admits no other sender or
by a new connection, which sets `overtaken` (`SenderFlagged`), the socket is connected
without a pcb only until `disconnected()` has been called (`StateKnown`), and a
blocked thread that was not cut off is the one in `blockedThread` or about to be
unblocked (`Registered`). `RingIsQueue` maps the slots from `head_id` to `last_id`,
around the end of the array, to the abstract queue; `ArriveStep` and `TakeStep`
show that adding and removing a pbuf are its two operations, at any position of
the ring.

### Only model-checked

The liveness properties `TimeoutWakes`, `UrgentSleeperRuns`, `UrgentAcquires`,
`DeletedWhenIdle` and `ReceiverServed`: fairness is out of the prover's reach.
Every safety property of a passing run, invariant, action property or
refinement, is also a theorem.

The runs `dispatcher_threads` and `dispatcher_workers` check instances of the
theorems; outside the hypotheses of the table nothing is claimed.

## 5. Plan

Done: scheduling core and mutexes; heap, resources with deferred deletion, TCP
sockets. Next, in this order:

1. Proofs: the list invariants of the dispatcher for callers outside the contract
   of `thread_run` that still resume only what they have stopped; the order of the
   sleep list with a task that is stopped only while it does not sleep.
2. Composition of `Resources` with `PriorityMutex`: the holder that ends.
3. Closing of a socket, and UDP, which adds no control but another protocol.
4. `InterruptManager`: registration, direct handlers, user space waiters;
   `BufferDevice` with a blocking reader.
5. `Task::stop` and `resume` over several threads.
6. `EDF`: the other real-time scheduler against the same properties; integer
   widths of `computePriority`.

## 6. Hazards outside the models

Met while reading; no model reaches them yet.

| Line | Hazard |
|---|---|
| `process/Task.cc:235` | closing a socket deletes it while another thread is blocked in it |
| `process/Task.cc:408` | `Task::stop` of the caller's own task dispatches inside the loop, so the threads behind it are not stopped |
| `syscalls/sc_process.cc:256` | `task_kill` does not free the threads; killing the own task is not excluded |
| `process/PriorityThread.cc:129` | `popPriority` takes priority 0 for "no priority" |
| `scheduler/RateMonotonicThreadScheduler.cc:121` | a period of 2^32 ticks or more wraps around |
| `hal/InterruptManager.cc:121`, `:138` | `irq = IRQ_MAX` is accepted; without a free worker a flag is removed instead of set, and the worker is null |
| `hal/BufferDevice.cc:54` | a reader tests for data and then blocks; a writer between the two wakes nobody |
| `comm/Socket.cc:594` | `m_lock` stores the interrupt state of whoever took it last |
| `inc/Bitmap.hh:254` | a shift by 32 when the number of bits is a multiple of 32 |
| `db/ArrayList.cc:178` | `insertItemAt` behind the last entry loses the head; it has no caller |
| `mem/SequentialFitMemManager.cc:105` | `merge()` returns early: freed chunks are never joined |

## 7. Not modelled

* Most of the repository by far is not the kernel: the C library with its
  character tables, lwIP, the applications and tools. They are third-party or
  generated, mostly sequential or data, and the share of all lines that the
  modules map is small for this reason.
* Device drivers, the contents of file systems and media, loading of tasks,
  address spaces and the paged memory manager, logging and tracing, boot: data
  layout and I/O.
* The other schedulers (`EDF`, `RoundRobin`, `TBS`): alternatives of the
  configuration; the model follows rate monotonic scheduling.
* Sockets: UDP, errors of `bind`, service discovery, closing. The error branch of
  `tcp_connected` is unreachable, as lwIP reports only success there.
* Resources: builds with `SYSFS_SUPPORT`; the tree of directories; shared memory.
* Heap: the body of `merge()` behind its early return, which never runs.
* Multi-core builds: spin locks compile to disabled interrupts in the single-CPU
  configurations the models follow.

`PROJECT.json` lists every component with the reason.
