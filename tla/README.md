# PadOS: a verification project for the kernel

PadOS is a small single-core operating system for Cortex-M microcontrollers: a
preemptive kernel with POSIX threads, processes, signals and a virtual file
system, device drivers, and a GUI with its own application server.  This
directory holds TLA+ models of the parts of the kernel that everything else
relies on, the TLC runs that check them on small instances, and machine-checked
proofs of what matters most about them.

`PROJECT.json` is the index: components, runs, the map from definitions to source
lines, hazards (what in this code is hard to test) with the properties that
cover them, mutants (a plausible bug for every property, which the property must
catch), findings and theorems.

    tlc -workers 2 -config MCKMutex.cfg MCKMutex      # one run
    tlapm KMutex_proofs.tla                           # the proofs of one component

## 1. The system

### Inventory

| Component | State | Operations | What makes it correct |
|---|---|---|---|
| Scheduler (`Kernel/Scheduler.cpp`) | a ready list per priority level, sleep list, current thread, pending PendSV | select_thread, SysTick_Handler, wakeup_thread, wakeup_wait_queue, add_to_sleep_list | every ready thread in exactly one list, one running thread, nobody oversleeps, ready threads run |
| Thread life cycle (`Kernel/KThread.cpp`, `Kernel/Startup/KStartup.cpp`) | thread state, detach state, join queues, zombie list, PID map | spawn, exit, join, detach, set priority, snooze, yield, the loop of the init thread | a dead thread is reaped once, by one party, after its last step; nobody sleeps through a death |
| KMutex (`Kernel/KMutex.cpp`) | one signed counter, holder, wait queue | lock, timed lock, try-lock and unlock, exclusive and shared | exclusion, no lost wake-up, nodes on the stack never stay linked, timeouts end calls |
| KSemaphore (`Kernel/KSemaphore.cpp`) | counter, wait queue | acquire, timed acquire, try, release | no stranded credit, the limit is respected |
| KConditionVariable (`Kernel/KConditionVariable.cpp`) | wait queue | wait (timed, cancelable, with or without a mutex), wakeup n or all | atomic release-and-wait, right result for every race, mutex held on return |
| KPipe (`Kernel/VFS/KPipeFilesystem.cpp`) | ring buffer, reader and writer counts, two condition variables, the volume's map | pipe(), open, close, read, write, AddListener | FIFO, atomic short writes, end of file and broken pipe reach everybody, inode lifetime |
| KMessagePort (`Kernel/KMessagePort.cpp`) | bounded queue, cache of message buffers, two condition variables | send, receive, their timed forms | bounded FIFO, no lost message, no sleeper beside a free slot or a message |
| KObjectWaitGroup (`Kernel/KObjectWaitGroup.cpp`) | objects, wait nodes, sleep node, blocked thread | add, remove, wait | woken when any object becomes ready; add and remove not locked out |
| KBlockCache (`Kernel/VFS/KBlockCache.cpp`) | a block map per device, free and MRU list, use counts, flags, flusher thread | get, mark dirty, drop, sync, the flusher's rounds | one buffer per block, no write forgotten, no sleeper without a waker |
| Processes, PID map, signals (`Kernel/KProcess.cpp`, `KPIDNode.cpp`, `KPosixSignals.cpp`) | process tree, groups and sessions, pending and blocked sets | spawn, exit, waitid, reparenting, kill, stop and continue | a consistent family tree, exits are not slept through, what is told of a dead process is final |
| Inode map (`Kernel/VFS/KVFSManager.cpp`, `KInode.cpp`, `System/Ptr/PtrTarget.cpp`) | inode map with pending entries, list of unused inodes, reference counts | GetInode, release, flush, discard | one object per file, a file's inode found with no reference is an unused one, pending entries end, unlinked files are released |
| Handles, node monitors, ptys | file tables; two rings per pty | open, close, dup, fcntl; read, write, hang-up | no use after the last close |
| Logging, input, power, consoles | queues and drivers of their own | | producers never block for ever |
| FAT, binary file system, USB, HAL, system calls, Looper, application server, GUI | see `PROJECT.json` | | |

### How the parts interact

The kernel runs on one core.  A `CRITICAL_IRQ` section disables interrupts and is
therefore atomic with respect to everything; between two such sections any
thread, interrupt or tick may run.  A blocking call is always the same two
sections: the first tests, links a wait node (and for a timeout a sleep node) *that
live on the caller's stack*, sets the thread's state and pends a context switch;
the second, run after some wake-up, unlinks both and finds out what happened.
Wake-ups come from the object (`wakeup_wait_queue` unlinks the nodes it wakes),
from the tick (`wakeup_sleeping_threads` unlinks the sleep node) and from
signals and cancellations (`wakeup_thread`, which unlinks nothing).  Mutex,
semaphore, condition variable and join are four variations on this scheme;
pipes, message ports, wait groups, ptys and the block cache are built on mutexes
and condition variables.

### What is hard here

* A context switch is only *pended*; other interrupts come first and may change
  the state of the very thread that is giving up the processor.
* A thread may be linked in two lists at once and be woken through either, by a
  signal, or by several of them before it runs.
* A wake-up hands over nothing: whoever runs first takes the mutex, the credit,
  the data.
* Results are computed after a mutex has been taken again, long after the event.
* Deadlines race grants, notifications and cancellations; every loop goes round
  with the old deadline and fresh nodes.
* A mutex is given up in the middle of an operation: the block cache writes its
  buffers, the inode map loads and discards, and `waitid` sleeps, while others
  change what was just looked at.
* Reference counts change outside the mutex of the map that looks at them.
* The reaping of a thread is shared by the dying thread, the context switch, its
  joiner, its detacher and the init thread.

`PROJECT.json` lists the hazards one by one, at the lines where they bite.

## 2. Modules

| Module | Models | Abstracts |
|---|---|---|
| `RWLock` | what a mutex promises: exclusive nested holds of one thread, or shared holds | everything but the holds |
| `BlockingCalls` | the state that a lock and its callers have, wait and sleep nodes included; extended by `KMutex` and `KSemaphore` | |
| `KMutex` | `KMutex.cpp`, one action per critical section | the order of the wait queue, which is only ever emptied as a whole; which ready thread runs |
| `WaitQueue` | `KThreadWaitList` as a sequence, `wakeup_wait_queue`, `Detatch` | list pointers |
| `KSemaphore` | `KSemaphore.cpp` | which ready thread runs |
| `KConditionVariable` | `KConditionVariable.cpp` **composed with** `KMutex` (by INSTANCE) and with `kthread_cancel` | the notifier, who may notify at any time |
| `Scheduler` | `Scheduler.cpp`, the life cycle in `KThread.cpp`, the loop of the init thread | register save and restore, run time accounting, signal delivery |
| `KPipe` | `KPipeFilesystem.cpp` for one pipe | bytes are (writer, index) pairs; the mutex and the condition variables by what the modules above show of them |
| `BoundedChannel` | what message ports promise: FIFO channels of bounded length | buffers, waiting, time |
| `KMessagePort` | `KMessagePort.cpp`, several ports over one cache of buffers | a message is its sender; a deadline is never, to come or passed |
| `FileSystemThreads` | where a thread is in its call; extended by `KBlockCache` and `KVFSManager` | |
| `KBlockCache` | `KBlockCache.cpp`: users, flusher and devices | buffer contents to "same as on the device or not"; the age of a block to old or not |
| `KVFSManager` | the inode map of `KVFSManager.cpp` and the counting of `PtrTarget` | the file system to a load that may fail and a release |
| `KProcess` | `KProcess.cpp`, signals that stop, continue and kill (`KPosixSignals.cpp`), the children of init (`KStartup.cpp`) | the scheduler to ready, waiting, stopped; exit codes to their kind |
| `MC...` | instances for TLC | |
| `WaitQueue_proofs` | lemmas about lists, used by the proofs below | |
| `KConditionVariable_proofs`, `Scheduler_proofs`, `KPipe_proofs`, `KMessagePort_proofs`, `KProcess_proofs` | theorems about the component of that name | |
| `KMutex_proofs` | theorems about the two locks, `KMutex` and `KSemaphore` | |
| `KBlockCache_proofs` | theorems about the two caches of the file systems, `KBlockCache` and `KVFSManager` | |

**Correspondence.**  State variables keep the names of the members
(`m_Count`, `m_WaitQueue`, `gk_ReadyThreadLists`, ...).  `pc` (in the condition
variable `cpc`) is the place of a thread in a call that spans several critical
sections, `req`/`wait` are its parameters, `result`/`outcome` the code the last
step returned.  `depth`, `readers` and `notified` are history: what clients were
granted, and which waiters a `Wakeup` chose.  They occur in no guard of the code's
own decisions.  `cleanups` counts how often the memory of a thread was handed to
the reaper.  Definitions commented "A wrong variant" are never used by a
specification: each is the bug of one mutant.

**KMutex.**  `Call` starts one of `Lock`, `LockShared`, `LockClock`,
`LockSharedClock`; `...Enter` and `...Resume` are their two critical sections, and
`TryLock`, `TryLockShared`, `Unlock` and `UnlockFree` (INVAL) are whole calls.
`LockClock` takes the mutex only in its first section while `Lock` also does in
its second, and only `LockSharedClock` passes its wake-up on to the whole queue:
the model keeps these differences.  Clients follow the rules the code asserts:
they unlock what they hold, nest only in a recursive mutex and do not mix modes.
One thread has one shared hold at a time.

**KConditionVariable.**  `WaitEnter` tests cancellation and deadline, links the
nodes and releases the mutex in one section; `WaitRelock` starts the
uninterruptible `Lock`, whose steps are those of `KMutex`; `WaitResume` looks at
the node.  A cancellation is two steps, flag and wake-up, as in
`kthread_cancel`.

**Scheduler.**  `SelectThread` is the PendSV handler with all its bookkeeping
for a previous thread that is a zombie.  A thread takes no step while a switch is
pending, but `SysTick` and `WakeupThread` may come first; `Snooze` and
`SnoozeSwitch` are separate because `ksnooze_until_ns` pends the switch outside its
critical section.  The loop of init is `InitBoot`, `InitCollect`, `InitDelete`,
`InitErase`, `InitDeleted`, `InitSleep`, and `InitLockWait` is init blocking on the
mutex of the PID map in the middle of it, where a zombie's announcement wakes it
for the wrong reason.  Clients obey POSIX: one joiner per thread, and no detach
of a thread that is being joined (the code does not detect either).

**KPipe.**  `Read`, `WriteEnter` and `WriteContinue` are one pass each of the loops
with the mutex held; `owner` is set where a long write keeps the mutex from one
pass to the next.  `CloseFile` and `EraseInode` are separate because the erase
comes after the mutex was released.  `kpipe_trw` is modelled with its failures and
its guards.  `O_RDWR` counts as a writer only, as in the code.

**KMessagePort.**  A call holds the mutex of its port except while it waits, so
`Enter` and `Resume` are each one turn of the loop of a send or a receive, up to
the return or the wait.  The list of a port and the cache are linked through the
same `m_Next`, as in the code, and the cache is shared: the destructor of one port
(`DestructorFree`, one buffer at a time) runs among the calls of the other.
`NoMemory` is the heap without a free buffer.  `INTR` sends the code round its loop
like a notification; a wake-up by a signal that `WaitInternal` swallows is not
visible here.  The refinement maps a port to the contents of its list.

**KBlockCache.**  A step is one section of `s_Mutex`, or what happens without it:
`WriteBuffer` (a user writes to its block) and `WriteSegment` (the flusher writes
to the device, and may fail).  `unsaved` is history: the blocks written to since the
flusher last wrote them (a write that fails included, because the code marks its
blocks clean all the same); `stranded` is history too: the threads that a failed
write has left waiting, because nobody is notified of it.  `LookedAt` keeps a peculiarity of the flusher's loop: it tests the
flags of a block before it finds out that a new segment starts there, so the
request of the first block of a segment counts for the segment before.  Every
notification of the flusher only makes its next round come sooner, because its
wait has a timeout; it is left out.

**KVFSManager.**  `Lookup` is the first section of `GetInode_trw` and `LoadInode` the
call without the lock; `LookupHit` and `TakeReference` are apart because the count
is read and incremented in two steps, between which references are dropped
without the mutex (`ReleasePtrRef`, `HandleLastRefGone`, `InodeReleased`).  `LookupPanics`
is the lookup whose kassert fails; after it nothing moves.

**KProcess.**  Operations under `g_PIDMapMutex` are one step each, except where they
read and write an exit status, which that mutex does not protect.  `SetExitStatus`
is the write, given the status that was read a step before: `Send` then
`StopThreads` or `ContinueThreads` (`sender` is the call in between), `Exit` then
`CancelThreads`, `ThreadExit` then `MainThreadExit` (`cur` has what each thread has
read).  `waitid` is `Wait` (a look at the children), then `Report` of what was
`found`, with the reset of the status, or `Sleep`, `Awake` and `LookAgain`; the mutex
is held from the look to the report or the sleep.  `TakeKill` alone reads and writes
in one step: a signal is taken in the handler of an exception, and no thread runs
in between.  A thread that stops does so under the scheduler lock only.
`SpawnFails` is the throw out of the constructor of `KThreadCB`; the kernel panics.
`Waits`, `Spawns`, `Exiting` (who calls `exit`) and `Asynchronous` (whom a
cancellation ends at once, by a SIGKILL) are the programs; `sent` counts the signals
from outside, to the processes in `Signalled`.  `Finish` is a thread function that
returns, and a thread that ends at a cancellation point.

## 3. Runs

| Run | Instance | Distinct states | What it shows |
|---|---|---|---|
| `mutex` | 2 threads, recursive, depth 2, 2 ticks | 13,140 | counter = holds (`CountMatchesHolders`), no sleeper beside a mutex it could take (`NoLostWakeup`), nodes unlinked, refinement of `RWLock`, timed calls return |
| `semaphore` | 3 threads, count 1, limit 2, 1 tick | 34,417 | a credit beside a sleeper always has somebody awake coming for it and no node dangles (`CreditsCovered`), the limit (`SemTypeOK`), timed calls return (`SemTimedCallReturns`) |
| `condition_variable` | 2 waiters, both cancelable, 1 tick | 115,072 | Success exactly for notified waiters, who return with the mutex held (`SuccessIffNotified`); no window in which a notifier, the tick or a canceller misses a waiter; notified waiters return |
| `scheduler_safety` | idle, init, main and one more thread, 2 levels, 2 ticks | 709,117 | exact ready lists and one running thread, ordered sleep list, and reaping: once, after the last step, with init and joiners never asleep beside it |
| `scheduler_liveness` | the same threads on one level | 6,004 | round robin; detached zombies are deleted |
| `pipe_safety` | ring of 2 bytes, 2 writers of up to 3 bytes, 1 reader, symmetry | 1,080,430 | FIFO across wrap-around, short writes all or nothing, nobody waits in vain, the inode is mapped exactly while it is in use |
| `message_port` | 2 ports, 2 threads (one with long messages), 2 buffers, cache of 1, 1 listener | 211,535 | every port is a bounded FIFO (`ImplementsChannel`), no buffer lost or in two places, counts and cache limit included (`BuffersAccounted`), nobody waits beside work, timed calls return |
| `block_cache` | 2 threads, 1 device of 3 blocks, 1 or 2 buffers, symmetry | 596,971 | one buffer per block and users keep theirs (`CachedOnce`), what the flusher has not yet tried to write is dirty (`UnsavedIsDirty`), no sleeper without a waker except after a failed write (`SleeperHasWaker`) |
| `inode_cache` | 3 threads, 2 files, 2 inodes, symmetry | 10,547 | one object per file (`OneInodePerFile`), pending entries have one owner and no forgotten waiters (`PendingHasOwner`) |
| `process` | 3 processes under the kernel's, 4 threads, 2 signals to the middle one | 1,334,355 | consistent tree (`FamilyTree`), an exit is not slept through (`WaiterSeesExit`), what is told of the dead is final (`DeadKeepsStatus`) |
| `block_cache_devices` | 2 threads, 2 devices, 2 buffers | violation | finding 1 |
| `inode_panic` | 2 threads, 1 file | violation | finding 2 |

**Bounds.**  `MaxTime` bounds the clock.  One tick separates "before" from
"after" a deadline, deadlines range over expired, now, the tick and never, and
two ticks order two sleepers.  `MaxDepth` 2 is the first real nesting.  Two
threads suffice for the mutex, and small instances of the other proved
components, because their safety is proved for any number.  For
the semaphore three are a taker, a waiter and a thief; with two waiters on
the condition variable the notifier is part of the environment and needs no
thread.  Four threads of the scheduler are the two special ones, a parent and a
child that can both be zombies; two levels give preemption.  A ring of two bytes
is the smallest in which a copy can wrap, and three bytes are a write longer
than the ring.  `SEM_VALUE_MAX` is 2, so the limit is reached.  Two ports and two
buffers make the ports compete for the cache and run out of memory, and a long
message bypasses the cache.  Two buffers for three blocks force eviction, and
blocks 0 and 2 are two segments of one flush list; `MaxRetries` is 2 instead of
10, enough to retry and to give up.  Three threads and two files give the inode
map a loader, a waiter and somebody who releases.  In the family, the
parent waits for every change of its child, both threads of the child wait for
any child, and the grandchild is orphaned when the child dies first.  `Signalled`
is the child, the one process with both a parent that watches it and children;
two signals stop and continue it, or stop and kill it.  One of its threads calls
`exit`, the other can be cancelled at any point; every spawn may fail.

**Deadlock** is checked for the mutex, the semaphore, the condition variable and
the scheduler.  Elsewhere the system may stop: a failed `pipe()`, receivers
without a deadline and without senders, waiters after a failed flush, the end of
the last process.

**Fairness.**  Weak fairness of `SelectThread` and `SysTick`: a pending exception
is taken and the 1 ms timer runs.  Weak fairness of a runnable thread's next
step in the modules without a scheduler: round robin within a level
(`scheduler_liveness` shows it; a thread of a lower level may starve, by design, so
the property is stated for one level).  Strong fairness of kernel code in
`Scheduler`, because it executes only while it is current: a thread that has the
processor for a tick again and again finishes a short call.  Clients give a mutex
back, which is a rule for clients and not a promise of the kernel; the mutex of
the PID map is held for short sections only.  Taking a mutex is *not* fair
(wake-ups hand over nothing), so `NotifiedReturns` excludes the case that others
take it again and again.  For message ports: weak fairness of a notified or expired
caller and of the destructor.

## 4. Proofs

The theorems hold for every value of the constants that satisfies the `ASSUME`s of
the component's module (TLC evaluates those in its runs): any finite set of
threads, any clock bound, any capacity.  Each proof module states an inductive
invariant `IInv` as a conjunction of named parts; TLC also finds it true on the
instance of the component's run (except the sequences of `ListInv` in
`KMessagePort_proofs`, which it cannot enumerate; in `KProcess_proofs`, in every state
in which the kernel has not panicked).  There is one lemma per
action or group of actions that have the same effect, then `NextIInv`
(`IInv /\ [Next]_vars => IInv'`), `Inductive` (`Spec => []IInv`), and the theorems,
which are what a run checks unless said otherwise.  Two modules have the proofs
of two components each; what both components would name alike has a prefix in the
second (`SemSpec`, `VFSSpec`, ...), whose invariant is called `CreditInv` or
`InodeInv` instead of `IInv`.

| Module | Theorems |
|---|---|
| `KMutex_proofs` | `TypeCorrect`, `MutualExclusion`, `LostWakeupFree`, `NodeLifetime`, `NoOversleep` (proved only), `Refinement` of `RWLock` |
| `KMutex_proofs`, of the semaphore | `SemaphoreTyped`, `NoLostCredit` |
| `KConditionVariable_proofs` | `AlwaysFindable`, `CancelIsNoticed`, `ReturnsWhyItWoke` |
| `Scheduler_proofs` | `TypeCorrect`, `ExactReadyLists`, `ExactSleepList`, `InitHearsOfTheDead`, `ReapingIsSafe`, `JoinersAreWoken` |
| `KPipe_proofs` | `TypeCorrect`, `NobodyWaitsInVain`, `MappedWhileOpen`, `FirstInFirstOut`, `ShortWritesAreAtomic` |
| `KMessagePort_proofs` | `NobodyWaitsInVain`, `NoBufferLost`, `Refinement` of `BoundedChannel` |
| `KBlockCache_proofs` | `BlocksCachedOnce`, `UnsavedStaysDirty`, `SleepersHaveWakers` |
| `KProcess_proofs` | `FamilyTreeHolds`, `WaiterSeesExitHolds`, `DeathIsFinal` |
| `KBlockCache_proofs`, of the inode map | `OneInode`, `PendingOwned`, `NothingReleased` (proved only) |

**Lists** (`WaitQueue_proofs`).  A list is a sequence in which nobody occurs twice
(`OneNodeEach`); the lemmas say what linking, unlinking (`Detatch`), popping and
concatenating do to the set of those who are linked.  What a recursive
definition computes is shown without induction: `LeastNumber` gives the first
length, or the first place, at which it would go wrong, and that one cannot be.
`Those` (what is left of a list when some are taken out, in the scheduler, the
block cache and the processes) and `Chain` of the message ports are dealt with like
this.

**KMutex.**  Assumptions: `Threads` is finite and does not contain `NoThread`,
`Recurse` is a Boolean, `MaxDepth` is positive, `MaxTime` is a natural number.  The
counter is exact only if a thread that is in the middle of a call is still
entitled to what it asked for (`CallInv`: it got no shared hold and did not exceed
its nesting meanwhile), or else the resuming section could grant twice.  That no
sleeper is beside a free mutex needs the node of every sleeper to be in the queue,
which is where `Unlock` looks; that nodes do not dangle needs that only blocked
calls own nodes.  The tick finds only nodes of timed calls (`SleepersTimed`), and
the requests are typed (`TypeInv`, which leaves the range of the counter open: the
range is a consequence of the counter's meaning and not inductive by itself).
The refinement has one lemma for each kind of grant: `CanLock` plus the meaning of
the counter gives the guard of `Grant`; every other step leaves the holds alone.

**KSemaphore.**  Assumptions: those on threads and time, and `InitialCount` within
`SEM_VALUE_MAX`.  `CreditsCovered` compares the count with the number of threads
that are awake inside a call.  `Release` wakes as many of the queue as there are
then credits, or everybody (a counting argument on the popped nodes, which needs
`NodeInv`: whoever sleeps is linked, once, and whoever is linked is inside its call);
a thread that returns with a credit lowers count and number alike; and a thread
that goes to sleep or gives up does so beside a count of 0.

**KConditionVariable.**  The mutex is used through its own actions, so `IInv`
contains an invariant of it (`LockInv`: exclusive, not nested, untimed, and its
counter tells who holds it).  `NodeInv` ties the wait node to the history variable
`notified`, which is what makes the result right; `WaitInv` says at which points of
a wait the caller has the mutex; `SleepInv` says where a thread that does not run
can be found.  `ReturnsWhyItWoke` is an action property, proved from `IInv` for every
step.

**Scheduler.**  Assumptions: idle, init and main are three different threads of a
finite set, and every thread starts at an existing level.  `ReadyInv`: nobody is in
a ready list twice or in two of them, and those who are in one are the ready
threads.  It needs no relation between the level of a thread and its list, which
is as well: `kthread_set_priority_trw` changes the level and leaves the list alone.
`RunInv` keeps the idle thread ready or running, so that a switch away from a
thread that cannot go on finds a successor.  `SleepInv` is `SleepListExact` plus "no
node twice", without which unlinking one node would leave the other.  `TargetInv`
and `JoinInv` follow a join through its four sections: the child has one joiner, is
neither detached nor deleted, is a zombie that is not current once the joiner has
seen it dead, and a joiner that waits is linked where the death is announced.
`ReapInv` and `ZombieInv` say who may still reap a thread: a zombie in one of the
lists of init is detached, not current, not cleaned up yet, and in one of them
only.  The longest step is `SelectThread`: the switch itself (`SwitchedIs`), whom a
death wakes (`AnnouncedIs`), and both together.

**KPipe.**  Assumptions: the ends are finitely many and the ring has a positive
size; that the size is a power of two is not used, because the model computes
remainders.  `RingInv` places the write position where the contents end; `CountInv`
counts the open ends; `CallInv` has what a call in progress may still do, in
particular that a short write has written nothing while it waits.  For
`FirstInFirstOut` the contents of the ring before and after a step are compared
position by position, with and without wrap-around.

**KMessagePort.**  Assumptions: positive capacities, a cache limit, distinct kinds
of objects; the sets need not be finite.  The lists are pointers in the model as in
the code.  `ListInv` says that *there are* sequences of buffers, one per port and
one for the cache, which the links describe, which have the counted lengths and
which share nothing with each other or with the heap.  `TakeStep`, `PutStep`,
`AllocStep` and `FreeStep` say what one operation on the links does to these
sequences.  `Chain`, by which the properties read a list, yields them
(`ChainIs`); so no buffer is lost, and the texts of a port's buffers are the
contents of the channel it implements (`Refinement`).

**KBlockCache.**  Assumptions: finitely many threads and headers, positive limits,
and `OneDevice`, a hypothesis of the theorems: with two devices `MapInv` is false,
which is finding 1 (the entry of an evicted block stays in the map of its device).
The code with one device is the case in which the map can be right, and everything
else is proved for it: any number of blocks, buffers and users.  `ListInv` and
`MapInv`: a header is in one of the two lists, once, and the map and the headers of
the MRU list are inverse to each other.  `UserInv`: a descriptor leads to a header
of that list that still has the block its owner asked for; it is kept because
eviction takes only headers whose use count is 0, and `CountInv` says that the count
is the number of descriptors.  `FlushInv` is about what the flusher remembers across
its writes without the mutex: whatever of its list it has not written yet is still
dirty and marked, so nobody has evicted it.  `SaveInv` is why no write is forgotten: while
a segment is being written, a block of it that changed has `DIRTY_PENDING`, or a user
is about to set it, and that is what keeps it dirty when the segment is done.  The
third theorem needs all of this: a sleeper is woken by the last user of a block, who
drops it, or by the flusher, which has dirty blocks left to write or is about to end
a round.

**KProcess.**  Assumptions: finitely many processes and threads, every process with
a main thread of its own; what the processes spawn and wait for is arbitrary.
`ThreadInv` ties the state of a thread to its place in a call (a thread that looks
at its children has the mutex, one that waits is linked), `QueueInv` is about the
wait nodes, `ProcInv` about what exists before the start and after the death of a
process.  `TreeInv` says that the lists of children are the inverse of the parents,
and that every parent is the kernel process or alive; exits keep it because the
orphans are appended to the list of the kernel process one by one
(`OrphansInherited`), reaping because what is taken out of the list is a zombie,
which has no children left.  `WaiterSeesExit` is not inductive: between the look at the
children and the sleep the mutex is held, but a thread that has been woken and is
on its way to look may find somebody else's child.  `ExitInv` therefore counts, not
only the threads that sleep but also those that are about to (`Sleepers`): while
there is one, the zombies are at most as many as the threads that were woken and
have not looked yet.  Every exit adds one to both (`ExitSeen`), every look that finds
a zombie takes one from both (`ReapKeeps`), and a look that finds none shows that
there is none (`LookMisses`).  `FoundInv` carries this over the step between
look and report: what was found is still a child, and still dead, or alive.
`DeadInv` and `SenderInv` are behind `DeathIsFinal`: the last thread of a process needs
the mutex to leave, so a `kill` that has it and has read the status of a process
writes to one that lives, or has seen the status of one that was dead already; all
other writers are threads of the process itself (`WriterLives`).  A spawn that
fails ends the invariant, because the tree is broken; `Panicked` says what is left,
and `Inductive` is `Spec => [](IInv \/ Panicked)`.

**KVFSManager.**  Assumptions: finitely many threads.  `ReferenceInv` bounds the count
from both sides: it is at least the number of holders whose reference is counted,
and exceeds that of the users by what was leaked, at most one reference per
thread.  The upper bound, and `NeverReleased`, rest on finding 3: once the
destructor's reference is there it is never given back.  `NothingReleased` is that
finding for any number of threads and files: no inode becomes unused or gets
released, so the discarding half of the module never runs.  The theorems hold of
a kernel that has panicked as well: the kassert comes before anything changes.

Every invariant and every action property that a passing run checks is the subject
of a theorem.  *Checked by TLC only:* liveness under fairness, which is out of the
prover's reach, and the two runs that show a violation.

## 5. Findings

1. `KBlockCache::GetBlock_trw` removes an evicted block from the `m_BlockMap` of the
   cache that needs the buffer, by number alone (`KBlockCache.cpp:263`).  If the
   block belongs to another device, the map of that device still leads to the
   buffer, which now holds something else, and a block of the same number of the
   evicting device drops out of its own map.  `KBlockCacheDiagnostics.cpp:117`
   asserts the opposite of every block that is flushed.  Run `block_cache_devices`.
2. `KVFSManager::GetInode_trw` takes an inode with a reference count of 0 for an unused
   one, and asserts that it is on the list of those (`KVFSManager.cpp:424`).  But
   `PtrTarget::ReleasePtrRef` drops the count to 0 without the mutex of the map, and
   `HandleLastRefGone` raises it again later (`PtrTarget.cpp:190`).  A thread that opens
   the file in between, while another closes the last handle, stops the kernel.
   Run `inode_panic`.
3. `KVFSManager::InodeReleased` acts on an inode only if its reference count is 0
   (`KVFSManager.cpp:483`), but `PtrTarget::HandleLastRefGone` has incremented the count
   before, and nothing decrements it.  Inodes of the map are therefore never cached
   as unused, discarded or released, and the clusters of an unlinked FAT file are
   not freed when its last handle is closed, as the comment at
   `FATFilesystem.cpp:1556` says they are.  Theorem `NothingReleased`.

Met on the way, and kept in the models as the code has them:

* `KPipeInode::AddListener` looks at the buffer alone (`KPipeFilesystem.cpp:78`): it
  queues a reader of an empty pipe without writers, which would not block, and
  tells a writer of a full pipe that it would not; the contract in
  `KWaitableObject.h:38` is the reverse in both cases.
* The flusher marks blocks clean also after a failed write (`KBlockCache.cpp:593`), and
  then may notify nobody: `UnsavedIsDirty` and `SleeperHasWaker` except this case.
* The comment "Signals to 'init' will only wake it up" (`KPosixSignals.cpp:140`) is
  about code that is not reached, because init is a kernel thread and signals to
  it are refused (line 127).  Init may sleep beside a zombie child.
* A spawn that fails in the constructor of `KThreadCB` (`KThreadCB.cpp:147`, `332`)
  leaves the new process in `m_Children` of its parent (`KProcess.cpp:140`): the scope
  guard erases the PID node only (`KThread.cpp:188`), and the destructor of the process
  fails the kassert at `KProcess.cpp:152`.  `FamilyTree` states this exception.
* While a process lives its exit status can be lost.  A stop, a continue or an exit
  that read the status before a thread took SIGKILL overwrites KILLED
  (`KProcess.cpp:450`, `453`), and a `waitid` that found the process stopped resets it
  (`583`, after the test at `620`).  The process is then reported as stopped or as
  exited, or its last thread finds no status, the `kensure` at `KProcess.cpp:766` fails,
  and CLD_KILLED is put in.  `DeadKeepsStatus` is what remains true.
* `WaitGID` has no test of `si_code` at all (`KProcess.cpp:681`) where `WaitPID` has one;
  with `WUNTRACED` it resets the status of a process that was killed while stopped
  without any race.
* `SIGSTOP` is not refused for a zombie: it makes it "Stopping", and it can no longer
  be reaped (`KProcess.cpp:256`).

## 6. Not modelled

The components with status `not_modelled` in `PROJECT.json`, each with its reason:
hardware drivers and the HAL (registers), the FAT file system (on-disk
structures, a project of its own), the GUI (drawing and layout), the system call
layer (argument checks), vendored code.  Inside the modelled components: signal
masks, handlers and queued signals, process groups and sessions, volumes and
unmounting, path lookup, `SetDevice` and the diagnostics build of the block cache,
stack checks, run time accounting, the conversion between clocks,
`kthread_cancel` by a program and disabled cancellation in `KProcess`, and assertion
failures that the clients' rules exclude.  Object wait groups occur as
the listener of a pipe or a port only.

## 7. Plan

Done: mutex, semaphore, condition variable over the mutex, scheduler and thread
life cycle, pipes, message ports with their refinement, the inode map, the block
cache, and processes with stop, continue and kill, all with proofs of their safety.
Next:

1. `KObjectWaitGroup`: `Wait` against objects that become ready, timeouts and
   `AddObject`/`RemoveObject`.  The question is whether adding and removing can be
   locked out while the group waits (`KObjectWaitGroup.cpp:262`).
2. Unmounting against the inode map, file handle tables, ptys, logging, the event
   loop of the threads library.
