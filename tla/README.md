# FTL OS in TLA+

FTL OS is a RISC-V multicore kernel in Rust. Every user thread is a stackless coroutine; each hart
runs an executor that polls runnable tasks, and everything a thread can wait for (a lock, a child, a
pipe, a futex, a signal, a timer) is a future with a waker. The hard part of the kernel is therefore
the code between "I looked and there was nothing" and "I sleep", on several harts at once, with
nodes of intrusive lists that live on the stack of whoever waits.

This directory models that part in TLA+, together with the memory and disk structures that tasks
share, checks small instances with TLC and proves the main invariants with TLAPS for instances of
every size. Paths below are relative to `src/code/`; `PROJECT.json` maps every definition to the lines it stands for.

## The system and its parts

| Part | State | Operations | Hard behaviour |
|---|---|---|---|
| RCU (`ftl-util/src/rcu`, `kernel/src/memory/rcu.rs`) | a flags word with a current and a pending bit per hart, two queues of dropped values, a batch per hart | critical_start, critical_end with its CAS loop, rcu_drop, the release of a queue | two harts leave at once; values dropped while a cycle switches over |
| Spin locks (`ftl-util/src/sync`, `kernel/src/sync`, `kernel/src/hart/interrupt.rs`) | ticket, queue, sequence and reader-writer words, interrupt flags | lock, try_lock, unlock, read | atomics between harts, handlers on top of threads |
| Sleeping locks (`ftl-util/src/sync/{sleep_mutex,rw_sleep_mutex,semaphore}.rs`) | status, queue of nodes, grant flag and waker in each node | lock, try_lock, poll, guard drop; permits split and change | hand-over after the spin lock is dropped, node life time, starvation |
| Hart locals, mailbox, executor (`kernel/src/{local,executor,main.rs}`) | the environment of the running task, mail per hart, the task queue, sleep flags | switch, guards, register and handle, spawn, run, sleep, wake | a task moves with its guards to another hart; a hart goes to sleep as a task arrives |
| Timers (`kernel/src/timer`, `ftl-util/src/container/max_heap.rs`) | a heap with a tracer for every element | push, remove from the middle, tick, cancellation | a timer is cancelled as it fires |
| Signals (`kernel/src/signal`, `syscall/signal.rs`) | pending sets of thread and process, mailboxes, masks, actions | send, mask, deliver, return, clone, execve | which thread takes a process signal; mask changes while pending |
| Processes (`kernel/src/process`, `syscall/process.rs`) | children (alive, zombie, pending), parent, event bus | fork, exit, wait4, inheritance by initproc | parent and child exit together, notification before inheritance |
| Event bus (`kernel/src/sync/even_bus.rs`, `ftl-util/src/list`) | events, summary of the masks, list of nodes | set, clear, register, poll, cancel, close | node woken, marked and unlinked store by store while its thread frees it |
| Futex (`kernel/src/futex`, `syscall/futex.rs`) | an object per address with a queue, a view word in each node | wait, wake, requeue, timeout, munmap | a node moves between queues while its owner times out |
| Pipe (`kernel/src/fs/pipe.rs`) | ring, two indices, two ends with lock and waker | read, write, fast calls, close | concurrent copy, last chunk and end of file, sleep and wake |
| Memory (`kernel/src/memory`) | page tables, shared counters, free frames, fault predictor | page fault, fork and its roll back, unmap, protection changes | the last sharer of a page, fork that runs out of frames |
| Lock-free containers (`kernel/src/tools/container/lockfree`) | marked pointers | push, pop, take, append | nodes freed and reused under a reader |
| FAT32 (`fat32/src/{block,fat_list,inode}`) | cached clusters, dirty sets, permits, allocation table, fsinfo | read, write, allocate, free, write back | eviction and write-back against use, order of writes |
| VFS, descriptors, tables of identifiers, page-table walk | | | not modelled, see below |
| Drivers, boot, traps, console, ELF | device registers, assembly | | pure I/O |

How they interact: the sleeping locks, pipes, futexes, wait4 and the event bus all rest on the
executor's wake contract (waking a running task makes it run once more; waking a sleeping one makes it
runnable), which `Executor` checks against the task queue and sleeping harts. wait4, pipe reads and sleeps join their future with the event
bus. Futex objects and many tables are reclaimed by RCU, whose critical section spans each poll of a
task. FAT32 bounds its dirty blocks and units with the semaphore and takes the sleep mutex around its managers.

## Modules

| Module | Models | State and actions |
|---|---|---|
| `Rcu` | RCU manager, local manager, readers and droppers | `flags`, `rcu_current`, `rcu_pending`, per-hart `pending`, `pending_rec`, `critical`; one action per atomic access: `critical_start`, `rcu_drop`, `load_flags`, `cas_flags`, `append_pending`, `swap_queues`, `unlock_flags`, `release_one`... |
| `QSpinLock`, `TickLock`, `SeqMutex`, `RwSpinMutex`, `SpinNoIrq` | the five spinning locks | the words of each; every atomic access is an action. `SpinNoIrq` adds the interrupt flag of each hart and a handler that runs on top of its thread. `SpinSizes` holds the constants two of them share |
| `FifoLock` | abstract: what a fair sleeping lock promises | owner and line of waiters |
| `SleepMutex`, `RwSleepMutex`, `Semaphore` | the sleeping locks | `status` or permits, queues, per-task `granted`, `next`; lock, try, poll, drops, and the hand-over in its steps |
| `HartEnv` | `AlwaysLocal`, the task switch, `AutoSie`, `AutoSum`, `NativeAutoSie` | counters of each environment, the SIE and SUM bits of each hart; the switch in its five steps |
| `Mailbox` | mail between harts with `USING_ASID` false | stale translations of each hart, mailboxes; registering one hart at a time |
| `Executor` | task queue, idle loop of `kmain`, sleep flags and `SLEEP_COUNT` | the scheduling state of each task (external), where a hart is in its loop |
| `MaxHeap`, `TraceHeap`, `Timers` | the heap with tracers, as recursive operators; its calls; the sleep queue with timeouts | the vector and the tracers; ticks, polls, cancellation |
| `Signals` | `SignalManager`s of thread and process, `RTQueue`, actions, delivery | mailbox, pending sets, masks and where each thread is; send, fetch, handle, sigreturn, sigprocmask, sigaction, clone, execve, death of a thread |
| `ProcessTree` | `ChildrenSet`, `exit_impl`, `become_zomble`, `throw_children`, `sys_wait4` | life, parent, children of every process, its quit event; fork, exit and wait in their steps. `ProcessShape` holds its constants: which thread (`Tids`) is of which process |
| `EventBus` | `EventBus`, `EventBusFuture`, `pop_when_race` | events, summary, list, lock; setter's walk (`keep`, `mark`, `wake`, `unlink`, `store_next`, `finish`), waiter's `register`, `poll`, `remove`, `cancel`, `exit` |
| `Futex` | `Futex`, `FutexQueue`, `TempQueue`, `ViewFutex`, `futex_wait`, `futex_wake`, `futex_requeue`, munmap | objects by address and generation, queues, locks, `view` of each waiter; the callers' scan one node at a time, the leaving waiter's double-checked lock |
| `Pipe` | `Pipe`, `PipeReader`, `PipeWriter`, their futures | ring, indices, sleep lock and waker slot of each end; copy, index store, upgrade and wake as separate steps; fast calls; close |
| `CopyOnWrite` | `MapSegment` for private anonymous pages, `SCManager`, `SharedCounter`, the predictor | page tables, counters, free frames and contents; a call is a list of steps that interleaves with the calls of other processes |
| `LockfreeQueue`, `LockfreeStack` | the containers with marked pointers | head, tail, next pointers with their identifiers, the heap of freed nodes |
| `BlockCache`, `FatList` | the cluster cache and the allocation table with their sync tasks | cached, clean and dirty blocks, permits, index, device content; the table, the count of free clusters, fsinfo, dirty units |
| `HartProofs`, `RcuExecutorProofs`, `QueueLockProofs`, `RwLockProofs`, `ProcessTreeInv`, `ProcessTreeProofs`, `EventSpinProofs`, `PipeProofs` | theorems | |
| `MC*` | instances for the configurations | |

Conventions. A body under a spin lock is one step unless another party reads what it writes without
the lock; then each store is a step (event bus, futex, RCU, the hand-over of the sleeping locks).
Memory is sequentially consistent: the orderings in the source (Acquire/Release and fences, and
Relaxed accesses made under a lock) are taken to be sufficient, and reorderings of Relaxed accesses
outside locks are not explored. A task is at `poll`, `park` or `parked`, with a flag `notified`: a wake of a
running task sets the flag and parking with the flag set runs the task again. This is the contract
of the `async-task` crate, which is not part of `src/`, and is marked external.

## Runs

A run whose module composes several parts that share nothing (`MCHarts`, `MCLocks`, `MCEvents` with
`MCProcesses`, `MCQueues` with `MCDisk`) fixes one of them in its initial state (`which`); the others stay at rest. Passing runs:

| Run | Part and instance | Shows |
|---|---|---|
| `rcu` | RCU: 3 harts, 1 value | `RcuSafe`: one hart at a time releases; every dropped value is in one place or released once; the grace period of values that were queued before a cycle started |
| | queued lock, sequence lock: 3 harts, 2 writes; `SpinNoIrq`: 2 harts with a handler each, 2 locks | `SpinLocksSafe`: one guard, no store to a node whose owner left, reads are one write's data and not older than the call, no handler meets a lock of the thread it interrupted |
| | environments: 2 harts, 2 tasks, guards nested twice | `HartEnvSafe`: a hart that can be interrupted is in one whole environment, and its bits are those the running task's guards ask for |
| | mailbox: 2 harts, 2 pages | `MailboxSafe`: what may be stale has its flush under way; a mailbox nobody reads stays bounded |
| | timer heap: up to 6 elements, 2 keys | `HeapExact`: tracers show the places, nothing is lost, the smallest is first, parents are not larger |
| | copy on write: 3 processes, 3 frames, one page and 3 calls or two pages and 2 calls | `CowSafe`: no process sees another's stores; counters and free frames agree with the page tables |
| | signals: 2 threads, 2 sends and 1 call, with SIGKILL, a standard and a real-time signal, or with two real-time ones of which one waits, blocked, in a queue that `RTQueue::fetch` walks 2 steps deep | `SignalsSafe`: after a pass that found nothing to take, the test before user mode misses nothing; SIGKILL stays for the other threads; a handler's signal is blocked, and handlers and sigreturn do not block SIGKILL. `SignalsKept`: no step loses a signal, and of the real-time signals a thread does not block it takes the oldest |
| `locks` | mutex and reader-writer mutex: 3 tasks; semaphore: 2 tasks, 2 permits, `change` by one | `SleepMutexSafe`, `ImplementsFifoLock`, `RwSleepMutexSafe`, `SemaphoreSafe`: exclusion, no touch of a dead node, exact counts, no needless wait, conserved permits and none idle beside a waiter it would serve |
| | ticket and reader-writer spin lock: 3 harts, `Width` and `IMax` 4 | `SpinCountersSafe`: the guard goes in the order of tickets also across the wrap; the word counts readers and writer exactly |
| | allocation table: 2 files, 4 clusters in 2 units, 3 calls, 1 failing access | `FatListSafe`: chains end and meet neither free clusters nor each other, the count and the permits are exact |
| | all of them | `EveryoneServed`: nobody who waits starves |
| `event_bus` | event bus: 2 threads, 1 other task, 2 events | `NodesSafe`, `EventsKept`: a woken node exists, a late store never lands in a node in use, the summary covers the masks, no event is lost, a closed bus is quiet |
| | executor: 2 harts, 2 tasks | `ExecutorSafe`: `SLEEP_COUNT` follows the flags, a scheduled task is in one place |
| | processes: initproc and 3 processes of one thread, forked in one order since their names are interchangeable (`ForkedInOrder`) | `ChildrenSafe`, `NoSleepBesideZombie`: a process is in one set of one parent, zombies are dead, nobody sleeps beside a zombie it waits for |
| | timers: 2 tasks, 1 hart, time up to 2 | `TimersSafe`: a parked task's timer is queued, no entry outlives its tracer |
| | all of them | `EveryoneWoken`: a thread asleep while its event is set runs again, a woken task is polled also when every hart sleeps, every orphan is reaped, every wait with a deadline ends |
| `futex` | futexes: 2 waiters, 2 callers, 2 addresses, requeue in one direction; with deadlines and failing transfers, with munmap and a second object per address, or with one waiter that meets a store | `ListsExact`, `NoWaitCircle`, `NoSleeperLost`: a node is in the list its view names, nobody waits in a circle, closed queues are empty, nobody sleeps after store and wake |
| | lock-free queue: 2 threads, 3 pushes, 3 pops, new or after two pushes and pops; stack: 6 operations; freed nodes are reused | `LockfreeExact`: the chain is what was pushed and not popped, in order, until a push loses its element, and only one that read the tail before it had moved twice does (run `lockfree_queue`); every node of the stack has one owner, until `replace` panics or an `appand` finds the stack closed after it has linked its list |
| | cluster cache: 2 tasks, 3 calls on 2 clusters, or 2 calls on 3 with one freed | `BlockCacheExact`, `BlockCacheKept`: one block for a cluster, exact permits, no store is lost while the device serves a cluster in order |
| `pipe` | 1 reader, 2 writers, ring of 2 pages of 2 bytes | `BytesInOrder`, `NoSleepBesideRoom`, `SleeperWoken`: bytes arrive once and in order, nobody sleeps beside room, data or a closed peer, and such a sleeper is scheduled again |

Each of them also checks the type invariants of its parts.

Runs that show a disagreement between the code and what it says of itself; the quoted lines are under
`findings` in `PROJECT.json`:

| Run | What happens |
|---|---|
| `rcu_readers` | a value queued between the CAS and the swap of the queues is released one grace period early, while a reader holds it |
| `process_tree_threads` | two threads of one process in wait4: one clears the event meant for the other, which sleeps beside its zombie |
| `futex_cross` | requeues in both directions: a waiter spins inside the lock its mover needs |
| `futex_transfer` | a requeue whose second address cannot be accessed leaves waiters asleep in no queue |
| `pipe_fast` | the second test of `read_fast` looks at the wrong quantity |
| `pipe_eof` | end of file is reported with bytes in the ring |
| `lockfree_queue` | in a new queue a push that stalls before its compare_exchange links its element to a node that has been popped and freed: the identifiers that exclude this are still 0 |

### Bounds and why they are enough

* Three harts for RCU: one that releases, one whose section is in the current half and one in the
  pending half. One value meets all of them; the theorem covers more.
* Three harts for the queued lock: a holder, the pending one and one in the queue; for the sequence lock a writer and two readers.
* Three tasks for the mutexes: a holder, the waiter it hands over to and a newcomer. Two tasks are enough for the
  semaphore because a task that has split off a guard may ask again: then it holds a permit and waits, and the
  queue has two nodes. Requests of one and two of two permits make a request wait beside permits it cannot
  use; `MaxPermits` bounds `change`.
* `IMax` and `Width` are small stand-ins for `isize::MAX` and 2^32 in the counting locks: tickets wrap, readers do not reach the writer's mark.
* Four processes: a grandparent, a parent and two children exit in any order, and initproc inherits.
* Signals: `DIRECT_FETCH` is 2 instead of 8, so that two blocked signals in front of a free one reach `bit_fold`.
* The queue's identifiers have their real width: no run reaches the wrap after 2^24 moves. Three pushes and three pops lose an element in a new queue; in one that has been used
  twice (`Used`) they reuse each box and do not.
* Heaps of six elements have three levels and a last parent with one child.
* Three processes with three frames for copy on write: a page shared by all, by two, by one, and a fork that finds no frame.
* The pipe's `PAGE_SIZE` and `RING_PAGE` are 2: chunks end at a page, calls of two bytes cross it, the
  two writers together send up to five bytes, so the ring (three bytes) fills and the indices wrap. `MaxBytes` stops
  new writes; a call in progress ends.
* `MaxGen` bounds the objects of an address in `Futex`: with two, an object is replaced once under its users.
* The cache of clusters holds fewer than are used, so that blocks are evicted, and one permit fewer than blocks, so that tasks wait for the sync task.
* Symmetry is used in the runs without liveness only (`rcu`, `futex` and three of the violation runs), over sets whose members the
  specification treats alike. Liveness of one `watched` task or hart stands for all, which are interchangeable.

### Fairness

Weak fairness of each task's own steps (`Proceed`, `Step`, `BusStep`, `WaitStep`, `GoesOn`, `TaskStep`): the executor is a FIFO queue, so a
scheduled task runs, and a guard is dropped in the end. In `ProcessTree` initproc calls wait4 again and again, which is
what the init program does. In `Timers` the clock advances and harts take their ticks. In `Executor` a hart's own steps are weakly fair and the end of a poll strongly,
since a hart polls tasks that return. New calls, stores, timeouts, signals, spurious wakes
and cancellations have no fairness. A step that needs a spin lock is weakly fair too: it is taken only when
the lock stays free, which suffices because everything the liveness properties need happens after finitely many
critical sections. Deadlock is checked in every passing run.

## Proofs

Every theorem holds for every value of the constants, within the assumptions named here, and uses no fairness: where `Spec` states some (`Executor`,
`RwSpinMutex`) the proofs use `Init /\ [][Next]_vars` alone.
The general shape: an inductive invariant `IInv` with `Init => IInv`, `IInv /\ [Next]_vars => IInv'` and
`IInv => Inv`, one lemma or step per action, and a last temporal step. The inductive invariants were checked by TLC on
the instances above before they were proved, but for those of `QSpinLock`, `RwSpinMutex` and `SpinNoIrq`. A module that holds proofs about several components extends the first and declares
instances of the others, with variables of their own (`SL`, `ML`, `EX`, `QS`, `RW`, `NI`).

| Module | Theorems | Assumes |
|---|---|---|
| `RcuExecutorProofs` | `TypeCorrect`, `ReleaseIsExclusive`, `NoLeakNoDoubleRelease`, `GracePeriodHolds`, `RcuIsSafe`; `ExecutorIsSafe` of the executor | at most 32 harts, as the word has bits for; finitely many harts, and no task is `NoTask` (`ExecConstants`) |
| `QueueLockProofs` | `OneHolder`, `PoppedNodesAlive`, `SleepMutexIsSafe`, `RefinesFifoLock`; `QSpinIsSafe` of the queued spin lock | nothing; no hart is the empty tail (`QConstants`) |
| `RwLockProofs` | `RwSleepMutexIsSafe`; `RwTypesAreKept`; `RwSpinIsSafe` of the reader-writer spin lock | nothing; finitely many tasks (the type bounds the readers by their number); fewer harts than `IMax` (`RwConstants`) |
| `HartProofs` | `InterruptsAreSafe`, `BitsAreTheTasks`, `HartEnvIsSafe`; `ReadsAreAtomic`, `WritersExclude` of the sequence lock; `MailboxIsSafe` of the mailboxes | environments of harts and tasks are different objects; nothing; a page is no other kind of mail and `MAX_SPEC_SFENCE` is a number (`MailConstants`) |
| `ProcessTreeInv`, `ProcessTreeProofs` | `ChildrenAreSafe`; `NoQuitIsMissed` | the shape of a process (`ShapeOK`); one thread to a process |
| `EventSpinProofs` | `NodesAreSafe`, `EventsAreKept`, `BusTypesAreKept`; `SpinNoIrqIsSafe` of the lock that switches interrupts off | threads, other notifiers and "nobody" are different (`BusAssumption`); `NLocks` is a natural number (`NoIrqConstants`) |
| `PipeProofs` | `PipeTypesAreKept`, `BytesAreInOrder`; `NoSleepBesideRoomHolds` | pages, rings and buffers that are not empty (`PipeAssumption`); finitely many readers and writers (`Weak::strong_count` counts them) |

**RCU.** The invariant is `LockHeld` (while a hart is between its winning CAS and its unlocking store, nobody else
changes the halves), `SectionsFlagged` (a hart that may hold references has its bit in one of the halves),
`ExactlyOnce` (linked, queued and released partition the values) and `GraceInv`: at each point of `critical_end`, what
is known of the readers of the values on their way to their destructor. `GracePeriod` alone is not inductive: that a
released value has no reader follows from what was true of the queue it came from when the halves were switched.
The history variable `late` sets apart the values of the finding `rcu_readers`; the theorem is about the others.

**Sleep mutex.** Queued nodes belong to waiting tasks with a waker, there is at most one hand-over and one owner,
counting a task that has been popped but not yet told, and `status` is exactly "there is an owner". With it every step
of `SleepMutex` maps to a step of `FifoLock` or a stutter.

**Queued spin lock.** The queue is nowhere in the state: there are nodes with links, some of them not made yet, and the tail. The invariant `Line(q)`
says that some sequence `q` of harts, without repetition, is the queue: `tail` is its last, each hart waits behind the one before it, linked or
about to link, and the first is the only one that has been told it is. A swap of the tail appends to `q`, a hand-over takes its head, and
`CasLast` can empty the queue only when its first is its last. `WordInv` gives each byte of the word its owner; a head that saw the bytes
clear is not overtaken, since the tail keeps the other two ways closed.

**Reader-writer sleep mutex.** Owners are the holders, the granted waiters and the targets of hand-overs. `QueueInv`: each queue is
injective and holds waiting tasks of its mode. `NodeInv`: a hand-over has a target of its own which has left the queue.
`OwnInv`: the status is `Unique` with one writer, or the exact number of readers. The exactness of the count needs the
cardinality of the owners after a release that grants a whole queue at once, hence the injectivity of the queues.

**Reader-writer spin lock.** `RwExclusion` and `WordExact` need each other: a hart acts on the sign of the word, and the sign tells whether there is a
writer because all harts together are fewer than `IMax`. `SeenInv`: the value a `try_shared_lock` is about to exchange showed no writer.

**Spin lock without interrupts.** `Fine` says where the interrupt flag of a hart is: in the hart while no guard is alive, in the lowest guard while one
is, or in the call that makes or drops it. Nested guards kept a flag that was off already, so only the lowest one switches interrupts on again. An
interrupt therefore finds no guard, and all guards alive on a hart belong to the context that runs. `LockInv`: a lock is taken exactly when one hart has
a guard of it. That locks are taken in order makes the guard unique on its hart.

**Environments.** `Owned`: no environment is in use, or about to be, on two harts, so its counters change only on the
hart whose bits they describe. `Bits`: at every step of a switch the bits are those of the old environment, of the new
one, or closed.

**Sequence lock.** `Writer`, `Words`, `Reader` relate the number a reader took to what each word can hold: a copy made under an even number
that has not changed is of that write.

**Mailboxes.** `FlushPending` is almost inductive: a hart that is stale has a mail that covers it, in the shared or in its own mailbox, or
somebody is still to register it. Posting never takes away what a box covers, also when a long list of pages is given up for a flush of everything; a
swap keeps the two boxes together. `Short` bounds both boxes alike, because they change places.

**Executor.** `SleepCountExact` is kept as a balance: each step moves one hart between the places that are counted, and the lemma `Balance` adds up its
shares. `TaskHeldOnce` counts, so the invariant says instead that the queue has no repetition and that being pushed, queued and polled exclude
each other; the counts follow.

**Processes.** `ThreadInv` says what the place of a thread says about its process (an exit is the work of the one thread left);
`ListInv` where each child is: with its parent, with initproc if its parent is gone, or in the hands of an exiting
thread (`taken`), in exactly one of them, and that an early report (`pending`) is about a child in such hands. `OneHome`
counts homes and is derived from it. `NoQuitIsMissed` adds `WakeInv`: beside a zombie it waits for, a thread past its check of the children
has the event set or somebody is about to set it, and a sleeping thread is registered. It needs `OneThread`: with two threads in wait4 the code does
lose the event, which `process_tree_threads` shows.

**Event bus.** What the run checks says nothing about the list itself and is not inductive. `NodeInv`: a node is in the list
exactly when it is "linked", a thread has a node exactly while it waits, and a node outside the list was marked. `WalkInv`: what the
setter has still to visit is linked, but for the node it has just unlinked, and the node at which it stands is marked.
`CoverInv`: with the lock free, `suspend_event` covers the masks of the list; during a walk, `acc` covers those of the nodes that were
passed. `MarkInv`: a marked thread runs, will run when it parks (`notified`), or is the one the setter is about to wake, which is why it may
free its node without the lock. The lemmas before the actions say what linking, unlinking and passing a node do to the set of nodes.

**Pipe.** `LockInv`: one task is inside an end. `CallInv`: an end moves no more than the room it saw, and the other end can only
give it more. `RingInv`: between the two indices are, in order, the bytes sent and not consumed, one more chunk of the
writer behind them, one less for the reader. `BytesInOrder` says nothing about the ring and is far from inductive. The
arithmetic of the indices (`%` by the size of the ring) is in the lemmas before the actions. `WakeInv` follows a call from the moment it
leaves its waker: room for it appears only by a store, after which the other end wakes it, and an end is closed only by a
file whose Drop wakes it; a wake that finds the task not yet asleep stays with it (`notified`). `CountsTell` turns the two
counts of `strong_count` into who holds what.

Only model-checked, and why:

* liveness (`EveryoneServed`, `EveryoneWoken`, `SleeperWoken`) and the fairness part of the refinement: out of the prover's reach;
* the timer heap (`HeapExact`, `TimersSafe`): recursive operators, whose results for every input need an induction over data that the provers cannot do;
* `Semaphore`: its release walks the queue with a fold, and conservation is a sum over a set of tasks, an induction again; `TickLock`: tickets modulo a symbolic `Width`, and a ghost line that the drop of a guard filters;
* `Futex`, `Signals`: filters of sequences (`SelectSeq`) and scans, whose facts need an induction over the sequence; `LockfreeQueue`, `LockfreeStack`, `CopyOnWrite`, `BlockCache`, `FatList`: reachability along chains and sums over page tables;
* the type invariants of composed runs, apart from those of `Rcu`, `SleepMutex`, `RwSleepMutex`, `ProcessTree`, `HartEnv`, `SeqMutex`, `Mailbox`, `Executor`, `QSpinLock`, `RwSpinMutex`, `SpinNoIrq`, `EventBus` and `Pipe`, which are part of the inductive invariants.

## Observations

Met while translating, kept in the models as the code has them, without a run of their own:

* `pop_many_ex` tests its limit after the first node, so FUTEX_WAKE with `val` 0 wakes every waiter, while its comment says "at most" (`ftl-util/src/list/mod.rs:284`).
* `marked_ptr.rs:11` gives identifiers a period of 33554432; `PtrID::next` adds 2, so they repeat after half as many moves, and with them the case of `lockfree_queue`. `queue.rs:5` reports one failure in about 100 million operations of its stress test, "原因未知".
* `LockfreeStack::appand` drops the result of `into_null` (`lockfree/stack.rs:75`): a list it had linked to the stack runs on into the nodes that `close` returned. `replace` with a list that is not empty fails the assertion of `thread_local_linked_list.rs:13`, since the list is dropped and not forgotten. `LockfreeExact` says nothing of the states behind either (`fate`). Both containers are used by tests only, and these two calls by none.
* Copy on write: two threads of one process that fault on the same page meet the assertion at `map_segment/mod.rs:259` (the model has one thread to a process); the roll back of a fork that fails meets pages the predictor has copied, contrary to the comment at `map_segment/mod.rs:345`.
* Block cache: `dirty_suspend_iter` makes a block clean before its write has finished (`block/inner.rs:37`), so a reload may read the old content and two writes of a cluster may overtake each other; `BlockCacheKept` is stated for a device that serves a cluster in order. `get_block_init` of a cluster that is being written meets an `unwrap`. `wirte_block_fast` changes the block before it answers EAGAIN.
* Allocation table: `max_cid` is the number of clusters although identifiers start at 2, so the last two are never allocated and `alloc_cluster` panics when only they are free (`fat_list/manager.rs:321`); a change of fsinfo while its sector is in the device is written only when another unit becomes dirty (`fat_list/mod.rs:199`); emptying a file whose `free_cluster` fails leaves the inode with freed clusters.
* Inode chain: `get_nth_block_alloc(n)` of a chain of length n returns cluster n-1, and `append_block` passes `off` where the callers count from one (`inode/raw_inode.rs`).
* Signals, the test before user mode: a pass of `handle_signal` that takes a signal records `recv_id` (`signal/mod.rs:433`) and looks no further, so a second process signal that was pending, or arrived before line 433, waits until another arrives or the mask changes; only the pass that takes none looks again (436-443). sigreturn restores the mask without `mask_changed`; un-ignoring a signal triggers no new look. `SignalsSafe` claims nothing of a thread in these cases until a later pass has found nothing (`settled`).
* Signals, masks: `sys_rt_sigprocmask` (`syscall/signal.rs:246-249`) takes the user's set as it is, so that SIGKILL and SIGSTOP can be blocked, although `signal/mod.rs:113` says of SIGSTOP "不能阻塞或忽略"; `set_mask`, used by handlers and sigreturn, removes them. `SignalsSafe` excepts masks written by the call (`raw`).
* Signals, real-time queue: `SignalSet::bit_fold` (`signal/mod.rs:280-288`) never clears the bit it has visited, so its loop does not end. `RTQueue::fetch` enters it when its first eight signals are blocked and a later one is not; the thread is lost, for signals of the process with the manager locked (`fold_locked`). `doc/同步系统-信号.md:56` promises fewer than 32 steps.
* Signals, others: `fetch_never_capture` asks for SIGKILL and SIGSTOP together; `tkill` sets no event; execve keeps `scx_ptr`, so a sigreturn of the new program reads its frame from wherever the old one pointed.
* `SLEEP_COUNT` may wrap below zero for a moment; `SeqMutex::write_lock` of a lock type that masks interrupts would enable them after a failed compare_exchange.

## Not modelled

Drivers, traps, boot, console and ELF loading move bytes and registers. The VFS with its dentry cache, tmpfs, the
inode cache and directories of FAT32, the descriptor table, select, the tables of identifiers, the walk of the page
tables, file mappings and the heap allocators are not translated; `components` in `PROJECT.json` gives the reason for each. Weak memory. The spurious failure of allocation,
except of frames. Cancellation of a pending lock future, which no caller does. FUTEX_WAKE_OP and the robust list. The panics of the spin locks after
0x10000000 turns.
