# A verification of the NuttX kernel

TLA+ models of the core of the NuttX RTOS (`src/nuttx/`), translated from the C
code: the scheduler, the watchdog timers, semaphores with priority inheritance,
message queues, signals, pthread synchronisation, thread life cycle, pipes and the
heap. TLC checks them on small instances; TLAPS proves most of their safety properties
for every value of the constants.

## The system

NuttX runs tasks on one CPU, in one address space.

| Part | Code | Module | Promises |
|---|---|---|---|
| Task lists, context switch (ARM port) | `sched/sched_*.c`, `arch/arm/src/arm/up_*.c`, `lib/queue/*.c` | `TaskLists`, `Queues` | |
| Scheduler services, life of a task | `sched/sched_lock.c`, `task_*.c`, ... | `Sched`, `SchedRR` | |
| Watchdog timers | `sched/wd_*.c` | `Wdog` | `AlarmClock` |
| Semaphores | `sched/sem_*.c` | `Semaphore`, `SemHolder` | `CountingSem` |
| Message queues | `sched/mq_*.c` | `MsgQueue` | |
| Signals | `sched/sig_*.c`, `arch/arm/src/arm/up_*sig*.c` | `Signals` | |
| Mutexes, conditions, barriers | `sched/pthread_mutex*.c`, `pthread_cond*.c`, `pthread_barrierwait.c` | `Pthread` | |
| Create, join, detach, cancel | `sched/pthread_create.c`, `pthread_join.c`, ... | `Join` | |
| Pipes, FIFOs, `poll()` | `drivers/pipes/pipe_common.c`, `fs/fs_poll.c` | `Pipe` | `ByteFifo` |
| Heap | `mm/mm_*.c`, `sched/sched_free.c`, `sched_garbage.c` | `Heap` | |
| Everything else | see `PROJECT.json` | not modelled | |

How they are put together. `Semaphore` and `MsgQueue` block and wake tasks through
`TaskLists`, the list functions that `Sched` uses. Timeouts come from watchdogs; these
modules keep only the set of tasks whose watchdog is active and let it expire at any
time, which is more than `Wdog` does. `Semaphore` implements `CountingSem` (run `sem`,
and proved without priority inheritance); `Threads` adds a CPU and the pre-emption lock to `CountingSem`, and
`Pthread`, `Join` and `Pipe` are built on `Threads`.

### Concurrency

A service is atomic while interrupts are disabled. It can be cut where the caller
loses the CPU, and where interrupts are enabled. A variable `pc` holds the place
where a task goes on. In the modules on `TaskLists` the running task is the head of
`g_readytorun`. In `Threads` any thread that is not blocked may run, unless another
one runs with pre-emption disabled; this covers all priorities and time slices, and a
service is cut between any two semaphore operations. Interrupts are actions that may
come at any such place. `sched_lock()` and `sched_unlock()` do nothing in an
interrupt handler.

## The modules

**TaskLists** holds the lists as one record `k`: `rtr` (`g_readytorun`), `pend`
(`g_pendingtasks`), `blk` (one list for each blocked state), and the `state`,
`prio`, `lock` and `slice` of each TCB. `panic` records that an `ASSERT` or
`PANIC` was reached. The operators have the names of the C functions. **Queues** has
the queue functions of the C library that it uses, as operators on sequences.

**Sched** has one action for each service: `Lock`, `Unlock`, `Yield`, `SetParam`,
`SetScheduler`, `Block`, `TaskSetup`, `TaskActivate`, `TaskDelete`, `Exit`,
`TaskRestart` and its error returns; and `Wakeup` and `Tick` for interrupts.
`task_exithook()` (streams, `atexit()`, `waitpid()`) is left out.

**SchedRR** is `Sched` for tasks of one priority with time slices.

**Wdog** models the delta list. `wd_timer` is cut between handlers, and a handler
may call every service. **AlarmClock** is what it promises: independent alarms.

**SemHolder** has the holder lists, boosts and restored priorities of
`sem_holder.c`; **Semaphore** has the waits, posts, timeouts and signals. A post or
a `kill()` that lowers the priority of its own caller is cut in two. The refinement
mapping to **CountingSem** turns `semcount` and the lists of waiting tasks into counts
to give and sets of waiters, and the `errno` of a wait into its result.

**MsgQueue** models sending and receiving with every place where interrupts are
enabled in between, notifications, and the three kinds of message containers. A
sender takes its container (`Alloc`) and inserts the message (`Enqueue`) in two steps;
`mq_msgalloc()` panics when it finds neither a container nor memory. Calls that fail
change nothing and are left out. One of them, `mq_notify()` without a descriptor, gives
back a pre-emption lock that it has not taken.

**Signals** models one task as a stack of frames: its program, the services that
block, `sig_deliver()`, the handlers it calls and `sig_unmaskpendingsignal()`.
Containers of queued actions are numbered, and free, queued, in delivery or posted.
Other tasks and interrupt handlers send at any place where interrupts are enabled.
`Rearmed` is an interrupt handler that signals the task between the test and the
setting of `sigdeliver` in `up_schedule_sigaction()`. The `masked` branch of
`sig_unmaskpendingsignal()` is left out: no state has a pending signal there that is
still masked. So is a `wd_create()` that fails in `sigtimedwait()`, which then returns
at once.

**Pthread** has one mutex, one condition variable and one barrier. Its threads
hand over items in the way the services are meant for: a producer adds an item under
the mutex and owes a signal, a consumer without an item waits in a loop.

**Join** has creators and children with their `join_t`: `exit_sem`, `data_sem`,
the exit value, detached and terminated flags, and the cancellation flags.
`pthread_cancel()` looks up the thread and tests its flags in one step, although
pre-emption is enabled between the two (`pthread_cancel.c:93`, 106).

**Pipe** has the ring, `d_bfsem`, `d_rdsem`, `d_wrsem`, the counts of references and
writers, and the `pollfd`s in `d_fds`. Bytes alternate, so that a byte that is lost,
repeated or out of place shows. `Content` maps the ring to the FIFO of **ByteFifo**.
Lengths are at least 1: a `write()` of 0 bytes stores one byte as a `write()` of 1 does,
because it compares the count after the store (`pipe_common.c:504-509`).

**Heap** counts memory in units of 8 bytes. A unit holds a chunk header with size
and preceding size, the links of a free chunk, data, or junk; the functions read
the headers as the C code does, and a header that was overwritten has no value.
`realloc()` copies `oldsize` bytes, header included, so that the last unit it writes into a
new block is junk. `memalign()` leaves alignments up to `MM_MIN_CHUNK`, which is 2 units,
to `malloc()`.

The `MC` modules add the symmetry of the tasks and the values that a configuration
file cannot express.

## The runs

| Run | Configuration | Shows |
|---|---|---|
| `sched` | 3 tasks + idle, 2 priorities, 2 nested locks | lists and states agree; the best task runs; no task is stranded in `g_pendingtasks`; no panic; interrupts respect the lock |
| `sched_rr` | 3 tasks, slice of 2 ticks | every ready task runs again, also when ticks fall into locks |
| `wdog` | 3 watchdogs, delays 0, 1, 3 | refinement of `AlarmClock`; exact delays; `wd_timer` and every watchdog end |
| `sem` | 2 semaphores, 3 tasks, no inheritance | refinement of `CountingSem`; a late timeout ends no other wait; the best waiter is served |
| `sem_pi` | 1 mutex, 3 priorities, pool of 1 | holder lists sound, no pool entry lost, counts exact |
| `mq` | 1 queue of 1 message, 3 containers, 3 tasks | no lost wake-up; no lost container; exact counts; order of messages |
| `pthread` | 3 threads, barrier for 2, 2 items | one owner of the mutex; a wait returns with it; no lost wake-up; a broadcast wakes all |
| `join` | 2 threads and 1 child | every joiner gets the value; nobody waits for a thread that is gone; `crefs` counts the joiners, and none is left over |
| `pipe` | 3 threads, ring of 3, 1 poll slot | nobody sleeps beside bytes, room or a writer; exact counts of files and writers; refinement of `ByteFifo` |
| `signal` | 2 signals, 3 containers, handlers nested 3 deep | the mask comes back; nothing is left behind; no sleeper misses its signal; no container leaks |
| `heap` | 2 threads, 2 blocks, 18 units | until the splinter of the next run: chunks tile the heap; blocks keep their contents and an alignment above `MM_MIN_CHUNK`; every chunk is free, owned or on its way back |
| `heap_splinter` | as `heap` | **violated**: `realloc()` leaves a free chunk of 8 bytes (11 states), see the finding in `PROJECT.json` |

### Further counterexamples

These configurations are not among the runs above. Each checks one property that a
comment, an assertion or the documentation states, and TLC finds it violated.

| Configuration, module | Property | What happens |
|---|---|---|
| `MCSchedExit`, `MCSched` | `ExitLeavesLocks` | `task_deletecurrent()` locks the next head (line 117), a merge (132) may change the head, and `sched_unlock()` (137) lowers the lock count of another task. Line 135: "Now calling sched_unlock() should have no effect". 7 states |
| `MCSemBoost`, `MCSemaphore` | `BoostEnds` | `sem_restorebaseprio()` lowers the priority of its caller (`sem_holder.c:785`) before the holder entry is freed (813). The next waiter boosts the former holder, and nothing takes the boost back. `NuttxUserGuide.html:1811`: "in order to correctly restore the priorities after a count has been handed out to the higher priority thread". 11 states |
| `MCSemOverrun`, `MCSemaphore` | `NoOverrun` | `sem_holder.c:335` appends to `pend_reprios` without the test of 303-311. `configs/README.txt:309`: "this setting is the maximum number of higher priority threads (minus 1) than can be waiting for another thread to release a count on a semaphore". 39 states |
| `MCSemKill`, `MCSemaphore` | `NoAssertFails` | `sem_canceled()` in `sem_waitirq()` may switch tasks; the test before it is stale then, and `up_unblock_task()` panics (`up_unblocktask.c:84`). `sem_waitirq.c:98`: "Disable interrupts.  This is necessary (unfortunately) because an interrupt handler may attempt to post the semaphore while we are doing this". 9 states |
| `MCMqPanic`, `MCMsgQueue` | `NoPanic` | `mq_doreceive()` tests `nwaitnotfull` with interrupts enabled (`mq_rcvinternal.c:279`); a timeout comes, the search (287) finds nobody, and the assertion at 292 panics. 7 states |
| `MCMqTimeout`, `MCMsgQueue` | `TimedWaitEnds` | after its only watchdog has expired, a timed receive that finds the queue empty blocks again (`mq_rcvinternal.c:167`). `mq_timedreceive.c:154`: "specifies a ceiling on the time for which the call will block". 8 states |
| `MCCondSignal`, `MCPthread` | `EveryItemWakes` | a signal ends the wait of `pthread_takesemaphore()` for the condition, which waits again; `pthread_cond_signal()` in between sees nobody and posts nothing. 9 states |
| `MCBarrier`, `MCPthread` | `BarrierNotFull` | the same in `pthread_barrier_wait()`: the last thread does not see an interrupted one, so that it waits as well. 5 states |
| `MCPipeSignal`, `MCPipe` | `NoSleeperForgotten` | the same in `pipecommon_write()` (line 559): a reader that makes room does not see the interrupted writer, which goes back to sleep beside it. 20 states |
| `MCPipePoll`, `MCPipe` | `PollerWoken` | a writer that finds the pipe full wakes the readers but not those who poll: a poller sleeps on although there are bytes. 17 states |
| `MCSigPending`, `MCSignals` | `OnePending` | the look for a pending signal and its insertion are two critical sections; an interrupt handler in between makes the signal pending twice. `sig_received.c:230`: "NOTE:  This function will queue only one entry for each pending signal". 5 states |
| `MCHeapAlign`, `MCHeap` | `MemalignAligns` | `memalign()` passes alignments up to `MM_MIN_CHUNK`, 16 bytes, on to `malloc()` (`mm_memalign.c:79`), which does not have them once there are chunks of odd sizes. `mm_memalign.c:60`: "8-byte alignment is guaranteed by normal malloc calls". 7 states |

### What the passing runs do not say

- `sem_pi`: `CountIsWaiters` and `NoPostLost` are claimed only until a `kill()` has
  been cut in two (history variable `cut`), because `MCSemKill` shows that they fail
  after it. Behaviours stop at a panic or at an overrun of `pend_reprios`. With
  inheritance, only a holder posts, and a task waits for one count at most
  (`Discipline`); posts by interrupt handlers and timeouts are in `sem` only.
- `mq`: behaviours stop at the panic of `MCMqPanic`, and where `mq_msgalloc()` panics.
  `NoPanic` does not count the latter: that memory suffices is up to the application.
- `pthread`: signals end untimed waits for the mutex and the barrier and every timed
  wait, but not the untimed wait for the condition (`Interruptible`), because of
  `MCCondSignal`. The threads may come to wait for each other at the barrier, so
  deadlock is not checked. Calls with bad arguments return at once and are left out.
- `join`: signals end no wait for `exit_sem`, for the same reason. A behaviour ends
  (`broken`) when a join structure is used after it was freed, when `data_sem` is
  initialised while its creator waits for it, or when a thread is cancelled inside a
  service. That a join returns is not stated as a liveness property: a child may
  run for ever, and nothing makes the scheduler fair to a thread of low priority.
- `pipe`: each thread has one file; `poll()` has no timeout and is about this file
  only; O_NONBLOCK may change at any time. Signals end the waits on `d_rdsem`, but not
  those on `d_wrsem`, because of `MCPipeSignal`.
- `signal`: one receiving task; handlers do not wait; values of signals are left out.
  Behaviours end when a stale container is used, when a signal is pending twice, and
  when the registers of the task are saved twice (`Rearmed`).
- `heap`: the large memory model with 32-bit pointers and one region. A call and its
  first `mm_takesemaphore()` are one step. Memory that was freed is junk to its users,
  and `memcpy()` copies forward. A `realloc()` that makes a free chunk too small for its
  links ends the behaviour before it writes them (`ReallocBreaks`). The constants of
  `heap` are those of `heap_splinter`, so that this does happen: the invariants say
  nothing about the heap from there on.
- Deadlock is not checked where behaviours stop at such ends, and in `pthread`.
- `LockHoldsOffInterrupts` is about interrupts. A task that yields or lowers its own
  priority under `sched_lock()` does lose the CPU, against the words of `sched_lock.c:82`.

### Bounds

Three tasks give a running, a ready and a pending or waiting one, so that a merge
has to choose. Two priorities give equal and better tasks; inheritance has three,
for a second boost. A queue of one message is full and empty within a step, and an
interrupt can exceed it. `LockBound` (nested locks), `CountBound` (value of a
semaphore) and `Dyn` (containers of the heap) bound what is unbounded.
`LockBound` is below `MAX_LOCK_COUNT`, so its assertion is not exercised.
Two items and three threads let two consumers wait for one producer, and one of them
come late; `NestBound` bounds the locks of a recursive mutex. A ring of 3 holds two
bytes, so that a write of three meets a full ring and both indices wrap.
`PollPosts` caps the posts to a poller that has not yet slept. Signals are two, so
that the handler of one is interrupted by the other; `DepthBound` bounds the nesting.
In the heap, lengths 1 and 4 and an aligned length of 2 give splits, exact fits and
merges with either neighbour, and alignments of 2 and 4 units are those that `memalign()`
leaves to `malloc()` and makes itself. `DelayBound` bounds the delayed deallocations to
one at a time; the order of several does not matter to the properties.

### Fairness

- `sched_rr`: the timer ticks again and again while a task with pre-emption enabled
  runs, and no task holds the lock for ever. The first is the hardware timer; the
  second is a duty of the application.
- `wdog`: the timer interrupt comes again, and a handler returns.

## The proofs

Each theorem holds for every value of the constants within the named assumptions of its
module: any finite set of tasks or threads, any priorities, counts, delays, sizes and
depths. Each rests on an inductive invariant, which TLC checked on the instance of the
run first. One lemma for each action, or group of actions alike, shows that a step
keeps it; a theorem for a property then says that the invariant implies it.

| Module | Theorem | Property | Of run |
|---|---|---|---|
| `SchedProofs` | `TypeCorrect`, `ListsCorrect`, `HeadCorrect`, `PendingCorrect`, `NeverPanics`, `PriorityScheduling` | the invariants | `sched` |
| | `LockProtects` | `LockHoldsOffInterrupts` | `sched` |
| `SemaphoreProofs` | `ListsSurvive`, `CountsAreWaiters`, `PostsAreKept`, `TimeoutsAreFresh` | `SchedulerIntact`, `CountIsWaiters`, `NoPostLost`, `NoStaleTimeout` | `sem` |
| | `BestWaiterGetsCount` | `BestWaiterFirst` | `sem` |
| | `SemaphoresImplementCounting` | `ImplementsCountingSem` (refinement) | `sem` |
| `WdogProofs` | `StartExact` | `StartIsExact` | `wdog` |
| | `ListsAgree` | `ActiveIsListed`: the two lists and `active` agree | none: the refinement needs it |
| | `DeltaListImplementsAlarms` | `ImplementsAlarmClock` (refinement) | `wdog` |
| `SignalsProofs` | `MaskIsRestored`, `NothingIsLeft`, `SleepersHear`, `ContainersAreSound` | `MaskRestored`, `NothingLeftBehind`, `NoSleeperMissesSignal`, `ContainersSound` | `signal` |
| `PthreadProofs` | `MutualExclusion`, `WaitsReturnMutex`, `NoWakeupLost` | `MutexSound`, `WaitReturnsMutex`, `EveryItemWakes` | `pthread` |
| | `BroadcastIsComplete` | `BroadcastWakesAll` | `pthread` |
| `JoinProofs` | `JoinersGetValue`, `JoinInfosReleased`, `NoJoinerIsForgotten` | `JoinGetsValue`, `JoinInfoReleased`, `NoJoinerForgotten` | `join` |
| `PipeProofs` | `RefsCorrect`, `SleepersAreWoken` | `RefsSound`, `NoSleeperForgotten` | `pipe` |
| | `RingImplementsFifo` | `ImplementsFifo` (refinement) | `pipe` |

Some theorems have a hypothesis, which the run's configuration satisfies and without
which the property is false:

- `SemaphoreProofs`: `~PriorityInheritance`. With inheritance the properties fail after
  `MCSemKill`, and `HoldersSound` takes their place.
- `NoWakeupLost`: `"cond" \notin Interruptible` (`MCCondSignal`);
  `NoJoinerIsForgotten`: signals end no wait for an `exit_sem`; `SleepersAreWoken`:
  `"wr" \notin Interruptible` (`MCPipeSignal`). All three services wait again after a
  signal without another look at what they wait for.

The properties of `Signals` and `Join` are about states in which the program is still
in order (`broken`, see above); that it always is, is not claimed.

### The arguments

**Task lists.** `TaskListsProofs` is about the operators, not about one state machine:
what insertion by priority, removal, merge and the `up_*` primitives do to lists that
satisfy `KInv`. `SchedProofs` and `SemaphoreProofs` build on it. `KInv` says that the
lists are ordered and agree with the states, that the head runs, and that tasks are
pending only under a lock. Order is needed because every insertion searches from the
head. `TaskLists` takes its sequence operators from `Queues`, since the provers slow
down with every definition that a module reaches.

**Sched.** `IInv` is the type invariant, `KInv`, and two facts that make it inductive.
The idle task must have the lowest priority, or an insertion could go behind it and
panic; `task_restart()` restores the initial priority, so that this must hold of
`init_prio` too. Lock counts must stay within their bound, or `sched_lock()` would assert:
`NeverPanics` takes it from the guards and from `LockBound < MAX_LOCK_COUNT`
(`BoundAssumption`) that locks are not nested deeper.

**Semaphore.** `IInv` adds to `KInv` where each task is and what its TCB says of its wait
(`TaskInv`), and for each semaphore (`SemInv`) that a negative count is the number of
waiters, and that the posts not yet consumed are the count and the waiters to whom one
was handed but who have not run since. The last is what a late timeout or signal could
break. A step is first reduced to its effect on counts, queues and results
(`Effect`), without the context switch in it; invariance and refinement follow from the
effect.

**Wdog.** `IInv` has the two lists without repetitions and disjoint, `active` exactly on
the members of the delta list, and, between ticks, a positive time left for each. The
refinement adds up the lags in front of a watchdog: an insertion in the middle must take
from its successor what it adds, and a removal must give it back. The sum is a recursive
function; the few inductions it needs are made with the least counterexample.

**Signals.** `IInv` is about the stack of frames. `MaskInv`: every frame holds what will
restore the mask of the frame below, down to the program's own. `PendInv`: a pending
signal that is not masked is one that a frame on the stack will still deliver.
`QueueInv` and `PostInv`: queued and posted actions belong to a frame that will run
them. `HeldInv`: each container is where its owner says. `SleepInv`: what a sleeping
task has seen before it slept.

**Pthread.** A post gives the count to any thread in the queue, which goes on wherever
its `pc` says. So `IInv` says at which places a thread in each queue is (`QueueInv`),
where the owner can be (`OwnerInv`), and that a thread that wants an item is in a wait
or owns the mutex (`WantInv`). For `EveryItemWakes`, `WakeInv` counts: while somebody
waits for the condition, there are no more items than threads that come for one,
consumers that are awake and producers that owe a signal.

**Join.** `IInv` says who is in which queue and who may rely on the exit value; `RefInv`
that `crefs` is the number of the joiners at the places between its increment and
decrement; `SleepInv` that a joiner of a terminated thread is left to a thread that is
about to post.

**Pipe.** `IInv` has the indices in the ring, `d_refs` as the number of open files
(`RefInv`), and the places of each thread
with the mode of its file (`StageInv`): a wait, a post or a wakeup goes on at a place that
its caller chose, and the count of files needs to know that place before the wait ends.
`WriterInv` says that `d_nwriters` counts the writers; a step keeps it because `IInv` knows
the mode of a file that is being opened or closed, and that the last close finds no other.
The refinement needs `RefInv`, since the last close empties the ring. `RingPut` and
`RingGet` say what the wrapping indices do to `Content`. `SInv`, for the sleepers, adds
that one thread holds `d_bfsem` (`HoldInv`), and that a thread between its post of `d_bfsem`
and its sleep keeps the CPU and its reason to sleep (`BridgeInv`), which is what
`sched_lock()` is there for.
The lemmas assume what they need about finite sets (`Cardinals`); `Counting` proves it
from the library, which is instantiated only there, because its definitions would slow
down every step before.

### Only model-checked

- Liveness (`sched_rr`, the ends of `wd_timer` and of watchdogs): fairness is beyond
  this prover.
- `heap`, whose invariant is about a chain of chunks that is as long as the headers in
  memory say, and `sem_pi`, whose boosts go through holder lists one by one: induction
  over such data is beyond this prover.
- `mq`: its services are cut at many places, and the invariant that relates the counts
  of waiters to all of them has not been worked out.

## Not modelled

The repository holds the whole operating system, with its board ports, drivers,
network stack, file systems, C library and graphics; the models cover the
parts of the kernel in which tasks and interrupt handlers meet, a small share of its
lines. The rest is left out for these reasons:

- access to hardware (most drivers, start-up code, ports other than ARM) and code
  generators: there is no state of the program to reason about;
- conversions, formats and drawing (C library, binary loaders, graphics, formats on
  the media): sequential code whose inputs are too large to enumerate;
- bookkeeping of one task (environment, errno, files, `pthread_once()`, keys);
- network and file systems: projects of their own size;
- named semaphores and message queues, process ids, work queue, interval timers,
  clock, `atexit()` and `waitpid()`, serial driver: within reach of the same methods,
  as layers on the parts above. Deletion of tasks that wait for a semaphore or a
  message belongs to this.

The hazards in `PROJECT.json` that have a note and no property say what stands open in
the parts that are modelled.
