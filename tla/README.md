# A TLA+ development of Consequence

Consequence runs pthread programs deterministically. Every thread is a process
with its own copy of memory. Synchronisation operations run one at a time, under
a global *token* that goes to the thread with the lowest logical clock. Memory is
exchanged only inside those operations, through the versioned memory of
Conversion. This directory holds specifications of the runtime, its clock and its
heaps, the TLC instances that check them, and proofs about the core for every
program and every size of the thread pool.

## 1. The system

| Component | Source | State | Operations |
|---|---|---|---|
| Global token, `class determ` | `thread_lib/include/determ.h` | `_tokenpos`, `_activation_counter`, last getter and putter | `__getToken` (ask the clock, read the counter, CAS, check the counter again), `__putToken` |
| Synchronisation objects, `class determ` | same | per thread: `status`, `tid_parent`, `joinee`; per mutex: `is_acquired` and a queue; per condition variable: a queue; per barrier: arrivals, commits and two pthread barriers | `lock_acquire`, `lock_release`, `wait_on_lock_and_release_token`, `cond_wait`, `cond_signal`, `cond_broadcast`, `join`, `registerThread`, `deregisterThread`, `finalize`, `barrier_wait`, the init and destroy operations |
| pthread operations, `class xrun` | `thread_lib/include/xrun.h` | per process: `_token_holding`, `_lock_count`, the coarsening level | `mutex_lock`, `mutex_unlock`, `cond_wait`, ..., `spawn`, `join`, `childRegister`, `threadDeregister`, `done` |
| Thread pool | `thread_lib/include/thread_pool.h` | list of parked entries, next fresh index, a futex word per entry, saved stacks | `get_thread`, `add_thread_to_pool`, `set_exit_by_id`, `park_thread`, `save_parent_stack`, `copy_parent_stack`, `terminate_all` |
| Process life cycle, `class xthread` | `thread_lib/source/xthread.cpp` | the result and the index behind a `pthread_t` | `spawn`, `forkSpawn`, `do_work`, `run_thread`, `join`, `cancel` |
| Logical clock, kernel module | `logical_clock/module` | ticks and flags per thread, the list of active threads, the lowest thread | halt, activate, add ticks, start and stop, overflow notification, single-stepping |
| Logical clock, library | `logical_clock/lib` | `user_status` page shared with the kernel (`lowest_clock`, `single_active_thread`, ...), coarsened ticks | `is_lowest`, `is_lowest_wait`, the calls above |
| Versioned memory | `xmemory.h`, `xpersist.h`, and Conversion, a kernel module that is not in the repository | a global version per segment, a working copy per process | commit, update, partial update, parallel commit |
| Heaps | `xheap.h`, `warpheap.h`, `internalheap.h`, `conseq_malloc.h`, `libdthread.cpp` | a bump pointer, free lists by power of two, arenas | `malloc`, `free`, `realloc`, `calloc` |
| Heap layers | `thread_lib/include/heaplayers` | free lists, boundary tags, bitmaps, trees, tables | a template library of allocators that the heaps are built from |
| Others | `list.h`, `xatomic.h`, `stats.h`, `prof.*`, event viewer | | circular list, interception, observation |

How they interact: a pthread call enters `xrun`, which stops the thread's clock
and calls `waitToken`. That spins and polls on the clock library until it says
"lowest", then takes `_tokenpos` with a compare-and-swap. With the token, `xrun`
commits and updates memory and calls `determ`, which changes queues and statuses
and tells the clock which threads leave (`halt`) or enter (`activate_other`) the
race. `putToken` ends the operation. A thread that must block is put to sleep by
`determ` itself, which also releases the token behind `xrun`'s back.

What is hard here:

* `lock_acquire` is a plain test and a plain store. It relies on the token, or on
  `SINGLE_THREAD_OPT`'s belief that nobody else is active.
* Two records of one fact: `_token_holding` in each process and `_tokenpos` in
  shared memory are written at different places.
* A sleeper's status is read in a spin loop without `_mutex`, is set under it,
  and the signal is sent after it.
* A joining parent and an exiting child wait for each other: the child keeps the
  token until the parent is active again.
* Processes of the pool are reused with their old stack, flags, clock and parent.
* The activation counter has to catch an activation that comes between the
  clock's answer and the compare-and-swap.
* The kernel notifies a waiting thread after it released its lock, while the
  waiter goes from spinning to sleeping; overflow interrupts take no lock at all.
* A hardware counter that wraps, is reloaded by an NMI and read by a system call
  must count every instruction once, and a bounded chunk must end exactly.
* The threads of a barrier commit in parallel, without the token, in an order
  that is fixed by version numbers alone.
* Coarsening keeps the token over several operations and commits later.
* Allocator state is partly shared and partly versioned, so a process may see a
  pointer before the object's header.

What makes each part correct is stated as the properties of section 4. The
hazards, each at its line, are listed in `PROJECT.json`.

## 2. Modules

| Module | Models | Composed by |
|---|---|---|
| `Determ` | token, mutexes, condition variables, create, join, exit, pool, visibility of memory, for every clock | `MCDeterm` |
| `TaskClock` | kernel and library clock and `__getToken`'s loop: ticks, lowest thread, notification, sleep, overflow | itself (`clock.cfg`) |
| `Barrier` | both `barrier_wait`s with parallel and simple commit | refines `BarrierSpec` |
| `BarrierSpec` | abstract: what POSIX promises of a barrier | |
| `PerfCounter` | how instructions become ticks; bounded chunks | `ThreadParts` |
| `Coarsening` | coarsened transactions and their estimate | `ThreadParts` |
| `ClockSetup` | module load, `user_status`, a thread's clock from creation to exit | `ThreadParts` |
| `ListArray`, `CircularList` | `listarray.h`, `list.h` with their links | `SharedParts` |
| `SyncEntries` | from a pthread object to its entry, over versioned memory | `ThreadParts` |
| `ThreadPool` | the pool's links, parking, stack and argument copies | `SharedParts` |
| `SimpleLocks` | mutexes and condition variables of the DWC build | `SharedParts` |
| `Memory` | heap and globals segments, commits with and without the token | `ThreadParts` |
| `ThreadParts`, `SharedParts` | what a thread has of its own and what the threads share, as parts that a theorem can be about | `MCParts` |
| `KingsleyHeap`, `Heap`, `InternalHeap` | `malloc` and friends down to the bump pointer; the runtime's own heap | `MCParts` |
| `EventLog` | the event viewer's log of a thread index | `ThreadParts` |
| `Layer`, `HeapLayers` | what the heap layers have in common, and their choice | `MCParts` |
| `SizeClasses`, `LeaHeap`, `CarveHeap`, `AOFFHeap`, `XallocHeap`, `Obstack`, `AlignedSlots`, `SlotHeap`, `LooseSlotHeap`, `FreeLists`, `ObjectTags`, `NestedHeap`, `Treap` | one heap layer or helper structure each | `HeapLayers` |
| `SizedHeaps`, `ThreadHeaps`, `Containers` | `sanitycheckheap.h` and `mmapheap.h`; heaps per thread and the locks around them; `myhashmap.h` and `dynarray.h` | `HeapLayers` |
| `DetermProofs`, `DetermWaitProofs`, `DetermEnvironmentProofs` | theorems about `Determ` | |
| `BarrierProofs`, `TaskClockProofs`, `ThreadPartsProofs`, `SharedPartsProofs` | theorems about the module they are named after | |

`MCParts` runs one part at a time: its variable `part` says whose variables move,
so that a behaviour of the run is a behaviour of that part's own specification.
It adds the heaps to the parts of `ThreadParts` and `SharedParts`, which stand in
modules of their own because the heaps use recursive operators, which a module
with theorems may not reach.
`HeapLayers` does the same for the layers with `which`. The parts do not share
state; they share a run because they are questions of one kind.

## 3. How the modules correspond to the code

### `Determ`

Each process has a label `pc`, a return label `ret` for the two subroutines
(`waitToken`, `putToken`), a position `ip` in its start routine `fn`, and the
locals the operations keep across steps (`token_holding`, `failed`, `is_single`,
`should_update`, `child`, `do_work_parent`). The shared variables carry the names
of the source. `outdated[t]` stands for `_activation_counter #
local_activation_counter`, which is all `__getToken` asks. `asleep[t]` is a thread
inside `pthread_cond_wait`, and `to_signal[t]` the threads that `lock_release`
signals after its `unlock()`. History variables (`sections`, `spawned`, `runs`,
`handle_run`, `reused`) exist for the properties only and guard nothing.

Programs are data: `Code` maps start routines to sequences of pthread calls. A
`wait` is the loop `while (data < until) pthread_cond_wait(...)` every correct
program has. Each critical section adds one to the integer its mutex protects,
so `sections[m]` is what a thread that has `m` must see.

A section under `determ`'s `_mutex` is one step. A CAS, a spin loop that ends, a
sleep, a wake-up, the test and the store of `lock_acquire`, and everything
between two sections are steps of their own. Iterations of a loop that change
nothing are not steps.

| Actions | Code |
|---|---|
| `IsLowest`, `ReadActivation`, `IsLowestWait`, `CompareAndSwap`, `CheckActivation` | `determ::__getToken` |
| `FastForward`, `PutToken`, `StartClock` | `xrun::waitToken`, `putToken`, `startClock` |
| `MutexLock`, `LockTry`, `LockAcquire`, `LockSet`, `LockFailed` | `xrun::mutex_lock`, `__mutex_lock_inner`, `determ::lock_acquire` |
| `WaitOnLockEnqueue`, `Halt`, `Put`, `Sleep`, `Awake`, `Return` | `determ::wait_on_lock_and_release_token` |
| `MutexUnlock`, `UnlockTry`, `UnlockCommit`, `UnlockRelease`, `SignalWaiters` | `xrun::mutex_unlock`, `determ::lock_release` |
| `CondWait`, `CondWaitEnqueue`, `Halt`, `Awake`, `Return`, `Relock` | `xrun::cond_wait`, `determ::cond_wait` |
| `CondSignal`, `CondWake` | `cond_signal` and `cond_broadcast` of both classes |
| `Spawn`, `GetThread`, `PoolExhausted`, `Fork`, `SpawnDone` | `xrun::spawn`, `ThreadPool::get_thread`, `xthread::forkSpawn` |
| `Register`, `Registered`, `RunThread` | `xrun::childRegister`, `determ::registerThread`, `xthread::run_thread` |
| `ThreadDeregister`, `PoolAdd`, `Deregister`, `DeregisterWake`, `Spin`, `Release`, `SetRetval`, `Unpark` | `xrun::threadDeregister`, `determ::deregisterThread`, `run_thread`, `park_thread` |
| `Join`, `JoinCheck`, `JoinAwake`, `JoinWoken`, `JoinResult` | `join` of `xrun`, `determ` and `xthread` |
| `Done`, `Finalize` | `xrun::done`, `determ::finalize`, `terminate_all` |
| `PredicateHolds`, `SpuriousWakeup` | the program's loop, and pthreads |

Abstractions: the default build (`FAST_FORWARD`, `SINGLE_THREAD_OPT`,
`USE_USERSPACE_READING`, `USE_DEFERRED_WORK`), or with `SingleThreadOpt = FALSE`
the build without that macro. The clock is the set of active threads and the
`single_active_thread` flags; its answers are arbitrary, so what holds here holds
for every clock. `partialUpdateMemory` is not visible, since a full commit and
update follows before user code runs again. Programs are well formed: they unlock
and wait with the mutex they have locked, do not lock it twice, and join on a
`pthread_t` that was written. The time bounds of the spin loops are dropped.

### `TaskClock`

`group` is `task_clock_group_info`: ticks, waiting, sleeping, inactive and
initialised flags per thread, the list of active threads, the lowest thread,
whether notification is needed. A kernel section under the group lock is one
step; the wake-up after the unlock is another (`wake[t]`), an overflow's deferred
work a third, and the NMI itself takes no lock. `thread_arr`'s unwritten slots are
a nondeterministic value. `__getToken` is modelled to the end, so that the
order of token holders can be stated. Both kernel builds are checked: counting
instructions, and the default without ticks.

### `Barrier` and `BarrierSpec`

One action per piece of `determ::barrier_wait` between two points where others
can run: arrival with the token, the commit of each segment (which waits for its
version), the two pthread barriers, activation and leaving. Conversion is
external: a commit of dirty pages makes one version. `BarrierSpec` has only who
came and who left; `MeetsAtBarrier` says that `Barrier` implements it.

### Clock and counting

`PerfCounter` follows one thread's counter: a raw value that wraps, the
`prev_count` exchange against the NMI, the reload, the adapted period, and the
trap flag that ends a chunk. What `read_clock_and_update` adds to the clock depends
on its local `was_on`, read before the exchange. A counter that was stopped keeps
the period it had left; `leftover` remembers that the counter runs down a period
of an earlier chunk, and whether a context switch reloaded it then. `Coarsening` follows one thread through its pthread
operations with the estimator of `tx_estimate.h`. `ClockSetup` has the kernel's
entries, the library's per-process record and perf's files.

### Memory and heaps

In `SyncEntries`, `Memory`, `SimpleLocks` and `Heap` a process sees its own
writes over a snapshot of what was committed. `Heap` follows an object from
`malloc` in `libdthread.cpp` down: free lists of `KingsleyHeap` by power of two,
arenas, the bump allocator with its lock. Heads and the bump pointer are shared,
headers, links and arenas versioned, as in the code.

### Heap layers

A layer's state is the record `heap`, what its callers hold is `live` (history),
and the heap below is external: a set of possible answers. Sizes and addresses are
numbers, and headers, tags, bitmaps and links are kept as the code keeps them.
The locks of `ThreadHeaps` and the mappings of `SizedHeaps` have several threads;
the other layers are sequential.

## 4. Runs

| Run | Instance | Properties | What it shows |
|---|---|---|---|
| `sync` | `MCDeterm`, three threads: contention, a broadcast to two consumers, a thread that is at times alone, programs that stop with an error | `MutualExclusion`, `SyncExclusion`, `LockHandOff`, `NoLostWakeup`, `TokenDiscipline`, `SeesProtectedData`, `NoError`, `TypeOK` | Mutexes exclude and are handed over, no wake-up is lost, what a mutex protects is seen by its next holder. |
| `threads` | `MCDeterm`, nested creation, reuse, join of a consumer, spurious wake-ups, without `SINGLE_THREAD_OPT` | `ActiveIffRunnable`, `NoBugOn`, `JoinNotLost`, `JoinHandOff`, `NobodyLeftParked` | Life cycle and hand-off. Reuse is by the same parent. |
| `clock` | `TaskClock`, two threads, both builds, under `FairSpec` | `ListAgrees`, `NobodyPassedOver`, `TokenGoesToLowest`, `EveryoneGetsToken` | The token goes to the lowest clock, a wake-up under way passes over nobody who waits, no notification is lost. |
| `barrier` | `Barrier`, two threads, two rounds, both variants, versions modulo 8, under `FairSpec` | `CommitsInArrivalOrder`, `TokenKept`, `MeetsAtBarrier`, `LeavesUpToDate`, `EveryRoundEnds` | The barrier implements `BarrierSpec`, merges pages in arrival order, and never hangs. |
| `parts` | `MCParts` | see below | The other parts, each on its own. |
| `reused_single` | `MCDeterm`, one thread, joined and created again | `MutualExclusion`, violated | Finding 1. |
| `reused_parent` | `MCDeterm`, an entry used again by another thread | `JoinNotLost`, violated | Finding 2. |
| `join_result` | `MCDeterm`, main joins a consumer | `JoinGetsResult`, violated | Finding 3. |
| `clock_refresh` | `TaskClock`, three threads, default build | `TokenGoesToLowest`, violated | Finding 4. |
| `barrier_outsider` | `Barrier` with a thread outside the party | `CommitsInArrivalOrder`, violated | Finding 5. |
| `coarsen_barrier` | `Coarsening`, a coarsened unlock before a barrier | `CommitsBeforeGivingUpToken`, violated | Finding 6. |
| `dwc_broadcast` | `SimpleLocks`, a broadcast inside a critical section | `SimpleExclusion`, violated | Finding 7. |

What `parts` checks:

| Property | Part | Question |
|---|---|---|
| `EveryInstructionCounted`, `FenceIsExact` | `PerfCounter` | Does every instruction become one tick although reads, exchanges and reloads race with overflows that arrive late and the counter wraps? Does a bounded chunk end exactly at its bound? |
| `TicksExact`, `UnlockedDataCommitted` | `Coarsening` | Are ticks lost between kernel and user counting? Is the data of an unlocked mutex committed before the token goes (but for the barrier of finding 6)? |
| `ListsAreQueues` | `CircularList`, `ListArray`, `ThreadPool` | Do the links agree with the queue that the callers think of, and has every process in the pool somebody to wake? |
| `InternalDisjoint` | `InternalHeap` | Do objects of the runtime's heap stay apart and inside? |
| `OneEntryPerMutex`, `EntriesApart` | `SyncEntries` | Do two threads that see no entry yet agree on one? Does a destroyed mutex's entry come back safely? |
| `ArgumentArrives` | `ThreadPool` | Does a new or reused thread read what its creator passed on its stack? |
| `ClockIsOwn` | `ClockSetup` | Does each thread's clock start after its creator's and count its own instructions once, whoever sets it up first? |
| `EventsInOrder` | `EventLog` | Do logged events of one index stay in order? |
| `OneMoment` | `Memory` | Are heap and globals seen from one moment, in spite of the commit without the token? |
| `SimpleExclusion` | `SimpleLocks` | Does keeping the token exclude, when nothing but locks happens inside? |
| `ObjectsDisjoint`, `PublishedIsAllocated`, `RefusesOnlyEarlyObjects` | `Heap` | Are objects apart? Does a reader of a published pointer recognise the object, and is nothing else refused? |
| `LayersKeepApart` | layers that hand out memory | Are objects apart, inside what came from below, and described by headers, bitmaps and lists? |
| `StructuresAgree` | lists, trees, tables, size classes, locks | Do links, counters and tables agree with what is in them? |

Bounds. `Determ`: two or three thread indices, two mutexes, one condition
variable, at most one critical section per worker; three threads suffice because
each property relates a thread to at most two others (releaser, chosen waiter,
overtaking thread; child, parent, bystander). `TaskClock`: two threads for
liveness (a waiter and the one that must notify it), three for the finding;
`MaxClock` and the numbers of operations bound the counters. `Barrier`: two
rounds, so that it is used again at once; `Width = 8` stands for 2^16 and lets
versions come close to it without wrapping inside a round; who is outside the
party commits at most until the version is `FirstVersion + Rounds`. `PerfCounter`: a
modulus and periods small enough that the counter wraps, reloads, grows its period
and is late several times within `MaxRun`, with a chunk that takes several periods
and ends in several single steps. `Heap` and the layers: `MaxObjects` or
`MaxRequests` calls, with sizes chosen so that splitting, merging, growing, a full
list, an empty heap and the refusal from below all happen; `HeapLayers` gives
the larger layers fewer calls (`MaxRequests - 2` for AOFF, `MaxRequests - 1` for
the treap). Threads and addresses have roles, so no symmetry
is declared.

Deadlock is checked except in `clock` and `barrier`, whose programs are bounded
and end; `Determ`'s only states without a step are those in which every process is
gone, parked or never started, or one called `exit(-1)` or crashed.

Fairness. `FairSpec` of `TaskClock` has weak fairness for each thread's steps
inside the runtime, for the wake-up it owes after the kernel's unlock, and for
queued kernel work: processes are scheduled by the operating system and nothing
in these steps waits for somebody else's choice. There is none for the counter's
overflow: a thread's counter need not overflow, and `EveryoneGetsToken` holds
without it. `FairSpec` of `Barrier` has weak fairness for each thread of the party.
The spin loops' time-outs are no fairness: a spinning thread may always go on to
sleep.

### Findings

1. *A reused thread believes it is alone.* `single_active_thread` is set by the
   kernel when a thread is the only active one and is cleared only by that
   thread's own `activate_other` (`determ_clock.c:316`). A pooled process that
   ran alone before it exited comes back with the flag set, skips the token in
   `__mutex_lock_inner`, and runs `lock_acquire` beside the token's holder. Two
   threads lock one mutex.
2. *A reused thread has its first parent.* `do_work` registers with the parent
   index of the first creation, and `deregisterThread` wakes only that thread
   (`determ.h:886`). Another creator that joins sleeps for good, unless some
   other exit wakes it by chance.
3. *A result is stored too late.* `run_thread` stores `retval` after
   `threadDeregister` announced the exit and released the token
   (`xthread.cpp:172`), so `pthread_join` may return the result of nobody or of
   an earlier run.
4. *An activation is missed.* `__getToken` copies `_activation_counter` after the
   clock has said "lowest" (`determ.h:645`), so an activation between the two is
   in the copy already and a thread that is not the lowest keeps the token.
5. *A stranger's version.* The versions that barrier commits wait for are counted
   from what the first arrival saw (`determ.h:1289`); a commit by a thread outside
   the party is taken for an arrival's, and two arrivals commit in either order.
6. *A coarsened unlock before a barrier.* `xrun::barrier_wait` gives the token away
   before the coarsened critical section is committed (`xrun.h:870`).
7. *Broadcast ends exclusion in the DWC build.* `cond_broadcast` always ends with
   `putToken` (`xrun.h:949`), although the token is what excludes there.

### Observations without a run

Read in the code while modelling; no property is about them.

* Two threads whose ids are equal modulo the number of heaps share list heads
  while links are versioned; the models use fewer threads than heaps.
* `calloc` multiplies without an overflow check; `read` and `write` with count 0
  touch the byte before their buffer (`libdthread.cpp:327`).
* `lock_init` leaves `waiters` unset (`determ.h:962`); `clearSyncEntry` writes
  through a null pointer (`determ.h:1411`); operations on a condition variable
  without `pthread_cond_init` dereference NULL (`determ.h:1067`).
* A spurious return of the pool's futex runs the last start routine again, and
  `terminate_all` passes its futex arguments one position off.
* `user_status_arr` maps one page, so threads beyond about 53 lie outside it
  (`clock_main.c:391`); `cleanup_module` leaves five function pointers behind.
* With three threads in the default build `__wake_up_waiting_thread` can find
  that `lowest_tid` became -1 between the kernel's unlock and the wake-up, and
  writes `user_status_arr[-1]` (`clock_main.c:98`; the variable `stray` of
  `TaskClock` records it). `NobodyPassedOver` says that the thread that was to be
  woken does not wait any more then; TLC confirmed it with three and four threads
  too.
* A barrier's 16-bit versions wrap (`determ.h:1301`) after 65536 commits.
* Heap layers: `DLList::remove` is wrong for the head (`util/dllist.h:84`);
  `BatchHeap::free` puts one object too many on its first list, so that the next
  `malloc` takes from the empty second one (`experimental/batchheap.h`);
  `Seg::malloc` drops a full reaplet without putting it on the full list
  (`experimental/seg.h`); `BoundedFreeListHeap` loses an object freed to a full
  list; `LooseSlotHeap` returns chunks with slots in use; `AlignedChunk` is not
  lock-free as its comment says, since it exchanges rather than compares; an
  object manager's `malloc` forgets that its left neighbour is free;
  `getThreadId` can be negative on 64-bit systems, where `ThreadHeap` asserts it is
  not; `PrivateMmapHeap::getSize` says a page whatever was mapped.

## 5. Proofs

TLAPS checks all of them. Nothing is assumed but the named assumptions on the
constants, which TLC evaluates on the runs, and the hypotheses that a theorem
states itself:

* `Determ`: at least two indices, Boolean flags, `Code` maps names to sequences
  of calls and there is a main;
* `Barrier`: a finite party that is not empty, rounds and versions are numbers;
* `TaskClock`: at least one thread, numbers of operations and ticks, a set of builds.

Each invariant was checked by TLC on a small instance before it was proved.

### `DetermProofs`: `Spec => []TypeOK` (`TypeCorrect`)

For every program, pool size and clock. `TypeOK` is not inductive, and what it
needs is a real argument about the pool. `GetThread` overwrites `fn` and `ip` of
the entry it hands out. If that entry were inside a pthread call, its next step
would use a call that does not exist. So `IndInv` adds

* `FlowOK`: a thread inside a call has that call in its start routine, and one
  about to join has a `pthread_t` that was written;
* `PoolInv`: entries in the pool are on their way out, each is there once, and
  an index never handed out has no process.

The lemmas `...StepType` and `...StepFlow` go through every action; `FlowMove`,
`PoolMove` and their companions say once what a move of one thread keeps.

### `DetermProofs`, second part: the token and the mutexes

For `SingleThreadOpt = FALSE`, every program, pool size and clock:

* `TokenCorrect`: `Spec => []TokenDiscipline`
* `SyncExclusive`: `Spec => []SyncExclusion`
* `MutexesExclusive`: `Spec => []MutualExclusion`

The optimisation is excluded because with it the last two are false (finding 1).
The proof shows the rest of the design is sound: pooled reuse, a stale
`_token_holding`, and an arbitrary clock cannot break mutual exclusion. The
inductive invariant is `IndInv` with `SafeInv`, which has three parts:

* `TokenInv`: at each label, what `_token_holding` says (`Local`) and what
  `_tokenpos` says (`Global`). They differ exactly where `determ` released the
  token for a sleep or an exit that `xrun` has not noticed yet.
* `ForkInv`: a fresh entry has no process until its only creator forks it. It
  is needed because `Fork` is the one action that moves another process's label;
  it rests on entries in the pool being WAITING until main ends.
* `MutexInv`: a mutex in somebody's `held` is acquired, a thread between the test
  and the store of `lock_acquire` has found it free, and whoever is on the way to
  `lock_release` has the mutex. The store is safe because `TokenInv` lets no
  second thread be at that point.

### `DetermWaitProofs`: waiting and waking

For every program, pool size and clock; all but the last for
`SingleThreadOpt = FALSE`:

* `WakeUpsKept`: `Spec => []NoLostWakeup`
* `LocksHandedOff`: `Spec => []LockHandOff`
* `JoinsHandedOff`: `Spec => []JoinHandOff`
* `NobodyGivesUp`: `Spec => []NoError`
* `NobodyParked`: `Spec => []NobodyLeftParked`, for both builds

`WaitInv` is added to `IndInv` and `SafeInv`:

* `KindInv`: which call a thread inside a subroutine is in, which `ret` remembers;
* `LockQueueInv`, `CondQueueInv`: the queues hold exactly the threads that wait
  and were not chosen, each once, in the queue of the object their call names;
* `SleepInv`: who sleeps although READY is in the `to_signal` of a thread that is
  about to signal. This is what a lost wake-up would break: the chooser makes the
  waiter READY first and signals it after the token is gone;
* `JoinInv`: JOINING is the status of those asleep in `join`, and a child that
  exits spins until its parent, if that waits for it, is back in the race;
* `HandInv`: `LockHandOff`, and a thread about to enqueue finds the mutex locked.

The token is what makes it inductive: who works on a queue has it (`TokenInv`),
so no second thread is half way through a queue.

### `DetermEnvironmentProofs`, memory: `Spec => []SeesProtectedData` (`DataSeen`)

`MemInv` says where data are between two critical sections: what is written and
not committed belongs to the mutex that the thread is unlocking (`DirtyInv`);
what nobody is about to commit is in memory (`CommittedInv`); who has the mutex
has it in view (`HolderInv`). With `MutexInv`, a commit comes before the release
and an update after the acquisition on every path, those through the queue, the
condition variable and a failed first try included.

### `DetermEnvironmentProofs`, clock: who is active

`ActivityCorrect` (`ActiveIffRunnable`) and `NoBugOnReached` (`NoBugOn`).
`Blocked` speaks of queues; `Stopped` says the same with status words, and
`StoppedBlocked` shows that they agree. `ActiveOK` is that a thread is active
exactly if it is not stopped, and `RunOK` follows an entry through the pool:
it is handed out at most once before it starts, and its status says whether it
was. So every activation finds a thread that is not active, and every halt one
that is, which is what the `BUG_ON`s of the clock's list ask.

### `BarrierProofs`

For every party and number of rounds, both builds:

* `BarrierRefinement`: `Spec => MeetsAtBarrier`, that is, `Barrier` implements
  `BarrierSpec` step by step;
* `TokenKeptTheorem`: `Spec => []TokenKept`;
* `LeavesUpToDateTheorem`: `Spec => LeavesUpToDate`, an action property;
* `CommitOrderTheorem`: `Spec => []CommitsInArrivalOrder`, if
  `FirstVersion + Cardinality(Party) * Rounds < Width` and nobody outside the party
  commits in the parallel build. Without the first hypothesis versions wrap,
  without the second the property is false (finding 5).

`MeetInv` counts: a thread is one or two calls of the pthread barrier into its
round (`CountInv`), who is past the first call knows that all have come
(`OpenInv`), and all threads are in one round or have nothing left to do in the
last (`RoundInv`), with `counter` the number of those that came and the token kept
exactly while all have. For the order, `CommitInv` reads the versions as tickets
(`TicketInv`): an arrival's target is above those of the dirty arrivals before it,
and Conversion's version is not above the target of anyone still to commit; so the
one that may go next is the earliest.

### `TaskClockProofs`

For any number of threads, any program and both builds: `ClockTypeCorrect`
(`Spec => []TypeOK`) and `WalksAgree` (`Spec => []ListAgrees`). The type of
`lowest_tid` needs that each search for the lowest clock returns a thread of the
race, or NULL if it is empty. That a least clock exists is `LeastNumber`, from the
well-foundedness of `<` on the naturals. `Placed` then says for each entry that its
two flags and its place in the list change together.

### `ThreadPartsProofs`: what a thread has of its own

Each theorem is about one part's specification and states the property that the
run `parts` checks on an instance.

* `InstructionsCounted` (`EveryInstructionCounted`), under `PerfBounds`: the counter
  is wider than a period plus the skid of an interrupt, and a chunk is longer than
  two `IMPRECISE_OVERFLOW_BUFFER`s and a skid. The code has 48 bits, periods up to
  200,000, chunks of 1,024,000,000 and a buffer of 200. `PerfInv` says where the
  counter is (`Placed`: below its overflow, or beyond it by what the interrupt is
  late, with `prev_count` behind by less than the width, so that differences modulo
  the width are true), and who has counted the instructions so far (`Counted`: the
  clock, perf's count, the counter, or only the locals of
  `read_clock_and_update`). Its hard case is an NMI between the read and the
  exchange that reloads `prev_count` with the value it had.
* `FenceExact` (`FenceIsExact`), under `FenceBounds`: no period is longer than a
  chunk less its buffer, and an interrupt is less late than the buffer, which is
  what the buffer is for. `ChunkInv` says that the instructions of a chunk are
  `chunk_ticks`, perf's count and the counter together, and that the overflow comes
  before the last `IMPRECISE_OVERFLOW_BUFFER` of them. The second half fails when a
  context switch reloads a period left from an earlier chunk, so `FenceIsExact`
  excepts that case by name.
* `ClockBelongsToThread` (`ClockIsOwn`), for `NumThreads` positive: `OwnClock` follows
  a table entry through its phases, and no two threads that have a file have the
  same one. That perf finds a free file number is `NewFileIsFree`, from finiteness
  and the well-foundedness of `<`.
* `CoarsenedTicksExact` (`TicksExact`) and `CoarsenedDataCommitted`
  (`UnlockedDataCommitted`), if chunks are natural numbers: `Counting` says in which
  of kernel counter, library counter and `coarsened_ticks_counter` the instructions
  are, `Read` the same while the clock is stopped, `Kept` that unpublished data
  stays behind the token, except inside `barrier_wait` (finding 6).
* `EventLogInOrder` (`EventsInOrder`): `LogInv` separates events that ended, the slot
  that is open (perhaps begun by an event that never ended) and untouched ones.
* `MemoryOfOneMoment` (`OneMoment`) and `HolderMakesVersions`: `MemInv` says that who
  is between its two commits sees the committed heap already, and that a sleeper
  that wakes without the token has nothing to commit.
* `OneEntry` (`OneEntryPerMutex`) and `EntriesKeptApart` (`EntriesApart`), under
  `SyncBounds` (the statically initialised mutex, the others and the condition
  variables are different objects). `SyncInv` relates three versions of an entry
  pointer: the committed one, a thread's snapshot, and what it has written and not
  committed. Only a thread in the section that protects initialisation has such
  writes, its snapshot is the committed memory, and what it writes is NULL; so a
  pointer that is not NULL is the committed one, for a mutex somebody has.

### `SharedPartsProofs`: what the threads share

* `ListsStayQueues` (`ListsAreQueues`), from `ActiveListIsQueue` (the kernel's
  `listarray.h`), `ListIsQueue` (`list.h`) and `PoolStaysQueue`. A history variable is
  the queue that the callers think of, and `ArrayInv`, `RingInv`, `PoolInv` say that
  the links are its links. No induction along a list is needed: each step cuts or
  joins a queue at one or two places, and lemmas say what that does to a sequence
  without repetitions (`SeqRemoved`, `SeqJoined`, `RingCuts`, `RingSpliced`). `PoolInv`
  adds that a process in the queue can be woken.
* `ThreadArgumentArrives` (`ArgumentArrives`): `EntryInv` says what a process that is
  to be woken needs, its argument on the heap or a copy of the part of its creator's
  stack that the argument lies on, and that a process which is still to start, or
  runs, has what its creator passed in its own copy of that stack.
* `SimpleLocksExclude` (`SimpleExclusion`), for every set of threads and mutexes, if
  critical sections hold nothing but locking, unlocking, signalling, and waiting
  with the only mutex (`Inside = {}`; with a broadcast the property is false, finding
  7). `lock_acquire` has no way to fail in the DWC build, so exclusion rests on the
  token: `LockInv` says that who has a mutex has the token and counts its mutexes
  right, a mutex is marked exactly while somebody has it, and who has the token
  sees everything.

### Only model-checked

* Liveness: `EveryRoundEnds`, `EveryoneGetsToken`. Fairness and `ENABLED` are
  beyond this prover.
* Everything about `SINGLE_THREAD_OPT`, with which mutual exclusion is false
  (finding 1), except types and `NobodyParked`.
* `JoinNotLost` and `TokenGoesToLowest` hold on the instances of their runs and
  not in general (findings 2 and 4), so there is no theorem to state.
* `NobodyPassedOver`: an invariant for it would have to say at each label of each
  caller how `lowest_tid`, the waiting flags and the wake-ups under way agree.
* The heaps: `InternalDisjoint`, `ObjectsDisjoint`, `PublishedIsAllocated`,
  `RefusesOnlyEarlyObjects`, `LayersKeepApart`, `StructuresAgree`. What is on a free
  list is defined by walking its links, so a step's effect on it needs induction
  along the list; most layers walk with recursive operators or work on bits. Both
  are beyond this prover.

## 6. What is not modelled

* Conversion itself: a kernel module that is not in the repository. It is external
  in every model that uses it.
* `determ::cancel`, `thread_kill`, signals: they kill or stop a process at any
  point, which the runtime has no protocol for (cancel asserts that nobody
  waits). `sig_wait`, `pthread_exit` and `pthread_kill` abort.
* The Kendo, round-robin and `DISABLE_THREAD_POOL` builds; `NO_DETERM_SYNC` takes
  the token in any order, which `Determ` already allows.
* `read` and `write` wrappers, symbol look-up (`real.cpp`), profiling and
  statistics: I/O and observation.
* Declarations and code that this build does not use: `determ_perf_event.h` and
  `perf_event.h` (copies of kernel headers), `logical_clock_real.h`,
  `time_keeping.h`, `debug_clock_cache.c`, `xbitmap.h`, `xpageentry.h`.
* Heap layers that only forward (`xoneheap.h`, adapters, wrappers), platform glue
  (timers, `sbrk.c`, Windows and Solaris locks), logging and tracing heaps, and
  layers that do not compile in this repository (`seg.h`, lazy slot heaps,
  parts of `obstackreap.h`).
* Windows, Solaris and other branches of the layers: only the Linux ones.
