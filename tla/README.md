# A TLA+ development for libfibre

libfibre is a user-level threading runtime: *freds* (the runtime's execution
contexts, `Fibre` in the API) are run by *processors* (OS threads) of a
*cluster*, block on runtime-level synchronisation objects, and do I/O through
an event scope with poller threads. This directory models the runtime, its
programming interfaces and the data structures underneath, checks them with TLC
and proves part of them with TLAPS. Paths are relative to the repository's
`src/`.

The models follow the committed configuration (`runtime/testoptions.h`,
`runtime-glue/testoptions.h.default`) on Linux: load balancing on, the Go-style
`IdleManager`, lock-free Nemesis ready queues, assertions off, recursive locking
off, poller fibres with oneshot registrations. Alternatives that a build can
select are modelled where they have a state machine of their own: the counting
`IdleManager`, the stub queues, `LockedMutex`, recursion, the MCS semaphore.

## 1. Inventory

| Component | State | Operations | Interacts with | Hard part | Correct when |
|---|---|---|---|---|---|
| Fred (`runtime/Fred.h`, `Fred.cc`) | `runState`, `resumeInfo`, saved stack | `suspend`, `resume`, `prepareResumeRace`, `raceResume`, `yield`, `migrate`, `postSuspend` | resumed by any thread; runs on a processor | a resume before, during or after the stack is saved; two resumers | resumed exactly once per suspension; linked into one ready queue at a time |
| TimerQueue (`runtime/BlockingSync.h`, `libfibre/Poller.cc`) | multimap of deadlines, `expired` flags, timerfd | `blockTimeout`, `enqueue`, `erase`, `checkExpiry` | races with `unblock` for a fred; timerfd served by the master poller | cancelled timeouts, late reads of the timerfd | no timeout lost, no node removed twice |
| BlockingQueue (same) | list of nodes on the stacks of blocked freds | `block` in three forms, `unblock`; `sleepFred` | used under the lock of each primitive | a timed-out node is still queued while others are served | no node outlives its wait; whoever sleeps can be woken |
| LockedSemaphore | counter, queue | `P`, `tryP`, `wait`, `V`, `tryV` | the counting semaphore of the API, the binary one of `EventScope` | baton passing against timeouts | permits conserved, nobody sleeps with a permit there |
| LockedRWLock | state, two queues | `acquireRead`, `acquireWrite`, `release` | API | hand-over against timeouts; chain of readers | exclusion, state exact, no starvation |
| SpinCondMutex + ConditionalQueue (FredMutex) | value 0/1/2, owner, queue | `acquire`, `tryAcquire`, `release` | API, the lock of Condition | value changes without the queue's lock | exclusion, no lost wake-up |
| Condition | queue | `wait`, `signal` | uses the caller's mutex as the queue's lock | a lock that itself blocks inside `block` | no lost signal, the mutex is really held after a wait |
| Ready queue (`runtime/BaseProcessor.h`, `LockFreeQueues.h`) | Nemesis queue per priority, lock of the poppers | `enqueue`, `dequeue`, `tryDequeue` | every resumer pushes, every processor pops | a push is two steps, the second a plain store | no fred dropped or popped twice |
| Processors, Scheduler, IdleManager (`BaseProcessor.cc`, `Scheduler.h`) | current fred, `spinCounter`, `waitCounter`, `waitingProcs`, halt semaphores | search, steal, spin, halt, wake | resumers wake halted processors | sleeping while a fred becomes ready | no ready fred while everyone sleeps |
| Lock-free queues (`LockFreeQueues.h`, `ConditionalNemesisQueue.h`) | head, tail, stub, links | `push`, `pop`, `remove` | ready queue, limited semaphores, FastBarrier | pop of the last node against a push; removal from the middle | behaves as a queue |
| LockedMutex, OwnerMutex | owner, nesting, queue | `acquire` in three forms, `release` | API (other builds) | hand-over against timeouts and newcomers | the fred chosen gets it |
| LockedBarrier, FastBarrier | counter, queue | `wait` | API | reuse by the next group while the last one is still leaving | groups of the right size, one serial fred each |
| SynchronizedFlag, Joinable, SyncPoint, the life of a Fibre | one word: waiter, posted, detached; stack, result | `fibre_create`, `wait`, `post`, `detach`, `join`, `destroy` | `Fred`, API | join, detach by anybody and exit at once; who frees what, on which stack | no object or stack in use is freed; the result is there |
| Benaphores, LimitedSemaphore0, SpinSemMutex, SimpleMutex0 | counter plus semaphore | `P`, `V`, `acquire`, `release` | FastMutex of the API | an undone P against a committed V | exclusion, no lost wake-up |
| MCSTimeoutSemaphore | MCS queue with tagged pointers, counter | `P` with and without timeout, `V` | `Fred`, timers | a waiter leaves from the middle while neighbours leave too | nodes alive while referenced, nobody forgotten |
| Spin locks (`SpinLocks.h`) | words, tickets, MCS nodes | `acquire`, `tryAcquire`, `release`, `wait` | everything above | hand-over against a half-done acquire | exclusion, nobody spins for good |
| Event I/O (`EventScope.h`, `Poller.*`) | registrations, a binary semaphore per direction | `syncIO`, `connect`, `epoll_wait`, `close`, `notifyOne`; the `lf*` and `cfibre_*` calls | pollers resume freds | an event between a failed call and the wait | no I/O event lost |
| Cluster (`Cluster.*`) | ring of processors, `ringLock`, pause semaphores | `addWorker`, `placement`, `pause`, `resume` | scheduler | everyone waits for everyone | the world stands still when `pause` returns |
| Fibre-specific storage (`Fibre.h`, `Bitmap.h`) | bitmap of keys, destructors, values per fibre | `key_create`, `key_delete`, `setspecific`, `clearSpecific` | end of a fibre, API | an unlocked scan against key changes | values kept, each destructor once |
| API (`fibre.h`, `cfibre.cc`, `gcc/gthr-fibre.h`) | handles, heap objects, attributes | about 120 calls in three layers | everything above | ownership, error codes, attributes lost between layers | codes tell the truth, handles and objects match |
| Containers (`Container.h`), Time (`Basics.h`) | links; seconds and nanoseconds | insertion, removal; sums, differences | everything above | the last element; the carry | equal to a sequence, to an integer |
| Worker pollers (`IOUring.h`, `WorkerPoller` in `Poller.*`, `HaltSemaphore.h`; optional) | submission and completion queues, an eventfd | `poll`, `trySuspend`, `suspend`, `resume`, `syncIO` | halt semaphore of a processor, I/O of its fibres | a wake-up among completions; refused submissions | no wake-up lost, one request per waiting fibre |
| Platform code, statistics, applications | - | - | - | assembly, optional, or without influence | - |

`PROJECT.json` lists the same parts with their status, and the places where
they are hard to test under `hazards`.

## 2. Modules

```
Fred ── TimerQueue ── BlockingQueue ─┬─ LockedSemaphore ──> CountingSemaphore (abstract)
                                     ├─ LockedRWLock
                                     ├─ SpinCondMutex ── Condition
                                     ├─ LockedMutex
                                     └─ LockedBarrier
Fred ── SemMutex, FastBarrier, FibreLife
ReadyQueue ── Scheduler                (the default idle manager)
IdleHandover                           (the counting idle manager)
EventIO                                (P and V of the binary LockedSemaphore as steps)
LockFreeQueue   MCSTimeout   SpinLocks   ClusterPause   FibreSpecific   WorkerHalt
FibreApi   Containers   Times
BlockingQueueProofs ─┬─ SemaphoreConditionProofs   (also MCLockedSemaphore, Condition)
                     ├─ LockProofs                 (also MCPrimitives)
                     ├─ BarrierProofs              (also MCPrimitives)
                     └─ RuntimeProofs              (also MCPrimitives)
MCPrimitives ── ProcessorProofs                    (and SchedulerProofs, by INSTANCE)
EventIO ── EventIOProofs   Scheduler ── SchedulerProofs
```

A line to the right reads "is extended by"; `MC*` modules hold the symmetry
sets (and one property about sets, `PermitsConserved`). `MCPrimitives` puts the
smaller parts side by side: its variable `part`, chosen in Init, says which of
them a behaviour is about, and the variables of the others stay `Null`.

### Fred
`runState` has the code's three values: 0 (`Parked`), 1 (`Running`), 2
(`ResumedEarly`). `Resume` is the `__atomic_fetch_add` of `resume()`;
`SuspendSkip`, `SuspendInternal` and `PostSuspend` are the two tests of
`suspend()` and the decrement that runs on the next stack. `pending[r]` is the
fred a resumer has won and not yet resumed, a local variable of the code. Ready
queues are only counted here (`readyLinks`); `Scheduler` models them.

### TimerQueue
`tq` is the set of freds in the multimap, ordered by `deadline`. `Enqueue`,
`Erase`, `CheckExpiry*` are the critical sections of its lock, with the time
read before the lock (`tnow`), the unlocked first test of `expired`, and the
resume inside the lock. `TimerPoll` and `TimerRead` are the master poller:
`timerfd` may be programmed anew between the two.

### BlockingQueue
A node lives on the stack of its fred and is named by it. `Block` is
`blockInternal` up to the release of the lock; `BlockTrue`, `BlockErase` and
`BlockFalse` are its end for each winner. The locks of the primitives are OS
locks or spin locks, so each critical section is one action. `Unblock` takes
the first node whose race can be won; a race, once decided, stays decided while
the node is queued, so the scan may be taken at one instant.

### LockedSemaphore, CountingSemaphore
One action per call up to its critical section's end, plus `PReturn` and
`VResume` (the resume happens after the lock is released). `unlockP` is `P`
with another lock released first, and `waitV` repeats `tryV`; neither has an
action of its own. `CountingSemaphore` is the abstract specification; the
mapping takes the counter, the freds that can still be woken, and the freds
that have been handed a permit.

### LockedRWLock
`holds` is what a fred has acquired; `Holders` adds those that have been handed
the lock and are on their way out of `block()`. `ReadGranted` is the second
critical section of `internalAR`, which passes the lock on to the next reader.

### SpinCondMutex
Every atomic operation is a step: the compare-and-swap of `tryLock1`, the
exchange of `tryLock2`, the store of `owner`, `ConditionalQueue::block` (reads
`value` under the queue's lock), the exchange of `release`, `unblock`, the
resume. How often `Spin` repeats an attempt is left open.

### Condition
The mutex is the lock of the queue. Since that mutex is a SpinCondMutex, the
wait is not one critical section: `CondWait` queues the node, the ordinary
release steps follow, and `CondSuspend` suspends; after a timeout the node is
removed after the ordinary acquire steps, which may block. `ScopedLock` ignores
what `acquire()` returns, and so do `CondRemove` and `CondReturn`.
`use` says what the application of a behaviour uses (`Features`): waits,
signals, waits with a timeout, timeouts on the mutex itself. With neither waits
nor signals this is `SpinCondMutex` alone, and `MutexAlone` demands its
inductive invariant.

### ReadyQueue, Scheduler
A push is the exchange of the tail and the store of the link; with `TSO` that
store goes through a store buffer of one entry (it is the only store of the
push that is not an atomic operation, and the next push of the thread drains
it). `Scheduler` has one action per step of `searchLocal`, `searchSteal`,
`scheduleFull`, `scheduleIdle`, `IdleManager::block` and `unblock`, `halt`,
`wake`, `suspend`, `yield` and `migrate`. A suspended fred is either parked or,
nondeterministically, already resumed (`PostSuspend`), which `Fred` justifies.
The `procLock` sections of the idle manager are single steps.

### EventIO
The per-descriptor entry of `fdSyncVector` is `poller`, `sync` (the binary
semaphores, at 0 or 1) and `blocking`; the kernel is the set of ready
descriptors and the interest lists of the input, the output and the master
epoll instance, with `EPOLLONESHOT` (`armed`). `Call`, `SetupFD`, `P`, `Retry`
are the steps of `syncIO` and `epoll_wait`, `Connect`, `SetupConnect`, `P`,
`ConnectReturn` those of `connect` with `checkAsyncCompletion` (`bind` does the
same). `close` is two steps, since the number can be reused by another fred as
soon as the kernel has it back; a fetched event stays in `events` meanwhile and
reaches the next user. Every reading call (`read`, `recv`, `accept4` ...) is
"read", every writing one "write"; how much is transferred is left open. A
poller fibre polls, notifies event by event, and goes to sleep in three steps.
P and V are single steps, which `LockedSemaphore` justifies. Assumed of the
application: one fred at a time waits in one direction of a descriptor, and
nobody closes a descriptor that is in use (`reset()` asserts the latter).
`lfDescriptor`, `lfTransfer`, `cfibre_descriptor` and `cfibre_transfer` are the
calls of the two interfaces above; they forward, and say so.

### IdleHandover
The idle manager of `Scheduler.h:75-144`: one counter of ready freds that goes
below zero for processors that wait. The counter is moved first and the lists
after it, so a fred can be left in `waitingFreds` for a processor that has not
listed itself. The ready queues are one set here, since `Scheduler` has the
search; `yield` takes from it without counting, which is the reason why a
processor that owns a count may have to search again.

### WorkerHalt
The two optional builds in which a worker halts in its own poller: `haltKind`
chooses the ring of `IOUring.h` or the epoll instance of `WorkerPoller`.
`internalPoll` is the steps from `PollStart` to `RingReturn` or `EpollAgain`,
with its template parameter in `pollType`; between them the kernel completes
requests (`Complete`, external) and a waker writes to the eventfd (`resume`).
`submitRing` takes any number of the prepared requests, and `RingSubmit`,
like the code, goes on when it takes none. `Halt` and `resume` use the idle
manager as `Scheduler` has it: a processor lists itself, and is woken once by
whoever takes it off the list. The loop of `submit()` for a free entry never
runs, because a full batch is flushed (`RequestsExact`).

### LockedMutex, LockedBarrier
`fifo` is the template parameter of the mutex, `nesting` the counter of
`OwnerMutex` around it. A barrier that completes a group resumes it with the
lock held, so `BarComplete` is one step. Both barriers count, besides the
state of the code, the calls that have begun, those that have returned and the
serial ones among them (`entered`, `done`, `serials`; `entries`, `returns`,
`specials` in FastBarrier): `BarriersInGroups` is about these counts.

### SemMutex, FastBarrier
`kind` chooses `SpinSemMutex` over a benaphore with a `LimitedSemaphore0` (the
FastMutex), with a `LockedSemaphore` (which has a timed acquire), or
`SimpleMutex0`. `BenP`, `SemP`, `BenV`, `SemV` and `BenUndo` are the atomic steps of the
benaphore and of the semaphore behind it: a V that has seen a negative counter
commits to the semaphore, and a P that gives up takes back its decrement
without looking at the result. In FastBarrier the counter chooses the notifier
and the queue, which need not agree, chooses whom it wakes.

### FibreLife
`flag` is the word of SynchronizedFlag with its four meanings, `stacks` the
mapped stacks. The end of a fibre is three steps (`Finalize`, `StackFree`,
`DestroyPost`), the last two on the stack of the next fred; `FlagDone` is the
end of a join, which may delete the object. `Detach(f, g)` may be called by any
fred f, of itself or of any other fibre that was created: before that fibre
runs, while it runs, is joined or ends, and after its end. `post` and `detach`
hold the lock of the flag while they resume the waiter (`flagLock`,
`FlagResume`). `detach` of a flag that is posted already takes the word for a
waiter, which it is not: the caller is at "fault" and the process ends.
What a program must not do is left out: join a fibre twice or after its detach,
or delete it (`fibre_join`) when somebody detaches it.

### LockFreeQueue
Every load, store and atomic update of the four queues is a step, with the
consumers' lock and the removal of `NemesisDoubleQueue`. `fifo` is the history
of what is in the queue in the order of the exchanges of `tail`.

### MCSTimeout
The pointers carry the tags of the code (`Restored`, `Transient`, `AtHead`,
`LeavingSelf`, `LeavingOther`, `Gone`). `Leave1` to `Leave6` are the numbered
steps of the code's comments, `Relink` and `SuccRace`/`SuccPrev` the two sides
of a change of predecessor. `Mixed` allows timed and untimed waiters in one
queue.

### SpinLocks
Six locks, one atomic instruction per step; a spin that sees no change is a
disabled step.

### ClusterPause
`spot` says what each processor does; whoever waits for `ringLock` or for a
pause semaphore keeps its processor, since both belong to the OS. A pause fibre
runs when the running fred gives way.

### FibreApi
`api` is the layer (`fibre.h`, `cfibre.cc`, `gthr-fibre.h`), `what` the kind of
object. The primitives themselves are abstract; the module keeps what the calls
of each layer do besides: handles and heap objects, attributes, return codes,
and the pass-through of `__gthread_*` when the runtime is not active. `told` is
what the return codes have told each fred.

### FibreSpecific, Containers, Times
The bitmap and its `findnext`, which starts at the index itself; one iteration
of the destructor scan per step. `stored` is the history of what a fibre stored
under a key since this key was created; a value that an earlier key with the
same number left behind is in `values` only. The links of `Queue`, `Ring` and `List`
against a sequence. `Time` with `NSEC`, `USEC`, `MSEC` as constants, against an
integer.

## 3. Runs

| Run | Instance | Result |
|---|---|---|
| `sem_safety` | binary semaphore, 3 freds, clock 0..1, 2 posts | inductive invariant; resume protocol, single link, timerfd armed, blocking nodes, nobody forgotten, no sleeper with a permit |
| `sem_counting` | counting semaphore, 2 freds, no symmetry, fairness | permits conserved, implements `CountingSemaphore` with its liveness, timed waits end |
| `rw_stuck` | 3 freds | **violated**: a reader sleeps on an open lock |
| `sched_live` | 2 processors, 2 freds, store buffers, fairness | a fred is in one place; ready freds run |
| `sched_lost` | 2 processors, 1 outside thread, 2 freds, store buffers | **violated**: a fred stays in a ready queue while everyone sleeps |
| `mutex_cond` | 3 freds, clock 0..1; the mutex alone with timeouts, untimed waits with signals, timed waits | exclusion, owner exact, no waiter overlooked, and for the mutex alone its inductive invariant; no lost signal; acquire succeeds |
| `cond_timeout` | 2 freds; waits with signals and timeouts | **violated**: a node is removed twice |
| `io_events` | 2 freds, 1 descriptor number, 2 poller fibres and the master poller | no event lost, no poller asleep with events, registrations exact, connect waits |
| `io_error` | the same | **violated**: a fred waits for output on a failed descriptor |
| `primitives` | 17 parts, see below | 17 properties |
| `mcs_relink` | 3 waiters with and without timeouts, 3 posts | **violated**: a resume is taken for delivered before it is sent |
| `keys_end` | 2 fibres, 4 keys | **violated**: a fibre ends and the destructor of a key with a value is not called |

The parts of `primitives`:

| Part | Instance | Properties |
|---|---|---|
| `rw` | 3 freds, timeouts past, 1 and none | `RWStateCounts`: state counts holders and hand-overs; `ReleaseAlternates` |
| `mutex` | 3 freds, both forms, nesting 2 | `MutexHandedOver`: a free mutex with waiters has a woken one, Fifo hand-over goes to the fred chosen, nesting exact |
| `barrier`, `fast` | 3 freds, groups of 2 and 3, 2 rounds | `BarriersInGroups`: returns come in whole groups, one serial fred each |
| `sem` | 3 freds, three mutexes, 1 timed acquire | `SemMutexSound`: exclusion, no fred asleep on a free mutex |
| `life` | 3 fibres that create, join and detach each other and themselves, at any time | `FibreJoinSafe`: the object goes last, a posted flag comes with the result, no sleeping joiner is unknown to its fibre |
| `sched`, `idle` | 2 processors, 1 outside thread, 3 freds | `NoFredStranded`; `CountersExact`: counters, one wake-up per halt, each fred in one place |
| `worker` | 3 fibres, batches of 2, ring and epoll | `CountersExact`: `WakeupKept` and `RequestsExact` |
| `queue` | 3 nodes, 2 consumers, four queues | `QueueExact`: links and `fifo` agree; `PopsInOrder` |
| `mcs` | 3 waiters, all timed or none, 3 posts | `NodesAlive`: no access to a node whose P has returned; `WaitersServed`: one resume per wait, nobody forgotten |
| `api` | 3 freds, 4 objects, 2 posts, groups of 2 | `ApiSound`: codes tell who has what; handles and heap one to one |
| `spin` | 3 threads, 4 tickets | `SpinSound`: exclusion, exact words, no spinner without somebody to tell it |
| `cluster` | 3 processors, 2 pauses | `PauseStops`: the world stands still, nothing is left of a pause |
| `keys` | 1 fibre, 3 keys | `KeysKept`: values survive growth; no destructor is called twice while keys stay |
| `lists`, `time` | 3 elements; seconds of 12 parts | `DataExact` |

### Bounds
Three freds are a fred that waits, one whose timeout fires or that barges in,
and one that wakes: the shortest cast for a baton passed over a dead node.
`MaxTime = 1` gives a deadline in the past, one in the future and none; the
clock compares only with deadlines, so more instants only repeat this order
(the proofs hold for all). `MaxPosts = 2` is one permit handed over and one
left in the counter. A wait or an acquire with the timeout 1 meets a clock
before and at its deadline. `MaxSpin = 1` keeps one search while spinning, and the
search is the same each time. Two processors and an outside thread let one
processor go idle while the other one spins or steals and somebody resumes.
One descriptor number and two freds give a reader and a writer of one
descriptor, and a fred that reuses the number another one is closing;
descriptors share nothing but the pollers. Three waiters of the MCS queue are a
waiter that leaves between two neighbours that leave as well; three posts serve
them all. Three nodes let a pop of the last node meet a push and a removal.
A batch of two makes a submission of one request wait and of two flush.
Two pauses show whether one leaves something to the next, three keys two
doublings of the vector of values. `TSO` buffers hold one store because a push
starts with an exchange. Deadlock is not checked: freds may stop calling, and
everybody may end up asleep on a semaphore nobody posts.
Symmetry is over freds, and only in runs without liveness properties.

### Fairness
Weak fairness of every started operation: processors run ready freds and OS
threads are scheduled. Strong fairness for the lock of the timer queue and of a
ready queue: both are OS mutexes that are held for bounded sections and
contended repeatedly. The clock advances and the master poller polls. A running
fred suspends sooner or later (`sched_live`), which cooperative scheduling
presupposes. Nobody is
obliged to call `V`, `signal` or `resume`.

### Findings
* `rw_stuck` (`BlockingSync.h:426`): a reader blocks because `bqW` is not
  empty; the only node in it belongs to a writer that has timed out, and that
  writer wakes nobody when it leaves. The lock is open and the reader sleeps.
* `sched_lost` (`Scheduler.h:50`): `unblock()` reads `waitCounter` with a plain
  load after the release store of the push; with store buffers the load may
  come first, the usual store/load pattern without a fence. If the resumer is
  not a processor of the scheduler nobody looks again. Among the processors
  themselves the wake-up is not lost (`sched_live`): the resumer searches later.
* `cond_timeout` (`BlockingSync.h:179`): the clean-up of a timed wait acquires
  the mutex with its node still queued. If that acquire blocks, it opens a new
  resume race; a signal through the old node wins it, the acquire returns
  without the mutex, and the node is removed twice.
* `io_error` (`Poller.cc:45`): an error event of the output poller unblocks the
  input side and nobody else, and the registration is disabled: a `connect`
  that fails in the background, or a `write` to a connection that breaks, waits
  for ever.
* `keys_end` (`Fibre.h:66`): `clearSpecific` asks `findnext` for the next key,
  and `findnext` starts at the index itself (`Bitmap.h:136`), so the loop ends
  after the lowest key in use and the destructors of the others are not called.
  `fibre.h:248` documents the keys as those of `pthread_key_create`. The scan
  takes no lock either: if another fibre deletes the key it is at, it goes on to
  a higher key and stays there for good, calling its destructor again and again,
  or past the end of the vector.
* `mcs_relink` (`MCSTimeoutSemaphore.h:646`): a waiter that is still linking
  itself concludes from a new predecessor that it has been resumed, and cancels
  that resume. For a successor without a timeout the code stores the
  predecessor first (`:624`) and resumes after it, so there is nothing to cancel
  yet; the late resume then ends `P` without a V, with the node still queued.
  It takes timed and untimed waiters in one semaphore; with either kind alone
  (`primitives`) the property and the safety of the nodes hold.

### Observed while modelling
Not runs, but worth knowing for whoever reads or changes the code:
* A reader that is handed the lock passes it on to the next reader without
  looking at the writers (`BlockingSync.h:432`), so readers that keep coming
  back can keep a writer waiting.
* `Cluster::pause()` keeps `ringLock` until `resume()`. A fred on another
  processor that places a fibre meanwhile (`Scheduler.h:194`: every creation in
  a cluster) blocks its OS thread on that lock, its pause fibre never runs, and
  `pause()` does not return. `ClusterPause` reaches this state; `PauseStops` is
  about what holds when `pause()` does return. `resume()` joins with the lock
  held, and may release it on another thread than the one that took it.
* `internalPoll` of a ring ignores whether it could submit (`IOUring.h:66`) and
  waits for a completion. If the kernel refuses the submission that holds the
  read of the eventfd (EAGAIN) and nothing else is in flight, the worker
  sleeps and no wake-up reaches it. `WorkerHalt` reaches this state;
  `WakeupKept` is about the wake-up and its read not being lost or doubled.
* A key that is deleted and created again shows the values of the old one
  (`Fibre.h:84`), where `pthread_key_create` promises NULL in every thread.
  `KeysKept` is about what was stored under the key itself.
* `cfibre_mutex_init` (`cfibre.cc:271`) does not dereference the handle of the
  attributes, so the type that was set is not what is read: a recursive mutex
  made through the C layer, or through `__gthread_recursive_mutex`, is not
  recursive. `TypeGiven` models it.
* A timed P of `FredBenaphore` that gives up can leave a permit too many
  (`BlockingSync.h:735`). A mutex over it tries again after each P, so it stays
  a mutex (`SemMutexSound`); a semaphore would not.
* `detach()` of a fibre whose end is posted (`BlockingSync.h:545`), which
  pthreads allow, resumes address 2, the value of `Posted`, as if it were a
  fred; the comment there says "returns false, if already posted or detached".
  `FibreLife` models it as a fault ("fault"), and `FibreJoinSafe` is about what
  holds until then. With assertions on, line 544 stops the program.
* The order of the last CAS of step 6 (`MCSTimeoutSemaphore.h:397`) allows it to
  touch the node of a waiter that has left; `NodesAlive` leaves that access out.
* The sum of two times with exactly 10^9 nanoseconds is not normalised
  (`Basics.h:99`): the value is exact (`TimesExact`), but `timerfd_settime`
  does not accept it.
* The comment "works with overflow" of SpinBarrier (`SpinLocks.h:189`) is true
  of targets that divide 2^64. `Stack::pop(count)` (`Container.h:62`, unused)
  ends at a null pointer where the class ends its list with a sentinel.

## 4. Proofs

`BlockingQueueProofs` proves that every step of the shared modules preserves
`BlockInv`: types; `RaceInv` (what `runState`, the ready link and the owed
resume may be at each place of a wait); `OwedInv` (each resume is owed by one
resumer); `NodeInv` (a node is queued exactly from `Block` until its race is
won by the queue or its fred removes it); `TimerInv` (who is in the timer
queue, what is marked expired, the timerfd). The properties the runs check are
not inductive by themselves: that a fred is resumed once needs the link from
`resumeInfo` to `pending`, and that needs to know no stale node is queued.

`SemaphoreConditionProofs` is about the semaphore, the mutex and the condition
of the API. For LockedSemaphore it adds `ResultInv` and `NoSleeperWithPermit`,
and proves for every set of freds, both forms, any initial count and any bound:
`SafeRunState`, `SafeLinks`, `SafeNodes`, `SafeWaits`, `SafeTimer`,
`SafeBaton`, and `Implements`: without its fairness the counting form implements
the abstract semaphore. `PermitsAreConserved` holds for both forms: every step
is one of five bookings (`Booked`), and the freds that have been handed a permit
are finitely many, whatever the number of freds, because each cost a post.

For SpinCondMutex it adds `StageInv` (how the place in `acquire` and the place
in `block` fit together), and proves `SafeExclusion`, `SafeOwner`,
`SafeWaiters` and `SafeBlocking`. `MutexAloneInvariance` carries the inductive
invariant over to the composition that `mutex_cond` checks. `WaiterNoticed` is inductive with these: a
fred blocks only while `value` is 2, the exchange that erases a 2 leaves its
fred at "unblock", which turns a waiter into a woken fred, and a woken fred
writes 2 again before it does anything else.

For Condition, `BlockInv` does not hold, because a wait is not one critical
section: the race of a waiter is open from the moment its node is queued, while
the fred is still releasing the mutex, and after a timeout the node stays queued
until the fred has the mutex again, through a second `block` inside the first.
`CondBlockInv` says what holds instead at each place of a wait (`CondRace`,
`CondNodes`), `CondPlaces` how the place in `wait`, in `acquire` and in `block`
fit together. `SafeCondWaiters`, `SafeAcquire` and `SafeCondMutex` follow, for
any number of freds, under the hypothesis that no application both signals and
has timed waits (`SignalOrTimed`). A signal is what takes a node away that its
fred is about to remove: with both, `cond_timeout` refutes what the invariant
says of the node, and with it that `acquire` succeeds.

`EventIOProofs` proves the four properties of `io_events` for any number of
freds and descriptors. `EventKept` speaks of sleepers only; `WaitersAwaited`
extends it to a fred on its way to sleep, which is owed its wake-up by an armed
registration, a fetched event or a permit it has yet to take. `ConnectWaits`
takes the other direction: the output side of a descriptor owes a wake-up only
while somebody waits for it (`OutputAwaited`), never two (`OutputOnce`), and
only once a call can go on (`OutputReady`); with `EntriesCleared` no permit is
left for the next user of the number. `RegistrationExact` needs `ClosingExact`
and `OnePerDirection` (the freds of a descriptor work in opposite directions,
the model's own restriction).

`SchedulerProofs` proves three things for any number of processors, outside
threads and freds. `FredOnce`: `Places` is a cardinality of a set of tagged
places; the proof works with "there is one place x such that a fred is in y
exactly if y = x" (`OnePlace`), one lemma for steps that leave all places alone
and one for steps that move one fred, and `HandsMatch` and `CurMatches` say at
which labels a thread has a fred in its hands. `WakeUpsAreExact`: `Wakes` gives
every processor that has been taken off `waitingProcs` and has not gone on one
token in its semaphore or one waker that holds it in its hands, never both; the
two counters are the cardinalities of the sets of processors at the labels
between their increments and decrements. `NoFredIsStranded`: `Noticed` says for
every ready queue that is not empty that some processor will look into it, or
has it ahead in its last search before it halts, or some thread is on its way
to wake one. It is inductive because a processor raises `waitCounter` before its
last search and a pusher reads it after its push. This order is what store
buffers break, so the theorem has the hypothesis `~TSO`, and `sched_lost` is
the counterexample without it.

`ProcessorProofs` carries these two results over to the composition
`MCPrimitives` (`CountersAreExact`, `NoFredIsLeft`), whose scheduler part is an
INSTANCE of `Scheduler`, and proves the other two parts of these properties.
For the counting idle manager, one counter stands for two things, so `IdleInv`
balances its sides separately: what is above zero are the freds in the ready
queues or on their way there less those already promised to a processor; what is
below, the processors that wait or will wait less the freds on their way to
them. `IdlePlaces` keeps each fred in one place, and `IdleWakes` gives each
halted processor one token or one waker. For a worker that halts in its own
poller, `WorkerInv` says that each request of the ring is in one place (prepared,
in flight or completed), that a fibre waits exactly while its request is in one
of them, and that the value of the eventfd and the list of waiting processors
make one wake-up per halt. It uses that a batch has more than one request (the
code's `BatchSize` is 64).

`LockProofs` proves the reader/writer lock, `LockedMutex`/`OwnerMutex`, the spin
locks and the programming interfaces in the composition `MCPrimitives`. `RWInv`
adds to `BlockInv` that a fred that comes back from the queue was handed the
lock (a hand-over counts as holding) and that the lock is in one of two forms
(`Counted`): open or read by the freds that `state` counts, or written by one.
`RWReleaseAlternates` is an action property, from the same invariant. `MtxInv`
says where the owner may be: outside the mutex, or under Fifo already chosen by
`release()` and not yet back.

The spin locks have an invariant each. The tickets in use are an interval,
one holder each; the counter of the read/write lock has the two forms above;
arrivals at the barrier are its counter modulo the target. For the MCS lock it
is the existence of a line (`MCSLine`): the threads from the one that has the
lock to `tail`, without repetition, each knowing the one before it, and linked
from there as soon as it spins.

`ApiInv`, for the interfaces: a handle is set exactly from the construction of
its object to its destruction, and two handles never hold the same object
(`ApiHandles`); a fred that is inside a call has what its codes told it
(`ApiUsers`, `ApiLock`); permits and the serial freds of a barrier balance
(`ApiCounts`). Without an active runtime `__gthread_*` lets every call succeed,
and `ApiOneThread` is what holds then.

`BarrierProofs`: in LockedBarrier the queue holds the freds of the current
group, and the calls that have begun are the groups completed times the size
plus the arrived ones, and also the calls that have returned plus the freds
inside (`BarCounts`). In FastBarrier the counter, the queue and the wake-ups of
several groups run past each other. `FastSums` writes each of them by the
number d of rounds of notifying that are over and the `rest` of the group that
is gathering: the calls that have begun are the target times the rounds over
and under way, plus the rest, plus those that have not counted yet; the calls
that have returned and the freds taken off the queue are the target times d plus
those the present notifier has told (`woken`); the special ones are d, or one
more when the present round has its own. A fred is queued before it counts, so
the one that a notifier takes off the queue may not have counted: the sums are
invariant, and not who is in which group.

`RuntimeProofs`: `LifeInv` ties the stage of a fibre, the word of its flag and
the place of its fred together, so that whoever sleeps in `join` is either the
waiter in the word or owed a resume by the fred that took it out and has the
lock of the flag (`Sleeps`), be it the fibre itself in `post` or anybody in
`detach`.
`PauseInv` counts pause fibres by phase: while confirming, those to be confirmed
are the posts not taken plus the fibres that have not posted. `SemInv` is about
the mutexes over a benaphore, which have their own queue of waiters. What they
share is the race of a waiter with its timeout (`SemRace`, `SemNodes`). In a
SimpleMutex0 the benaphore counts the freds inside, and exactly one of them, or
a V() about to choose one, has the permit. In the others a fred that gives up
can leave a permit too many, so the count is an inequality: waiters are at most
the permits, the V() under way and what the benaphore is below zero; and while
the benaphore is taken there is a permit, or a fred that will release or retry.

Assumptions: the named ASSUMEs on constants (Null and Timer are no freds and
no queues, bounds are naturals, the queues are the primitive's own, the set of
freds of a lock or a ring is finite, there is at least one processor and there
are finitely many processors and threads, the groups of barriers are not empty,
a batch of the ring has more than one request), and TLC evaluates them in the
runs. Two theorem groups have a hypothesis besides, both refuted without it by a
run: the ones about Condition (`SignalOrTimed`: signals or timed waits, not both) and
`NoFredIsStranded`, `NoFredIsLeft` (stores are visible at once).

### Only model-checked
* Liveness (`TimedWaitEnds`, `ReadyFredRuns`, the liveness of
  `ImplementsSemaphore`, whose safety part is `Implements`): fairness is out of
  the prover's reach. That a mutex is taken in the end and that input is served
  is stated as safety here (`WaiterNoticed`; `EventKept` with `PollerFibreKept`):
  the wake-up is always under way.
* What needs an induction over data: `QueueExact` and `PopsInOrder` (the chain
  of links is a recursive function), `KeysKept` (the power of two a vector
  grows to), `DataExact`.
* Not attempted: `NodesAlive`, `WaitersServed` (MCSTimeout: the invariant has to
  describe a doubly linked line in which neighbours leave at the same time, with
  tags for each phase), and the two properties that `rw_stuck` and `io_error`
  refute.

## 5. Not modelled

* Priorities of freds, affinity, removal of processors, pre-emption, direct
  switching, the build without load balancing; deadlock of the application.
* Stores other than the link of a push are sequentially consistent.
* Event I/O: several freds per direction, `directIO`, edge- and level-triggered
  registrations, cloning of event scopes, fork.
* `fibre_once` is `pthread_once`, and blocks the OS thread of whoever comes
  second. Handles of clusters and event scopes are pointers that are passed on.
* Memory: that the vector of destructors moves while a fibre scans it, the
  allocation of stacks, the reclamation of objects of detached fibres.
* Assembly, system call macros, statistics, debugging and the example
  applications have no module; `PROJECT.json` gives the reasons.

## 6. Plan

1. Theorems: an invariant for the line of waiters of `MCSTimeout`.
2. `LockFreeQueue` shown to implement `ReadyQueue`'s view of a queue, and
   `LimitedTimeoutSemaphore` shown to implement `CountingSemaphore`.
3. Event I/O with several freds per direction, cloning and disk I/O; liveness
   of input.
