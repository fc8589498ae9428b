--------------------------- MODULE MCPrimitives ---------------------------
(***************************************************************************)
(* The primitives of the runtime for TLC, one of them per behaviour: the    *)
(* initial state chooses the part, and the variables of the others stay     *)
(* Null.  The locks, barriers and fibres extend the suspend/resume protocol *)
(* of Fred; the others have a state of their own.                           *)
(***************************************************************************)
EXTENDS LockedRWLock, LockedMutex, LockedBarrier, SemMutex, FastBarrier, FibreLife, TLC

CONSTANTS NumProcs, Outside, TSO, MaxSpin, Consumers, Stub, Posters, MaxV, Mixed,
          Group, MaxObjects, MaxPosts, Target, MaxTickets, MaxPauses,
          KeysMax, Sentinel, Anchor, Batch, NSEC, USEC, MSEC, MaxSec

\* What the instances need of their constants.
ASSUME TargetAssumption == Target \in Nat \ {0}
ASSUME BatchAssumption == Batch \in Nat \ {0, 1}
ASSUME ApiAssumption == Group \in Nat \ {0}
ASSUME IdleAssumption ==
  /\ IsFiniteSet(Consumers) /\ Consumers # {} /\ Null \notin Consumers
  /\ IsFiniteSet(Outside)
ASSUME SchedulerAssumption ==
  /\ NumProcs \in Nat \ {0} /\ Outside \cap (1 .. NumProcs) = {}
  /\ Null \notin Freds \cup (1 .. NumProcs) \cup Outside
  /\ TSO \in BOOLEAN /\ MaxSpin \in Nat \ {0}

VARIABLES
  part,
  rq, linked, buffer, readyLock, sPc, search, victim, cur, arg, sNext, sTarget, spins,
  parked, home, spinCounter, waitCounter, waitingProcs, haltSem,
  queueKind, qHead, qTail, mark, nextOf, prevOf, lockHolder, qAt, qElem, seen, qFifo,
  tTimed, tCounter, tHead, tTail, headLock, tNext, prev, predLock, resumes, info, timer,
  tAt, pred, temp, succ, tElem, tCalls,
  api, active, what, ready, attr, fields, fibres, handle, heap, made, taker, readers, permits,
  sleepers, doing, told, tally,
  spinKind, word, serving, whose, link, wait, spinAt, local, before, try, serialCount,
  ring, placeProc, ringLock, spot, startable, pauseFibres, pauseConfirmSem, pauseSem, phase,
  caller, todo, left, pauses,
  bitmap, destructors, values, scan, start, destructed, stored, disturbed,
  container, nextLink, prevLink, front, back, content, chain,
  tv, exact,
  fredCounter, hProcs, hFreds, hReady, hParked, running, step, seenCount, carried, chosen,
  handoverFred, haltTokens,
  haltKind, uAt, pollType, sq, flight, cq, retcode, waiting, submitter, listed, haltFD, count,
  uWoken, haltSync

S == INSTANCE Scheduler WITH pc <- sPc, next <- sNext, target <- sTarget

Q == INSTANCE LockFreeQueue WITH
       Nodes <- Freds, Nil <- Null,
       head <- qHead, tail <- qTail, at <- qAt, elem <- qElem, fifo <- qFifo

T == INSTANCE MCSTimeout WITH
       Waiters <- Freds, NoNode <- Null,
       timed <- tTimed, counter <- tCounter, head <- tHead, tail <- tTail, next <- tNext,
       at <- tAt, elem <- tElem, calls <- tCalls

A == INSTANCE FibreApi WITH Users <- Freds, NoUser <- Null

L == INSTANCE SpinLocks WITH Threads <- Freds, NoOwner <- Null

C == INSTANCE ClusterPause WITH Procs <- Freds, NoProc <- Null

K == INSTANCE FibreSpecific WITH Fibres <- Posters

D == INSTANCE Containers WITH Elems <- Freds, NoLink <- Null

U == INSTANCE Times

H == INSTANCE IdleHandover WITH
       Procs <- Consumers, waitingProcs <- hProcs, waitingFreds <- hFreds, ready <- hReady,
       parked <- hParked, seen <- seenCount

W == INSTANCE WorkerHalt WITH Fibres <- Freds, NoBlock <- Null, woken <- uWoken

schedVars == <<rq, linked, buffer, readyLock, sPc, search, victim, cur, arg, sNext, sTarget,
               spins, parked, home, spinCounter, waitCounter, waitingProcs, haltSem>>
queueVars == <<queueKind, qHead, qTail, mark, nextOf, prevOf, lockHolder, qAt, qElem, seen, qFifo>>
mcsVars   == <<tTimed, tCounter, tHead, tTail, headLock, tNext, prev, predLock, resumes, info,
               timer, tAt, pred, temp, succ, tElem, tCalls>>
apiVars   == <<api, active, what, ready, attr, fields, fibres, handle, heap, made, taker,
               readers, permits, sleepers, doing, told, tally>>
spinVars  == <<spinKind, word, serving, whose, link, wait, spinAt, local, before, try, serialCount>>
clusterVars == <<ring, placeProc, ringLock, spot, startable, pauseFibres, pauseConfirmSem,
                 pauseSem, phase, caller, todo, left, pauses>>

specificVars == <<bitmap, destructors, values, scan, start, destructed, stored, disturbed>>
listVars == <<container, nextLink, prevLink, front, back, content, chain>>
timeVars == <<tv, exact>>
idleVars == <<fredCounter, hProcs, hFreds, hReady, hParked, running, step, seenCount, carried,
              chosen, handoverFred, haltTokens>>
workerVars == <<haltKind, uAt, pollType, sq, flight, cq, retcode, waiting, submitter, listed,
                haltFD, count, uWoken, haltSync>>

FredSymmetry == Permutations(Freds)

---------------------------------------------------------------------------
(* The variables of a part that is not in use.                              *)

NoFred ==
  /\ pc = Null /\ runState = Null /\ resumeInfo = Null /\ readyLinks = Null
  /\ pending = Null

NoTimer ==
  /\ now = Null /\ deadline = Null /\ tq = Null /\ expired = Null /\ timerfd = Null
  /\ tpc = Null /\ tnow = Null /\ bq = Null /\ blockedOn = Null

NoRW ==
  /\ state = Null /\ holds = Null

NoMutex ==
  /\ fifo = Null /\ mutexOwner = Null /\ nesting = Null /\ limit = Null

NoBarrier ==
  /\ group = Null /\ arrived = Null /\ rounds = Null /\ entered = Null
  /\ done = Null /\ serials = Null

NoSem ==
  /\ kind = Null /\ ben = Null /\ semCount = Null /\ semQueue = Null /\ owner = Null
  /\ timed = Null /\ timeouts = Null

NoFast ==
  /\ target = Null /\ counter = Null /\ queue = Null /\ notifier = Null
  /\ woken = Null /\ park = Null /\ calls = Null /\ entries = Null
  /\ returns = Null /\ specials = Null

NoLife ==
  /\ stage = Null /\ stacks = Null /\ flag = Null /\ flagLock = Null /\ result = Null
  /\ joining = Null /\ deletes = Null

NoSched ==
  /\ rq = Null /\ linked = Null /\ buffer = Null /\ readyLock = Null /\ sPc = Null
  /\ search = Null /\ victim = Null /\ cur = Null /\ arg = Null /\ sNext = Null
  /\ sTarget = Null /\ spins = Null /\ parked = Null /\ home = Null
  /\ spinCounter = Null /\ waitCounter = Null /\ waitingProcs = Null
  /\ haltSem = Null

NoQueue ==
  /\ queueKind = Null /\ qHead = Null /\ qTail = Null /\ mark = Null
  /\ nextOf = Null /\ prevOf = Null /\ lockHolder = Null /\ qAt = Null
  /\ qElem = Null /\ seen = Null /\ qFifo = Null

NoApi ==
  /\ api = Null /\ active = Null /\ what = Null /\ ready = Null /\ attr = Null
  /\ fields = Null /\ fibres = Null /\ handle = Null /\ heap = Null /\ made = Null
  /\ taker = Null /\ readers = Null /\ permits = Null /\ sleepers = Null
  /\ doing = Null /\ told = Null /\ tally = Null

NoSpin ==
  /\ spinKind = Null /\ word = Null /\ serving = Null /\ whose = Null /\ link = Null
  /\ wait = Null /\ spinAt = Null /\ local = Null /\ before = Null /\ try = Null
  /\ serialCount = Null

NoCluster ==
  /\ ring = Null /\ placeProc = Null /\ ringLock = Null /\ spot = Null
  /\ startable = Null /\ pauseFibres = Null /\ pauseConfirmSem = Null
  /\ pauseSem = Null /\ phase = Null /\ caller = Null /\ todo = Null /\ left = Null
  /\ pauses = Null

NoKeys ==
  /\ bitmap = Null /\ destructors = Null /\ values = Null /\ scan = Null
  /\ start = Null /\ destructed = Null /\ stored = Null /\ disturbed = Null

NoLists ==
  /\ container = Null /\ nextLink = Null /\ prevLink = Null /\ front = Null
  /\ back = Null /\ content = Null /\ chain = Null

NoIdle ==
  /\ fredCounter = Null /\ hProcs = Null /\ hFreds = Null /\ hReady = Null
  /\ hParked = Null /\ running = Null /\ step = Null /\ seenCount = Null
  /\ carried = Null /\ chosen = Null /\ handoverFred = Null /\ haltTokens = Null

NoWorker ==
  /\ haltKind = Null /\ uAt = Null /\ pollType = Null /\ sq = Null /\ flight = Null
  /\ cq = Null /\ retcode = Null /\ waiting = Null /\ submitter = Null
  /\ listed = Null /\ haltFD = Null /\ count = Null /\ uWoken = Null
  /\ haltSync = Null

NoTime ==
  /\ tv = Null /\ exact = Null

NoMCS ==
  /\ tTimed = Null /\ tCounter = Null /\ tHead = Null /\ tTail = Null
  /\ headLock = Null /\ tNext = Null /\ prev = Null /\ predLock = Null
  /\ resumes = Null /\ info = Null /\ timer = Null /\ tAt = Null /\ pred = Null
  /\ temp = Null /\ succ = Null /\ tElem = Null /\ tCalls = Null

---------------------------------------------------------------------------

PrimitivesInit ==
  \/ /\ part = "rw" /\ RWInit
     /\ NoMutex /\ NoBarrier /\ NoSem /\ NoFast /\ NoLife /\ NoSched /\ NoQueue
     /\ NoApi /\ NoSpin /\ NoCluster /\ NoKeys /\ NoLists /\ NoIdle /\ NoWorker
     /\ NoTime /\ NoMCS
  \/ /\ part = "mutex" /\ LockedMutexInit
     /\ NoRW /\ NoBarrier /\ NoSem /\ NoFast /\ NoLife /\ NoSched /\ NoQueue
     /\ NoApi /\ NoSpin /\ NoCluster /\ NoKeys /\ NoLists /\ NoIdle /\ NoWorker
     /\ NoTime /\ NoMCS
  \/ /\ part = "barrier" /\ LockedBarrierInit
     /\ NoRW /\ NoMutex /\ NoSem /\ NoFast /\ NoLife /\ NoSched /\ NoQueue
     /\ NoApi /\ NoSpin /\ NoCluster /\ NoKeys /\ NoLists /\ NoIdle /\ NoWorker
     /\ NoTime /\ NoMCS
  \/ /\ part = "sem" /\ SemMutexInit
     /\ NoTimer /\ NoRW /\ NoMutex /\ NoBarrier /\ NoFast /\ NoLife /\ NoSched
     /\ NoQueue /\ NoApi /\ NoSpin /\ NoCluster /\ NoKeys /\ NoLists /\ NoIdle
     /\ NoWorker /\ NoTime /\ NoMCS
  \/ /\ part = "fast" /\ FastBarrierInit
     /\ NoTimer /\ NoRW /\ NoMutex /\ NoBarrier /\ NoSem /\ NoLife /\ NoSched
     /\ NoQueue /\ NoApi /\ NoSpin /\ NoCluster /\ NoKeys /\ NoLists /\ NoIdle
     /\ NoWorker /\ NoTime /\ NoMCS
  \/ /\ part = "life" /\ FibreLifeInit
     /\ NoTimer /\ NoRW /\ NoMutex /\ NoBarrier /\ NoSem /\ NoFast /\ NoSched
     /\ NoQueue /\ NoApi /\ NoSpin /\ NoCluster /\ NoKeys /\ NoLists /\ NoIdle
     /\ NoWorker /\ NoTime /\ NoMCS
  \/ /\ part = "sched" /\ S!Init
     /\ NoFred /\ NoTimer /\ NoRW /\ NoMutex /\ NoBarrier /\ NoSem /\ NoFast
     /\ NoLife /\ NoQueue /\ NoApi /\ NoSpin /\ NoCluster /\ NoKeys /\ NoLists
     /\ NoIdle /\ NoWorker /\ NoTime /\ NoMCS
  \/ /\ part = "queue" /\ Q!LockFreeQueueInit
     /\ NoFred /\ NoTimer /\ NoRW /\ NoMutex /\ NoBarrier /\ NoSem /\ NoFast
     /\ NoLife /\ NoSched /\ NoApi /\ NoSpin /\ NoCluster /\ NoKeys /\ NoLists
     /\ NoIdle /\ NoWorker /\ NoTime /\ NoMCS
  \/ /\ part = "mcs" /\ T!MCSTimeoutInit
     /\ NoFred /\ NoTimer /\ NoRW /\ NoMutex /\ NoBarrier /\ NoSem /\ NoFast
     /\ NoLife /\ NoSched /\ NoQueue /\ NoApi /\ NoSpin /\ NoCluster /\ NoKeys
     /\ NoLists /\ NoIdle /\ NoWorker /\ NoTime
  \/ /\ part = "api" /\ A!FibreApiInit
     /\ NoFred /\ NoTimer /\ NoRW /\ NoMutex /\ NoBarrier /\ NoSem /\ NoFast
     /\ NoLife /\ NoSched /\ NoQueue /\ NoSpin /\ NoCluster /\ NoKeys /\ NoLists
     /\ NoIdle /\ NoWorker /\ NoTime /\ NoMCS
  \/ /\ part = "spin" /\ L!SpinInit
     /\ NoFred /\ NoTimer /\ NoRW /\ NoMutex /\ NoBarrier /\ NoSem /\ NoFast
     /\ NoLife /\ NoSched /\ NoQueue /\ NoApi /\ NoCluster /\ NoKeys /\ NoLists
     /\ NoIdle /\ NoWorker /\ NoTime /\ NoMCS
  \/ /\ part = "cluster" /\ C!ClusterInit
     /\ NoFred /\ NoTimer /\ NoRW /\ NoMutex /\ NoBarrier /\ NoSem /\ NoFast
     /\ NoLife /\ NoSched /\ NoQueue /\ NoApi /\ NoSpin /\ NoKeys /\ NoLists
     /\ NoIdle /\ NoWorker /\ NoTime /\ NoMCS
  \/ /\ part = "keys" /\ K!SpecificInit
     /\ NoFred /\ NoTimer /\ NoRW /\ NoMutex /\ NoBarrier /\ NoSem /\ NoFast
     /\ NoLife /\ NoSched /\ NoQueue /\ NoApi /\ NoSpin /\ NoCluster /\ NoLists
     /\ NoIdle /\ NoWorker /\ NoTime /\ NoMCS
  \/ /\ part = "lists" /\ D!ListsInit
     /\ NoFred /\ NoTimer /\ NoRW /\ NoMutex /\ NoBarrier /\ NoSem /\ NoFast
     /\ NoLife /\ NoSched /\ NoQueue /\ NoApi /\ NoSpin /\ NoCluster /\ NoKeys
     /\ NoIdle /\ NoWorker /\ NoTime /\ NoMCS
  \/ /\ part = "idle" /\ H!IdleInit
     /\ NoFred /\ NoTimer /\ NoRW /\ NoMutex /\ NoBarrier /\ NoSem /\ NoFast
     /\ NoLife /\ NoSched /\ NoQueue /\ NoApi /\ NoSpin /\ NoCluster /\ NoKeys
     /\ NoLists /\ NoWorker /\ NoTime /\ NoMCS
  \/ /\ part = "worker" /\ W!WorkerInit
     /\ NoFred /\ NoTimer /\ NoRW /\ NoMutex /\ NoBarrier /\ NoSem /\ NoFast
     /\ NoLife /\ NoSched /\ NoQueue /\ NoApi /\ NoSpin /\ NoCluster /\ NoKeys
     /\ NoLists /\ NoIdle /\ NoTime /\ NoMCS
  \/ /\ part = "time" /\ U!TimesInit
     /\ NoFred /\ NoTimer /\ NoRW /\ NoMutex /\ NoBarrier /\ NoSem /\ NoFast
     /\ NoLife /\ NoSched /\ NoQueue /\ NoApi /\ NoSpin /\ NoCluster /\ NoKeys
     /\ NoLists /\ NoIdle /\ NoWorker /\ NoMCS

PrimitivesNext ==
  \/ /\ part = "rw" /\ RWNext
     /\ UNCHANGED <<part, mtxVars, barVars, semVars, barrierVars, lifeVars,
                    schedVars, queueVars, apiVars, spinVars, clusterVars,
                    specificVars, listVars, idleVars, workerVars, timeVars, mcsVars>>
  \/ /\ part = "mutex" /\ LockedMutexNext
     /\ UNCHANGED <<part, rwVars, barVars, semVars, barrierVars, lifeVars,
                    schedVars, queueVars, apiVars, spinVars, clusterVars,
                    specificVars, listVars, idleVars, workerVars, timeVars, mcsVars>>
  \/ /\ part = "barrier" /\ LockedBarrierNext
     /\ UNCHANGED <<part, rwVars, mtxVars, semVars, barrierVars, lifeVars,
                    schedVars, queueVars, apiVars, spinVars, clusterVars,
                    specificVars, listVars, idleVars, workerVars, timeVars, mcsVars>>
  \/ /\ part = "sem" /\ SemMutexNext
     /\ UNCHANGED <<part, timerVars, bqVars, rwVars, mtxVars, barVars, barrierVars,
                    lifeVars, schedVars, queueVars, apiVars, spinVars, clusterVars,
                    specificVars, listVars, idleVars, workerVars, timeVars, mcsVars>>
  \/ /\ part = "fast" /\ FastBarrierNext
     /\ UNCHANGED <<part, timerVars, bqVars, rwVars, mtxVars, barVars, semVars,
                    lifeVars, schedVars, queueVars, apiVars, spinVars, clusterVars,
                    specificVars, listVars, idleVars, workerVars, timeVars, mcsVars>>
  \/ /\ part = "life" /\ FibreLifeNext
     /\ UNCHANGED <<part, timerVars, bqVars, rwVars, mtxVars, barVars, semVars,
                    barrierVars, schedVars, queueVars, apiVars, spinVars,
                    clusterVars, specificVars, listVars, idleVars, workerVars,
                    timeVars, mcsVars>>
  \/ /\ part = "sched" /\ S!Next
     /\ UNCHANGED <<part, fredVars, timerVars, bqVars, rwVars, mtxVars, barVars,
                    semVars, barrierVars, lifeVars, queueVars, apiVars, spinVars,
                    clusterVars, specificVars, listVars, idleVars, workerVars,
                    timeVars, mcsVars>>
  \/ /\ part = "queue" /\ Q!LockFreeQueueNext
     /\ UNCHANGED <<part, fredVars, timerVars, bqVars, rwVars, mtxVars, barVars,
                    semVars, barrierVars, lifeVars, schedVars, apiVars, spinVars,
                    clusterVars, specificVars, listVars, idleVars, workerVars,
                    timeVars, mcsVars>>
  \/ /\ part = "mcs" /\ T!MCSTimeoutNext
     /\ UNCHANGED <<part, fredVars, timerVars, bqVars, rwVars, mtxVars, barVars,
                    semVars, barrierVars, lifeVars, schedVars, queueVars, apiVars,
                    spinVars, clusterVars, specificVars, listVars, idleVars,
                    workerVars, timeVars>>
  \/ /\ part = "api" /\ A!FibreApiNext
     /\ UNCHANGED <<part, fredVars, timerVars, bqVars, rwVars, mtxVars, barVars,
                    semVars, barrierVars, lifeVars, schedVars, queueVars, spinVars,
                    clusterVars, specificVars, listVars, idleVars, workerVars,
                    timeVars, mcsVars>>
  \/ /\ part = "spin" /\ L!SpinNext
     /\ UNCHANGED <<part, fredVars, timerVars, bqVars, rwVars, mtxVars, barVars,
                    semVars, barrierVars, lifeVars, schedVars, queueVars, apiVars,
                    clusterVars, specificVars, listVars, idleVars, workerVars,
                    timeVars, mcsVars>>
  \/ /\ part = "cluster" /\ C!ClusterNext
     /\ UNCHANGED <<part, fredVars, timerVars, bqVars, rwVars, mtxVars, barVars,
                    semVars, barrierVars, lifeVars, schedVars, queueVars, apiVars,
                    spinVars, specificVars, listVars, idleVars, workerVars,
                    timeVars, mcsVars>>
  \/ /\ part = "keys" /\ K!SpecificNext
     /\ UNCHANGED <<part, fredVars, timerVars, bqVars, rwVars, mtxVars, barVars,
                    semVars, barrierVars, lifeVars, schedVars, queueVars, apiVars,
                    spinVars, clusterVars, listVars, idleVars, workerVars, timeVars,
                    mcsVars>>
  \/ /\ part = "lists" /\ D!ListsNext
     /\ UNCHANGED <<part, fredVars, timerVars, bqVars, rwVars, mtxVars, barVars,
                    semVars, barrierVars, lifeVars, schedVars, queueVars, apiVars,
                    spinVars, clusterVars, specificVars, idleVars, workerVars,
                    timeVars, mcsVars>>
  \/ /\ part = "idle" /\ H!IdleNext
     /\ UNCHANGED <<part, fredVars, timerVars, bqVars, rwVars, mtxVars, barVars,
                    semVars, barrierVars, lifeVars, schedVars, queueVars, apiVars,
                    spinVars, clusterVars, specificVars, listVars, workerVars,
                    timeVars, mcsVars>>
  \/ /\ part = "worker" /\ W!WorkerNext
     /\ UNCHANGED <<part, fredVars, timerVars, bqVars, rwVars, mtxVars, barVars,
                    semVars, barrierVars, lifeVars, schedVars, queueVars, apiVars,
                    spinVars, clusterVars, specificVars, listVars, idleVars,
                    timeVars, mcsVars>>
  \/ /\ part = "time" /\ U!TimesNext
     /\ UNCHANGED <<part, fredVars, timerVars, bqVars, rwVars, mtxVars, barVars,
                    semVars, barrierVars, lifeVars, schedVars, queueVars, apiVars,
                    spinVars, clusterVars, specificVars, listVars, idleVars,
                    workerVars, mcsVars>>

primitivesVars == <<part, fredVars, timerVars, bqVars, rwVars, mtxVars, barVars,
    semVars, barrierVars, lifeVars, schedVars, queueVars, apiVars, spinVars,
    clusterVars, specificVars, listVars, idleVars, workerVars, timeVars, mcsVars>>

PrimitivesSpec == PrimitivesInit /\ [][PrimitivesNext]_primitivesVars

---------------------------------------------------------------------------

\* LockedRWLock: state counts the freds that have the lock, or have been
\* handed it, whatever hand-over races with whatever timeout.
RWStateCounts == part = "rw" => StateCounts

\* LockedRWLock: release() never leaves a waiting writer behind for another
\* reader, nor, by a writer, a waiting reader for another writer.
ReleaseAlternates == [][part = "rw" => Alternates]_primitivesVars

\* LockedMutex: a fred that release() has chosen gets the mutex (Fifo), or
\* competes for it, and nobody else takes it over in between.
MutexHandedOver == part = "mutex" => MutexHandover

\* LockedBarrier and FastBarrier: freds pass in groups of the barrier's size,
\* each with one serial fred.
BarriersInGroups ==
  /\ part = "barrier" => BarrierGroups
  /\ part = "fast" => FastBarrierGroups

\* The mutexes on a semaphore or benaphore have one holder, a fred that sleeps
\* is woken by whoever has the mutex, and no V() is lost.
SemMutexSound == part = "sem" => SemMutexExcludes /\ SemMutexWakes

\* The end of a fibre: no stack in use is unmapped, no object in use deleted,
\* and whoever joins gets the result.
FibreJoinSafe == part = "life" => JoinSafe

\* A ready fred is never left to sleeping processors, by either idle manager.
NoFredStranded ==
  /\ part = "sched" => S!NoFredStranded
  /\ part = "idle" => H!NoFredLeft

\* The counters of the idle managers match the processors and freds that
\* count there, and every halt is matched by one wake-up, also when a worker
\* halts in its own poller among the requests of its fibres.
CountersExact ==
  /\ part = "sched" => S!CountersExact /\ S!WakeOnce
  /\ part = "idle" => H!HandoverExact
  /\ part = "worker" => W!WakeupKept /\ W!RequestsExact

\* The lock-free queues deliver in the order in which pushes took their
\* place, across the race of a pop of the last element with a push.
PopsInOrder == [][part = "queue" => Q!PoppedInOrder]_primitivesVars

\* The links of a lock-free queue hold exactly its elements.
QueueExact == part = "queue" => Q!QueueExact

\* The MCS semaphore never touches the node of a waiter that has left.
NodesAlive == part = "mcs" => T!NodesAlive

\* The MCS semaphore resumes a waiter once per suspension, forgets nobody and
\* loses no permit.
WaitersServed == part = "mcs" => T!ResumedOnce /\ T!WaitersCounted

\* The return codes of the programming interfaces tell the truth about who
\* has what, in each of the three layers, and the C handles and the heap
\* objects behind them are one to one.
ApiSound == part = "api" => A!ApiTruthful /\ A!HandlesExact

\* The spin locks exclude, and forget no thread that spins.
SpinSound == part = "spin" => L!SpinSound

\* Cluster::pause() returns only in a stopped world, and resume() leaves
\* nothing of it behind.
PauseStops == part = "cluster" => C!PauseStops

\* Fibre-specific values survive the growth of their vector, and the end of a
\* fibre calls no destructor twice.
KeysKept == part = "keys" => K!KeysKept

\* The links of the intrusive containers spell the sequence their operations
\* stand for; sums and differences of times are exact.
DataExact ==
  /\ part = "lists" => D!ListsExact
  /\ part = "time" => U!TimesExact
===========================================================================
