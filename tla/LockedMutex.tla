---------------------------- MODULE LockedMutex ----------------------------
(***************************************************************************)
(* LockedMutex (runtime/BlockingSync.h), in its Fifo form, where release()  *)
(* hands the mutex to the next waiter, and without, where the waiter wakes  *)
(* up and competes; and OwnerMutex on top of it, which counts the nested    *)
(* acquisitions of the owner (enableRecursion() has been called: without    *)
(* it the owner must not acquire again, which is less behaviour).           *)
(***************************************************************************)
EXTENDS BlockingQueue

CONSTANTS Mtx,         \* the queue of the mutex
          MtxTimeouts, \* the timeouts callers use: Never for none, 0 for a try
          MaxNesting   \* bound: nested acquisitions

ASSUME MtxAssumption ==
  /\ Mtx \in Queues
  /\ MtxTimeouts \subseteq 0 .. Never
  /\ MaxNesting \in Nat \ {0}

VARIABLES
  fifo,          \* the Fifo parameter
  mutexOwner,
  nesting,       \* the counter of OwnerMutex
  limit          \* fred -> the timeout of its acquire()

mtxVars == <<fifo, mutexOwner, nesting, limit>>
lockedMutexVars == <<fredVars, timerVars, bqVars, mtxVars>>

LockedMutexInit ==
  /\ FredInit
  /\ TimerInit
  /\ BlockingInit
  /\ fifo \in BOOLEAN
  /\ mutexOwner = Null /\ nesting = 0
  /\ limit = [f \in Freds |-> Never]

MtxGoto(f, l) == pc' = [pc EXCEPT ![f] = l]

\* OwnerMutex::acquire() when the mutex is acquired.
Acquired(f) ==
  /\ nesting' = nesting + 1
  /\ limit' = [limit EXCEPT ![f] = Never]
  /\ MtxGoto(f, "idle")
  /\ UNCHANGED <<raceVars, timerVars, bqVars, fifo>>

\* One round of internalAcquire(): take a mutex without owner or block();
\* the timeout may have passed.
AcquireRound(f, t) ==
  \/ mutexOwner = Null /\ mutexOwner' = f /\ Acquired(f)
  \/ /\ mutexOwner # Null /\ Block(f, Mtx, t)
     /\ limit' = [limit EXCEPT ![f] = t]
     /\ UNCHANGED <<fifo, mutexOwner, nesting>>
  \/ /\ mutexOwner # Null /\ TimeoutPassed(t)
     /\ limit' = [limit EXCEPT ![f] = Never]
     /\ MtxGoto(f, "idle")
     /\ UNCHANGED <<raceVars, timerVars, bqVars, fifo, mutexOwner, nesting>>

\* internalAcquire(): the owner of a recursive OwnerMutex has it already.
MtxAcquire(f, t) ==
  /\ pc[f] = "idle"
  /\ \/ mutexOwner = f /\ nesting < MaxNesting /\ Acquired(f) /\ UNCHANGED mutexOwner
     \/ mutexOwner # f /\ AcquireRound(f, t)

\* block() returns true: the owner is set already, or another round.
MtxUnblocked(f) ==
  /\ pc[f] = "unblocked"
  /\ \/ fifo /\ Acquired(f) /\ UNCHANGED mutexOwner
     \/ ~fifo /\ AcquireRound(f, limit[f])

MtxTimedOut(f) ==
  /\ pc[f] = "timedout"
  /\ limit' = [limit EXCEPT ![f] = Never]
  /\ MtxGoto(f, "idle")
  /\ UNCHANGED <<raceVars, timerVars, bqVars, fifo, mutexOwner, nesting>>

\* Mutant of Handover: a woken fred owns the mutex only after it has run.
HandoverNobody(g) == Null

\* The new owner when g is woken.
Handover(g) == IF fifo THEN g ELSE Null

\* OwnerMutex::release(): the last one releases the mutex.
MtxRelease(f) ==
  /\ pc[f] = "idle" /\ mutexOwner = f
  /\ nesting' = nesting - 1
  /\ \/ /\ nesting > 1
        /\ UNCHANGED <<fredVars, timerVars, bqVars, mutexOwner>>
     \/ /\ nesting = 1
        /\ \E i \in DOMAIN bq[Mtx] : Unblock(f, Mtx, i) /\ mutexOwner' = Handover(bq[Mtx][i])
        /\ MtxGoto(f, "wake")
     \/ /\ nesting = 1 /\ Waiting(Mtx) = {}
        /\ mutexOwner' = Null
        /\ UNCHANGED <<fredVars, timerVars, bqVars>>
  /\ UNCHANGED <<fifo, limit>>

MtxResume(f) ==
  /\ pc[f] = "wake"
  /\ Resume(f)
  /\ MtxGoto(f, "idle")
  /\ UNCHANGED <<timerVars, bqVars, mtxVars>>

LockedMutexNext ==
  \/ \E f \in Freds :
       \/ \E t \in MtxTimeouts : MtxAcquire(f, t)
       \/ MtxUnblocked(f) \/ MtxTimedOut(f) \/ MtxRelease(f) \/ MtxResume(f)
       \/ BlockStep(f) /\ UNCHANGED mtxVars
  \/ Tick /\ UNCHANGED <<bqVars, mtxVars>>
  \/ TimerStep /\ UNCHANGED <<bqVars, mtxVars>>

LockedMutexSpec == LockedMutexInit /\ [][LockedMutexNext]_lockedMutexVars

---------------------------------------------------------------------------

\* Woken through the queue and not back in internalAcquire() yet.
WokenByRelease(f) == pc[f] \in InWait \cup {"unblocked"} /\ resumeInfo[f] = Mtx

\* A release that meets a timeout strands nobody: a fred that sleeps on a
\* mutex without owner has a woken fred ahead of it.  Under Fifo the woken
\* fred is the owner before it runs, so nobody overtakes it; and the nesting
\* count is that of the owner, although it is kept outside the lock.
MutexHandover ==
  /\ mutexOwner = Null /\ Waiting(Mtx) # {} => ~fifo /\ \E f \in Freds : WokenByRelease(f)
  /\ fifo => \A f \in Freds : WokenByRelease(f) => mutexOwner = f
  /\ nesting > 0 <=> mutexOwner # Null /\ ~(fifo /\ WokenByRelease(mutexOwner))
===========================================================================
