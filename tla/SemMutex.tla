------------------------------ MODULE SemMutex ------------------------------
(***************************************************************************)
(* The mutexes over a benaphore (runtime/BlockingSync.h, Benaphore.h):      *)
(*   "fast"    SpinSemMutex<FredBenaphore<LimitedSemaphore0, true>>, the    *)
(*             FastMutex of the API;                                        *)
(*   "locked"  SpinSemMutex<FredBenaphore<LockedSemaphore, true>>, which    *)
(*             also has a timed acquire;                                    *)
(*   "simple"  SimpleMutex0, which hands the mutex over.                    *)
(* A failed round of Spin() changes nothing, so a fred that spins is one    *)
(* that has not called yet.  The queue of LimitedSemaphore0 is specified in *)
(* LockFreeQueue and is a sequence here; so is that of LockedSemaphore, of  *)
(* which BlockingQueue has the details.                                     *)
(***************************************************************************)
EXTENDS Fred, SequencesExt

CONSTANT MaxTimeouts   \* bound: timed acquires (each may leave a spare permit)

VARIABLES
  kind,       \* which of the mutexes
  ben,        \* the counter of the benaphore
  semCount,   \* the counter of the LockedSemaphore
  semQueue,   \* the freds waiting in the semaphore
  owner,      \* the owner; of a SimpleMutex0, which keeps none, the holder
  timed,      \* fred -> its acquire has a timeout
  timeouts    \* how many acquires had one

semVars == <<kind, ben, semCount, semQueue, owner, timed, timeouts>>
semMutexVars == <<fredVars, semVars>>

SemMutexInit ==
  /\ FredInit
  /\ kind \in {"fast", "locked", "simple"}
  /\ ben = 1 /\ semCount = 0 /\ semQueue = <<>>
  /\ owner = Null
  /\ timed = [f \in Freds |-> FALSE]
  /\ timeouts = 0

At(f, from, to) == pc[f] = from /\ pc' = [pc EXCEPT ![f] = to]

---------------------------------------------------------------------------

\* tryLock(): a compare and exchange of the owner.
TryLock(f) == owner = Null /\ owner' = f

\* tryAcquire() of a SimpleMutex0: tryP() on the benaphore.
SimpleTryAcquire(f) ==
  /\ kind = "simple"
  /\ ben >= 1
  /\ ben' = ben - 1
  /\ owner' = f
  /\ At(f, "idle", "held")
  /\ UNCHANGED <<raceVars, kind, semCount, semQueue, timed, timeouts>>

\* internalAcquire() up to the first P: tryOnly(), Spin().
SemAcquire(f, t) ==
  /\ t => kind = "locked" /\ timeouts < MaxTimeouts
  /\ \/ kind # "simple" /\ TryLock(f) /\ At(f, "idle", "held")
     \/ (kind # "simple" => owner # Null) /\ At(f, "idle", "P") /\ UNCHANGED owner
  /\ timed' = [timed EXCEPT ![f] = t]
  /\ timeouts' = IF t THEN timeouts + 1 ELSE timeouts
  /\ UNCHANGED <<raceVars, kind, ben, semCount, semQueue>>

\* Benaphore::P().
BenP(f) ==
  /\ ben' = ben - 1
  /\ \/ ben > 0 /\ kind # "simple" /\ At(f, "P", "retry") /\ UNCHANGED owner
     \/ ben > 0 /\ kind = "simple" /\ At(f, "P", "held") /\ owner' = f
     \/ ben <= 0 /\ At(f, "P", "semP") /\ UNCHANGED owner
  /\ UNCHANGED <<raceVars, kind, semCount, semQueue, timed, timeouts>>

\* P() of the semaphore: LimitedSemaphore0 always suspends, LockedSemaphore
\* when it has no permit; a timeout that has passed already ends the wait.
SemP(f) ==
  /\ \/ /\ semCount > 0 /\ semCount' = semCount - 1
        /\ At(f, "semP", "retry")
        /\ UNCHANGED <<resumeInfo, semQueue>>
     \/ /\ semCount = 0 /\ UNCHANGED semCount
        /\ semQueue' = Append(semQueue, f)
        /\ PrepareResumeRace(f)
        /\ At(f, "semP", "suspend")
     \/ /\ semCount = 0 /\ timed[f]
        /\ At(f, "semP", "undo")
        /\ UNCHANGED <<resumeInfo, semCount, semQueue>>
  /\ UNCHANGED <<runState, readyLinks, pending, kind, ben, owner, timed, timeouts>>

\* The timer wins the race of a timed waiter ...
SemExpire(f) ==
  /\ timed[f] /\ Contains(semQueue, f) /\ CanWin(f)
  /\ pending[Timer] = Null
  /\ RaceResume(f, Timer)
  /\ pending' = [pending EXCEPT ![Timer] = f]
  /\ UNCHANGED <<pc, runState, readyLinks, semVars>>

\* ... and resumes it.
SemTimer == Resume(Timer) /\ UNCHANGED <<pc, semVars>>

\* Back from P(): a timed out waiter removes its node; a popped one is the
\* holder (SimpleMutex0) or tries again.
SemWoken(f) ==
  /\ \/ resumeInfo[f] = Timer /\ At(f, "resumed", "undo")
        /\ \E i \in DOMAIN semQueue : semQueue[i] = f /\ semQueue' = RemoveAt(semQueue, i)
        /\ UNCHANGED owner
     \/ resumeInfo[f] # Timer /\ kind = "simple" /\ At(f, "resumed", "held")
        /\ owner' = f /\ UNCHANGED semQueue
     \/ resumeInfo[f] # Timer /\ kind # "simple" /\ At(f, "resumed", "retry")
        /\ UNCHANGED <<owner, semQueue>>
  /\ UNCHANGED <<raceVars, kind, ben, semCount, timed, timeouts>>

\* The loop of internalAcquire(): P again after a failed tryLock().
SemRetry(f) ==
  /\ \/ TryLock(f) /\ At(f, "retry", "held")
     \/ owner # Null /\ At(f, "retry", "P") /\ UNCHANGED owner
  /\ UNCHANGED <<raceVars, kind, ben, semCount, semQueue, timed, timeouts>>

\* release() up to V.
SemRelease(f) ==
  /\ At(f, "held", "V")
  /\ owner' = Null
  /\ UNCHANGED <<raceVars, kind, ben, semCount, semQueue, timed, timeouts>>

\* Benaphore<true>::V() leaves 1 alone, Benaphore<false>::V() adds.
BenValue == IF kind # "simple" /\ ben = 1 THEN 1 ELSE ben + 1

\* V() on the benaphore: nobody to wake, or a V() on the semaphore follows.
BenV(f) ==
  /\ ben' = BenValue
  /\ At(f, "V", IF ben >= 0 THEN "idle" ELSE "semV")
  /\ UNCHANGED <<raceVars, kind, semCount, semQueue, owner, timed, timeouts>>

\* A timed P() that gave up takes its decrement back; the result of V() is
\* not looked at.
BenUndo(f) ==
  /\ ben' = BenValue
  /\ At(f, "undo", "idle")
  /\ UNCHANGED <<raceVars, kind, semCount, semQueue, owner, timed, timeouts>>

\* Mutant of SemV: a V() that finds nobody leaves no permit.
SemVLost(f) ==
  \/ \E i \in DOMAIN semQueue :
       /\ CanWin(semQueue[i]) /\ \A j \in 1 .. i - 1 : ~CanWin(semQueue[j])
       /\ IF kind = "locked" THEN RaceResume(semQueue[i], f) ELSE UNCHANGED resumeInfo
       /\ pending' = [pending EXCEPT ![f] = semQueue[i]]
       /\ semQueue' = RemoveAt(semQueue, i)
       /\ At(f, "semV", "wake")
       /\ UNCHANGED <<runState, readyLinks, kind, ben, semCount, owner, timed, timeouts>>
  \/ /\ kind = "locked" /\ \A i \in DOMAIN semQueue : ~CanWin(semQueue[i])
     /\ UNCHANGED semCount
     /\ At(f, "semV", "idle")
     /\ UNCHANGED <<raceVars, kind, ben, semQueue, owner, timed, timeouts>>

\* V() on the semaphore.  LimitedSemaphore0 spins until somebody is queued.
SemV(f) ==
  \/ \E i \in DOMAIN semQueue :
       /\ CanWin(semQueue[i]) /\ \A j \in 1 .. i - 1 : ~CanWin(semQueue[j])
       /\ IF kind = "locked" THEN RaceResume(semQueue[i], f) ELSE UNCHANGED resumeInfo
       /\ pending' = [pending EXCEPT ![f] = semQueue[i]]
       /\ semQueue' = RemoveAt(semQueue, i)
       /\ At(f, "semV", "wake")
       /\ UNCHANGED <<runState, readyLinks, kind, ben, semCount, owner, timed, timeouts>>
  \/ /\ kind = "locked" /\ \A i \in DOMAIN semQueue : ~CanWin(semQueue[i])
     /\ semCount' = semCount + 1
     /\ At(f, "semV", "idle")
     /\ UNCHANGED <<raceVars, kind, ben, semQueue, owner, timed, timeouts>>

SemResume(f) == Resume(f) /\ At(f, "wake", "idle") /\ UNCHANGED semVars

SemMutexNext ==
  \/ \E f \in Freds :
       \/ \E t \in BOOLEAN : SemAcquire(f, t)
       \/ SimpleTryAcquire(f)
       \/ BenP(f) \/ SemP(f) \/ SemExpire(f) \/ SemWoken(f) \/ SemRetry(f)
       \/ SemRelease(f) \/ BenV(f) \/ BenUndo(f) \/ SemV(f) \/ SemResume(f)
       \/ FredStep(f) /\ UNCHANGED semVars
  \/ SemTimer

SemMutexSpec == SemMutexInit /\ [][SemMutexNext]_semMutexVars

---------------------------------------------------------------------------

\* Asleep, and nobody has decided to wake it.
Asleep(f) == pc[f] \in {"suspend", "switch", "off"} /\ Contains(semQueue, f) /\ CanWin(f)

\* No wakeup is lost: when the mutex is free and every fred is either outside
\* or asleep in the semaphore, nobody is asleep.  A timed P() that undoes its
\* decrement of the benaphore races with the V() that counts on a waiter.
SemMutexWakes ==
  owner = Null /\ (\A f \in Freds : pc[f] = "idle" \/ Asleep(f))
    => \A f \in Freds : ~Asleep(f)

\* The holder of the mutex is its owner, also where tryLock() is bypassed:
\* SimpleMutex0 hands over one permit to one fred.
SemMutexExcludes == \A f \in Freds : pc[f] = "held" => owner = f
=============================================================================
