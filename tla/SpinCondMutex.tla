--------------------------- MODULE SpinCondMutex ---------------------------
(***************************************************************************)
(* SpinCondMutex over a ConditionalQueue (runtime/BlockingSync.h), the      *)
(* FredMutex of the API.  value is 0 (free), 1 (taken) or 2 (taken, and     *)
(* somebody may wait).  A fred spins on value, then blocks while value is   *)
(* 2; release() wakes one fred if it finds 2.  A fred that is woken does    *)
(* not own the mutex: it competes again, and leaves 2 behind in any case.   *)
(*                                                                          *)
(* How often a fred spins is left open: an attempt that leaves value alone  *)
(* is a stuttering step.                                                    *)
(***************************************************************************)
EXTENDS BlockingQueue, FiniteSets

CONSTANTS Mx,         \* the queue of the mutex
          Timeouts    \* fred -> the timeouts it uses, Never for none

ASSUME MutexAssumption == Mx \in Queues /\ Timeouts \in [Freds -> SUBSET (0 .. Never)]

VARIABLES
  value,    \* 0, 1 or 2
  owner,    \* the fred that owns the mutex, or Null
  stage,    \* fred -> where it is in acquire() or release()
  until     \* fred -> the timeout it has passed to acquire()

mutexVars == <<value, owner, stage, until>>
spinCondMutexVars == <<fredVars, timerVars, bqVars, mutexVars>>

SpinCondMutexInit ==
  /\ FredInit
  /\ TimerInit
  /\ BlockingInit
  /\ value = 0
  /\ owner = Null
  /\ stage = [f \in Freds |-> "out"]
  /\ until = [f \in Freds |-> Never]

At(f, s) == pc[f] = "idle" /\ stage[f] = s
Goto(f, s) == stage' = [stage EXCEPT ![f] = s]
Elsewhere == UNCHANGED <<fredVars, timerVars, bqVars>>

---------------------------------------------------------------------------
(* acquire().                                                               *)

Acquire(f, t) ==
  /\ At(f, "out")
  /\ until' = [until EXCEPT ![f] = t]
  /\ Goto(f, "low")
  /\ UNCHANGED <<value, owner>> /\ Elsewhere

\* acquire(false): one attempt.
tryAcquire(f) ==
  /\ At(f, "out")
  /\ value = 0
  /\ value' = 1
  /\ Goto(f, "claim")
  /\ UNCHANGED <<owner, until>> /\ Elsewhere

\* tryLock1() while contention is low, then on to tryLock2().
TryLock1(f) ==
  /\ At(f, "low")
  /\ \/ value = 0 /\ value' = 1 /\ Goto(f, "claim")
     \/ value # 0 /\ Goto(f, "high") /\ UNCHANGED value
  /\ UNCHANGED <<owner, until>> /\ Elsewhere

\* Mutant of TryLock2: a fred that has been woken takes the mutex as 1.
TryLock2One(f) ==
  /\ At(f, "high") \/ At(f, "retry")
  /\ value' = IF value = 0 THEN 1 ELSE 2
  /\ IF value = 0 THEN Goto(f, "claim") ELSE Goto(f, "block")
  /\ UNCHANGED <<owner, until>> /\ Elsewhere

\* tryLock2(), in Spin() and after a wait.
TryLock2(f) ==
  /\ At(f, "high") \/ At(f, "retry")
  /\ value' = 2
  /\ \/ value = 0 /\ Goto(f, "claim")
     \/ value # 0 /\ Goto(f, "block")
     \/ value # 0 /\ stage[f] = "high" /\ UNCHANGED stage
  /\ UNCHANGED <<owner, until>> /\ Elsewhere

\* The mutex is taken: owner = cf; the call's timeout is gone.
SetOwner(f) ==
  /\ At(f, "claim")
  /\ owner' = f
  /\ Goto(f, "own")
  /\ until' = [until EXCEPT ![f] = Never]
  /\ UNCHANGED value /\ Elsewhere

\* ConditionalQueue::block(): wait while value is 2; false after a timeout.
QueueBlock(f) ==
  /\ At(f, "block")
  /\ \/ value = 2 /\ Block(f, Mx, until[f]) /\ UNCHANGED stage
     \/ value = 2 /\ TimeoutPassed(until[f]) /\ Goto(f, "out") /\ Elsewhere
     \/ value # 2 /\ Goto(f, "retry") /\ Elsewhere
  /\ UNCHANGED <<value, owner, until>>

\* Mutant of BlockReturn: a fred that has been woken takes the mutex for its own.
BlockReturnOwns(f) ==
  /\ stage[f] = "block"
  /\ \/ pc[f] = "unblocked" /\ Goto(f, "claim")
     \/ pc[f] = "timedout" /\ Goto(f, "out")
  /\ pc' = [pc EXCEPT ![f] = "idle"]
  /\ UNCHANGED <<runState, resumeInfo, readyLinks, pending, timerVars, bqVars>>
  /\ UNCHANGED <<value, owner, until>>

\* BlockingQueue::block() has returned.
BlockReturn(f) ==
  /\ stage[f] = "block"
  /\ \/ pc[f] = "unblocked" /\ Goto(f, "retry")
     \/ pc[f] = "timedout" /\ Goto(f, "out")
  /\ pc' = [pc EXCEPT ![f] = "idle"]
  /\ UNCHANGED <<runState, resumeInfo, readyLinks, pending, timerVars, bqVars>>
  /\ UNCHANGED <<value, owner, until>>

---------------------------------------------------------------------------
(* release().                                                               *)

\* Mutant of Release: owner is not cleared.
ReleaseKeepsOwner(f) ==
  /\ At(f, "own")
  /\ Goto(f, "swap")
  /\ UNCHANGED <<value, owner, until>> /\ Elsewhere

Release(f) ==
  /\ At(f, "own")
  /\ owner' = Null
  /\ Goto(f, "swap")
  /\ UNCHANGED <<value, until>> /\ Elsewhere

\* Mutant of ReleaseSwap: release() wakes nobody.
ReleaseSwapOnly(f) ==
  /\ At(f, "swap")
  /\ value' = 0
  /\ Goto(f, "out")
  /\ UNCHANGED <<owner, until>> /\ Elsewhere

\* The exchange; somebody may wait if it finds 2.
ReleaseSwap(f) ==
  /\ At(f, "swap")
  /\ value' = 0
  /\ Goto(f, IF value = 1 THEN "out" ELSE "unblock")
  /\ UNCHANGED <<owner, until>> /\ Elsewhere

ReleaseUnblock(f) ==
  /\ At(f, "unblock")
  /\ \/ /\ \E i \in DOMAIN bq[Mx] : Unblock(f, Mx, i)
        /\ pc' = [pc EXCEPT ![f] = "wake"]
        /\ Goto(f, "resume")
     \/ /\ \A i \in DOMAIN bq[Mx] : ~CanWin(bq[Mx][i])
        /\ Goto(f, "out")
        /\ Elsewhere
  /\ UNCHANGED <<value, owner, until>>

ReleaseResume(f) ==
  /\ pc[f] = "wake" /\ stage[f] = "resume"
  /\ Resume(f)
  /\ pc' = [pc EXCEPT ![f] = "idle"]
  /\ Goto(f, "out")
  /\ UNCHANGED <<timerVars, bqVars, value, owner, until>>

---------------------------------------------------------------------------

\* The steps of acquire() and release() after their first.
MutexStep(f) ==
  \/ TryLock1(f)
  \/ TryLock2(f)
  \/ SetOwner(f)
  \/ QueueBlock(f)
  \/ BlockStep(f) /\ UNCHANGED mutexVars
  \/ BlockReturn(f)
  \/ ReleaseSwap(f)
  \/ ReleaseUnblock(f)
  \/ ReleaseResume(f)

SpinCondMutexNext ==
  \/ \E f \in Freds :
       \/ \E t \in Timeouts[f] : Acquire(f, t)
       \/ tryAcquire(f)
       \/ Release(f)
       \/ MutexStep(f)
  \/ Tick /\ UNCHANGED <<bqVars, mutexVars>>
  \/ TimerStep /\ UNCHANGED <<bqVars, mutexVars>>

SpinCondMutexSpec == SpinCondMutexInit /\ [][SpinCondMutexNext]_spinCondMutexVars

---------------------------------------------------------------------------

Stages == {"out", "low", "high", "block", "retry", "claim", "own", "swap", "unblock", "resume"}

MutexTypeOK ==
  /\ value \in 0 .. 2
  /\ owner \in Freds \cup {Null}
  /\ stage \in [Freds -> Stages]
  /\ until \in [Freds -> 0 .. Never]

\* From the exchange that takes the mutex to the one that gives it back.
Holding(f) == stage[f] \in {"claim", "own", "swap"}

\* Mutual exclusion, and value is 0 exactly while nobody holds the mutex; so
\* the assertion of release(), value > 0, holds.
MutualExclusion ==
  /\ \A f, g \in Freds : Holding(f) /\ Holding(g) => f = g
  /\ value = 0 <=> \A f \in Freds : ~Holding(f)

\* owner names the fred that owns the mutex, between its two plain stores and
\* only then: the recursion check of acquire() takes nobody else for the
\* owner, and its assertion holds for everybody who does not own it.
OwnerExact == \A f \in Freds : owner = f <=> stage[f] = "own"

\* f has been woken and has not competed again yet.
Woken(f) ==
  \/ stage[f] = "retry"
  \/ stage[f] = "block" /\ pc[f] \in InWait \cup {"unblocked"} /\ resumeInfo[f] = Mx

\* No lost wake-up: while somebody waits, whoever holds the mutex will find 2
\* and wake one, or somebody is about to wake one, or somebody has been woken
\* and will put the 2 back.
WaiterNoticed ==
  Waiting(Mx) # {} =>
    \/ value = 2
    \/ \E f \in Freds : stage[f] = "unblock" \/ Woken(f)

\* Where a fred is in acquire() or release(), told by pc and by stage.
StageInv ==
  \A f \in Freds :
    /\ pc[f] \in InWait => stage[f] = "block" /\ blockedOn[f] = Mx
    /\ pc[f] = "unblocked" => stage[f] = "block" /\ resumeInfo[f] = Mx
    /\ pc[f] = "timedout" => stage[f] = "block"
    /\ pc[f] = "wake" <=> stage[f] = "resume"

\* The inductive invariant: what TLAPS proves, checked by TLC as well.
SpinCondMutexInv ==
  /\ BlockInv
  /\ MutexTypeOK
  /\ StageInv
  /\ MutualExclusion
  /\ OwnerExact
  /\ WaiterNoticed
===========================================================================
