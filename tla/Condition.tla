----------------------------- MODULE Condition -----------------------------
(***************************************************************************)
(* Condition (runtime/BlockingSync.h) with the mutex of the API, as         *)
(* fibre_cond_wait, fibre_cond_timedwait, fibre_cond_signal and             *)
(* fibre_cond_broadcast use them (libfibre/fibre.h).  The BlockingQueue of  *)
(* the condition has no lock of its own: the mutex is the lock that block() *)
(* releases, and that it acquires again to remove the node of a wait that   *)
(* has timed out.  Unlike the lock of the other primitives the mutex blocks *)
(* by itself, so a wait can begin inside another one.                       *)
(***************************************************************************)
EXTENDS SpinCondMutex

CONSTANTS Cd,             \* the queue of the condition
          WaitTimeouts,   \* the timeouts of its waits, Never for none
          Uses            \* what applications use: some of Features

\* Waits, signals, waits with a timeout, acquiring the mutex with a timeout.
Features == {"wait", "signal", "timed", "timedlock"}

ASSUME ConditionAssumption ==
  /\ Cd \in Queues \ {Mx}
  /\ WaitTimeouts \subseteq 0 .. Never
  /\ Uses \subseteq SUBSET Features

VARIABLES
  step,     \* fred -> where it is in wait() or signal()
  use       \* what the application of this behaviour uses

condVars == <<spinCondMutexVars, step, use>>

CondInit ==
  /\ SpinCondMutexInit
  /\ step = [f \in Freds |-> "none"]
  /\ use \in Uses

Step(f, from, to) ==
  /\ step[f] = from
  /\ step' = [step EXCEPT ![f] = to]
  /\ UNCHANGED use

---------------------------------------------------------------------------
(* fibre_cond_wait() and fibre_cond_timedwait().                            *)

\* Mutant of CondWait: the race of the last wait is not reset.
CondWaitNoPrepare(f, t) ==
  /\ At(f, "own")
  /\ until' = [until EXCEPT ![f] = t]
  /\ bq' = [bq EXCEPT ![Cd] = Append(@, f)]
  /\ Step(f, "none", "release")
  /\ UNCHANGED <<fredVars, timerVars, blockedOn, value, owner, stage>>

\* block() up to lock.release(); a wait whose time has passed releases the
\* mutex and acquires it again.
CondWait(f, t) ==
  /\ At(f, "own")
  /\ until' = [until EXCEPT ![f] = t]
  /\ \/ /\ ~TimeoutPassed(t)
        /\ PrepareResumeRace(f)
        /\ bq' = [bq EXCEPT ![Cd] = Append(@, f)]
        /\ Step(f, "none", "release")
     \/ /\ TimeoutPassed(t)
        /\ Step(f, "none", "unlock")
        /\ UNCHANGED <<resumeInfo, bq>>
  /\ UNCHANGED <<pc, runState, readyLinks, pending, timerVars, blockedOn, value, owner, stage>>

\* The mutex has been released: suspend, with the timer if there is a timeout.
CondSuspend(f) ==
  /\ At(f, "out")
  /\ Step(f, "release", "sleep")
  /\ pc' = [pc EXCEPT ![f] = IF until[f] = Never THEN "suspend" ELSE "arm"]
  /\ deadline' = [deadline EXCEPT ![f] = until[f]]
  /\ blockedOn' = [blockedOn EXCEPT ![f] = Cd]
  /\ UNCHANGED <<runState, resumeInfo, readyLinks, pending, bq, mutexVars>>
  /\ UNCHANGED <<now, tq, expired, timerfd, tpc, tnow>>

\* f calls acquire() without a timeout.
EnterAcquire(f) ==
  /\ pc' = [pc EXCEPT ![f] = "idle"]
  /\ until' = [until EXCEPT ![f] = Never]
  /\ Goto(f, "low")
  /\ UNCHANGED <<runState, resumeInfo, readyLinks, pending, bqVars, value, owner>>

\* block() returns true, and the mutex is acquired again.
CondSignalled(f) ==
  /\ pc[f] = "resumed" /\ ~Timed(f)
  /\ resumeInfo[f] = Cd
  /\ Step(f, "sleep", "relock")
  /\ EnterAcquire(f)
  /\ UNCHANGED timerVars

\* The timer has won: the clean-up of blockInternal() acquires the mutex ...
CondTimeout(f) ==
  /\ pc[f] = "resumed"
  /\ resumeInfo[f] = Timer
  /\ Step(f, "sleep", "lock")
  /\ EnterAcquire(f)
  /\ deadline' = [deadline EXCEPT ![f] = Never]
  /\ UNCHANGED <<now, tq, expired, timerfd, tpc, tnow>>

\* ... removes the node, without a look at what acquire() has returned (a node
\* that is not queued any more would be an assertion failure) ...
CondRemove(f) ==
  /\ pc[f] = "idle" /\ stage[f] \in {"own", "out"}
  /\ Step(f, "lock", "unlock")
  /\ \/ \E i \in DOMAIN bq[Cd] : bq[Cd][i] = f /\ bq' = [bq EXCEPT ![Cd] = RemoveAt(@, i)]
     \/ ~InQueue(f, Cd) /\ UNCHANGED bq
  /\ Goto(f, "own")
  /\ UNCHANGED <<fredVars, timerVars, blockedOn, value, owner, until>>

\* ... and releases it; wait() returns false, and the mutex is acquired again.
CondUnlocked(f) ==
  /\ At(f, "out")
  /\ Step(f, "unlock", "relock")
  /\ EnterAcquire(f)
  /\ UNCHANGED timerVars

\* The call returns; again whatever acquire() has returned.
CondReturn(f) ==
  /\ pc[f] = "idle" /\ stage[f] \in {"own", "out"}
  /\ Step(f, "relock", "none")
  /\ Goto(f, "own")
  /\ UNCHANGED <<fredVars, timerVars, bqVars, value, owner, until>>

---------------------------------------------------------------------------
(* fibre_cond_signal() and fibre_cond_broadcast(), with the mutex held.     *)

SignalUnblock(f, to) ==
  /\ \E i \in DOMAIN bq[Cd] : Unblock(f, Cd, i)
  /\ pc' = [pc EXCEPT ![f] = "wake"]
  /\ step' = [step EXCEPT ![f] = to]
  /\ UNCHANGED <<mutexVars, use>>

Signal(f) ==
  /\ "signal" \in use
  /\ At(f, "own") /\ step[f] = "none"
  /\ SignalUnblock(f, "signal") \/ SignalUnblock(f, "broadcast")

\* unblock<true>() resumes the fred before it returns; a broadcast goes on
\* until nobody is left.
SignalResume(f) ==
  /\ pc[f] = "wake" /\ stage[f] = "own"
  /\ Resume(f)
  /\ pc' = [pc EXCEPT ![f] = "idle"]
  /\ \/ Step(f, "signal", "none")
     \/ Step(f, "broadcast", "again")
  /\ UNCHANGED <<timerVars, bqVars, mutexVars>>

SignalAgain(f) ==
  /\ At(f, "own") /\ step[f] = "again"
  /\ \/ SignalUnblock(f, "broadcast")
     \/ /\ \A i \in DOMAIN bq[Cd] : ~CanWin(bq[Cd][i])
        /\ Step(f, "again", "none")
        /\ UNCHANGED spinCondMutexVars

---------------------------------------------------------------------------

\* A fred that sleeps on the condition.
CondSleep(f) ==
  /\ step[f] = "sleep"
  /\ \/ TimerQueueStep(f) /\ UNCHANGED bqVars
     \/ FredStep(f) /\ UNCHANGED <<timerVars, bqVars>>
  /\ UNCHANGED <<mutexVars, step, use>>

LockTimeoutUsed(t) == t = Never \/ "timedlock" \in use

\* The mutex, as the application and as wait() use it.
CondMutex(f) ==
  /\ \/ step[f] # "sleep" /\ MutexStep(f)
     \/ step[f] \in {"none", "release", "unlock"} /\ Release(f)
     \/ step[f] = "none" /\ \E t \in Timeouts[f] : LockTimeoutUsed(t) /\ Acquire(f, t)
     \/ step[f] = "none" /\ tryAcquire(f)
  /\ UNCHANGED <<step, use>>

\* The timeouts of the waits: one that has passed already, none where somebody
\* signals, others where waits are timed.
TimeoutUsed(t) ==
  /\ "wait" \in use
  /\ \/ t = 0
     \/ t = Never /\ "signal" \in use
     \/ t \in 1 .. MaxTime /\ "timed" \in use

CondNext ==
  \/ \E f \in Freds :
       \/ \E t \in WaitTimeouts : TimeoutUsed(t) /\ CondWait(f, t)
       \/ CondSuspend(f)
       \/ CondSignalled(f)
       \/ CondTimeout(f)
       \/ CondRemove(f)
       \/ CondUnlocked(f)
       \/ CondReturn(f)
       \/ Signal(f)
       \/ SignalResume(f)
       \/ SignalAgain(f)
       \/ CondSleep(f)
       \/ CondMutex(f)
  \/ Tick /\ UNCHANGED <<bqVars, mutexVars, step, use>>
  \/ TimerStep /\ UNCHANGED <<bqVars, mutexVars, step, use>>

CondSpec == CondInit /\ [][CondNext]_condVars

---------------------------------------------------------------------------

\* The mutex by itself: its inductive invariant, where nobody waits on the
\* condition.
MutexAlone == use \cap {"wait", "signal"} = {} => SpinCondMutexInv

\* acquire() without a timeout does not return without the mutex.
AcquireSucceeds ==
  [][\A f \in Freds : stage[f] = "block" /\ stage'[f] = "out" => until[f] # Never]_condVars

\* A fred that waits on the condition is in its queue until it is won, and
\* then it is owed its resume(), or has got it: no signal() is lost on a fred
\* that has released the mutex and has not suspended yet.
CondWaiters ==
  \A f \in Freds :
    step[f] = "release" \/ (step[f] = "sleep" /\ pc[f] # "resumed") =>
      IF CanWin(f) THEN InQueue(f, Cd)
                   ELSE Owed(f) \/ readyLinks[f] = 1 \/ runState[f] = ResumedEarly

\* The assertion of Ring::take_out(): the node that block() removes after a
\* timeout is still in the queue.
RemovedNodeQueued ==
  \A f \in Freds :
    step[f] = "lock" /\ pc[f] = "idle" /\ stage[f] \in {"own", "out"} => InQueue(f, Cd)
===========================================================================
