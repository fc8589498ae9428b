-------------------------- MODULE LockedSemaphore --------------------------
(***************************************************************************)
(* LockedSemaphore (runtime/BlockingSync.h): baton passing over a           *)
(* BlockingQueue, with timeouts.  FredSemaphore is the counting form, the   *)
(* SyncSem of the event scope the binary one.  The freds of the model call  *)
(* its operations, and sleepFred, in any order.                             *)
(***************************************************************************)
EXTENDS BlockingQueue

CONSTANTS Sem,        \* the blocking queue of the semaphore
          Binary,     \* the template parameter
          InitCount,  \* the initial value
          MaxPosts    \* bound: how many permits V may add

ASSUME SemAssumption ==
  /\ Queues = {Sem}
  /\ Binary \in BOOLEAN
  /\ InitCount \in Nat
  /\ Binary => InitCount <= 1
  /\ MaxPosts \in Nat

VARIABLES
  counter,   \* the permits nobody has taken
  posted,    \* history: how many permits V has added
  taken      \* history: how many permits P has returned with

semVars == <<counter, posted, taken>>
vars == <<fredVars, timerVars, bqVars, semVars>>

Init ==
  /\ FredInit
  /\ TimerInit
  /\ BlockingInit
  /\ counter = InitCount
  /\ posted = 0
  /\ taken = 0

---------------------------------------------------------------------------

\* internalP() takes a permit.
TakePermit ==
  /\ counter' = counter - 1
  /\ taken' = taken + 1
  /\ UNCHANGED <<fredVars, timerVars, bqVars, posted>>

\* P(timeout): an untimed P has the timeout Never.
P(f, t) ==
  /\ pc[f] = "idle"
  /\ \/ counter >= 1 /\ TakePermit
     \/ counter < 1 /\ Block(f, Sem, t) /\ UNCHANGED semVars
     \/ counter < 1 /\ TimeoutPassed(t) /\ UNCHANGED vars

tryP(f) ==
  /\ pc[f] = "idle"
  /\ counter >= 1
  /\ TakePermit

\* wait(): condition semantics, an earlier signal is forgotten.
wait(f, t) ==
  /\ Binary
  /\ pc[f] = "idle"
  /\ counter' = 0
  /\ \/ Block(f, Sem, t)
     \/ TimeoutPassed(t) /\ UNCHANGED <<fredVars, timerVars, bqVars>>
  /\ UNCHANGED <<posted, taken>>

\* P returns to its caller after block(): with a permit, or timed out.
PReturn(f) ==
  /\ \/ pc[f] = "unblocked" /\ taken' = taken + 1
     \/ pc[f] = "timedout" /\ UNCHANGED taken
  /\ pc' = [pc EXCEPT ![f] = "idle"]
  /\ UNCHANGED <<runState, resumeInfo, readyLinks, pending>>
  /\ UNCHANGED <<timerVars, bqVars, counter, posted>>

\* Mutant of V: only the front of the queue is tried.
VFrontOnly(f) ==
  /\ pc[f] = "idle"
  /\ posted < MaxPosts
  /\ posted' = posted + 1
  /\ \/ /\ \E i \in DOMAIN bq[Sem] : i = 1 /\ Unblock(f, Sem, i)
        /\ pc' = [pc EXCEPT ![f] = "wake"]
        /\ UNCHANGED counter
     \/ /\ \A i \in DOMAIN bq[Sem] : i = 1 => ~CanWin(bq[Sem][i])
        /\ counter' = IF Binary THEN 1 ELSE counter + 1
        /\ UNCHANGED <<fredVars, timerVars, bqVars>>
  /\ UNCHANGED taken

\* Mutant of V: the permit is handed over and counted as well.
VNoBaton(f) ==
  /\ pc[f] = "idle"
  /\ posted < MaxPosts
  /\ posted' = posted + 1
  /\ counter' = IF Binary THEN 1 ELSE counter + 1
  /\ \/ /\ \E i \in DOMAIN bq[Sem] : Unblock(f, Sem, i)
        /\ pc' = [pc EXCEPT ![f] = "wake"]
     \/ /\ \A i \in DOMAIN bq[Sem] : ~CanWin(bq[Sem][i])
        /\ UNCHANGED <<fredVars, timerVars, bqVars>>
  /\ UNCHANGED taken

\* V: the permit goes to the first waiting fred, or to the counter.
V(f) ==
  /\ pc[f] = "idle"
  /\ posted < MaxPosts
  /\ posted' = posted + 1
  /\ \/ /\ \E i \in DOMAIN bq[Sem] : Unblock(f, Sem, i)
        /\ pc' = [pc EXCEPT ![f] = "wake"]
        /\ UNCHANGED counter
     \/ /\ \A i \in DOMAIN bq[Sem] : ~CanWin(bq[Sem][i])
        /\ counter' = IF Binary THEN 1 ELSE counter + 1
        /\ UNCHANGED <<fredVars, timerVars, bqVars>>
  /\ UNCHANGED taken

\* tryV: as V, but no permit is left behind.
tryV(f) ==
  /\ pc[f] = "idle"
  /\ posted < MaxPosts
  /\ posted' = posted + 1
  /\ \E i \in DOMAIN bq[Sem] : Unblock(f, Sem, i)
  /\ pc' = [pc EXCEPT ![f] = "wake"]
  /\ UNCHANGED <<counter, taken>>

\* V and tryV resume the fred after the lock has been released.
VResume(f) ==
  /\ pc[f] = "wake"
  /\ Resume(f)
  /\ pc' = [pc EXCEPT ![f] = "idle"]
  /\ UNCHANGED <<timerVars, bqVars, semVars>>

Call(f) ==
  \/ \E t \in 0 .. Never : P(f, t) \/ wait(f, t)
  \/ tryP(f)
  \/ V(f)
  \/ tryV(f)
  \/ \E t \in Times : SleepFred(f, t) /\ UNCHANGED semVars

Continue(f) ==
  \/ BlockStep(f) /\ UNCHANGED semVars
  \/ PReturn(f)
  \/ VResume(f)

Next ==
  \/ \E f \in Freds : Call(f) \/ Continue(f)
  \/ Tick /\ UNCHANGED <<bqVars, semVars>>
  \/ TimerStep /\ UNCHANGED <<bqVars, semVars>>

SafeSpec == Init /\ [][Next]_vars

\* The processors run every ready fred, the clock and the poller's thread go
\* on, and a fred that waits for the timer queue's lock gets it in the end.
\* Whether a fred calls an operation is its own choice.
Fairness ==
  /\ \A f \in Freds :
       /\ WF_vars(Continue(f))
       /\ SF_vars(TimerQueueStep(f) /\ UNCHANGED <<bqVars, semVars>>)
  /\ WF_vars(Tick /\ UNCHANGED <<bqVars, semVars>>)
  /\ WF_vars(TimerStep /\ UNCHANGED <<bqVars, semVars>>)

Spec == SafeSpec /\ Fairness

---------------------------------------------------------------------------

TypeOK ==
  /\ BlockTypeOK
  /\ counter \in Nat /\ posted \in Nat /\ taken \in Nat

\* Nobody sleeps on a semaphore that has a permit: V passes the baton to a
\* waiting fred even while others in the queue have just timed out.
NoSleeperWithPermit == counter > 0 => Waiting(Sem) = {}

Waits(f) == pc[f] \in InWait \cup {"unblocked", "timedout"}

\* Freds that have been handed a permit and have not returned from P yet.
Granted == {f \in Freds : Waits(f) /\ resumeInfo[f] = Sem}

\* What the abstract semaphore knows of this one.
Abs == INSTANCE CountingSemaphore WITH
         permits <- counter, waiting <- Waiting(Sem), granted <- Granted

\* The counting form implements the abstract semaphore, its liveness
\* included: a fred that has been handed a permit returns with it.
ImplementsSemaphore == Abs!Spec

\* A wait with a timeout ends, whatever the other freds do.
TimedWaitEnds == \A f \in Freds : Timed(f) ~> pc[f] = "idle"

\* The result that block() has returned is still the winner of the race.
ResultInv ==
  \A f \in Freds :
    /\ pc[f] = "unblocked" => resumeInfo[f] = Sem
    /\ pc[f] = "timedout" => resumeInfo[f] = Timer

\* The inductive invariant: what TLAPS proves, checked by TLC as well.
IInv ==
  /\ TypeOK
  /\ BlockInv
  /\ ResultInv
  /\ NoSleeperWithPermit
===========================================================================
