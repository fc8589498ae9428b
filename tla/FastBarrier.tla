---------------------------- MODULE FastBarrier ----------------------------
(***************************************************************************)
(* FastBarrier (runtime/BlockingSync.h): a barrier over a lock-free queue   *)
(* of freds and an atomic counter.  The counter picks the notifier, the     *)
(* queue the group it notifies: they need not agree.                        *)
(***************************************************************************)
EXTENDS Fred, Sequences

CONSTANTS Targets,     \* the sizes of group to choose from
          MaxWaits     \* bound: how often a fred calls wait()

ASSUME TargetsAssumption == Targets \subseteq Nat \ {0}

VARIABLES
  target,       \* size of a group
  counter,
  queue,        \* the freds that wait, specified in LockFreeQueue
  notifier,     \* the fred that has the lock, or Null
  woken,        \* i, the iterations of the notifier's loop
  park,         \* fred -> it has to suspend
  calls,        \* fred -> its calls of wait()
  entries, returns, specials   \* all calls of wait(), returns, and returns of true

barrierVars == <<target, counter, queue, notifier, woken, park, calls, entries, returns, specials>>
fastBarrierVars == <<fredVars, barrierVars>>

FastBarrierInit ==
  /\ FredInit
  /\ target \in Targets
  /\ counter = 0 /\ queue = <<>> /\ notifier = Null /\ woken = 0
  /\ park = [f \in Freds |-> FALSE]
  /\ calls = [f \in Freds |-> 0] /\ entries = 0 /\ returns = 0 /\ specials = 0

Go(f, from, to) == pc[f] = from /\ pc' = [pc EXCEPT ![f] = to]

\* wait() up to push().
WaitPush(f) ==
  /\ calls[f] < MaxWaits
  /\ Go(f, "idle", "count")
  /\ PrepareResumeRace(f)
  /\ queue' = Append(queue, f)
  /\ calls' = [calls EXCEPT ![f] = @ + 1]
  /\ entries' = entries + 1
  /\ UNCHANGED <<runState, readyLinks, pending, target, counter, notifier, woken, park, returns, specials>>

\* The counter reaches a multiple of target: f is a notifier.
WaitCount(f) ==
  /\ counter' = counter + 1
  /\ \/ (counter + 1) % target # 0 /\ Go(f, "count", "suspend")
     \/ (counter + 1) % target = 0 /\ Go(f, "count", "subtract")
  /\ park' = [park EXCEPT ![f] = TRUE]
  /\ UNCHANGED <<raceVars, target, queue, notifier, woken, calls, entries, returns, specials>>

WaitSubtract(f) ==
  /\ Go(f, "subtract", "lock")
  /\ counter' = counter - target
  /\ UNCHANGED <<raceVars, target, queue, notifier, woken, park, calls, entries, returns, specials>>

WaitLock(f) ==
  /\ notifier = Null
  /\ Go(f, "lock", "loop")
  /\ notifier' = f /\ woken' = 0
  /\ UNCHANGED <<raceVars, target, counter, queue, park, calls, entries, returns, specials>>

\* Mutant of Special: the last fred of every group is told.
SpecialAlways(f, g) == woken = target - 1

\* The last fred popped is the special one, unless the notifier is.
Special(f, g) == woken = target - 1 /\ park[f]

\* One iteration: pop(), which spins while the queue is empty.
WaitPop(f) ==
  /\ pc[f] = "loop" /\ woken < target /\ queue # <<>>
  /\ queue' = Tail(queue)
  /\ woken' = woken + 1
  /\ LET g == Head(queue) IN
     \/ /\ g = f
        /\ park' = [park EXCEPT ![f] = FALSE]
        /\ UNCHANGED fredVars
     \/ /\ g # f
        /\ \/ Special(f, g) /\ CanWin(g) /\ RaceResume(g, f)
           \/ ~(Special(f, g) /\ CanWin(g)) /\ UNCHANGED resumeInfo
        /\ pending' = [pending EXCEPT ![f] = g]
        /\ pc' = [pc EXCEPT ![f] = "wake"]
        /\ UNCHANGED <<runState, readyLinks, park>>
  /\ UNCHANGED <<target, counter, notifier, calls, entries, returns, specials>>

WaitResume(f) ==
  /\ Resume(f)
  /\ Go(f, "wake", "loop")
  /\ UNCHANGED barrierVars

\* The end of the loop: the notifier suspends unless it has found itself.
WaitUnlock(f) ==
  /\ woken = target
  /\ notifier' = Null /\ woken' = 0
  /\ \/ park[f] /\ Go(f, "loop", "suspend") /\ UNCHANGED <<returns, specials>>
     \/ ~park[f] /\ Go(f, "loop", "idle") /\ returns' = returns + 1 /\ specials' = specials + 1
  /\ UNCHANGED <<raceVars, target, counter, queue, park, calls, entries>>

\* suspend() returns the winner of the race: non-null is true.
WaitReturn(f) ==
  /\ Go(f, "resumed", "idle")
  /\ returns' = returns + 1
  /\ specials' = IF resumeInfo[f] # Null THEN specials + 1 ELSE specials
  /\ UNCHANGED <<raceVars, target, counter, queue, notifier, woken, park, calls, entries>>

FastBarrierNext ==
  \E f \in Freds :
    \/ WaitPush(f) \/ WaitCount(f) \/ WaitSubtract(f) \/ WaitLock(f)
    \/ WaitPop(f) \/ WaitResume(f) \/ WaitUnlock(f) \/ WaitReturn(f)
    \/ FredStep(f) /\ UNCHANGED barrierVars

FastBarrierSpec == FastBarrierInit /\ [][FastBarrierNext]_fastBarrierVars

---------------------------------------------------------------------------

\* "one thread of each group must receive a special return code": nobody
\* leaves before its group is complete, no group has two special freds, and
\* when all are outside or asleep every complete group has left and has had
\* its special fred.
FastBarrierGroups ==
  LET groups == entries \div target IN
  /\ returns <= groups * target
  /\ specials <= groups
  /\ (\A f \in Freds : pc[f] = "idle" \/ (pc[f] = "off" /\ readyLinks[f] = 0))
       => returns = groups * target /\ specials = groups
===========================================================================
