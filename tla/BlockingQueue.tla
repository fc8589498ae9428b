--------------------------- MODULE BlockingQueue ---------------------------
(***************************************************************************)
(* The queue of blocked freds behind every locked primitive                 *)
(* (BlockingQueue in runtime/BlockingSync.h).  A node lives on the stack of  *)
(* the blocked fred, so it is named by the fred.                            *)
(*                                                                          *)
(* The lock of the primitive is not a variable: each of its critical        *)
(* sections is one action.  Inside them only raceResume() can meet another  *)
(* thread (the timer), and a race decided once stays decided while the node *)
(* is queued, so the scan of unblock() may be taken at one instant.         *)
(***************************************************************************)
EXTENDS TimerQueue, SequencesExt

CONSTANT Queues      \* the blocking queues of the primitive

ASSUME QueueAssumption == Null \notin Queues /\ Timer \notin Queues

VARIABLES
  bq,          \* queue -> its nodes, front first
  blockedOn    \* fred -> the queue its current wait is on, Null for a sleep

bqVars == <<bq, blockedOn>>

BlockingInit ==
  /\ bq = [q \in Queues |-> <<>>]
  /\ blockedOn = [f \in Freds |-> Null]

InQueue(f, q) == Contains(bq[q], f)

Empty(q) == bq[q] = <<>>

---------------------------------------------------------------------------
(* block(): called with the lock of the primitive held, which it releases.  *)

\* block(lock, cf, timeout) returns false at once if the timeout has passed.
\* An untimed block has the timeout Never.
TimeoutPassed(t) == t <= now

\* Mutant of Block: the race of the last wait is not reset.
BlockNoPrepare(f, q, t) ==
  /\ ~TimeoutPassed(t)
  /\ bq' = [bq EXCEPT ![q] = Append(@, f)]
  /\ blockedOn' = [blockedOn EXCEPT ![f] = q]
  /\ deadline' = [deadline EXCEPT ![f] = t]
  /\ pc' = [pc EXCEPT ![f] = IF t = Never THEN "suspend" ELSE "arm"]
  /\ UNCHANGED <<runState, resumeInfo, readyLinks, pending>>
  /\ UNCHANGED <<now, tq, expired, timerfd, tpc, tnow>>

\* blockInternal() up to the release of the lock.
Block(f, q, t) ==
  /\ ~TimeoutPassed(t)
  /\ PrepareResumeRace(f)
  /\ bq' = [bq EXCEPT ![q] = Append(@, f)]
  /\ blockedOn' = [blockedOn EXCEPT ![f] = q]
  /\ deadline' = [deadline EXCEPT ![f] = t]
  /\ pc' = [pc EXCEPT ![f] = IF t = Never THEN "suspend" ELSE "arm"]
  /\ UNCHANGED <<runState, readyLinks, pending>>
  /\ UNCHANGED <<now, tq, expired, timerfd, tpc, tnow>>

\* sleepFred(): a race with a single contender, the timer.
SleepFred(f, t) ==
  /\ pc[f] = "idle"
  /\ t >= now
  /\ PrepareResumeRace(f)
  /\ blockedOn' = [blockedOn EXCEPT ![f] = Null]
  /\ deadline' = [deadline EXCEPT ![f] = t]
  /\ pc' = [pc EXCEPT ![f] = "arm"]
  /\ UNCHANGED <<runState, readyLinks, pending, bq>>
  /\ UNCHANGED <<now, tq, expired, timerfd, tpc, tnow>>

\* blockTimeout() returns the winner: the timer entry is erased.
BlockErase(f) ==
  /\ Erase(f)
  /\ UNCHANGED fredVars

\* blockInternal() returns true: the winner was the queue.
BlockTrue(f) ==
  /\ pc[f] = "resumed"
  /\ ~Timed(f)
  /\ resumeInfo[f] = blockedOn[f]
  /\ pc' = [pc EXCEPT ![f] = "unblocked"]
  /\ UNCHANGED <<runState, resumeInfo, readyLinks, pending, timerVars, bqVars>>

\* Mutant of BlockFalse: the node is not removed.
BlockFalseNoRemove(f) ==
  /\ pc[f] = "resumed"
  /\ resumeInfo[f] = Timer
  /\ blockedOn[f] # Null
  /\ pc' = [pc EXCEPT ![f] = "timedout"]
  /\ deadline' = [deadline EXCEPT ![f] = Never]
  /\ UNCHANGED <<runState, resumeInfo, readyLinks, pending, bqVars>>
  /\ UNCHANGED <<now, tq, expired, timerfd, tpc, tnow>>

\* blockInternal() returns false: somebody else, the timer, has won (after
\* any other winner the timer entry is erased first).  The node is still
\* queued and is removed under the lock.
BlockFalse(f) ==
  /\ pc[f] = "resumed"
  /\ blockedOn[f] # Null
  /\ resumeInfo[f] # blockedOn[f]
  /\ resumeInfo[f] = Timer \/ ~Timed(f)
  /\ \E i \in DOMAIN bq[blockedOn[f]] :
       /\ bq[blockedOn[f]][i] = f
       /\ bq' = [bq EXCEPT ![blockedOn[f]] = RemoveAt(@, i)]
  /\ pc' = [pc EXCEPT ![f] = "timedout"]
  /\ deadline' = [deadline EXCEPT ![f] = Never]
  /\ UNCHANGED <<runState, resumeInfo, readyLinks, pending, blockedOn>>
  /\ UNCHANGED <<now, tq, expired, timerfd, tpc, tnow>>

\* sleepFred() returns: blockTimeout() has returned nullptr.
SleepDone(f) ==
  /\ pc[f] = "resumed"
  /\ resumeInfo[f] = Timer
  /\ blockedOn[f] = Null
  /\ pc' = [pc EXCEPT ![f] = "idle"]
  /\ deadline' = [deadline EXCEPT ![f] = Never]
  /\ UNCHANGED <<runState, resumeInfo, readyLinks, pending, bqVars>>
  /\ UNCHANGED <<now, tq, expired, timerfd, tpc, tnow>>

\* The steps of a fred that need the lock of the timer queue.
TimerQueueStep(f) == Enqueue(f) \/ BlockErase(f)

BlockStep(f) ==
  \/ TimerQueueStep(f) /\ UNCHANGED bqVars
  \/ FredStep(f) /\ UNCHANGED <<timerVars, bqVars>>
  \/ BlockTrue(f)
  \/ BlockFalse(f)
  \/ SleepDone(f)

---------------------------------------------------------------------------
(* unblock(): called with the lock held.                                    *)

\* Mutant of FirstWaiting: the front node, whether its race is won or not.
FirstWaitingNoRace(q, i) == i = 1 /\ i \in DOMAIN bq[q]

\* The node at i is the first one whose race can still be won.
FirstWaiting(q, i) ==
  /\ i \in DOMAIN bq[q]
  /\ CanWin(bq[q][i])
  /\ \A j \in DOMAIN bq[q] : j < i => ~CanWin(bq[q][j])

\* Freds that can still be woken through q.
Waiting(q) == {f \in Freds : InQueue(f, q) /\ CanWin(f)}

\* Mutant of Unblock: the node stays in the queue.
UnblockKeepsNode(r, q, i) ==
  /\ FirstWaiting(q, i)
  /\ RaceResume(bq[q][i], q)
  /\ pending' = [pending EXCEPT ![r] = bq[q][i]]
  /\ UNCHANGED <<runState, readyLinks, timerVars, bqVars>>

\* unblock<false>() returns the fred at i; the caller r resumes it, at "wake",
\* after it has released the lock.
Unblock(r, q, i) ==
  /\ FirstWaiting(q, i)
  /\ RaceResume(bq[q][i], q)
  /\ pending' = [pending EXCEPT ![r] = bq[q][i]]
  /\ bq' = [bq EXCEPT ![q] = RemoveAt(@, i)]
  /\ UNCHANGED <<runState, readyLinks, timerVars, blockedOn>>

---------------------------------------------------------------------------

\* A node is in a queue only during the wait it was made for, once, and no
\* longer than its race is undecided or lost to the timer: so no unblock()
\* reaches a fred in a later wait through an old node.
BlockNodes ==
  \A q \in Queues :
    /\ IsInjective(bq[q])
    /\ \A f \in Freds : InQueue(f, q) =>
         /\ blockedOn[f] = q
         /\ pc[f] \in {"arm", "suspend", "switch", "off", "resumed"}
         /\ resumeInfo[f] \in {Null, Timer}

\* Whoever sleeps can be woken: a fred in a wait is in its queue (or, for a
\* sleep, on its way into the timer queue), or has been won and is either
\* owed its resume(), linked into a ready queue, or resumed already.
NobodyForgotten ==
  \A f \in Freds :
    pc[f] \in {"arm", "suspend", "switch", "off"} =>
      IF CanWin(f)
      THEN IF blockedOn[f] = Null THEN pc[f] = "arm" \/ f \in tq
                                  ELSE InQueue(f, blockedOn[f])
      ELSE Owed(f) \/ readyLinks[f] = 1 \/ runState[f] = ResumedEarly

---------------------------------------------------------------------------
(* The inductive invariant behind these properties, shared by the proofs of *)
(* the primitives.                                                          *)

\* From the opening of a race to the return from suspend().
Suspending == {"arm", "suspend", "switch", "off"}
InWait == Suspending \cup {"resumed"}

\* runState, the ready links and the resume() that is owed tell the same
\* story: before the fred is parked ...
RaceRunning(f) ==
  /\ readyLinks[f] = 0
  /\ \/ runState[f] = Running /\ (CanWin(f) <=> ~Owed(f))
     \/ runState[f] = ResumedEarly /\ ~CanWin(f) /\ ~Owed(f)

\* ... and after.
RaceOff(f) ==
  \/ runState[f] = Parked /\ readyLinks[f] = 0 /\ (CanWin(f) <=> ~Owed(f))
  \/ runState[f] = Running /\ readyLinks[f] = 1 /\ ~CanWin(f) /\ ~Owed(f)

RaceInv ==
  \A f \in Freds :
    /\ pc[f] \in {"arm", "suspend", "switch"} => RaceRunning(f)
    /\ pc[f] = "off" => RaceOff(f)
    /\ pc[f] \notin Suspending => runState[f] = Running /\ readyLinks[f] = 0 /\ ~Owed(f)
    /\ pc[f] = "resumed" => ~CanWin(f)

\* Every resume() is owed by one resumer, at the place where it calls it.
OwedInv ==
  /\ \A r, s \in Resumers : pending[r] = pending[s] => r = s \/ pending[r] = Null
  /\ \A f \in Freds : pending[f] # Null => pc[f] = "wake"
  /\ tpc # "resume" => pending[Timer] = Null

\* Which node of a waiting fred is where.
NodeInv ==
  /\ \A q \in Queues : IsInjective(bq[q])
  /\ \A f \in Freds, q \in Queues :
       InQueue(f, q) <=> /\ pc[f] \in InWait
                         /\ blockedOn[f] = q
                         /\ resumeInfo[f] \in {Null, Timer}
  /\ \A f \in Freds : pc[f] \in InWait => resumeInfo[f] \in {Null, Timer, blockedOn[f]}

TimerInv ==
  /\ TimerNodes
  /\ TimerArmed
  /\ \A f \in Freds :
       /\ pc[f] \notin InWait => ~Timed(f)
       /\ pc[f] = "arm" => Timed(f) /\ resumeInfo[f] # Timer
       /\ pc[f] \in InWait => Timed(f) \/ (blockedOn[f] # Null /\ resumeInfo[f] # Timer)
       /\ pc[f] \in InWait \ {"arm"} /\ Timed(f) /\ CanWin(f) => f \in tq
       /\ pc[f] \in InWait \ {"arm"} /\ Timed(f) /\ resumeInfo[f] # Timer => f \in tq \/ expired[f]

BlockTypeOK ==
  /\ pc \in [Freds -> Labels]
  /\ runState \in [Freds -> 0 .. 2]
  /\ resumeInfo \in [Freds -> Queues \cup {Null, Timer}]
  /\ readyLinks \in [Freds -> 0 .. 1]
  /\ pending \in [Resumers -> Freds \cup {Null}]
  /\ now \in Times
  /\ deadline \in [Freds -> 0 .. Never]
  /\ tq \subseteq Freds
  /\ expired \in [Freds -> BOOLEAN]
  /\ timerfd \in 0 .. Never
  /\ tpc \in {"poll", "prePoll", "lock", "scan", "resume"}
  /\ tnow \in Times
  /\ bq \in [Queues -> Seq(Freds)]
  /\ blockedOn \in [Freds -> Queues \cup {Null}]

BlockInv ==
  /\ BlockTypeOK
  /\ RaceInv
  /\ OwedInv
  /\ NodeInv
  /\ TimerInv
===========================================================================
