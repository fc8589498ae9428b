---------------------------- MODULE TimerQueue ----------------------------
(***************************************************************************)
(* Timeouts: the TimerQueue of an event scope, the timerfd it programs and  *)
(* the master poller's thread that serves it (runtime/BlockingSync.h,       *)
(* libfibre/Poller.h, Poller.cc).                                           *)
(*                                                                          *)
(* The multimap from deadlines to nodes is the set tq of freds that have a  *)
(* node in it, ordered by deadline.  The order among equal deadlines is     *)
(* left open: checkExpiry treats them alike.                                *)
(***************************************************************************)
EXTENDS Fred

CONSTANT MaxTime     \* bound: the last instant the clock reaches

ASSUME TimeAssumption == MaxTime \in Nat

VARIABLES
  now,        \* the clock
  deadline,   \* fred -> absolute timeout of its current wait, Never if none
  tq,         \* the freds with a node in the timer queue
  expired,    \* fred -> the "expired" flag of its node
  timerfd,    \* the instant the timerfd is armed for, Never if it is not
  tpc,        \* where the master poller is
  tnow        \* the time checkExpiry compares with, read before it locks

timerVars == <<now, deadline, tq, expired, timerfd, tpc, tnow>>

Times == 0 .. MaxTime
Never == MaxTime + 1     \* no timeout; a timerfd that is not armed

TimerInit ==
  /\ now = 0
  /\ deadline = [f \in Freds |-> Never]
  /\ tq = {}
  /\ expired = [f \in Freds |-> FALSE]
  /\ timerfd = Never
  /\ tpc = "poll"
  /\ tnow = 0

---------------------------------------------------------------------------
(* A fred that waits with a timeout.                                        *)

\* checkExpiry holds the queue's lock; every other critical section of the
\* lock is a single step.
Locked == tpc \in {"scan", "resume"}

Timed(f) == deadline[f] # Never

\* queue.begin()->first: the earliest of the freds in S.
First(f, S) == f \in S /\ \A g \in S : deadline[f] <= deadline[g]

\* enqueue(): insert the node, and program the timerfd if it is the first
\* (a node with an equal deadline is inserted after the ones already there).
Enqueue(f) ==
  /\ pc[f] = "arm"
  /\ ~Locked
  /\ tq' = tq \cup {f}
  /\ expired' = [expired EXCEPT ![f] = FALSE]
  /\ \/ /\ \A g \in tq : deadline[f] < deadline[g]
        /\ timerfd' = deadline[f]
     \/ /\ \E g \in tq : deadline[g] <= deadline[f]
        /\ UNCHANGED timerfd
  /\ pc' = [pc EXCEPT ![f] = "suspend"]
  /\ UNCHANGED <<runState, resumeInfo, readyLinks, pending>>
  /\ UNCHANGED <<now, deadline, tpc, tnow>>

\* erase(), after somebody else has won the race.  The flag is read without
\* the lock first; if it is not set, again under the lock.
Erase(f) ==
  /\ pc[f] = "resumed"
  /\ Timed(f)
  /\ resumeInfo[f] # Timer
  /\ \/ expired[f] /\ UNCHANGED tq
     \/ ~expired[f] /\ ~Locked /\ tq' = tq \ {f}
  /\ deadline' = [deadline EXCEPT ![f] = Never]
  /\ UNCHANGED <<now, expired, timerfd, tpc, tnow>>

---------------------------------------------------------------------------
(* The clock and the master poller's thread.                                *)

\* CLOCK_REALTIME advances.
Tick ==
  /\ now < MaxTime
  /\ now' = now + 1
  /\ UNCHANGED fredVars
  /\ UNCHANGED <<deadline, tq, expired, timerfd, tpc, tnow>>

\* The kernel reports an armed timerfd as readable once its time has come.
Readable == timerfd <= now

\* doPoll() and notifyAll(): the timerfd is level-triggered.
TimerPoll ==
  /\ tpc = "poll"
  /\ Readable
  /\ tpc' = "prePoll"
  /\ UNCHANGED fredVars
  /\ UNCHANGED <<now, deadline, tq, expired, timerfd, tnow>>

\* Mutant of TimerRead: the timerfd is read and the queue is not checked.
TimerReadOnly ==
  /\ tpc = "prePoll"
  /\ timerfd' = IF Readable THEN Never ELSE timerfd
  /\ tpc' = "poll"
  /\ UNCHANGED fredVars
  /\ UNCHANGED <<now, deadline, tq, expired, tnow>>

\* prePoll(): the read disarms the timerfd, and fails if it has been
\* programmed anew in the meantime.  checkExpiry starts with the time.
TimerRead ==
  /\ tpc = "prePoll"
  /\ \/ Readable /\ timerfd' = Never /\ tnow' = now /\ tpc' = "lock"
     \/ ~Readable /\ tpc' = "poll" /\ UNCHANGED <<timerfd, tnow>>
  /\ UNCHANGED fredVars
  /\ UNCHANGED <<now, deadline, tq, expired>>

CheckExpiryLock ==
  /\ tpc = "lock"
  /\ tpc' = "scan"
  /\ UNCHANGED fredVars
  /\ UNCHANGED <<now, deadline, tq, expired, timerfd, tnow>>

\* The first node is due: race for its fred.  The loser marks the node, so
\* that the fred does not erase it a second time.
CheckExpiryNode(f) ==
  /\ tpc = "scan"
  /\ First(f, tq)
  /\ deadline[f] <= tnow
  /\ tq' = tq \ {f}
  /\ \/ /\ CanWin(f)
        /\ RaceResume(f, Timer)
        /\ pending' = [pending EXCEPT ![Timer] = f]
        /\ tpc' = "resume"
        /\ UNCHANGED expired
     \/ /\ ~CanWin(f)
        /\ expired' = [expired EXCEPT ![f] = TRUE]
        /\ UNCHANGED <<resumeInfo, pending, tpc>>
  /\ UNCHANGED <<pc, runState, readyLinks>>
  /\ UNCHANGED <<now, deadline, timerfd, tnow>>

CheckExpiryResume ==
  /\ tpc = "resume"
  /\ Resume(Timer)
  /\ tpc' = "scan"
  /\ UNCHANGED <<pc, now, deadline, tq, expired, timerfd, tnow>>

\* Mutant of CheckExpiryDone: the remaining timeouts are not programmed.
CheckExpiryDoneOnly ==
  /\ tpc = "scan"
  /\ \A f \in tq : deadline[f] > tnow
  /\ tpc' = "poll"
  /\ UNCHANGED fredVars
  /\ UNCHANGED <<now, deadline, tq, expired, timerfd, tnow>>

\* The remaining nodes are not due: program the timerfd for the first one.
CheckExpiryDone ==
  /\ tpc = "scan"
  /\ \/ tq = {} /\ UNCHANGED timerfd
     \/ \E f \in tq : First(f, tq) /\ deadline[f] > tnow /\ timerfd' = deadline[f]
  /\ tpc' = "poll"
  /\ UNCHANGED fredVars
  /\ UNCHANGED <<now, deadline, tq, expired, tnow>>

TimerStep ==
  \/ TimerPoll
  \/ TimerRead
  \/ CheckExpiryLock
  \/ \E f \in Freds : CheckExpiryNode(f)
  \/ CheckExpiryResume
  \/ CheckExpiryDone

---------------------------------------------------------------------------

\* No timeout is lost: while the timer queue holds a node that checkExpiry is
\* not about to visit, the timerfd is armed, and for no later than the first
\* deadline.  Cancelled timeouts and reads that fail must not break this.
TimerArmed ==
  tpc \in {"poll", "prePoll"}
    => \A f \in tq : timerfd <= deadline[f]

\* A node that has been taken out as expired, or whose fred the timer has
\* won, is never in the queue: erase() and checkExpiry never remove the same
\* node twice, and no node outlives the wait of its fred.
TimerNodes ==
  \A f \in tq :
    /\ pc[f] \in {"suspend", "switch", "off", "resumed"}
    /\ Timed(f)
    /\ ~expired[f]
    /\ resumeInfo[f] # Timer
===========================================================================
