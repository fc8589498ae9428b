---------------------------- MODULE MCSTimeout ----------------------------
(***************************************************************************)
(* MCSTimeoutSemaphore (runtime/MCSTimeoutSemaphore.h): a limited semaphore *)
(* over an MCS queue whose waiters may time out and leave the queue from    *)
(* the middle.  The nodes are on the stacks of the waiters.                 *)
(*                                                                          *)
(* One access to a shared word per step; consecutive accesses are one step  *)
(* only where nobody else can use the words in between.  The suspension of  *)
(* a fred (specified in Fred) is a count of the resumes it has not used.    *)
(* Spinning and yielding wait for a condition: they are guards.             *)
(***************************************************************************)
EXTENDS Integers, FiniteSets

CONSTANTS Waiters,    \* the freds that call P, once each
          Posters,    \* the freds that call V
          NoNode,     \* the null pointer
          MaxV,       \* bound: calls of V
          Mixed       \* waiters with and without a timeout meet in one queue

VARIABLES
  timed,              \* waiter -> its P has a timeout
  counter,
  head, tail, headLock,
  next, prev,         \* the node of a waiter: its two pointers,
  predLock,           \*   its predLock,
  resumes, info,      \*   and its fred: unused resumes, resumeInfo
  timer,              \* waiter -> "off", "on", "won" or "expired"
  at,                 \* thread -> its step
  pred, temp, succ,   \* its local variables; of a popper, succ is succ
  elem,               \* thread -> the node it pops
  calls

memVars  == <<next, prev, predLock>>
fredSide == <<resumes, info, timer>>
queuePtrs == <<head, tail, headLock>>
locals   == <<pred, temp, succ, elem>>
mcsVars  == <<timed, counter, queuePtrs, memVars, fredSide, at, locals, calls>>

Threads == Waiters \cup Posters

(* Pointers: a tag and a node. *)
Ptr(n)         == <<"", n>>
Nil            == Ptr(NoNode)
Restored(n)    == <<"restored", n>>
Transient      == Restored(NoNode)
AtHead(n)      == <<"athead", n>>
LeavingSelf    == <<"self", NoNode>>
LeavingOther   == <<"other", NoNode>>
Gone           == <<"gone", NoNode>>
IsTransient(p) == p[1] = "restored"
IsAtHead(p)    == p[1] = "athead"
IsReal(p)      == p[2] # NoNode /\ ~IsAtHead(p)

MCSTimeoutInit ==
  /\ timed \in [Waiters -> BOOLEAN]
  /\ Mixed \/ \A f, g \in Waiters : timed[f] = timed[g]
  /\ counter \in {0, 1}
  /\ head = NoNode /\ tail = NoNode /\ headLock = NoNode
  /\ next = [f \in Waiters |-> Nil] /\ prev = [f \in Waiters |-> Nil]
  /\ predLock = [f \in Waiters |-> FALSE]
  /\ resumes = [f \in Waiters |-> 0]
  /\ info = [f \in Waiters |-> "none"]
  /\ timer = [f \in Waiters |-> "off"]
  /\ at = [t \in Threads |-> "idle"]
  /\ pred = [f \in Waiters |-> Nil] /\ temp = [f \in Waiters |-> Nil]
  /\ succ = [t \in Threads |-> Nil] /\ elem = [t \in Threads |-> NoNode]
  /\ calls = 0

Hop(t, from, to) == at[t] = from /\ at' = [at EXCEPT ![t] = to]

---------------------------------------------------------------------------
(* P() and the queue's pushAndWaitUntilPopped().                            *)

\* P(): take a permit or count as a waiter; not while V()s are cancelled.
P(f) ==
  /\ counter < 2
  /\ counter' = counter - 1
  /\ Hop(f, "idle", IF counter > 0 THEN "out" ELSE "swap")
  /\ UNCHANGED <<timed, queuePtrs, memVars, fredSide, locals, calls>>

\* swapWithTail().
SwapWithTail(f) ==
  /\ tail' = f
  /\ next' = [next EXCEPT ![f] = Nil]
  /\ pred' = [pred EXCEPT ![f] = Ptr(tail)]
  /\ Hop(f, "swap", IF tail = NoNode THEN "sethead" ELSE "link")
  /\ UNCHANGED <<timed, counter, head, headLock, prev, predLock, fredSide, temp, succ, elem, calls>>

\* The queue was empty: become its head, start the timer.
SetHead(f) ==
  /\ Hop(f, "sethead", "waithead")
  /\ head' = f
  /\ info' = [info EXCEPT ![f] = "none"]
  /\ timer' = [timer EXCEPT ![f] = IF timed[f] THEN "on" ELSE "off"]
  /\ UNCHANGED <<timed, counter, tail, headLock, memVars, resumes, locals, calls>>

\* linkTailToPred() up to the exchange of the predecessor's link, which keeps
\* its transient tag.
LinkTail(f) ==
  LET p == pred[f][2] IN
  /\ at[f] = "link"
  /\ prev' = [prev EXCEPT ![f] = Transient]
  /\ info' = [info EXCEPT ![f] = "none"]
  /\ next' = [next EXCEPT ![p] = IF IsTransient(@) THEN Restored(f) ELSE Ptr(f)]
  /\ at' = [at EXCEPT ![f] = IF IsTransient(next[p]) THEN "cleared"
                             ELSE IF next[p] = LeavingSelf THEN "newpred" ELSE "keep"]
  /\ UNCHANGED <<timed, counter, queuePtrs, predLock, resumes, timer, locals, calls>>

\* Its end: keep the predecessor in prev, unless that has changed.
KeepPred(f) ==
  /\ \/ at[f] = "keep" /\ prev' = [prev EXCEPT ![f] = IF @ = Transient THEN pred[f] ELSE @]
     \/ at[f] = "cleared" /\ prev[f] # Transient
        /\ prev' = [prev EXCEPT ![f] = IF @ = Nil THEN pred[f] ELSE @]
  /\ at' = [at EXCEPT ![f] = "arm"]
  /\ UNCHANGED <<timed, counter, queuePtrs, next, predLock, fredSide, locals, calls>>

\* The predecessor was leaving: wait for the real one.
LearnPred(f) ==
  /\ prev[f] # Transient
  /\ temp' = [temp EXCEPT ![f] = prev[f]]
  /\ Hop(f, "newpred", CASE ~IsReal(prev[f]) -> "arm" [] IsTransient(prev[f]) -> "relinkarm"
                         [] OTHER -> "early")
  /\ UNCHANGED <<timed, counter, queuePtrs, memVars, fredSide, pred, succ, elem, calls>>

\* relink<true> to a new predecessor: the signal is taken to come after the
\* resume, which is cancelled.
CancelEarlyResume(f) ==
  /\ Hop(f, "early", "prepare")
  /\ resumes' = [resumes EXCEPT ![f] = 0]
  /\ UNCHANGED <<timed, counter, queuePtrs, memVars, info, timer, locals, calls>>

PrepareRace(f) ==
  /\ Hop(f, "prepare", "relinkarm")
  /\ info' = [info EXCEPT ![f] = "none"]
  /\ UNCHANGED <<timed, counter, queuePtrs, memVars, resumes, timer, locals, calls>>

\* relink(), called from three places.  A restored pointer loses its tag; a
\* new predecessor is told of this node ...
RelinkReturn == [relinkarm |-> "arm",     relink3 |-> "leave3",   relink4 |-> "leave4"]
RelinkSpin   == [relinkarm |-> "spinarm", relink3 |-> "spin3",    relink4 |-> "spin4"]
SpinRelink   == [spinarm |-> "relinkarm", spin3   |-> "relink3",  spin4   |-> "relink4"]

Relink(f) ==
  LET p == temp[f] IN
  /\ at[f] \in DOMAIN RelinkReturn
  /\ \/ /\ IsTransient(p)
        /\ prev' = [prev EXCEPT ![f] = IF @ = p THEN Ptr(p[2]) ELSE @]
        /\ temp' = [temp EXCEPT ![f] = Ptr(p[2])]
        /\ at' = [at EXCEPT ![f] = RelinkReturn[@]]
        /\ UNCHANGED <<next, pred>>
     \/ /\ ~IsTransient(p)
        /\ pred' = [pred EXCEPT ![f] = p]
        /\ next' = [next EXCEPT ![p[2]] = Ptr(f)]
        /\ at' = [at EXCEPT ![f] = IF next[p[2]] = LeavingSelf THEN RelinkSpin[@] ELSE RelinkReturn[@]]
        /\ UNCHANGED <<prev, temp>>
  /\ UNCHANGED <<timed, counter, queuePtrs, predLock, fredSide, succ, elem, calls>>

\* ... and if it is leaving, too, its successor comes next.
RelinkNext(f) ==
  /\ at[f] \in DOMAIN SpinRelink /\ prev[f] # pred[f]
  /\ temp' = [temp EXCEPT ![f] = prev[f]]
  /\ at' = [at EXCEPT ![f] = CASE ~IsReal(prev[f]) -> RelinkReturn[SpinRelink[@]]
                               [] @ = "spinarm" /\ ~IsTransient(prev[f]) -> "early"
                               [] OTHER -> SpinRelink[@]]
  /\ UNCHANGED <<timed, counter, queuePtrs, memVars, fredSide, pred, succ, elem, calls>>

ArmTimer(f) ==
  /\ Hop(f, "arm", "wait")
  /\ timer' = [timer EXCEPT ![f] = IF timed[f] THEN "on" ELSE "off"]
  /\ UNCHANGED <<timed, counter, queuePtrs, memVars, resumes, info, locals, calls>>

\* checkExpiry() finds the timeout: the waiter is resumed, or told when it
\* next looks.
Expire(f) ==
  /\ timer[f] = "on"
  /\ IF info[f] = "none"
       THEN /\ timer' = [timer EXCEPT ![f] = "won"]
            /\ info' = [info EXCEPT ![f] = "timer"]
            /\ resumes' = [resumes EXCEPT ![f] = @ + 1]
       ELSE timer' = [timer EXCEPT ![f] = "expired"] /\ UNCHANGED <<info, resumes>>
  /\ UNCHANGED <<timed, counter, queuePtrs, memVars, at, locals, calls>>

Use(f) == resumes[f] > 0 /\ resumes' = [resumes EXCEPT ![f] = @ - 1]

\* suspend() returns: popped, timed out, or a new predecessor.  The race is
\* open again before the timer is looked at.
WakeAtHead(f) ==
  /\ Use(f)
  /\ IF ~timed[f] \/ info[f] = "head"
       THEN Hop(f, "waithead", "out") /\ timer' = [timer EXCEPT ![f] = "off"]
       ELSE Hop(f, "waithead", "athead") /\ UNCHANGED timer
  /\ UNCHANGED <<timed, counter, queuePtrs, memVars, info, locals, calls>>

WakePopped(f) ==
  /\ Use(f)
  /\ info[f] = (IF timed[f] THEN "head" ELSE "none")
  /\ Hop(f, "wait", "out")
  /\ timer' = [timer EXCEPT ![f] = "off"]
  /\ UNCHANGED <<timed, counter, queuePtrs, memVars, info, locals, calls>>

WakeOther(f) ==
  /\ Use(f)
  /\ info[f] # (IF timed[f] THEN "head" ELSE "none")
  /\ info' = [info EXCEPT ![f] = "none"]
  /\ Hop(f, "wait", IF ~timed[f] THEN "adopt"
                    ELSE IF info[f] = "tail" THEN "check" ELSE "cancel")
  /\ UNCHANGED <<timed, counter, queuePtrs, memVars, timer, locals, calls>>

\* didExpireAfterLosingRace().
CheckTimer(f) ==
  /\ Hop(f, "check", IF timer[f] = "expired" THEN "cancel" ELSE "look")
  /\ UNCHANGED <<timed, counter, queuePtrs, memVars, fredSide, locals, calls>>

\* cancelRunningResumeRace(): whoever has won the second race resumes.
CancelRace(f) ==
  /\ Hop(f, "cancel", CASE info[f] = "none" -> "leave1" [] info[f] = "head" -> "latepop"
                        [] OTHER -> "laterelink")
  /\ info' = [info EXCEPT ![f] = "cancelled"]
  /\ UNCHANGED <<timed, counter, queuePtrs, memVars, resumes, timer, locals, calls>>

LateResume(f) ==
  /\ Use(f)
  /\ Hop(f, "latepop", "out") \/ Hop(f, "laterelink", "leave1")
  /\ UNCHANGED <<timed, counter, queuePtrs, memVars, info, timer, locals, calls>>

\* Wait for the identity of the new predecessor.
LookForPred(f) ==
  /\ prev[f] \notin {pred[f], LeavingOther}
  /\ Hop(f, "look", "adopt")
  /\ UNCHANGED <<timed, counter, queuePtrs, memVars, fredSide, locals, calls>>

\* Introduce itself to the new predecessor.
AdoptPred(f) ==
  LET p == prev[f][2] IN
  /\ at[f] = "adopt"
  /\ pred' = [pred EXCEPT ![f] = prev[f]]
  /\ next' = [next EXCEPT ![p] = Ptr(f)]
  /\ at' = [at EXCEPT ![f] = IF next[p] = LeavingSelf THEN "adopted" ELSE "wait"]
  /\ UNCHANGED <<timed, counter, queuePtrs, prev, predLock, fredSide, temp, succ, elem, calls>>

Adopted(f) ==
  /\ prev[f] # pred[f]
  /\ Hop(f, "adopted", "wait")
  /\ UNCHANGED <<timed, counter, queuePtrs, memVars, fredSide, locals, calls>>

---------------------------------------------------------------------------
(* The timeout: leave the queue.                                            *)

\* Step 1: identify the successor and announce the intent to leave.
Leave1(f) ==
  LET s == IF next[f] = Gone THEN Nil ELSE next[f] IN
  /\ at[f] = "leave1" /\ ~IsTransient(next[f])
  /\ next' = [next EXCEPT ![f] = LeavingSelf]
  /\ succ' = [succ EXCEPT ![f] = s]
  /\ at' = [at EXCEPT ![f] = CASE s = Nil -> "leave3" [] s = LeavingOther -> "leave1wait" [] OTHER -> "leave2"]
  /\ UNCHANGED <<timed, counter, queuePtrs, prev, predLock, fredSide, pred, temp, elem, calls>>

Leave1Wait(f) ==
  /\ next[f] # LeavingSelf
  /\ Hop(f, "leave1wait", "leave1")
  /\ UNCHANGED <<timed, counter, queuePtrs, memVars, fredSide, locals, calls>>

\* Step 2: tell the successor; if it is leaving, too, wait until it has
\* noticed.
Leave2(f) ==
  LET s == succ[f][2] IN
  /\ at[f] = "leave2"
  /\ prev' = [prev EXCEPT ![s] = LeavingOther]
  /\ at' = [at EXCEPT ![f] = IF prev[s] = LeavingSelf THEN "leave2wait" ELSE "leave3"]
  /\ UNCHANGED <<timed, counter, queuePtrs, next, predLock, fredSide, locals, calls>>

Leave2Wait(f) ==
  /\ next[f] = succ[f]
  /\ Hop(f, "leave2wait", "leave3")
  /\ UNCHANGED <<timed, counter, queuePtrs, memVars, fredSide, locals, calls>>

\* Step 3: identify the predecessor, under the lock of the own node.
Leave3(f) ==
  /\ at[f] = "leave3" /\ ~predLock[f]
  /\ prev' = [prev EXCEPT ![f] = LeavingSelf]
  /\ temp' = [temp EXCEPT ![f] = prev[f]]
  /\ at' = [at EXCEPT ![f] = CASE IsAtHead(prev[f]) -> "serendipity"
                               [] prev[f] = LeavingOther -> "leave3wait"
                               [] prev[f] = pred[f] -> "leave4" [] OTHER -> "relink4"]
  /\ predLock' = [predLock EXCEPT ![f] = ~IsAtHead(prev[f]) /\ prev[f] # LeavingOther]
  /\ UNCHANGED <<timed, counter, queuePtrs, next, fredSide, pred, succ, elem, calls>>

\* The predecessor leaves first: start again with the next one.
Leave3Wait(f) ==
  /\ prev[f] \notin {LeavingSelf, LeavingOther}
  /\ temp' = [temp EXCEPT ![f] = prev[f]]
  /\ Hop(f, "leave3wait", IF IsAtHead(prev[f]) THEN "serendipity" ELSE "relink3")
  /\ UNCHANGED <<timed, counter, queuePtrs, memVars, fredSide, pred, succ, elem, calls>>

\* Step 4: tell the predecessor.
Leave4(f) ==
  LET p == pred[f][2] IN
  /\ at[f] = "leave4"
  /\ next' = [next EXCEPT ![p] = IF succ[f] = Nil THEN Transient ELSE LeavingOther]
  /\ predLock' = [predLock EXCEPT ![f] = FALSE]
  /\ at' = [at EXCEPT ![f] = CASE IsAtHead(next[p]) -> "leave4head"
                               [] next[p] = LeavingSelf -> "leave4yield" [] OTHER -> "leave5"]
  /\ UNCHANGED <<timed, counter, queuePtrs, prev, fredSide, locals, calls>>

\* The predecessor is handing over.
Leave4Head(f) ==
  /\ prev[f] # LeavingSelf
  /\ Hop(f, "leave4head", "serendipity")
  /\ UNCHANGED <<timed, counter, queuePtrs, memVars, fredSide, locals, calls>>

\* The predecessor is leaving, too, and was first.
Leave4Yield(f) ==
  /\ Hop(f, "leave4yield", "leave3wait")
  /\ next' = [next EXCEPT ![pred[f][2]] = Ptr(f)]
  /\ UNCHANGED <<timed, counter, queuePtrs, prev, predLock, fredSide, locals, calls>>

\* Step 5 without a successor: move tail back; with one: tell it.
Leave5(f) ==
  /\ \/ succ[f] = Nil /\ tail = f /\ tail' = pred[f][2] /\ Hop(f, "leave5", "leave6")
     \/ succ[f] = Nil /\ tail # f /\ UNCHANGED tail /\ Hop(f, "leave5", "leave5wait")
     \/ succ[f] # Nil /\ UNCHANGED tail
        /\ Hop(f, "leave5", IF timed[succ[f][2]] THEN "rsrace" ELSE "rsprev")
  /\ UNCHANGED <<timed, counter, head, headLock, memVars, fredSide, locals, calls>>

\* Somebody has got into line behind.
Leave5Wait(f) ==
  /\ next[f] # LeavingSelf
  /\ Hop(f, "leave5wait", "leave5tell")
  /\ succ' = [succ EXCEPT ![f] = next[f]]
  /\ UNCHANGED <<timed, counter, queuePtrs, memVars, fredSide, pred, temp, elem, calls>>

Leave5Tell(f) ==
  /\ Hop(f, "leave5tell", IF timed[succ[f][2]] THEN "rsrace" ELSE "rsprev")
  /\ next' = [next EXCEPT ![pred[f][2]] = LeavingOther]
  /\ UNCHANGED <<timed, counter, queuePtrs, prev, predLock, fredSide, locals, calls>>

\* Step 6: clear the transient tag of the predecessor's link ...
Leave6(f) ==
  LET p == pred[f][2] IN
  /\ at[f] = "leave6"
  /\ \/ next[p] = Transient /\ next' = [next EXCEPT ![p] = Gone]
        /\ Hop(f, "leave6", "timeout") /\ UNCHANGED succ
     \/ next[p] # Transient /\ succ' = [succ EXCEPT ![f] = Ptr(next[p][2])]
        /\ Hop(f, "leave6", "leave6tag") /\ UNCHANGED next
  /\ UNCHANGED <<timed, counter, queuePtrs, prev, predLock, fredSide, pred, temp, elem, calls>>

\* ... or that of the node that was linked in the meantime, and signal it.
Leave6Tag(f) ==
  /\ Hop(f, "leave6tag", "leave6signal")
  /\ next' = [next EXCEPT ![pred[f][2]] = succ[f]]
  /\ UNCHANGED <<timed, counter, queuePtrs, prev, predLock, fredSide, locals, calls>>

Leave6Signal(f) ==
  /\ Hop(f, "leave6signal", "timeout")
  /\ prev' = [prev EXCEPT ![succ[f][2]] = IF @ = Transient THEN Nil ELSE @]
  /\ UNCHANGED <<timed, counter, queuePtrs, next, predLock, fredSide, locals, calls>>

\* resumeSuccForRelink(): a timed successor is resumed before it is told,
\* an untimed one after.
SuccRace(f) ==
  LET s == succ[f][2] IN
  /\ Hop(f, "rsrace", IF info[s] # "none" /\ timed[s] THEN "rsprev" ELSE "rsresume")
  /\ info' = [info EXCEPT ![s] = IF @ = "none" THEN "tail" ELSE @]
  /\ UNCHANGED <<timed, counter, queuePtrs, memVars, resumes, timer, locals, calls>>

SuccResume(f) ==
  LET s == succ[f][2] IN
  /\ Hop(f, "rsresume", IF timed[s] THEN "rsprev" ELSE "timeout")
  /\ resumes' = [resumes EXCEPT ![s] = @ + 1]
  /\ UNCHANGED <<timed, counter, queuePtrs, memVars, info, timer, locals, calls>>

SuccPrev(f) ==
  LET s == succ[f][2] IN
  /\ Hop(f, "rsprev", IF timed[s] THEN "timeout" ELSE "rsrace")
  /\ prev' = [prev EXCEPT ![s] = pred[f]]
  /\ UNCHANGED <<timed, counter, queuePtrs, next, predLock, fredSide, locals, calls>>

\* While timing out, the waiter became the head: undo steps 1 and 2.
Serendipity(f) ==
  /\ at[f] = "serendipity"
  /\ \/ /\ succ[f] = Nil /\ next[f] = LeavingSelf
        /\ next' = [next EXCEPT ![f] = Nil]
        /\ at' = [at EXCEPT ![f] = "becomehead"] /\ UNCHANGED succ
     \/ /\ succ[f] = Nil /\ next[f] # LeavingSelf
        /\ succ' = [succ EXCEPT ![f] = next[f]]
        /\ at' = [at EXCEPT ![f] = "undo2"] /\ UNCHANGED next
     \/ /\ succ[f] # Nil
        /\ next' = [next EXCEPT ![f] = succ[f]]
        /\ at' = [at EXCEPT ![f] = "undo2"] /\ UNCHANGED succ
  /\ UNCHANGED <<timed, counter, queuePtrs, prev, predLock, fredSide, pred, temp, elem, calls>>

Undo2(f) ==
  /\ Hop(f, "undo2", "becomehead")
  /\ prev' = [prev EXCEPT ![succ[f][2]] = Restored(f)]
  /\ UNCHANGED <<timed, counter, queuePtrs, next, predLock, fredSide, locals, calls>>

BecomeHead(f) ==
  /\ head = f
  /\ Hop(f, "becomehead", "athead")
  /\ UNCHANGED <<timed, counter, queuePtrs, memVars, fredSide, locals, calls>>

\* handleTimeoutAtHead(): pop the own node, then wait for a tryPop() that
\* has seen it.
LeaveAtHead(f) ==
  /\ Hop(f, "athead", "pop")
  /\ head' = NoNode
  /\ elem' = [elem EXCEPT ![f] = f]
  /\ UNCHANGED <<timed, counter, tail, headLock, memVars, fredSide, pred, temp, succ, calls>>

SyncHeadLock(f) ==
  /\ headLock = NoNode
  /\ Hop(f, "synclock", "timeout")
  /\ UNCHANGED <<timed, counter, queuePtrs, memVars, fredSide, locals, calls>>

\* handleTimeout() of the semaphore: the waiter is not counted any more; a
\* V() that still looks for a waiter is cancelled.
HandleTimeout(f) ==
  /\ Hop(f, "timeout", "out")
  /\ counter' = IF counter = 0 THEN 2 ELSE counter + 1
  /\ timer' = [timer EXCEPT ![f] = "off"]
  /\ UNCHANGED <<timed, queuePtrs, memVars, resumes, info, locals, calls>>

---------------------------------------------------------------------------
(* V(), tryPop() and popFromHead().                                         *)

V(c) ==
  /\ calls < MaxV /\ calls' = calls + 1
  /\ \/ counter >= 1 /\ UNCHANGED <<at, counter>>
     \/ counter = 0 /\ counter' = 1 /\ UNCHANGED at
     \/ counter < 0 /\ counter' = counter + 1 /\ Hop(c, "idle", "trypop")
  /\ at[c] = "idle"
  /\ UNCHANGED <<timed, queuePtrs, memVars, fredSide, locals>>

\* V() gives up when it is cancelled.
CancelV(c) ==
  /\ counter >= 2
  /\ Hop(c, "trypop", "idle")
  /\ counter' = counter - 1
  /\ UNCHANGED <<timed, queuePtrs, memVars, fredSide, locals, calls>>

\* tryPop(): look at the head under its lock ...
TryPop(c) ==
  /\ headLock = NoNode /\ head # NoNode
  /\ Hop(c, "trypop", "race")
  /\ headLock' = c
  /\ elem' = [elem EXCEPT ![c] = head]
  /\ UNCHANGED <<timed, counter, head, tail, memVars, fredSide, pred, temp, succ, calls>>

\* Mutant of RaceHead: the result of the race is not looked at.
RaceHeadBlind(c) ==
  /\ Hop(c, "race", "pop")
  /\ info' = [info EXCEPT ![elem[c]] = IF timed[elem[c]] THEN "head" ELSE @]
  /\ head' = NoNode
  /\ headLock' = NoNode
  /\ UNCHANGED <<timed, counter, tail, memVars, resumes, timer, locals, calls>>

\* ... and race for a waiter with a timeout.
RaceHead(c) ==
  LET f == elem[c] IN
  /\ at[c] = "race"
  /\ \/ timed[f] /\ info[f] # "none" /\ Hop(c, "race", "trypop") /\ UNCHANGED <<info, head>>
     \/ timed[f] /\ info[f] = "none" /\ Hop(c, "race", "pop")
        /\ info' = [info EXCEPT ![f] = "head"] /\ head' = NoNode
     \/ ~timed[f] /\ Hop(c, "race", "pop") /\ head' = NoNode /\ UNCHANGED info
  /\ headLock' = NoNode
  /\ UNCHANGED <<timed, counter, tail, memVars, resumes, timer, locals, calls>>

\* popFromHead(): the successor is identified, unless it is leaving.
PopFromHead(t) ==
  LET n == elem[t] IN
  /\ at[t] = "pop"
  /\ next[n] # LeavingOther /\ ~IsTransient(next[n])
  /\ \/ /\ next[n] \in {Nil, Gone}
        /\ next' = [next EXCEPT ![n] = Nil]
        /\ at' = [at EXCEPT ![t] = "poplast"] /\ UNCHANGED succ
     \/ /\ next[n] \notin {Nil, Gone}
        /\ next' = [next EXCEPT ![n] = AtHead(NoNode)]
        /\ succ' = [succ EXCEPT ![t] = next[n]]
        /\ at' = [at EXCEPT ![t] = "poptell"]
  /\ UNCHANGED <<timed, counter, queuePtrs, prev, predLock, fredSide, pred, temp, elem, calls>>

\* No successor: reset tail, or wait for the one that is on its way.
PopLast(t) ==
  LET n == elem[t] IN
  /\ at[t] = "poplast"
  /\ \/ tail = n /\ tail' = NoNode /\ Hop(t, "poplast", "popsync")
     \/ tail # n /\ next[n] # Nil /\ Hop(t, "poplast", "pop") /\ UNCHANGED tail
  /\ UNCHANGED <<timed, counter, head, headLock, memVars, fredSide, locals, calls>>

After(t) == IF t \in Posters THEN "resume" ELSE "synclock"

PopSync(t) ==
  /\ at[t] = "popsync" /\ ~IsTransient(next[elem[t]])
  /\ at' = [at EXCEPT ![t] = After(t)]
  /\ UNCHANGED <<timed, counter, queuePtrs, memVars, fredSide, locals, calls>>

\* Mutant of PopTell: the lock of the successor's node is not waited for.
PopTellNoLock(t) ==
  LET s == succ[t][2] IN
  /\ Hop(t, "poptell", "pophead")
  /\ \/ timed[s] /\ prev' = [prev EXCEPT ![s] = AtHead(elem[t])]
     \/ ~timed[s] /\ UNCHANGED prev
  /\ UNCHANGED <<timed, counter, queuePtrs, next, predLock, fredSide, locals, calls>>

\* Tell the successor, not while it looks at this node, ...
PopTell(t) ==
  LET s == succ[t][2] IN
  /\ Hop(t, "poptell", "pophead")
  /\ \/ timed[s] /\ ~predLock[s] /\ prev' = [prev EXCEPT ![s] = AtHead(elem[t])]
     \/ ~timed[s] /\ UNCHANGED prev
  /\ UNCHANGED <<timed, counter, queuePtrs, next, predLock, fredSide, locals, calls>>

\* ... and make it the head.
PopHead(t) ==
  /\ Hop(t, "pophead", After(t))
  /\ head' = succ[t][2]
  /\ UNCHANGED <<timed, counter, tail, headLock, memVars, fredSide, locals, calls>>

\* The end of V(): resume the popped waiter.
ResumePopped(c) ==
  /\ Hop(c, "resume", "idle")
  /\ resumes' = [resumes EXCEPT ![elem[c]] = @ + 1]
  /\ elem' = [elem EXCEPT ![c] = NoNode] /\ succ' = [succ EXCEPT ![c] = Nil]
  /\ UNCHANGED <<timed, counter, queuePtrs, memVars, info, timer, pred, temp, calls>>

MCSTimeoutNext ==
  \/ \E f \in Waiters :
       \/ P(f) \/ SwapWithTail(f) \/ SetHead(f) \/ LinkTail(f) \/ KeepPred(f)
       \/ LearnPred(f) \/ CancelEarlyResume(f) \/ PrepareRace(f) \/ Relink(f)
       \/ RelinkNext(f) \/ ArmTimer(f) \/ Expire(f) \/ WakeAtHead(f) \/ WakePopped(f)
       \/ WakeOther(f) \/ CheckTimer(f) \/ CancelRace(f) \/ LateResume(f)
       \/ LookForPred(f) \/ AdoptPred(f) \/ Adopted(f)
       \/ Leave1(f) \/ Leave1Wait(f) \/ Leave2(f) \/ Leave2Wait(f) \/ Leave3(f)
       \/ Leave3Wait(f) \/ Leave4(f) \/ Leave4Head(f) \/ Leave4Yield(f)
       \/ Leave5(f) \/ Leave5Wait(f) \/ Leave5Tell(f)
       \/ Leave6(f) \/ Leave6Tag(f) \/ Leave6Signal(f)
       \/ SuccRace(f) \/ SuccResume(f) \/ SuccPrev(f)
       \/ Serendipity(f) \/ Undo2(f) \/ BecomeHead(f)
       \/ LeaveAtHead(f) \/ SyncHeadLock(f) \/ HandleTimeout(f)
  \/ \E c \in Posters : V(c) \/ CancelV(c) \/ TryPop(c) \/ RaceHead(c) \/ ResumePopped(c)
  \/ \E t \in Threads : PopFromHead(t) \/ PopLast(t) \/ PopSync(t) \/ PopTell(t) \/ PopHead(t)

MCSTimeoutSpec == MCSTimeoutInit /\ [][MCSTimeoutNext]_mcsVars

---------------------------------------------------------------------------

\* The node of f is on the stack of a fred that is still in P().
Alive(f) == f \in Waiters /\ at[f] \notin {"idle", "out"}

\* Nobody touches the node of a waiter that has left, which is a piece of
\* somebody else's stack by then: not the one behind it that links itself,
\* introduces itself or leaves, not the one in front, not a V().
NodesAlive ==
  /\ \A f \in Waiters :
       /\ at[f] \in {"link", "leave4", "leave4yield", "leave5tell", "leave6", "leave6tag"}
            => Alive(pred[f][2])
       /\ at[f] \in DOMAIN RelinkReturn /\ ~IsTransient(temp[f]) => Alive(temp[f][2])
       /\ at[f] = "adopt" => Alive(prev[f][2])
       /\ at[f] \in {"leave2", "undo2", "rsrace", "rsresume", "rsprev"}
            => Alive(succ[f][2])
  /\ \A t \in Threads :
       /\ at[t] \in {"race", "pop", "poplast", "popsync", "resume"} => Alive(elem[t])
       /\ at[t] \in {"poptell"} => Alive(succ[t][2])

\* A fred is resumed once per suspension, and never when it has left.
ResumedOnce == \A f \in Waiters : resumes[f] <= (IF Alive(f) THEN 1 ELSE 0)

\* The comment of relink(): "Since signal happens after resume, we must have
\* been resumed by now": a waiter that cancels the resume that came with a
\* new predecessor has been resumed.
RelinkAfterResume == \A f \in Waiters : at[f] = "early" => resumes[f] = 1

\* Nobody is forgotten: when nothing is left to do, every V() has returned and
\* the waiters that sleep are the ones the counter knows of; while a permit
\* is there, nobody sleeps.
WaitersCounted ==
  ~ENABLED MCSTimeoutNext
    => LET asleep == {f \in Waiters : at[f] \in {"wait", "waithead"}} IN
       /\ \A f \in Waiters \ asleep : at[f] \in {"idle", "out"}
       /\ \A c \in Posters : at[c] = "idle"
       /\ IF asleep = {} THEN counter \in {0, 1} ELSE counter = -Cardinality(asleep)
===========================================================================
