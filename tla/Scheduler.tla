----------------------------- MODULE Scheduler -----------------------------
(***************************************************************************)
(* The processors of one scheduler and their idle manager                   *)
(* (runtime/BaseProcessor.h/.cc, Scheduler.h, Fred.cc), in the default      *)
(* configuration: load balancing, and the Go-style IdleManager.             *)
(*                                                                          *)
(* A processor runs a fred until that fred suspends, yields or migrates,    *)
(* then searches its own ready queue and those of the others in ring order. *)
(* If it finds nothing it spins, announces itself in waitCounter, searches  *)
(* once more, joins waitingProcs and halts.  Whoever resumes a fred puts it *)
(* into a ready queue, reads waitCounter and wakes a halted processor.      *)
(*                                                                          *)
(* The suspend/resume protocol of one fred is specified in Fred; here it is *)
(* parked, being enqueued, ready or running.  The critical sections of the  *)
(* idle manager's procLock are single steps.                                *)
(***************************************************************************)
EXTENDS ReadyQueue, FiniteSets, Functions

CONSTANT MaxSpin      \* bound: searches before a processor stops spinning

ASSUME SpinAssumption == MaxSpin \in Nat \ {0}

VARIABLES
  pc,            \* thread -> where it is
  search,        \* processor -> why it searches: full, yield, spin or last
  victim,        \* processor -> the processor it looks at in searchSteal()
  cur,           \* processor -> the fred it runs, Null for its idle fred
  arg,           \* thread -> the fred it is about to enqueue or to park
  next,          \* processor -> the fred its search has found, or Null
  target,        \* thread -> the processor it is about to wake
  spins,         \* processor -> how many searches it has spun for
  parked,        \* the freds that wait to be resumed
  home,          \* fred -> its processor
  spinCounter, waitCounter,
  waitingProcs,  \* the processors in the idle manager's list, front first
  haltSem        \* processor -> value of its halt semaphore

procVars == <<pc, search, victim, cur, arg, next, target, spins>>
idleVars == <<spinCounter, waitCounter, waitingProcs, haltSem>>
vars == <<readyVars, procVars, parked, home, idleVars>>

\* One processor runs the main fred, the others start in their idle loop.
Init ==
  /\ ReadyInit
  /\ \E f \in Freds :
       /\ cur = [p \in Procs |-> IF p = 1 THEN f ELSE Null]
       /\ parked = Freds \ {f}
  /\ pc = [t \in Threads |-> IF t \in Procs \ {1} THEN "idle" ELSE "run"]
  /\ search = [p \in Procs |-> "full"]
  /\ victim = [p \in Procs |-> p]
  /\ arg = [t \in Threads |-> Null]
  /\ next = [p \in Procs |-> Null]
  /\ target = [t \in Threads |-> Null]
  /\ spins = [p \in Procs |-> 1]
  /\ home = [f \in Freds |-> 1]
  /\ spinCounter = 0 /\ waitCounter = 0
  /\ waitingProcs = <<>>
  /\ haltSem = [p \in Procs |-> 0]

RingNext(p) == IF p + 1 \in Procs THEN p + 1 ELSE 1

Goto(t, l) == pc' = [pc EXCEPT ![t] = l]

---------------------------------------------------------------------------
(* enqueueResume(): enqueueFred() and idleManager.unblock().                *)

\* Thread t is done with a fred it had to enqueue: a processor goes on with
\* its current fred, or with its idle loop.
Proceed(t) == IF t \in Procs /\ cur[t] = Null THEN "idle" ELSE "run"

\* resume() of a parked fred.
Resume(t, f) ==
  /\ pc[t] = "run"
  /\ f \in parked
  /\ parked' = parked \ {f}
  /\ arg' = [arg EXCEPT ![t] = f]
  /\ Goto(t, "tail")
  /\ UNCHANGED <<readyVars, search, victim, cur, next, target, spins, home, idleVars>>

EnqueueTail(t) ==
  /\ pc[t] \in {"tail", "yieldtail"}
  /\ PushTail(t, home[arg[t]], arg[t])
  /\ Goto(t, IF pc[t] = "tail" THEN "link" ELSE "yieldlink")
  /\ UNCHANGED <<search, victim, cur, arg, next, target, spins, parked, home, idleVars>>

\* enqueueYield() does not look for a halted processor.
EnqueueLink(t) ==
  /\ pc[t] \in {"link", "yieldlink"}
  /\ PushLink(t, arg[t])
  /\ arg' = [arg EXCEPT ![t] = Null]
  /\ Goto(t, IF pc[t] = "link" THEN "unblock" ELSE Proceed(t))
  /\ UNCHANGED <<search, victim, cur, next, target, spins, parked, home, idleVars>>

\* unblock() returns: a plain read of waitCounter.
UnblockNone(t) ==
  /\ pc[t] = "unblock"
  /\ waitCounter = 0
  /\ Goto(t, Proceed(t))
  /\ UNCHANGED <<readyVars, search, victim, cur, arg, next, target, spins, parked, home, idleVars>>

\* unblock() takes a processor off the list.  While one has announced itself
\* and is not yet listed, it spins.
UnblockPop(t) ==
  /\ pc[t] = "unblock"
  /\ waitCounter > 0
  /\ waitingProcs # <<>>
  /\ Fenced(t)
  /\ target' = [target EXCEPT ![t] = Head(waitingProcs)]
  /\ waitingProcs' = Tail(waitingProcs)
  /\ Goto(t, "dec")
  /\ UNCHANGED <<readyVars, search, victim, cur, arg, next, spins, parked, home>>
  /\ UNCHANGED <<spinCounter, waitCounter, haltSem>>

UnblockDec(t) ==
  /\ pc[t] = "dec"
  /\ waitCounter' = waitCounter - 1
  /\ Goto(t, "wake")
  /\ UNCHANGED <<readyVars, search, victim, cur, arg, next, target, spins, parked, home>>
  /\ UNCHANGED <<spinCounter, waitingProcs, haltSem>>

\* wake(): V on the halt semaphore.
Wake(t) ==
  /\ pc[t] = "wake"
  /\ haltSem' = [haltSem EXCEPT ![target[t]] = @ + 1]
  /\ target' = [target EXCEPT ![t] = Null]
  /\ Goto(t, Proceed(t))
  /\ UNCHANGED <<readyVars, search, victim, cur, arg, next, spins, parked, home>>
  /\ UNCHANGED <<spinCounter, waitCounter, waitingProcs>>

EnqueueStep(t) ==
  \/ EnqueueTail(t)
  \/ EnqueueLink(t)
  \/ UnblockNone(t)
  \/ UnblockPop(t)
  \/ UnblockDec(t)
  \/ Wake(t)

---------------------------------------------------------------------------
(* searchAll(): searchLocal(), then searchSteal().                          *)

SearchLocal(p) ==
  /\ pc[p] = "local"
  /\ LockQueue(p, p)
  /\ Goto(p, "localpop")
  /\ UNCHANGED <<search, victim, cur, arg, next, target, spins, parked, home, idleVars>>

\* yield() looks at the own queue only, yieldGlobal() also at the others.
LocalPop(p) ==
  /\ pc[p] = "localpop"
  /\ \/ /\ \E f \in Freds : PopQueue(p, f) /\ next' = [next EXCEPT ![p] = f]
        /\ Goto(p, search[p])
        /\ UNCHANGED victim
     \/ /\ PopNothing(p)
        /\ \/ Goto(p, "steal") /\ victim' = [victim EXCEPT ![p] = RingNext(p)]
           \/ search[p] = "yield" /\ Goto(p, "yield") /\ UNCHANGED victim
        /\ UNCHANGED next
  /\ UNCHANGED <<search, cur, arg, target, spins, parked, home, idleVars>>

\* tryDequeue(): give up on a queue that looks empty or whose lock is taken.
TryDequeue(p) ==
  /\ pc[p] = "steal"
  /\ victim[p] # p
  /\ \/ /\ rq[victim[p]] # <<>>
        /\ LockQueue(p, victim[p])
        /\ Goto(p, "stealpop")
        /\ UNCHANGED victim
     \/ /\ rq[victim[p]] = <<>> \/ readyLock[victim[p]] # Null
        /\ victim' = [victim EXCEPT ![p] = RingNext(@)]
        /\ UNCHANGED <<pc, readyVars>>
  /\ UNCHANGED <<search, cur, arg, next, target, spins, parked, home, idleVars>>

\* checkAffinity(): a stolen fred moves to the thief (no affinity is set).
StealPop(p) ==
  /\ pc[p] = "stealpop"
  /\ \/ /\ \E f \in Freds : /\ PopQueue(victim[p], f)
                            /\ next' = [next EXCEPT ![p] = f]
                            /\ home' = [home EXCEPT ![f] = p]
        /\ victim' = [victim EXCEPT ![p] = p]
        /\ Goto(p, search[p])
     \/ /\ PopNothing(victim[p])
        /\ victim' = [victim EXCEPT ![p] = RingNext(@)]
        /\ Goto(p, "steal")
        /\ UNCHANGED <<next, home>>
  /\ UNCHANGED <<search, cur, arg, target, spins, parked, idleVars>>

StealNothing(p) ==
  /\ pc[p] = "steal"
  /\ victim[p] = p
  /\ Goto(p, search[p])
  /\ UNCHANGED <<readyVars, search, victim, cur, arg, next, target, spins, parked, home, idleVars>>

SearchStep(p) ==
  SearchLocal(p) \/ LocalPop(p) \/ TryDequeue(p) \/ StealPop(p) \/ StealNothing(p)

---------------------------------------------------------------------------
(* The fred that runs on p gives up the processor.                          *)

\* suspend() or terminate(): scheduleFull() searches for the next fred.
Suspend(p) ==
  /\ pc[p] = "run"
  /\ search' = [search EXCEPT ![p] = "full"]
  /\ Goto(p, "local")
  /\ UNCHANGED <<readyVars, victim, cur, arg, next, target, spins, parked, home, idleVars>>

\* Switch to the fred found, or to the idle fred; the old one is handed to
\* the code that runs after the switch.
SwitchFull(p) ==
  /\ pc[p] \in {"full", "resume"}
  /\ cur' = [cur EXCEPT ![p] = next[p]]
  /\ arg' = [arg EXCEPT ![p] = cur[p]]
  /\ next' = [next EXCEPT ![p] = Null]
  /\ Goto(p, IF pc[p] = "full" THEN "post" ELSE "tail")
  /\ UNCHANGED <<readyVars, search, victim, target, spins, parked, home, idleVars>>

\* Mutant of PostSuspend: a fred resumed early is enqueued and parked.
PostSuspendBoth(p) ==
  /\ pc[p] = "post"
  /\ parked' = parked \cup {arg[p]}
  /\ Goto(p, "tail")
  /\ UNCHANGED <<readyVars, search, victim, cur, arg, next, target, spins, home, idleVars>>

\* postSuspend(): park, or enqueue the fred if it has been resumed already.
PostSuspend(p) ==
  /\ pc[p] = "post"
  /\ \/ /\ parked' = parked \cup {arg[p]}
        /\ arg' = [arg EXCEPT ![p] = Null]
        /\ Goto(p, Proceed(p))
     \/ Goto(p, "tail") /\ UNCHANGED <<parked, arg>>
  /\ UNCHANGED <<readyVars, search, victim, cur, next, target, spins, home, idleVars>>

\* yield() and yieldGlobal().
Yield(p) ==
  /\ pc[p] = "run"
  /\ search' = [search EXCEPT ![p] = "yield"]
  /\ Goto(p, "local")
  /\ UNCHANGED <<readyVars, victim, cur, arg, next, target, spins, parked, home, idleVars>>

\* migrate() to processor q tries yieldGlobal() first.
Migrate(p, q) ==
  /\ pc[p] = "run"
  /\ home' = [home EXCEPT ![cur[p]] = q]
  /\ search' = [search EXCEPT ![p] = "migrate"]
  /\ Goto(p, "local")
  /\ UNCHANGED <<readyVars, victim, cur, arg, next, target, spins, parked, idleVars>>

\* yieldTo() and postYield(), or nothing to yield to.  A migrating fred that
\* finds none leaves through scheduleFull() and yieldResume().
SwitchYield(p) ==
  /\ pc[p] \in {"yield", "migrate"}
  /\ \/ /\ next[p] # Null
        /\ cur' = [cur EXCEPT ![p] = next[p]]
        /\ arg' = [arg EXCEPT ![p] = cur[p]]
        /\ next' = [next EXCEPT ![p] = Null]
        /\ Goto(p, "yieldtail")
        /\ UNCHANGED search
     \/ /\ next[p] = Null
        /\ \/ pc[p] = "yield" /\ Goto(p, "run") /\ UNCHANGED search
           \/ pc[p] = "migrate" /\ Goto(p, "local") /\ search' = [search EXCEPT ![p] = "resume"]
        /\ UNCHANGED <<cur, arg, next>>
  /\ UNCHANGED <<readyVars, victim, target, spins, parked, home, idleVars>>

---------------------------------------------------------------------------
(* scheduleIdle(): the idle loop of p.                                      *)

SpinStart(p) ==
  /\ pc[p] = "idle"
  /\ Fenced(p)
  /\ spinCounter' = spinCounter + 1
  /\ search' = [search EXCEPT ![p] = "spin"]
  /\ spins' = [spins EXCEPT ![p] = 1]
  /\ Goto(p, "local")
  /\ UNCHANGED <<readyVars, victim, cur, arg, next, target, parked, home>>
  /\ UNCHANGED <<waitCounter, waitingProcs, haltSem>>

\* unblockSpin(): the last spinning processor that finds work wakes another.
SpinFound(p) ==
  /\ pc[p] = "spin"
  /\ next[p] # Null
  /\ spinCounter' = spinCounter - 1
  /\ cur' = [cur EXCEPT ![p] = next[p]]
  /\ next' = [next EXCEPT ![p] = Null]
  /\ Goto(p, IF spinCounter = 1 THEN "unblock" ELSE "run")
  /\ UNCHANGED <<readyVars, search, victim, arg, target, spins, parked, home>>
  /\ UNCHANGED <<waitCounter, waitingProcs, haltSem>>

SpinNothing(p) ==
  /\ pc[p] = "spin"
  /\ next[p] = Null
  /\ \/ /\ spins[p] < MaxSpin
        /\ spins' = [spins EXCEPT ![p] = @ + 1]
        /\ Goto(p, "local")
        /\ UNCHANGED spinCounter
     \/ /\ spins[p] = MaxSpin
        /\ spinCounter' = spinCounter - 1
        /\ Goto(p, "wait")
        /\ UNCHANGED spins
  /\ UNCHANGED <<readyVars, search, victim, cur, arg, next, target, parked, home>>
  /\ UNCHANGED <<waitCounter, waitingProcs, haltSem>>

\* incWaiting(), and one last search.
WaitStart(p) ==
  /\ pc[p] = "wait"
  /\ waitCounter' = waitCounter + 1
  /\ search' = [search EXCEPT ![p] = "last"]
  /\ Goto(p, "local")
  /\ UNCHANGED <<readyVars, victim, cur, arg, next, target, spins, parked, home>>
  /\ UNCHANGED <<spinCounter, waitingProcs, haltSem>>

\* Mutant of LastFound: decWaiting() is missing.
LastFoundNoDec(p) ==
  /\ pc[p] = "last"
  /\ next[p] # Null
  /\ cur' = [cur EXCEPT ![p] = next[p]]
  /\ next' = [next EXCEPT ![p] = Null]
  /\ Goto(p, "run")
  /\ UNCHANGED <<readyVars, search, victim, arg, target, spins, parked, home, idleVars>>

\* The last search finds a fred: decWaiting().
LastFound(p) ==
  /\ pc[p] = "last"
  /\ next[p] # Null
  /\ waitCounter' = waitCounter - 1
  /\ cur' = [cur EXCEPT ![p] = next[p]]
  /\ next' = [next EXCEPT ![p] = Null]
  /\ Goto(p, "run")
  /\ UNCHANGED <<readyVars, search, victim, arg, target, spins, parked, home>>
  /\ UNCHANGED <<spinCounter, waitingProcs, haltSem>>

\* block(): join the list and halt.
Block(p) ==
  /\ pc[p] = "last"
  /\ next[p] = Null
  /\ waitingProcs' = <<p>> \o waitingProcs
  /\ Goto(p, "halt")
  /\ UNCHANGED <<readyVars, search, victim, cur, arg, next, target, spins, parked, home>>
  /\ UNCHANGED <<spinCounter, waitCounter, haltSem>>

\* halt(): P on the halt semaphore.
Halt(p) ==
  /\ pc[p] = "halt"
  /\ haltSem[p] > 0
  /\ haltSem' = [haltSem EXCEPT ![p] = @ - 1]
  /\ Goto(p, "idle")
  /\ UNCHANGED <<readyVars, search, victim, cur, arg, next, target, spins, parked, home>>
  /\ UNCHANGED <<spinCounter, waitCounter, waitingProcs>>

IdleStep(p) ==
  \/ SpinStart(p)
  \/ SpinFound(p)
  \/ SpinNothing(p)
  \/ WaitStart(p)
  \/ LastFound(p)
  \/ Block(p)
  \/ Halt(p)

---------------------------------------------------------------------------

BufferDrain(t) == Drain(t) /\ UNCHANGED <<procVars, parked, home, idleVars>>

\* What a thread does once it has started something.
Step(p) == SearchStep(p) \/ SwitchFull(p) \/ PostSuspend(p) \/ SwitchYield(p) \/ IdleStep(p)

Next ==
  \/ \E t \in Threads :
       \/ \E f \in Freds : Resume(t, f)
       \/ EnqueueStep(t)
       \/ BufferDrain(t)
  \/ \E p \in Procs :
       \/ Suspend(p)
       \/ Yield(p)
       \/ \E q \in Procs : Migrate(p, q)
       \/ Step(p)

SafeSpec == Init /\ [][Next]_vars

\* Threads run, store buffers drain, a mutex is granted to a processor that
\* keeps asking for it, and freds are cooperative: one that keeps being run
\* suspends at some point.  Nobody has to resume anybody.
Fairness ==
  /\ \A t \in Threads : WF_vars(EnqueueStep(t)) /\ WF_vars(BufferDrain(t))
  /\ \A p \in Procs : WF_vars(Step(p)) /\ SF_vars(SearchLocal(p)) /\ SF_vars(Suspend(p))

Spec == SafeSpec /\ Fairness

---------------------------------------------------------------------------

Ready == UNION {{rq[p][i] : i \in DOMAIN rq[p]} : p \in Procs}

\* A processor sleeps and nobody is on the way to wake it.
Asleep(p) ==
  /\ pc[p] = "halt"
  /\ haltSem[p] = 0
  /\ \A t \in Threads : target[t] # p

\* No lost wake-up: when all processors are asleep and nobody is in the middle
\* of a resume, no fred is left in a ready queue.  The search after
\* incWaiting() and the read of waitCounter in unblock() must not miss each
\* other, and neither may the locks that tryDequeue() gives up on.
NoFredStranded ==
  (/\ \A p \in Procs : Asleep(p)
   /\ \A t \in Outside : pc[t] = "run" /\ Fenced(t))
    => Ready = {}

\* The phases of the idle loop that the two counters stand for.
Searching(p, why) ==
  \/ search[p] = why /\ pc[p] \in {"local", "localpop", "steal", "stealpop"}
  \/ pc[p] = why

Announced(p) ==
  \/ Searching(p, "last")
  \/ pc[p] = "halt" /\ \E i \in DOMAIN waitingProcs : waitingProcs[i] = p
  \/ \E t \in Threads : pc[t] = "dec" /\ target[t] = p

\* spinCounter and waitCounter count the processors that spin and the ones
\* that have announced themselves and not been taken off by unblock(): the
\* unsigned counters never wrap below zero, and unblock() never spins for a
\* processor that does not come.
CountersExact ==
  /\ spinCounter = Cardinality({p \in Procs : Searching(p, "spin")})
  /\ waitCounter = Cardinality({p \in Procs : Announced(p)})

\* The tokens that wake p: in its semaphore, or with a thread that has taken
\* it off the list.
Tokens(p) == haltSem[p] + Cardinality({t \in Threads : target[t] = p})

\* Every halt is matched by one wake-up: a processor in the list has none on
\* the way, one that has left it has exactly one, and none reaches a
\* processor that is not halted.
WakeOnce ==
  /\ IsInjective(waitingProcs)
  /\ \A p \in Procs :
       Tokens(p) = IF pc[p] = "halt" /\ \A i \in DOMAIN waitingProcs : waitingProcs[i] # p
                   THEN 1 ELSE 0

\* Where fred f is, each place with its number.
Places(f) ==
  {<<"cur", p>> : p \in {p \in Procs : cur[p] = f}}
    \cup {<<"next", p>> : p \in {p \in Procs : next[p] = f}}
    \cup {<<"arg", t>> : t \in {t \in Threads : arg[t] = f /\ pc[t] \notin {"link", "yieldlink"}}}
    \cup {<<"parked", Null>> : x \in parked \cap {f}}
    \cup UNION {{<<"rq", p, i>> : i \in {i \in DOMAIN rq[p] : rq[p][i] = f}} : p \in Procs}

\* A fred is in one place: no two processors run it, and none is dropped or
\* taken twice while queues are searched, stolen from and pushed to at once.
FredOnce == \A f \in Freds : Cardinality(Places(f)) = 1

\* A ready fred is run, whatever the others do.
ReadyFredRuns == \A f \in Freds : f \in Ready ~> \E p \in Procs : cur[p] = f
=============================================================================
