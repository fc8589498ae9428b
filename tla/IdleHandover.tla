---------------------------- MODULE IdleHandover ----------------------------
(***************************************************************************)
(* The counting IdleManager of runtime/Scheduler.h (TESTING_GO_IDLEMANAGER  *)
(* off) with its callers in BaseProcessor: one counter of ready freds, below*)
(* zero the processors that wait for one.  A resumer that finds it below    *)
(* zero hands its fred to a sleeping processor directly, or leaves it in    *)
(* waitingFreds for one that is about to sleep.                             *)
(*                                                                          *)
(* The ready queues are one set: a search takes any fred of it, and is      *)
(* repeated when it finds none (Scheduler models the search).               *)
(***************************************************************************)
EXTENDS Integers, Sequences, FiniteSets

CONSTANTS Freds, Procs, Outside, Null

Threads == Procs \cup Outside

VARIABLES
  fredCounter,
  waitingProcs,   \* sleeping processors, the last one to sleep first
  waitingFreds,   \* freds that wait for a processor that is going to sleep
  ready,          \* the freds in ready queues
  parked,         \* suspended freds that nobody has resumed
  running,        \* processor -> its fred, or Null
  step,           \* thread -> where it is
  seen,           \* processor -> the counter it has read in tryGetReadyFred()
  carried,        \* thread -> the fred it is about to pass on
  chosen,         \* thread -> the processor it is about to wake
  handoverFred,   \* processor -> what its waker left
  haltTokens      \* processor -> its semaphore

idleVars == <<fredCounter, waitingProcs, waitingFreds, ready, parked, running, step, seen,
              carried, chosen, handoverFred, haltTokens>>
listVars == <<waitingProcs, waitingFreds>>
wakeVars == <<chosen, handoverFred, haltTokens>>

IdleInit ==
  /\ fredCounter = 0 /\ waitingProcs = <<>> /\ waitingFreds = <<>>
  /\ ready = {} /\ parked = Freds
  /\ running = [p \in Procs |-> Null]
  /\ step = [t \in Threads |-> IF t \in Procs THEN "spin" ELSE "run"]
  /\ seen = [p \in Procs |-> 0]
  /\ carried = [t \in Threads |-> Null]
  /\ chosen = [t \in Threads |-> Null]
  /\ handoverFred = [p \in Procs |-> Null]
  /\ haltTokens = [p \in Procs |-> 0]

Goto(t, label) == step' = [step EXCEPT ![t] = label]

---------------------------------------------------------------------------
(* enqueueResume                                                           *)

\* addReadyFred(): the fred is counted before it can be found.
AddReadyFred(t, f) ==
  /\ step[t] = "run" /\ f \in parked
  /\ parked' = parked \ {f}
  /\ carried' = [carried EXCEPT ![t] = f]
  /\ fredCounter' = fredCounter + 1
  /\ Goto(t, IF fredCounter + 1 > 0 THEN "enqueue" ELSE "unblock")
  /\ UNCHANGED <<listVars, ready, running, seen, wakeVars>>

EnqueueFred(t) ==
  /\ step[t] = "enqueue"
  /\ ready' = ready \cup {carried[t]}
  /\ carried' = [carried EXCEPT ![t] = Null]
  /\ Goto(t, "run")
  /\ UNCHANGED <<fredCounter, listVars, parked, running, seen, wakeVars>>

\* unblock(), under procLock: the processor that is owed the fred may not be
\* on the list yet.
Unblock(t) ==
  /\ step[t] = "unblock"
  /\ \/ /\ waitingProcs = <<>>
        /\ waitingFreds' = Append(waitingFreds, carried[t])
        /\ carried' = [carried EXCEPT ![t] = Null]
        /\ Goto(t, "run")
        /\ UNCHANGED <<waitingProcs, chosen>>
     \/ /\ waitingProcs # <<>>
        /\ chosen' = [chosen EXCEPT ![t] = Head(waitingProcs)]
        /\ waitingProcs' = Tail(waitingProcs)
        /\ Goto(t, "wake")
        /\ UNCHANGED <<waitingFreds, carried>>
  /\ UNCHANGED <<fredCounter, ready, parked, running, seen, handoverFred, haltTokens>>

\* wake()
Wake(t) ==
  /\ step[t] = "wake"
  /\ handoverFred' = [handoverFred EXCEPT ![chosen[t]] = carried[t]]
  /\ haltTokens' = [haltTokens EXCEPT ![chosen[t]] = @ + 1]
  /\ carried' = [carried EXCEPT ![t] = Null]
  /\ chosen' = [chosen EXCEPT ![t] = Null]
  /\ Goto(t, "run")
  /\ UNCHANGED <<fredCounter, listVars, ready, parked, running, seen>>

---------------------------------------------------------------------------
(* A processor that looks for work                                         *)

\* The fred suspends; scheduleFull() tries once and then the idle loop does.
Suspend(p) ==
  /\ step[p] = "run" /\ running[p] # Null
  /\ parked' = parked \cup {running[p]}
  /\ running' = [running EXCEPT ![p] = Null]
  /\ Goto(p, "spin")
  /\ UNCHANGED <<fredCounter, listVars, ready, seen, carried, wakeVars>>

\* tryGetReadyFred(): read the counter ...
TryRead(p) ==
  /\ step[p] = "spin"
  /\ seen' = [seen EXCEPT ![p] = fredCounter]
  /\ Goto(p, "cas")
  /\ UNCHANGED <<fredCounter, listVars, ready, parked, running, carried, wakeVars>>

\* ... and take one off it if it has not changed.  After IdleSpinMax tries the
\* processor commits itself.
TryGetReadyFred(p) ==
  /\ step[p] = "cas"
  /\ seen' = [seen EXCEPT ![p] = 0]
  /\ \/ /\ seen[p] > 0 /\ seen[p] = fredCounter
        /\ fredCounter' = fredCounter - 1
        /\ Goto(p, "search")
     \/ /\ seen[p] <= 0 \/ seen[p] # fredCounter
        /\ Goto(p, "spin") \/ Goto(p, "get")
        /\ UNCHANGED fredCounter
  /\ UNCHANGED <<listVars, ready, parked, running, carried, wakeVars>>

\* getReadyFred(): a fred that is counted, or a turn to wait for one.
GetReadyFred(p) ==
  /\ step[p] = "get"
  /\ fredCounter' = fredCounter - 1
  /\ Goto(p, IF fredCounter > 0 THEN "search" ELSE "block")
  /\ UNCHANGED <<listVars, ready, parked, running, seen, carried, wakeVars>>

Run(p, f) ==
  /\ running' = [running EXCEPT ![p] = f]
  /\ Goto(p, "run")

\* scheduleBlocking(): the fred it has counted for itself is there, or on its
\* way, or another one is.
ScheduleBlocking(p) ==
  /\ step[p] = "search"
  /\ \E f \in ready : Run(p, f) /\ ready' = ready \ {f}
  /\ UNCHANGED <<fredCounter, listVars, parked, seen, carried, wakeVars>>

\* Mutant of Block: a fred that is waiting already is not looked for.
BlockBlind(p) ==
  /\ step[p] = "block"
  /\ waitingProcs' = <<p>> \o waitingProcs
  /\ Goto(p, "halt")
  /\ UNCHANGED <<waitingFreds, running, fredCounter, ready, parked, seen, carried, wakeVars>>

\* block(), under procLock.
Block(p) ==
  /\ step[p] = "block"
  /\ \/ /\ waitingFreds = <<>>
        /\ waitingProcs' = <<p>> \o waitingProcs
        /\ Goto(p, "halt")
        /\ UNCHANGED <<waitingFreds, running>>
     \/ /\ waitingFreds # <<>>
        /\ waitingFreds' = Tail(waitingFreds)
        /\ Run(p, Head(waitingFreds))
        /\ UNCHANGED waitingProcs
  /\ UNCHANGED <<fredCounter, ready, parked, seen, carried, wakeVars>>

\* halt() returns what the waker has left.
Halt(p) ==
  /\ step[p] = "halt" /\ haltTokens[p] > 0
  /\ haltTokens' = [haltTokens EXCEPT ![p] = @ - 1]
  /\ Run(p, handoverFred[p])
  /\ UNCHANGED <<fredCounter, listVars, ready, parked, seen, carried, chosen, handoverFred>>

\* yield() takes a fred without counting it, and puts its own in its place
\* once the switch is done.
Yield(p) ==
  /\ step[p] = "run" /\ running[p] # Null
  /\ \E f \in ready :
       /\ carried' = [carried EXCEPT ![p] = running[p]]
       /\ running' = [running EXCEPT ![p] = f]
       /\ ready' = ready \ {f}
  /\ Goto(p, "yielded")
  /\ UNCHANGED <<fredCounter, listVars, parked, seen, wakeVars>>

EnqueueYield(p) ==
  /\ step[p] = "yielded"
  /\ ready' = ready \cup {carried[p]}
  /\ carried' = [carried EXCEPT ![p] = Null]
  /\ Goto(p, "run")
  /\ UNCHANGED <<fredCounter, listVars, parked, running, seen, wakeVars>>

IdleNext ==
  \/ \E t \in Threads :
       \/ \E f \in Freds : AddReadyFred(t, f)
       \/ EnqueueFred(t) \/ Unblock(t) \/ Wake(t)
  \/ \E p \in Procs :
       \/ Suspend(p) \/ TryRead(p) \/ TryGetReadyFred(p) \/ GetReadyFred(p)
       \/ ScheduleBlocking(p) \/ Block(p) \/ Halt(p) \/ Yield(p) \/ EnqueueYield(p)

IdleSpec == IdleInit /\ [][IdleNext]_idleVars

---------------------------------------------------------------------------

Listed(s) == {s[i] : i \in 1 .. Len(s)}

\* Processors that have taken one off the counter and have no fred yet.
Committed == {p \in Procs : step[p] \in {"search", "block", "halt"}}

\* Threads that have counted a fred, or taken one in its place, and still carry it.
Carrying == {t \in Threads : carried[t] # Null}

\* Freds left for a processor that has been woken and has not run yet.
HandedOver == {p \in Procs : haltTokens[p] > 0}

\* Every fred is in one place only, the counter is the number of freds to be
\* had less the processors that are committed, a processor that sleeps in the
\* list has no token on its way and one that is off it exactly one, and
\* nothing waits on both sides: a fred in waitingFreds is for a processor that
\* has not listed itself yet.
HandoverExact ==
  /\ fredCounter = Cardinality(ready) + Len(waitingFreds) + Cardinality(Carrying)
                     + Cardinality(HandedOver) - Cardinality(Committed)
  /\ \A f \in Freds :
       Cardinality({p \in Procs : running[p] = f}) + Cardinality({t \in Threads : carried[t] = f})
         + Cardinality(ready \cap {f}) + Cardinality(parked \cap {f})
         + Cardinality({i \in 1 .. Len(waitingFreds) : waitingFreds[i] = f})
         + Cardinality({p \in HandedOver : handoverFred[p] = f}) = 1
  /\ \A p \in Procs :
       haltTokens[p] + Cardinality({t \in Threads : chosen[t] = p})
         = IF step[p] = "halt" /\ p \notin Listed(waitingProcs) THEN 1 ELSE 0
  /\ waitingFreds # <<>> => waitingProcs = <<>> /\ \E p \in Procs : step[p] = "block"

\* No fred is left while every processor sleeps and nobody is on the way to
\* wake one.
NoFredLeft ==
  Procs \subseteq Listed(waitingProcs) /\ Carrying = {} => ready = {} /\ waitingFreds = <<>>
=============================================================================
