--------------------------- MODULE ClusterPause ---------------------------
(***************************************************************************)
(* The processors of a cluster (libfibre/Cluster.cc, runtime/Scheduler.h):  *)
(* workers are added to the ring, fibres are placed along it, and pause()   *)
(* stops every processor but the caller's with a fibre of top priority that *)
(* confirms and then holds its processor until resume().                    *)
(*                                                                          *)
(* ringLock and the two semaphores belong to the system: who waits for them *)
(* keeps its processor.  Freds are not preempted, so that a fibre of top    *)
(* priority runs when the running fred blocks or yields.  pause() keeps     *)
(* ringLock until resume(): a fred that calls placement() meanwhile keeps   *)
(* its processor from ever confirming, and pause() does not return.         *)
(***************************************************************************)
EXTENDS Integers, FiniteSets

CONSTANTS Procs, NoProc,
          MaxPauses    \* bound: calls of pause()

VARIABLES
  ring,        \* the processors in the ring; ringCount counts them
  placeProc,   \* the last processor that placement() chose
  ringLock,    \* ringLock is taken
  spot,        \* processor -> what it does
  startable,   \* processors with a pause fibre in their ready queue
  pauseFibres, \* processors whose pause fibre has not ended
  pauseConfirmSem, pauseSem,
  phase,       \* where pause() and resume() are, "none" outside
  caller,      \* the processor of their caller
  todo,        \* the processors that pause() has yet to visit
  left,        \* how often P() or V() is yet to be called
  pauses       \* calls of pause() so far

clusterVars == <<ring, placeProc, ringLock, spot, startable, pauseFibres, pauseConfirmSem,
                 pauseSem, phase, caller, todo, left, pauses>>
ringVars  == <<ring, placeProc>>
pauseVars == <<phase, caller, todo, left, pauses>>
fibreVars == <<startable, pauseFibres, pauseConfirmSem, pauseSem>>

\* The cluster after registerWorker() has made the current thread a worker.
ClusterInit ==
  \E p \in Procs :
    /\ ring = {p} /\ placeProc = p /\ ringLock = FALSE
    /\ spot = [q \in Procs |-> IF q = p THEN "fred" ELSE "absent"]
    /\ startable = {} /\ pauseFibres = {} /\ pauseConfirmSem = 0 /\ pauseSem = 0
    /\ phase = "none" /\ caller = NoProc /\ todo = {} /\ left = 0 /\ pauses = 0

Move(p, from, to) == spot[p] = from /\ spot' = [spot EXCEPT ![p] = to]

---------------------------------------------------------------------------
(* The ring.                                                                *)

\* A fred that waits for ringLock: to place a fibre, add a worker or pause.
Want(p, what) ==
  /\ Move(p, "fred", what)
  /\ UNCHANGED <<ringVars, ringLock, fibreVars, pauseVars>>

\* placement(): the lock is taken and released again.
placement(p) ==
  /\ ~ringLock
  /\ Move(p, "place", "fred")
  /\ placeProc' \in IF ring = {placeProc} THEN ring ELSE ring \ {placeProc}
  /\ UNCHANGED <<ring, ringLock, fibreVars, pauseVars>>

\* addWorker(): Worker() enters the ring before its thread is created.
addWorker(p, q) ==
  /\ ~ringLock
  /\ spot[p] = "add" /\ spot[q] = "absent"
  /\ spot' = [spot EXCEPT ![p] = "fred", ![q] = "starting"]
  /\ ring' = ring \cup {q}
  /\ UNCHANGED <<placeProc, ringLock, fibreVars, pauseVars>>

\* registerIdleWorker(): the thread runs the init fibre and the idle loop.
registerIdleWorker(q) ==
  /\ Move(q, "starting", "fred")
  /\ UNCHANGED <<ringVars, ringLock, fibreVars, pauseVars>>

---------------------------------------------------------------------------
(* pause().                                                                 *)

PauseLock(p) ==
  /\ ~ringLock /\ pauses < MaxPauses
  /\ Move(p, "pause", "pauser")
  /\ ringLock' = TRUE
  /\ phase' = "creating" /\ caller' = p /\ todo' = ring /\ pauses' = pauses + 1
  /\ UNCHANGED <<ringVars, fibreVars, left>>

\* One turn of the loop around the ring.
PauseCreate(q) ==
  /\ phase = "creating" /\ q \in todo
  /\ todo' = todo \ {q}
  /\ IF q # caller
       THEN startable' = startable \cup {q} /\ pauseFibres' = pauseFibres \cup {q}
       ELSE UNCHANGED <<startable, pauseFibres>>
  /\ phase' = IF todo' = {} THEN "confirming" ELSE "creating"
  /\ left' = Cardinality(ring) - 1
  /\ UNCHANGED <<ringVars, ringLock, spot, pauseConfirmSem, pauseSem, caller, pauses>>

PauseP ==
  /\ phase = "confirming" /\ left > 0 /\ pauseConfirmSem > 0
  /\ pauseConfirmSem' = pauseConfirmSem - 1 /\ left' = left - 1
  /\ UNCHANGED <<ringVars, ringLock, spot, startable, pauseFibres, pauseSem, phase, caller, todo, pauses>>

PauseReturn ==
  /\ phase = "confirming" /\ left = 0
  /\ phase' = "paused"
  /\ UNCHANGED <<ringVars, ringLock, spot, fibreVars, caller, todo, left, pauses>>

---------------------------------------------------------------------------
(* pauseOperation(), on every other processor.                              *)

\* The running fred blocks or yields.
PauseRun(q) ==
  /\ q \in startable
  /\ Move(q, "fred", "confirm")
  /\ startable' = startable \ {q}
  /\ UNCHANGED <<ringVars, ringLock, pauseFibres, pauseConfirmSem, pauseSem, pauseVars>>

PauseConfirm(q) ==
  /\ Move(q, "confirm", "held")
  /\ pauseConfirmSem' = pauseConfirmSem + 1
  /\ UNCHANGED <<ringVars, ringLock, startable, pauseFibres, pauseSem, pauseVars>>

\* P() returns, and the fibre ends.
PauseEnd(q) ==
  /\ pauseSem > 0
  /\ Move(q, "held", "fred")
  /\ pauseSem' = pauseSem - 1 /\ pauseFibres' = pauseFibres \ {q}
  /\ UNCHANGED <<ringVars, ringLock, startable, pauseConfirmSem, pauseVars>>

---------------------------------------------------------------------------
(* resume().                                                                *)

ResumeStart ==
  /\ phase = "paused"
  /\ phase' = "posting" /\ left' = Cardinality(ring) - 1
  /\ UNCHANGED <<ringVars, ringLock, spot, fibreVars, caller, todo, pauses>>

ResumeV ==
  /\ phase = "posting" /\ left > 0
  /\ pauseSem' = pauseSem + 1 /\ left' = left - 1
  /\ UNCHANGED <<ringVars, ringLock, spot, startable, pauseFibres, pauseConfirmSem, phase, caller, todo, pauses>>

\* The first delete joins: the caller is suspended, its processor runs others.
ResumeJoin ==
  /\ phase = "posting" /\ left = 0
  /\ Move(caller, "pauser", "fred")
  /\ phase' = "joining"
  /\ UNCHANGED <<ringVars, ringLock, fibreVars, caller, todo, left, pauses>>

\* Mutant of ResumeEnd: the pause fibres are not joined.
ResumeEndEarly(p) ==
  /\ phase = "joining" /\ spot[p] = "fred"
  /\ phase' = "none" /\ caller' = NoProc /\ ringLock' = FALSE
  /\ UNCHANGED <<ringVars, spot, fibreVars, todo, left, pauses>>

\* The last delete returns, on any processor, and the lock is released.
ResumeEnd(p) ==
  /\ phase = "joining" /\ spot[p] = "fred" /\ pauseFibres = {}
  /\ phase' = "none" /\ caller' = NoProc /\ ringLock' = FALSE
  /\ UNCHANGED <<ringVars, spot, fibreVars, todo, left, pauses>>

ClusterNext ==
  \/ \E p \in Procs : \/ \E what \in {"place", "add", "pause"} : Want(p, what)
                      \/ placement(p) \/ registerIdleWorker(p) \/ \E q \in Procs : addWorker(p, q)
                      \/ PauseLock(p) \/ PauseCreate(p) \/ PauseRun(p) \/ PauseConfirm(p) \/ PauseEnd(p)
                      \/ ResumeEnd(p)
  \/ PauseP \/ PauseReturn \/ ResumeStart \/ ResumeV \/ ResumeJoin

ClusterSpec == ClusterInit /\ [][ClusterNext]_clusterVars

---------------------------------------------------------------------------

\* pause() stops the world: when it has returned every other processor of the
\* ring is held by its pause fibre, whatever was added or placed before; while
\* it waits, the confirmations it is owed are those given and those of fibres
\* yet to run; and nothing of one pause is left for the next.
PauseStops ==
  LET at(s) == {q \in Procs : spot[q] = s} IN
  /\ phase \in {"paused", "posting"} => \A q \in ring \ {caller} :
       spot[q] = "held" \/ (phase = "posting" /\ q \notin pauseFibres)
  /\ phase = "confirming" => left = pauseConfirmSem + Cardinality(startable \cup at("confirm"))
  /\ phase \in {"posting", "joining"} => Cardinality(at("held")) = pauseSem + left
  /\ phase = "none" => /\ pauseConfirmSem = 0 /\ pauseSem = 0
                       /\ startable = {} /\ at("confirm") \cup at("held") = {}
===========================================================================
