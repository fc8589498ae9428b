----------------------------- MODULE FibreLife -----------------------------
(***************************************************************************)
(* The life of a fibre: fibre_create, the start and the end of its routine, *)
(* join and detach over the SyncPoint `done` (libfibre/Fibre.h, fibre.h,    *)
(* runtime/BlockingSync.h, Fred.cc).                                        *)
(*                                                                          *)
(* Every operation of SyncPoint is one action: it holds the lock of the     *)
(* flag throughout, and a resume() under the lock cannot let the waiter     *)
(* look at the flag before the lock is released.                            *)
(* The program keeps to the rules of pthreads: a fibre is joined by one     *)
(* fred or detached by anybody, once, and nobody deletes a fibre that is    *)
(* detached.  It may be detached while it ends and after its end.           *)
(***************************************************************************)
EXTENDS Fred

\* The flag names a waiter or one of its three states, and a routine leaves a
\* result.
ASSUME FibreAssumption ==
  /\ \A f \in Freds : f \notin {"Running", "Posted", "Detached"}
  /\ Null \notin {"returned", "exited"}

VARIABLES
  stage,      \* fibre -> "none", "started", "live", "ended" or "deleted"
  stacks,     \* the fibres whose stack is mapped
  flag,       \* fibre -> Running, Posted, Detached or the waiter
  flagLock,   \* fibre -> the fred that calls resume() with the flag's lock, or Null
  result,     \* fibre -> what its routine returned, Null before
  joining,    \* fred -> the fibre it joins, or Null
  deletes     \* fred -> its join is fibre_join, which deletes the object

lifeVars == <<stage, stacks, flag, flagLock, result, joining, deletes>>
fibreLifeVars == <<fredVars, lifeVars>>

FlagRunning == "Running"
Posted      == "Posted"
Detached    == "Detached"
Waiter(g)   == flag[g] \notin {FlagRunning, Posted, Detached}

\* A post() or detach() has the lock of g's flag.
FlagLocked(g) == flagLock[g] # Null

FibreLifeInit ==
  /\ FredInit
  /\ \E main \in Freds :
       stage = [f \in Freds |-> IF f = main THEN "live" ELSE "none"]
  /\ stacks = {}
  /\ flag = [f \in Freds |-> FlagRunning]
  /\ flagLock = [f \in Freds |-> Null]
  /\ result = [f \in Freds |-> Null]
  /\ joining = [f \in Freds |-> Null]
  /\ deletes = [f \in Freds |-> FALSE]

InProgram(f) == stage[f] = "live" /\ pc[f] = "idle"

---------------------------------------------------------------------------

\* fibre_create(): the constructor maps the stack, a detached fibre is
\* detached before it starts, start() links it into a ready queue.
FibreCreate(f, g, detached) ==
  /\ InProgram(f) /\ stage[g] = "none"
  /\ stage' = [stage EXCEPT ![g] = "started"]
  /\ stacks' = stacks \cup {g}
  /\ flag' = [flag EXCEPT ![g] = IF detached THEN Detached ELSE FlagRunning]
  /\ pc' = [pc EXCEPT ![g] = "off"]
  /\ ResumeInternal(g)
  /\ UNCHANGED <<runState, resumeInfo, pending, flagLock, result, joining, deletes>>

\* invokeFred(): the first dispatch of the fibre.
InvokeFred(g) ==
  /\ stage[g] = "started" /\ pc[g] = "resumed"
  /\ stage' = [stage EXCEPT ![g] = "live"]
  /\ pc' = [pc EXCEPT ![g] = "idle"]
  /\ UNCHANGED <<raceVars, stacks, flag, flagLock, result, joining, deletes>>

\* RuntimeStartFred(): the routine returns or throws out of Fibre::exit();
\* finalize() keeps what it left.
Finalize(g, r) ==
  /\ InProgram(g) /\ g \in stacks
  /\ result' = [result EXCEPT ![g] = r]
  /\ stage' = [stage EXCEPT ![g] = "ended"]
  /\ pc' = [pc EXCEPT ![g] = "terminate"]
  /\ UNCHANGED <<raceVars, stacks, flag, flagLock, joining, deletes>>

\* post() and detach(), called by f with the lock of g's flag: the waiter is
\* resumed before the lock is released.
Settle(f, g, state) ==
  /\ ~FlagLocked(g)
  /\ flag' = [flag EXCEPT ![g] = state]
  /\ \/ /\ Waiter(g)
        /\ pending' = [pending EXCEPT ![f] = flag[g]]
        /\ flagLock' = [flagLock EXCEPT ![g] = f]
     \/ /\ flag[g] = FlagRunning
        /\ UNCHANGED <<pending, flagLock>>

\* post(), which leaves a detached flag alone.
Post(g) ==
  \/ Settle(g, g, Posted)
  \/ ~FlagLocked(g) /\ flag[g] = Detached /\ UNCHANGED <<flag, flagLock, pending>>

\* Mutant of StackFree: done.post() comes before stackFree().
StackFreeLate(g) ==
  /\ pc[g] = "terminate"
  /\ pc' = [pc EXCEPT ![g] = "posted"]
  /\ Post(g)
  /\ UNCHANGED <<runState, resumeInfo, readyLinks, stage, stacks, result, joining, deletes>>

\* postTerminate() -> destroy(), on the stack of the next fred: the stack is
\* unmapped ...
StackFree(g) ==
  /\ pc[g] = "terminate"
  /\ stacks' = stacks \ {g}
  /\ pc' = [pc EXCEPT ![g] = "freed"]
  /\ UNCHANGED <<raceVars, stage, flag, flagLock, result, joining, deletes>>

\* ... and then the end is posted.
DestroyPost(g) ==
  /\ pc[g] = "freed"
  /\ Post(g)
  /\ pc' = [pc EXCEPT ![g] = "posted"]
  /\ UNCHANGED <<runState, resumeInfo, readyLinks, stage, stacks, result, joining, deletes>>

\* The resume() of post() and detach(), and the release of the lock.
FlagResume(f) ==
  /\ Resume(f)
  /\ \E g \in Freds : flagLock[g] = f /\ flagLock' = [flagLock EXCEPT ![g] = Null]
  /\ pc' = [pc EXCEPT ![f] = IF @ = "detached" THEN "idle" ELSE @]
  /\ UNCHANGED <<stage, stacks, flag, result, joining, deletes>>

\* A fibre that fibre_create() has made, whose object is still there.
Created(g) == g \in stacks \/ stage[g] = "ended"

\* detach() of g by any fred.  In a flag that is posted already it takes the
\* state for a waiter and resumes what is no fred: with assertions off
\* nothing but the fault stops it.
Detach(f, g) ==
  /\ InProgram(f) /\ Created(g) /\ flag[g] # Detached
  /\ \A h \in Freds : joining[h] = g => ~deletes[h]
  /\ \/ /\ Settle(f, g, Detached)
        /\ pc' = [pc EXCEPT ![f] = IF Waiter(g) THEN "detached" ELSE "idle"]
     \/ /\ ~FlagLocked(g) /\ flag[g] = Posted
        /\ pc' = [pc EXCEPT ![f] = "fault"]
        /\ UNCHANGED <<pending, flag, flagLock>>
  /\ UNCHANGED <<runState, resumeInfo, readyLinks, stage, stacks, result, joining, deletes>>

\* join() and fibre_join() up to the flag's lock.
Join(f, g, del) ==
  /\ InProgram(f) /\ f # g
  /\ stage[g] \in {"started", "live", "ended"} /\ g \notin {joining[h] : h \in Freds}
  /\ flag[g] # Detached /\ joining[g] # f
  /\ joining' = [joining EXCEPT ![f] = g]
  /\ deletes' = [deletes EXCEPT ![f] = del]
  /\ pc' = [pc EXCEPT ![f] = "wait"]
  /\ UNCHANGED <<raceVars, stage, stacks, flag, flagLock, result>>

\* wait() of a flag that is neither posted nor detached: become its waiter,
\* release the lock and suspend.
FlagWait(f) ==
  /\ pc[f] = "wait" /\ ~FlagLocked(joining[f])
  /\ flag[joining[f]] = FlagRunning
  /\ flag' = [flag EXCEPT ![joining[f]] = f]
  /\ pc' = [pc EXCEPT ![f] = "suspend"]
  /\ UNCHANGED <<raceVars, stage, stacks, flagLock, result, joining, deletes>>

\* The end of wait(), with the lock; fibre_join deletes the object, whose
\* destructor joins again and finds the flag posted.
FlagDone(f) ==
  LET g == joining[f] IN
  /\ \/ pc[f] = "wait" /\ flag[g] # FlagRunning
     \/ pc[f] = "resumed" /\ stage[f] = "live"
  /\ ~FlagLocked(g)
  /\ pc' = [pc EXCEPT ![f] = IF Waiter(g) THEN "abort" ELSE "idle"]
  /\ joining' = [joining EXCEPT ![f] = Null]
  /\ stage' = IF deletes[f] THEN [stage EXCEPT ![g] = "deleted"] ELSE stage
  /\ UNCHANGED <<raceVars, stacks, flag, flagLock, result, deletes>>

\* A fault ends the process.
FibreLifeNext ==
  /\ \A f \in Freds : pc[f] # "fault"
  /\ \E f \in Freds :
       \/ \E g \in Freds, b \in BOOLEAN : FibreCreate(f, g, b) \/ Join(f, g, b)
       \/ \E g \in Freds : Detach(f, g)
       \/ \E r \in {"returned", "exited"} : Finalize(f, r)
       \/ InvokeFred(f) \/ StackFree(f) \/ DestroyPost(f)
       \/ FlagResume(f) \/ FlagWait(f) \/ FlagDone(f)
       \/ FredStep(f) /\ UNCHANGED lifeVars

FibreLifeSpec == FibreLifeInit /\ [][FibreLifeNext]_fibreLifeVars

---------------------------------------------------------------------------

\* The end of a fibre, its join and its detach by others: an object is deleted
\* only after its stack is unmapped and nobody will touch it again, it is
\* Running then (as ~Fred asserts), a joiner that finds the flag posted finds
\* the result and no stack, wait() never finds itself still the waiter, and a
\* joiner that sleeps is one its fibre knows of.
JoinSafe ==
  \A f \in Freds :
    /\ stage[f] = "deleted" => pc[f] = "posted" /\ ~FlagLocked(f) /\ runState[f] = Running
    /\ stage[f] = "deleted" \/ flag[f] = Posted => f \notin stacks /\ result[f] # Null
    /\ pc[f] # "abort"
    /\ pc[f] = "off" /\ runState[f] = Parked /\ ~Owed(f) => flag[joining[f]] = f
===========================================================================
